------------------------------- MODULE Lexing -------------------------------
(***************************************************************************)
(* The lexer (lexer.cpp) over a source already cut into pieces: a piece is  *)
(* the text of one token, "nl", a comment ("//" to the end of its line,     *)
(* "/**/"), a quote, "text" or "\(" of a string.  What is modelled is what   *)
(* outlives one token: which newlines become tokens, and which mode a       *)
(* closing parenthesis returns to.  How characters make one token is not.   *)
(***************************************************************************)
EXTENDS Integers, Sequences, SequencesExt

CONSTANTS
  Pieces,    \* what a source is cut into
  MaxErrors  \* bound: errors after which the front end gives up (32 in the code)

\* Tokens that are not the text of one piece.
Made == {"IBEG", "PART", "IEND", "NL", "ERR", "EOF"}

ASSUME PiecesAssumption == Pieces \cap Made = {}
ASSUME MaxErrorsAssumption == MaxErrors \in Nat \ {0}

VARIABLES
  src,  \* the pieces of the file being read
  lex   \* the lexer: [i: its position, depth, operator: after an operator,
        \*   splices: the depths of the open ones, out: the tokens, errs]

Openers == {"(", "[", "{"}
Closers == {")", "]", "}"}

\* Tokens after which a newline does not end a line.
ContinuesLine ==
  {"+", "-", "*", "/", "%", "&+", "&-", "&*", "&", "|", "^", "<<", ">>", "==", "!=", "<", ">",
   "<=", ">=", "&&", "||", "??", "=", "+=", "->", "=>", ",", ":", "..", "..<"}
\* Pieces whose first character the lookahead takes for an operator: it
\* steps over "//" but knows a block comment only as a slash.
StartsLikeOperator ==
  {"+", "-", "*", "/", "%", "|", "^", "?", ".", "->", "||", "??", "..", "..<", "+=", "/**/"}

Piece(i) == IF i \in DOMAIN src THEN src[i] ELSE "end"

\* The first piece after i that is neither a newline nor a line comment.
NextCode(i) ==
  LET later == {j \in i + 1 .. Len(src) : src[j] \notin {"nl", "//"}}
  IN  IF later = {} THEN "end" ELSE src[CHOOSE j \in later : \A h \in later : j <= h]

\* From the state of the lexer at a newline: does it end the line?
EndsLine(s) ==
  s.depth <= 0 /\ ~s.operator /\ NextCode(s.i) \notin StartsLikeOperator

Emit(s, k) == [s EXCEPT !.out = Append(@, k), !.operator = IF k = "NL" THEN @ ELSE k \in ContinuesLine]
Fail(s) == [Emit(s, "ERR") EXCEPT !.errs = @ + 1]

\* Slip: a ) resumes the string one bracket too early.
ResumesStringEarly(s) == s.splices # <<>> /\ s.depth <= s.splices[Len(s.splices)]
\* A ) that falls below the depth of the innermost splice resumes its string.
ResumesString(s) == s.splices # <<>> /\ s.depth < s.splices[Len(s.splices)]

\* Where a scan of a string from i ends: its quote, its line or a splice.
StringStops(i) == LET ends == {j \in i .. Len(src) : src[j] \in {"quote", "nl", "\\("}}
                  IN  IF ends = {} THEN Len(src) + 1 ELSE CHOOSE j \in ends : \A h \in ends : j <= h

\* A fragment from piece i of an interpolated string.
Fragment(s, i) ==
  LET stop == StringStops(i)
  IN  CASE Piece(stop) = "quote" -> Emit(Emit([s EXCEPT !.i = stop + 1], "PART"), "IEND")
        [] Piece(stop) = "\\("   ->
             LET t == [s EXCEPT !.i = stop + 1, !.depth = @ + 1, !.splices = Append(@, s.depth + 1)]
             IN  Emit(Emit(t, "PART"), "(")
        [] OTHER -> Fail([s EXCEPT !.i = stop])

String(s) ==
  LET stop == StringStops(s.i + 1)
  IN  CASE Piece(stop) = "quote" -> Emit([s EXCEPT !.i = stop + 1], "STR")
        [] Piece(stop) = "\\("   -> Fragment(Emit(s, "IBEG"), s.i + 1)
        [] OTHER -> Fail([s EXCEPT !.i = stop])

\* What the lexer makes of the next piece.
Scan(s) ==
  LET c == src[s.i]  next == [s EXCEPT !.i = @ + 1]
  IN  CASE c = "nl" -> IF EndsLine(s) THEN Emit(next, "NL") ELSE next
        [] c \in {"//", "/**/"} -> next
        [] c \in Openers -> Emit([next EXCEPT !.depth = @ + 1], c)
        [] c = ")" -> LET t == Emit([next EXCEPT !.depth = @ - 1], c)
                      IN  IF ResumesString(t)
                          THEN Fragment([t EXCEPT !.splices = Front(@)], t.i) ELSE t
        [] c \in Closers \ {")"} -> Emit([next EXCEPT !.depth = @ - 1], c)
        [] c = "quote" -> String(s)
        [] c = "text" -> Fail(next)
        [] OTHER -> Emit(next, c)

----------------------------------------------------------------------------
(* tokenize() over one file.                                               *)

Start == [i |-> 1, depth |-> 0, operator |-> FALSE, splices |-> <<>>, out |-> <<>>, errs |-> 0]

Scanned == lex.i > Len(src) \/ lex.errs >= MaxErrors

ScanPiece ==
  /\ ~Scanned
  /\ lex' = Scan(lex)
  /\ UNCHANGED src

Tokens == Emit(lex, "EOF").out

----------------------------------------------------------------------------
(* The lexer by itself: any number of files, of any pieces.                 *)

OpenFile == src' \in Seq(Pieces) /\ lex' = Start

LexerInit == src \in Seq(Pieces) /\ lex = Start
LexerNext == ScanPiece \/ OpenFile
LexerSpec == LexerInit /\ [][LexerNext]_<<src, lex>>
=============================================================================
