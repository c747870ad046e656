------------------------------ MODULE Nesting ------------------------------
(***************************************************************************)
(* What the lexer owes to brackets and strings: strings with splices, and   *)
(* strings in their splices.  The reference is a pushdown over the pieces   *)
(* that knows nothing of depths.                                            *)
(***************************************************************************)
EXTENDS Lexing

Pairs == {<<"(", ")">>, <<"[", "]">>, <<"{", "}">>}

\* What is open after each of the first n pieces: brackets, splices, strings.
InString(stack) == stack # <<>> /\ Last(stack) = "quote"
Opens(stack, c) == IF InString(stack) THEN c = "\\(" ELSE c \in Openers \cup {"quote"}
Shuts(stack, c) == IF InString(stack) THEN c = "quote" ELSE c \in Closers
After(stack, c) ==
  CASE Opens(stack, c) -> Append(stack, c)
    [] Shuts(stack, c) -> Front(stack)
    [] OTHER -> stack
SourceStacks(ps) == LET st[n \in 0 .. Len(ps)] == IF n = 0 THEN <<>> ELSE After(st[n - 1], ps[n]) IN st

\* A piece that may come there: a closing one after the one it closes, a line
\* end outside strings, the text of a string or a splice inside one.
Fits(stack, c) ==
  /\ Shuts(stack, c) => stack # <<>> /\ <<Last(stack), c>> \in Pairs \cup {<<"\\(", ")">>, <<"quote", "quote">>}
  /\ InString(stack) => c # "nl"
  /\ ~InString(stack) => c \notin {"text", "\\("}

SourceNests(ps) ==
  LET st == SourceStacks(ps)
  IN  st[Len(ps)] = <<>> /\ \A i \in DOMAIN ps : Fits(st[i - 1], ps[i])

\* The same of tokens, where a string with splices is IBEG ... IEND.
TokenAfter(stack, k) ==
  CASE k \in Openers \cup {"IBEG"} -> Append(stack, k)
    [] k \in Closers \cup {"IEND"} -> Front(stack)
    [] OTHER -> stack
TokenStacks(ts) == LET st[n \in 0 .. Len(ts)] == IF n = 0 THEN <<>> ELSE TokenAfter(st[n - 1], ts[n]) IN st

\* The parts of a string come in that string, a line ends outside of them all.
TokenFits(stack, k) ==
  /\ k \in Closers \cup {"IEND"} => stack # <<>> /\ <<Last(stack), k>> \in Pairs \cup {<<"IBEG", "IEND">>}
  /\ k = "PART" => stack # <<>> /\ Last(stack) = "IBEG"
  /\ k = "NL" => stack = <<>>
  /\ k # "ERR"

TokensNest(ts) ==
  LET st == TokenStacks(ts)
  IN  st[Len(ts)] = <<>> /\ \A i \in DOMAIN ts : TokenFits(st[i - 1], ts[i])

\* A source whose brackets and strings nest is cut into tokens that nest, with
\* no error and no line end in the middle of a bracket: each ) of a splice
\* resumes the string that opened it, however many brackets and strings the
\* splice holds (Lexer::tokenize, scan_interp_continue).
StringsNest == Scanned /\ SourceNests(src) => lex.errs = 0 /\ TokensNest(lex.out)
=============================================================================
