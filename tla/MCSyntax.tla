----------------------------- MODULE MCSyntax -----------------------------
(* Bounded files for Syntax, and what reading and writing them must keep.   *)
EXTENDS Syntax, Nesting

\* The words of the files below, and two the printer puts between them: what it
\* writes for a string, and for what it has no case for.
MCPieces ==
  {"!", "&", "&&", "&+", "(", ")", "*", "+", "+=", ",", "-", "->", ".", "..<", "/**/", "//", "1", ":", ";",
   "<", "<<", "=", "==", "=>", "?", "??", "@", "STR", "T", "[", "\\(", "]", "_", "a", "as", "async", "break",
   "case", "const", "continue", "default", "deinit", "derive", "else", "enum", "extension", "f", "for",
   "func", "if", "import", "in", "inout", "let", "linear", "match", "module", "nl", "noinit", "opaque",
   "protocol", "public", "quote", "return", "some", "static", "struct", "text", "throws", "try", "type",
   "using", "var", "while", "with", "{", "|", "}"}

----------------------------------------------------------------------------
(* Files of one constant, one block, one string, one type; and files of     *)
(* chunks in any order, most of them wrong.                                 *)

Constant(e) == <<"const", "a", "=">> \o e \o <<"nl">>
Operands == {<<"a">>, <<"-", "a">>, <<"a", "!">>, <<"(", "a", "|", "f", ")">>, <<"f", "(", "a", ",", "&", "f", ")">>}
Ops == {"*", "+", "&+", "<<", "&", "|", "==", "<", "&&", "??"}
Expressions ==
  {x \o <<o>> \o y \o <<q>> \o z : x \in Operands, y \in {<<"a">>, <<"!", "a">>, <<"a", ".", "f">>}, z \in Operands, o, q \in Ops}
  \cup {<<"-", "-", "a">>, <<"a", "as", "T", "+", "f">>, <<"a", "?", ".", "f">>, <<"a", "[", "f", "-", "a", "]">>,
        <<"a", "+", "nl", "a">>, <<"a", "nl", "+", "a">>, <<"a", "nl", "//", "nl", "-", "a">>, <<"a", "nl", "(", "a", ")">>,
        <<"{", "a", "=>", "a", "}">>, <<"match", "a", "{", "case", "1", ":", "f", "default", ":", "a", "}">>,
        <<"[", "a", ",", "f", "]">>, <<"(", "a", ",", "f", ")">>, <<"try", "f", "(", "a", ":", "f", ")">>}

Statements ==
  {<<"let", "a", "=", "f">>, <<"var", "a", ":", "T", "=", "-", "f">>, <<"return">>, <<"return", "a">>, <<"break">>,
   <<"continue", "a">>, <<"a", "=", "f">>, <<"a", "+=", "(", "f", ")">>, <<"(", "a", ")">>, <<"-", "a">>, <<".", "f">>,
   <<"!", "a">>, <<"f", "(", ")">>, <<"{", "a", "}">>, <<"while", "a", "{", "f", "}">>,
   <<"for", "a", "in", "a", "..<", "f", "{", "}">>, <<"if", "a", "{", "f", "}", "else", "{", "a", "}">>,
   <<"if", "let", "a", "=", "f", "{", "}">>, <<"with", "a", "=", "f", "{", "a", "}">>, <<"[", "a", "]">>}
Function(body) == <<"func", "f", "(", ")", "{">> \o body \o <<"}", "nl">>
Functions_ == {Function(x \o <<sep>> \o y) : x, y \in Statements, sep \in {"nl", ";"}}

Strings ==
  {Constant(<<"quote">> \o x \o <<"quote">> \o y) :
     y \in {<<>>, <<"+", "a">>},
     x \in {<<"text">>, <<"\\(", "a", ")">>, <<"text", "\\(", "f", "(", "a", ")", ")", "text">>,
            <<"\\(", "{", "(", "a", ")", "}", ")">>, <<"\\(", "quote", "text", "quote", ")">>,
            <<"\\(", "quote", "\\(", "f", "(", ")", ")", "text", "quote", ")", "text">>,
            <<"\\(", "a", "\\(", ")", ")">>, <<"text", "nl">>, <<"\\(", "a", ")", "nl">>}}
  \cup {Constant(<<"(", "quote", "\\(", "a", ")", "text", "quote", ")">>), Constant(<<")", "quote", "\\(", "a", ")", "quote">>)}

TypesRead ==
  {<<"T">>, <<"T", "?">>, <<"T", "[", "T", ",", "a", "]">>, <<"[", "1", "]", "T">>, <<"(", "T", ",", "T", ")", "?">>,
   <<"(", "T", ")", "->", "T", "?">>, <<"(", "(", "T", ")", "->", "T", ")", "?">>, <<"some", "T">>, <<"(", "some", "T", ")", "?">>,
   <<"[", "1", "]", "T", "?">>, <<"(", "[", "1", "]", "T", ")", "?">>}
Typed ==
  {<<"const", "a", ":">> \o t \o <<"=", "a", "nl">> : t \in TypesRead}
  \cup {<<"public", "func", "f", "[", "T", ":", "T", "&", "a", "]", "(", "_", "a", ":", "inout">> \o t
        \o <<",", "a", "f", ":", "T", ")", "using", "T", "throws", "(", "T", ")", "->">> \o u \o <<"{", "a", "}", "nl">> : t, u \in TypesRead}

Chunks ==
  {<<"const", "a", "=", "a", "nl">>, <<"func", "f", "(", "a", ":", "T", ")", "{", "a", "}">>, <<"func", "f", "(", ")">>, <<"struct", "T", "{">>,
   <<"enum", "T", "{">>, <<"protocol", "T", ":", "a", "{">>, <<"extension", "T", "{">>, <<"}">>, <<"import", "a", ".", "f", "nl">>,
   <<"let", "a", ":", "T">>, <<"case", "a", "(", "T", ")">>, <<"@", "a">>, <<":">>, <<"linear">>, <<"nl">>, <<"type", "a">>,
   <<"async">>, <<"deinit", "{", "}">>, <<"module", "a", "nl">>, <<"opaque", "type", "a", "=", "T", "nl">>,
   <<"derive", "(", "T", ")", "for", "a", "nl">>, <<"@", "noinit", "static", "a", ":", "T", "nl">>, <<"(", "(">>}
Files ==
  {x \o y \o z : x, y, z \in Chunks} \cup
  {<<b, "T", "{">> \o x \o y \o <<"}", "nl">> \o z : b \in Bodies, x, y \in Chunks, z \in {<<":">>, <<"import", "a", "nl">>, <<"const", "a", "=", "a", "nl">>}}

MCSources == {Constant(e) : e \in Expressions} \cup Functions_ \cup Strings \cup Typed \cup Files

----------------------------------------------------------------------------
(* What the printer keeps.                                                 *)

\* Statements that read on: the first, printed on a line of its own, takes
\* the start of the second with it, as no newline ends a line inside braces.
ReadsOn(s, t) ==
  LET start == Head(PrintStmt(t))
  IN  CASE s.k = "return" /\ s.e = None -> TRUE
        [] s.k \in {"break", "continue"} -> s.n = "" /\ start \in Names
        [] s.k \in {"while", "for", "with"} -> FALSE
        [] OTHER -> start \in {"(", "[", ".", "!", "-", "/**/"}

RECURSIVE TypeKept(_), Kept(_), StmtKept(_), DeclKept(_)
TypeKept(t) ==
  CASE t.k = "Named" \/ t.k = "Tuple" -> \A i \in DOMAIN t.params : TypeKept(t.params[i])
    [] t.k = "Function" -> TypeKept(t.e) /\ \A i \in DOMAIN t.params : TypeKept(t.params[i])
    [] t.k = "Optional" -> TypeKept(t.e) /\ t.e.k \notin {"Function", "some", "dyn", "Vector"}
    [] OTHER -> TypeKept(t.e)

\* The trees the printer has a case for and spells as the parser reads them.
Kept(e) ==
  CASE e.k \in {"Name", "Dot"} -> TRUE
    [] e.k = "Un" -> e.op \notin {"&", "throw"} /\ Kept(e.e)
    [] e.k = "Bin" -> Kept(e.l) /\ Kept(e.r)
    [] e.k \in {"as", "as?"} -> Kept(e.e) /\ TypeKept(e.type)
    [] e.k = "Paren" -> Kept(e.e)
    [] e.k = "Member" -> Kept(e.e) /\ ~e.chained
    [] e.k = "Index" -> Kept(e.e) /\ \A i \in DOMAIN e.subs : Kept(e.subs[i])
    [] e.k = "Call" -> Kept(e.f) /\ \A i \in DOMAIN e.args : Kept(e.args[i].e)
    [] e.k = "If" -> Kept(IF e.c.k = "Let" THEN e.c.e ELSE e.c) /\ Kept(e.t) /\ (e.e = None \/ Kept(e.e))
    [] e.k = "Block" -> /\ \A i \in DOMAIN e.ss : StmtKept(e.ss[i])
                        /\ \A i \in 1 .. Len(e.ss) - 1 : ~ReadsOn(e.ss[i], e.ss[i + 1])
    [] OTHER -> FALSE
StmtKept(s) ==
  CASE s.k \in {"let", "var"} -> Kept(s.e) /\ (s.type = None \/ TypeKept(s.type))
    [] s.k = "return" -> s.e = None \/ Kept(s.e)
    [] s.k \in {"break", "continue"} -> TRUE
    [] s.k = "Assign" -> Kept(s.l) /\ Kept(s.e)
    [] s.k \in {"while", "for"} -> Kept(s.c) /\ Kept(s.e)
    [] s.k = "Expr" -> Kept(s.e)
    [] OTHER -> FALSE
DeclKept(d) ==
  CASE d.k = "func" -> /\ d.attrs = <<>> /\ \A i \in DOMAIN d.params : d.params[i].value = None /\ TypeKept(d.params[i].type)
                       /\ (d.result = None \/ TypeKept(d.result)) /\ (d.body = None \/ Kept(d.body))
    [] d.k \in Bodies -> /\ d.attrs = <<>> /\ d.generics = <<>> /\ "linear" \notin Range(d.mods)
                         /\ \A i \in DOMAIN d.items : DeclKept(d.items[i])
    [] d.k \in {"const", "static"} -> d.e # None /\ Kept(d.e) /\ (d.type = None \/ TypeKept(d.type))
    [] d.k = "type" -> d.bound = <<>>
    [] d.k = "deinit" -> Kept(d.body)
    [] OTHER -> d.k = "case" \/ TypeKept(d.type)

\* A file of declarations the printer has a case for is read back, once
\* printed, without an error and as the same declarations: every grouping,
\* newline and bracket the printer chose survives the lexer and the parser
\* (Printer::print, "the round-trip counterpart of the parser").
ReadsBack ==
  phase = "done" /\ first # <<>> /\ (\A i \in DOMAIN first[1] : DeclKept(first[1][i]))
    => cur.errs = 0 /\ Top.items = first[1]

----------------------------------------------------------------------------
(* What the C++ keeps: the grouping of an expression.                       *)

RECURSIVE Spelled(_), Apart(_)
Spelled(e) ==
  CASE e.k = "Name" -> TRUE
    [] e.k = "Bin" -> e.op \in DOMAIN Binding \ {"..<"} /\ Spelled(e.l) /\ Spelled(e.r)
    [] e.k = "Un" -> e.op \in {"-", "!"} /\ Spelled(e.e)
    [] e.k \in {"Paren", "Unwrap"} -> Spelled(e.e)
    [] e.k = "Member" -> ~e.chained /\ Spelled(e.e)
    [] e.k = "Index" -> Spelled(e.e) /\ \A i \in DOMAIN e.subs : Spelled(e.subs[i])
    [] e.k = "Call" -> Spelled(e.f) /\ \A i \in DOMAIN e.args : Spelled(e.args[i].e)
    [] OTHER -> FALSE

\* No bare bitwise operation or comparison under a comparison, and no two
\* signs in a row: where the tables of the two languages agree.
Apart(e) ==
  CASE e.k = "Name" -> TRUE
    [] e.k = "Bin" -> /\ Apart(e.l) /\ Apart(e.r)
                      /\ e.op \in {"==", "<"} =>
                           \A x \in {e.l, e.r} : ~(x.k = "Bin" /\ x.op \in {"&", "^", "|", "==", "<"})
    [] e.k = "Un" -> Apart(e.e) /\ ~(e.e.k = "Un" /\ e.e.op = e.op)
    [] e.k = "Index" -> Apart(e.e) /\ \A i \in DOMAIN e.subs : Apart(e.subs[i])
    [] e.k = "Call" -> Apart(e.f) /\ \A i \in DOMAIN e.args : Apart(e.args[i].e)
    [] OTHER -> Apart(e.e)

ReadAsCpp(e) == LET ts == Append(Cpp(e), "EOF") IN ExprBp(ts, [p |-> 1, errs |-> 0], 0, CppBinding).t
Emitted == {Top.items[i].e : i \in {j \in DOMAIN Top.items : Top.items[j].k = "const"}}

\* A C++ compiler groups the text of an expression as the Vestra parser
\* grouped its source, where the tables agree (Printing's CppBinding), with the
\* lowerings of ??, ! and the wrapping operators in place.
SameGrouping ==
  phase = "read" /\ first = <<>> /\ cur.errs = 0 =>
    \A e \in Emitted : Spelled(e) /\ Apart(e) => ReadAsCpp(e) = CppMeant(e)

\* The same of every expression.  VESTRA_DRAFT.md 17.7 gives the operators
\* of the language their order; emit_expr writes no parenthesis of its own.
GroupingKept ==
  phase = "read" /\ first = <<>> /\ cur.errs = 0 =>
    \A e \in Emitted : Spelled(e) => ReadAsCpp(e) = CppMeant(e)

----------------------------------------------------------------------------
\* Whatever the file, the parser returns: a round of a body's loop consumes a
\* token or leaves the body, and a round of the unit's consumes a token or
\* spends one of the errors the front end allows (Parser::parse_unit, and the
\* forward-progress guards of the members' loops).
RoundsAdvance ==
  [][phase = "body" /\ phase' = "body" =>
       \/ cur'.p > cur.p
       \/ Top.head.k # "unit" /\ Len(open') < Len(open)
       \/ Top.head.k = "unit" /\ cur'.errs > cur.errs]_vars
=============================================================================
