------------------------------ MODULE Printing ------------------------------
(***************************************************************************)
(* Two ways out of a tree.  PrintExpr and its kin are the printer of vestra *)
(* fmt (printer.cpp), in the pieces Lexing reads back.  Cpp is the          *)
(* expression text of CppEmitter::emit_expr in the tokens a C++ compiler    *)
(* makes of it, and CppMeant the tree that text was written for.            *)
(***************************************************************************)
EXTENDS Grammar

Separated(parts, sep) ==
  IF parts = <<>> THEN <<>> ELSE Head(parts) \o FlattenSeq([i \in 1 .. Len(parts) - 1 |-> sep \o parts[i + 1]])

----------------------------------------------------------------------------
(* The printer.                                                            *)

RECURSIVE PrintType(_)
PrintType(t) ==
  LET list(ts) == Separated([i \in DOMAIN ts |-> PrintType(ts[i])], <<",">>)
  IN  CASE t.k = "Named"    -> <<t.n>> \o IF t.params = <<>> THEN <<>> ELSE <<"[">> \o list(t.params) \o <<"]">>
        [] t.k = "Vector"   -> <<"[", "1", "]">> \o PrintType(t.e)
        [] t.k = "Optional" -> PrintType(t.e) \o <<"?">>
        [] t.k \in {"some", "dyn"} -> <<t.k>> \o PrintType(t.e)
        [] t.k = "Tuple"    -> <<"(">> \o list(t.params) \o <<")">>
        [] t.k = "Function" -> <<"(">> \o list(t.params) \o <<")", "->">> \o PrintType(t.e)

\* An expression the printer has no case for becomes a comment.
NoCase == <<"/**/">>
PrintBare(inner) == inner
PrintParen(inner) == <<"(">> \o inner \o <<")">>

RECURSIVE PrintExpr(_), PrintStmt(_), PrintBlock(_)

PrintBlock(b) == <<"{", "nl">> \o FlattenSeq([i \in DOMAIN b.ss |-> PrintStmt(b.ss[i]) \o <<"nl">>]) \o <<"}">>

PrintExpr(e) ==
  CASE e.k = "Name"   -> <<e.n>>
    [] e.k = "Dot"    -> <<".", e.n>>
    [] e.k = "Paren"  -> PrintParen(PrintExpr(e.e))
    [] e.k = "Un"     -> IF e.op \in {"&", "throw"} THEN NoCase ELSE <<e.op>> \o PrintExpr(e.e)
    [] e.k = "Unwrap" -> <<"!">> \o PrintExpr(e.e)
    [] e.k = "Bin"    -> PrintExpr(e.l) \o <<e.op>> \o PrintExpr(e.r)
    [] e.k \in {"as", "as?"} -> PrintExpr(e.e) \o <<e.k>> \o PrintType(e.type)
    [] e.k = "Member" -> PrintExpr(e.e) \o <<".", e.n>>
    [] e.k = "Index"  -> PrintExpr(e.e) \o <<"[">> \o Separated([i \in DOMAIN e.subs |-> PrintExpr(e.subs[i])], <<",">>) \o <<"]">>
    [] e.k = "Call"   ->
         LET arg(a) == (IF a.label = "" THEN <<>> ELSE <<a.label, ":">>)
                       \o (IF a.inout THEN <<"&">> ELSE <<>>) \o PrintExpr(a.e)
         IN  PrintExpr(e.f) \o <<"(">> \o Separated([i \in DOMAIN e.args |-> arg(e.args[i])], <<",">>) \o <<")">>
    [] e.k = "If"     ->
         <<"if">> \o (IF e.c.k = "Let" THEN <<"let", "a", "=">> \o PrintExpr(e.c.e) ELSE PrintExpr(e.c)) \o PrintBlock(e.t)
         \o (IF e.e = None THEN <<>> ELSE <<"else">> \o PrintExpr(e.e))
    [] e.k = "Block"  -> PrintBlock(e)
    [] OTHER -> NoCase

PrintStmt(s) ==
  CASE s.k \in {"let", "var"} ->
         <<s.k, s.n>> \o (IF s.type = None THEN <<>> ELSE <<":">> \o PrintType(s.type)) \o <<"=">> \o PrintExpr(s.e)
    [] s.k = "Expr"   -> PrintExpr(s.e)
    [] s.k = "return" -> <<"return">> \o (IF s.e = None THEN <<>> ELSE PrintExpr(s.e))
    [] s.k \in {"break", "continue"} -> <<s.k>> \o (IF s.n = "" THEN <<>> ELSE <<s.n>>)
    [] s.k = "Assign" -> PrintExpr(s.l) \o <<s.op>> \o PrintExpr(s.e)
    [] s.k = "while"  -> <<"while">> \o PrintExpr(s.c) \o PrintBlock(s.e)
    [] s.k = "for"    -> <<"for", s.n, "in">> \o PrintExpr(s.c) \o PrintBlock(s.e)
    [] OTHER -> NoCase

----------------------------------------------------------------------------
(* C++ text of an expression.  A prefix operator is written against its     *)
(* operand, so two signs meet in one token.                                 *)

Glued(op, rest) == IF op \in {"-", "&"} /\ Head(rest) = op THEN <<op \o op>> \o Tail(rest) ELSE <<op>> \o rest

RECURSIVE Cpp(_)
CppBinary(op, l, r) ==
  IF op = "??" THEN <<"(">> \o l \o <<")", ".", "value_or", "(">> \o r \o <<")">>
  ELSE l \o <<IF op = "&+" THEN "+" ELSE IF op = "&*" THEN "*" ELSE op>> \o r
Cpp(e) ==
  CASE e.k = "Name"   -> <<e.n>>
    [] e.k = "Paren"  -> <<"(">> \o Cpp(e.e) \o <<")">>
    [] e.k = "Un"     -> Glued(e.op, Cpp(e.e))
    [] e.k = "Unwrap" -> <<"unwrap_opt", "(">> \o Cpp(e.e) \o <<")">>
    [] e.k = "Bin"    -> CppBinary(e.op, Cpp(e.l), Cpp(e.r))
    [] e.k = "Member" -> Cpp(e.e) \o <<".", e.n>>
    [] e.k = "Index"  -> Cpp(e.e) \o <<"[">> \o Separated([i \in DOMAIN e.subs |-> Cpp(e.subs[i])], <<",">>) \o <<"]">>
    [] e.k = "Call"   -> Cpp(e.f) \o <<"(">> \o Separated([i \in DOMAIN e.args |-> Cpp(e.args[i].e)], <<",">>) \o <<")">>

Called(f, args) == [k |-> "Call", f |-> f, args |-> [i \in DOMAIN args |-> [label |-> "", inout |-> FALSE, e |-> args[i]]]]
Named(n) == [k |-> "Name", n |-> n]

\* The grouping of the source, in the operations of C++.
RECURSIVE CppMeant(_)
CppMeant(e) ==
  CASE e.k = "Name"   -> e
    [] e.k = "Bin"    ->
         LET l == CppMeant(e.l)  r == CppMeant(e.r)
         IN  CASE e.op = "??" -> Called([k |-> "Member", e |-> [k |-> "Paren", e |-> l], n |-> "value_or", chained |-> FALSE], <<r>>)
               [] e.op = "&+" -> [e EXCEPT !.op = "+", !.l = l, !.r = r]
               [] e.op = "&*" -> [e EXCEPT !.op = "*", !.l = l, !.r = r]
               [] OTHER -> [e EXCEPT !.l = l, !.r = r]
    [] e.k = "Unwrap" -> Called(Named("unwrap_opt"), <<CppMeant(e.e)>>)
    [] e.k = "Index"  -> [e EXCEPT !.e = CppMeant(@), !.subs = [i \in DOMAIN @ |-> CppMeant(@[i])]]
    [] e.k = "Call"   -> Called(CppMeant(e.f), [i \in DOMAIN e.args |-> CppMeant(e.args[i].e)])
    [] OTHER -> [e EXCEPT !.e = CppMeant(@)]

\* C++'s own table (external): & ^ | bind looser than a comparison, and ==
\* looser than <.
CppBinding ==
  [op \in {"*", "/"} |-> 130] @@ [op \in {"+", "-"} |-> 120] @@ [op \in {"<<"} |-> 110] @@ [op \in {"<"} |-> 106]
  @@ [op \in {"=="} |-> 104] @@ [op \in {"&"} |-> 100] @@ [op \in {"^"} |-> 90] @@ [op \in {"|"} |-> 80]
  @@ [op \in {"&&"} |-> 50] @@ [op \in {"||"} |-> 40]
=============================================================================
