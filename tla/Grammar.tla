------------------------------ MODULE Grammar ------------------------------
(***************************************************************************)
(* The parser's productions below a declaration (parser_exprs.cpp,          *)
(* parser_stmts.cpp, parser_types.cpp, the parameter part of parser.cpp).   *)
(* A production takes the tokens and a cursor [p, errs] and answers a       *)
(* cursor with the tree t it built; it never fails, it counts an error.     *)
(*                                                                         *)
(* Not modelled: select, do, quote, comptime, splices, macro calls and      *)
(* interpolation's parts as expressions (Lexing has their tokens).          *)
(***************************************************************************)
EXTENDS Lexing

At(ts, s) == ts[s.p]
Ahead(ts, s) == ts[IF s.p < Len(ts) THEN s.p + 1 ELSE s.p]
Next1(ts, s) == [s EXCEPT !.p = IF @ < Len(ts) THEN @ + 1 ELSE @]
Wrong(s) == [s EXCEPT !.errs = IF @ > MaxErrors THEN @ ELSE @ + 1]
With(s, t) == [p |-> s.p, errs |-> s.errs, t |-> t]
Expect(ts, s, k) == IF At(ts, s) = k THEN Next1(ts, s) ELSE Wrong(s)
Skip(ts, s, k) == IF At(ts, s) = k THEN Next1(ts, s) ELSE s

RECURSIVE SkipLines(_, _)
SkipLines(ts, s) == IF At(ts, s) \in {"NL", ";"} THEN SkipLines(ts, Next1(ts, s)) ELSE s

\* The last two only in text read as C++, as is "--" below.
Names == {"a", "f", "T", "noinit", "unwrap_opt", "value_or"}
Literals == {"1", "STR", "true"}
Bad == [k |-> "Name", n |-> "<error>"]
None == [k |-> "None"]

----------------------------------------------------------------------------
(* Types.                                                                  *)

RECURSIVE Type(_, _), Types(_, _, _, _), Optionals(_, _)

\* A list up to the closing token, after its opening one.
Types(ts, s, close, sofar) ==
  LET More(one, all) == IF At(ts, one) = "," THEN Types(ts, Next1(ts, one), close, all)
                        ELSE With(Expect(ts, one, close), all)
      Rest(one) == More(one, Append(sofar, one.t))
  IN  IF sofar = <<>> /\ At(ts, s) = close THEN With(Next1(ts, s), <<>>) ELSE Rest(Type(ts, s))

Optionals(ts, s) ==
  IF At(ts, s) = "?" THEN Optionals(ts, With(Next1(ts, s), [k |-> "Optional", e |-> s.t])) ELSE s

\* (T, ...) is a function with an arrow after it, one T alone is T itself.
Parenthesised(ts, s) ==
  LET Arrow(parts, result) == With(result, [k |-> "Function", params |-> parts.t, e |-> result.t])
      Of(parts) == CASE At(ts, parts) = "->" -> Arrow(parts, Type(ts, Next1(ts, parts)))
                     [] Len(parts.t) = 1     -> With(parts, parts.t[1])
                     [] OTHER                -> With(parts, [k |-> "Tuple", params |-> parts.t])
  IN  Of(Types(ts, s, ")", <<>>))

Type(ts, s) ==
  LET k == At(ts, s)
      next == Next1(ts, s)
      Named(args) == With(args, [k |-> "Named", n |-> k, params |-> args.t])
      Wrapped(inner, as) == With(inner, [k |-> as, e |-> inner.t])
      size == IF At(ts, next) \in {"1"} \cup Names THEN Next1(ts, next) ELSE Wrong(next)
      first == CASE k \in Names ->
                      Named(IF At(ts, next) = "[" THEN Types(ts, Next1(ts, next), "]", <<>>) ELSE With(next, <<>>))
                 [] k \in {"some", "dyn"} -> Wrapped(Type(ts, next), k)
                 [] k = "[" -> Wrapped(Type(ts, Expect(ts, size, "]")), "Vector")
                 [] k = "(" -> Parenthesised(ts, next)
  IN  IF k \in Names \cup {"some", "dyn", "[", "("} THEN Optionals(ts, first)
      ELSE With(Wrong(s), [k |-> "Named", n |-> "<error>", params |-> <<>>])

----------------------------------------------------------------------------
(* Expressions: a binding power for every infix operator, as infix_bp.      *)

Levels(add, shift) ==
  [op \in {"*", "/", "&*"} |-> 130] @@ [op \in {"+", "-", "&+"} |-> add] @@ [op \in {"<<"} |-> shift]
  @@ [op \in {"&"} |-> 100] @@ [op \in {"^"} |-> 90] @@ [op \in {"|"} |-> 80] @@ [op \in {"..<"} |-> 70]
  @@ [op \in {"==", "<"} |-> 60] @@ [op \in {"&&"} |-> 50] @@ [op \in {"||"} |-> 40]
  @@ [op \in {"??"} |-> 30]
ShiftsFirst == Levels(110, 120)
Binding == Levels(120, 110)
\* Left-associative: the right operand must bind tighter.
RightOf(left) == left + 1

PrefixOps == {"-", "!", "~", "&", "copy", "await", "try", "throw", "--"}

\* Does the { at s open a closure: => at its depth before it closes?
RECURSIVE ArrowInside(_, _, _)
ArrowInside(ts, i, depth) ==
  LET k == ts[i]
      d == depth + (IF k \in Openers THEN 1 ELSE IF k \in Closers THEN -1 ELSE 0)
  IN  CASE k = "EOF" \/ d = 0 -> FALSE
        [] d = 1 /\ k = "=>" -> TRUE
        [] d = 1 /\ k = "NL" -> FALSE
        [] OTHER -> ArrowInside(ts, i + 1, d)

RECURSIVE ExprBp(_, _, _, _), Climb(_, _, _, _), Prefix(_, _, _), Postfix(_, _, _), Primary(_, _, _),
          Args(_, _, _, _), ExprList(_, _, _, _, _), Block(_, _, _), Stmts(_, _, _, _), Stmt(_, _, _),
          Arms(_, _, _, _), Cond(_, _, _)

\* A cursor on what r read, its tree made into F of it.
Map(r, F(_)) == With(r, F(r.t))
\* A cursor past r, with what r read as a part of the tree of s.
Put(s, part, r) == With(r, s.t @@ (part :> r.t))

\* bp gives the binding powers: the language's, or those of a reader of C++.
Climb(ts, l, min, bp) ==
  LET op == At(ts, l)
      next == Next1(ts, l)
  IN  CASE op \in {"as", "as?"} ->
             Climb(ts, Map(Type(ts, next), LAMBDA t : [k |-> op, e |-> l.t, type |-> t]), min, bp)
        [] op \in DOMAIN bp /\ bp[op] >= min ->
             Climb(ts, Map(ExprBp(ts, next, RightOf(bp[op]), bp), LAMBDA t : [k |-> "Bin", op |-> op, l |-> l.t, r |-> t]),
                   min, bp)
        [] OTHER -> l
ExprBp(ts, s, min, bp) == Climb(ts, Prefix(ts, s, bp), min, bp)
Expr(ts, s) == ExprBp(ts, s, 0, Binding)

Prefix(ts, s, bp) ==
  IF At(ts, s) \in PrefixOps
  THEN Map(Prefix(ts, Next1(ts, s), bp), LAMBDA t : [k |-> "Un", op |-> At(ts, s), e |-> t])
  ELSE Postfix(ts, Primary(ts, s, bp), bp)

\* label: value, or &value, up to the closing parenthesis.
Args(ts, s, sofar, bp) ==
  LET labelled == At(ts, s) \in Names /\ Ahead(ts, s) = ":"
      label == IF labelled THEN At(ts, s) ELSE ""
      value == IF labelled THEN Next1(ts, Next1(ts, s)) ELSE s
      More(one, all) == IF At(ts, one) = "," THEN Args(ts, Next1(ts, one), all, bp) ELSE With(Expect(ts, one, ")"), all)
      Rest(one) == More(one, Append(sofar, [label |-> label, inout |-> At(ts, value) = "&", e |-> one.t]))
  IN  IF sofar = <<>> /\ At(ts, s) = ")" THEN With(Next1(ts, s), <<>>)
      ELSE Rest(ExprBp(ts, Skip(ts, value, "&"), 0, bp))

ExprList(ts, s, close, sofar, bp) ==
  LET More(one, all) == IF At(ts, one) = "," THEN ExprList(ts, Next1(ts, one), close, all, bp)
                        ELSE With(Expect(ts, one, close), all)
      Rest(one) == More(one, Append(sofar, one.t))
  IN  IF sofar = <<>> /\ At(ts, s) = close THEN With(Next1(ts, s), <<>>) ELSE Rest(ExprBp(ts, s, 0, bp))

\* One character of lookahead, and no newline, tells a postfix from a start.
Postfix(ts, l, bp) ==
  LET k == At(ts, l)
      next == Next1(ts, l)
      dot == IF k = "?" THEN next ELSE l
      name == IF Ahead(ts, dot) \in Names THEN Next1(ts, Next1(ts, dot)) ELSE Wrong(Next1(ts, dot))
      member == k = "." \/ (k = "?" /\ Ahead(ts, l) = ".")
      one == CASE k = "(" -> Map(Args(ts, next, <<>>, bp), LAMBDA t : [k |-> "Call", f |-> l.t, args |-> t])
               [] k = "[" -> Map(ExprList(ts, next, "]", <<>>, bp), LAMBDA t : [k |-> "Index", e |-> l.t, subs |-> t])
               [] k = "!" -> With(next, [k |-> "Unwrap", e |-> l.t])
               [] member  -> With(name, [k |-> "Member", e |-> l.t, n |-> Ahead(ts, dot), chained |-> k = "?"])
  IN  IF k \in {"(", "[", "!"} \/ member THEN Postfix(ts, one, bp) ELSE l

----------------------------------------------------------------------------
(* Primaries, statements and blocks.                                       *)

\* ( ) groups one expression and is kept; a comma makes a tuple.
Grouped(ts, s, bp) ==
  LET From(first) ==
        IF At(ts, first) = ","
        THEN Map(ExprList(ts, Next1(ts, first), ")", <<first.t>>, bp), LAMBDA t : [k |-> "Tuple", es |-> t])
        ELSE With(Expect(ts, first, ")"), [k |-> "Paren", e |-> first.t])
  IN  From(ExprBp(ts, s, 0, bp))

Pattern(ts, s) == IF At(ts, s) \in Names \cup Literals \cup {"_"} THEN With(Next1(ts, s), At(ts, s))
                  ELSE With(Wrong(s), "_")

Arms(ts, s, sofar, bp) ==
  LET isDefault == At(ts, s) = "default"
      More(pattern, guard, body) ==
        Arms(ts, SkipLines(ts, body), Append(sofar, <<pattern.t, guard.t, body.t>>), bp)
      Guarded(pattern, guard) == More(pattern, guard, Expr(ts, Expect(ts, guard, ":")))
      Arm(pattern) == Guarded(pattern, IF ~isDefault /\ At(ts, pattern) = "where" THEN Expr(ts, Next1(ts, pattern))
                                       ELSE With(pattern, None))
  IN  IF At(ts, s) \in {"}", "EOF"} THEN With(Expect(ts, s, "}"), sofar)
      ELSE Arm(IF isDefault THEN With(Next1(ts, s), "_") ELSE Pattern(ts, Expect(ts, s, "case")))

Cond(ts, s, bp) ==
  LET named == IF Ahead(ts, s) \in Names THEN Next1(ts, Next1(ts, s)) ELSE Wrong(Next1(ts, s))
      isLet == At(ts, s) = "let"
  IN  Map(ExprBp(ts, IF isLet THEN Expect(ts, named, "=") ELSE s, 0, bp),
          LAMBDA t : IF isLet THEN [k |-> "Let", e |-> t] ELSE t)

\* if c { } else { }, with or without the else, which may be an if again.
ThenClause(ts, s, bp) == Put(s, "t", Block(ts, s, bp))
ElseClause(ts, s, bp) ==
  Put(s, "e", CASE At(ts, s) # "else" -> With(s, None)
                [] At(ts, s) = "else" /\ Ahead(ts, s) = "if" -> Primary(ts, Next1(ts, s), bp)
                [] OTHER -> Block(ts, Next1(ts, s), bp))
IfExpr(ts, s, bp) ==
  ElseClause(ts, ThenClause(ts, Put(With(s, [k |-> "If"]), "c", Cond(ts, s, bp)), bp), bp)

MatchExpr(ts, s, bp) ==
  LET From(e) == Map(Arms(ts, SkipLines(ts, Expect(ts, e, "{")), <<>>, bp), LAMBDA t : [k |-> "Match", e |-> e.t, arms |-> t])
  IN  From(ExprBp(ts, s, 0, bp))

Closing(ts, ss, k) == With(Expect(ts, ss, "}"), [k |-> k, ss |-> ss.t])

ClosureExpr(ts, s, bp) ==
  LET arrow == Expect(ts, IF At(ts, s) \in Names THEN Next1(ts, s) ELSE s, "=>")
  IN  Closing(ts, Stmts(ts, SkipLines(ts, arrow), <<>>, bp), "Closure")

Primary(ts, s, bp) ==
  LET k == At(ts, s)  next == Next1(ts, s)
  IN  CASE k \in Names \cup Literals -> With(next, [k |-> "Name", n |-> k])
        [] k = "." -> IF At(ts, next) \in Names
                      THEN With(Next1(ts, next), [k |-> "Dot", n |-> At(ts, next)])
                      ELSE With(Wrong(next), [k |-> "Dot", n |-> ""])
        [] k = "(" -> Grouped(ts, next, bp)
        [] k = "[" -> Map(ExprList(ts, next, "]", <<>>, bp), LAMBDA t : [k |-> "Vector", es |-> t])
        [] k = "{" -> IF ArrowInside(ts, s.p + 1, 1) THEN ClosureExpr(ts, next, bp) ELSE Block(ts, s, bp)
        [] k = "if" -> IfExpr(ts, next, bp)
        [] k = "match" -> MatchExpr(ts, next, bp)
        [] OTHER -> With(Wrong(next), Bad)

Stmts(ts, s, sofar, bp) ==
  LET More(one) == Stmts(ts, SkipLines(ts, one), Append(sofar, one.t), bp)
  IN  IF At(ts, s) \in {"}", "EOF"} THEN With(s, sofar) ELSE More(Stmt(ts, s, bp))

Block(ts, s, bp) == Closing(ts, Stmts(ts, SkipLines(ts, Expect(ts, s, "{")), <<>>, bp), "Block")

Assigns == {"=", "+="}

\* let and var: a pattern, a type or none, a value.
Binder(ts, s, k, bp) ==
  LET Valued(pat, type) ==
        Map(ExprBp(ts, Expect(ts, type, "="), 0, bp), LAMBDA t : [k |-> k, n |-> pat.t, type |-> type.t, e |-> t])
      Typed(pat) == Valued(pat, IF At(ts, pat) = ":" THEN Type(ts, Next1(ts, pat)) ELSE With(pat, None))
  IN  Typed(Pattern(ts, s))

\* A head, then the block it rules.
Ruling(ts, head, k, bp) == Map(Block(ts, head, bp), LAMBDA t : [k |-> k, c |-> head.t, e |-> t])

ForLoop(ts, s, bp) ==
  LET Over(pat, over) == Map(Block(ts, over, bp), LAMBDA t : [k |-> "for", n |-> pat.t, c |-> over.t, e |-> t])
      From(pat) == Over(pat, ExprBp(ts, Expect(ts, pat, "in"), 0, bp))
  IN  From(Pattern(ts, s))

\* with name = value, with T = value, or with T.
Held(ts, s, bp) ==
  LET From(cap) == IF At(ts, cap) = "=" THEN ExprBp(ts, Next1(ts, cap), 0, bp) ELSE cap
  IN  From(IF At(ts, s) \in Names \ {"T"} /\ Ahead(ts, s) = "=" THEN Next1(ts, s) ELSE Type(ts, s))

Assignment(ts, e, bp) ==
  IF At(ts, e) \in Assigns
  THEN Map(ExprBp(ts, Next1(ts, e), 0, bp), LAMBDA t : [k |-> "Assign", op |-> At(ts, e), l |-> e.t, e |-> t])
  ELSE With(e, [k |-> "Expr", e |-> e.t])

Stmt(ts, s, bp) ==
  LET k == At(ts, s)  next == Next1(ts, s)
  IN  CASE k \in {"let", "var"} -> Binder(ts, next, k, bp)
        [] k = "return" -> IF At(ts, next) \in {"NL", ";", "}", "EOF"} THEN With(next, [k |-> k, e |-> None])
                           ELSE Map(ExprBp(ts, next, 0, bp), LAMBDA t : [k |-> k, e |-> t])
        [] k \in {"break", "continue"} ->
             IF At(ts, next) \in Names THEN With(Next1(ts, next), [k |-> k, n |-> At(ts, next)])
             ELSE With(next, [k |-> k, n |-> ""])
        [] k = "while" -> Ruling(ts, ExprBp(ts, next, 0, bp), k, bp)
        [] k = "for"   -> ForLoop(ts, next, bp)
        [] k = "with"  -> Ruling(ts, Held(ts, next, bp), k, bp)
        [] OTHER       -> Assignment(ts, ExprBp(ts, s, 0, bp), bp)
=============================================================================
