---------------------------- MODULE MCLowering ----------------------------
(* Bounded matches and bodies for Lowering, and what their C++ may not do. *)
EXTENDS Lowering

----------------------------------------------------------------------------
(* Matches over integers, a pair, a bare enum and one with a payload.      *)

MCPayload == [Bare |-> [r |-> <<>>, g |-> <<>>, b |-> <<>>], Sum |-> [n |-> <<>>, s |-> <<"Int">>]]
MCParts == [Pair |-> <<"Int", "Int">>, Mixed |-> <<"Bare", "Int">>]

Wild == [k |-> "Wild"]
Bind == [k |-> "Bind"]
LitP(n) == [k |-> "Lit", n |-> n]
Upto(lo, hi, incl) == [k |-> "Range", lo |-> lo, hi |-> hi, inclusive |-> incl]
Or(x, y) == [k |-> "Or", alts |-> <<x, y>>]
Tup(x, y) == [k |-> "Tuple", sub |-> <<x, y>>]
Case(c, sub) == [k |-> "Enum", case |-> c, sub |-> sub]

Forms ==
  [Int  |-> {Wild, Bind, LitP(0), Upto(0, 1, FALSE), Upto(0, 1, TRUE), Or(LitP(0), LitP(2))},
   Pair |-> {Bind, Tup(LitP(0), Wild), Tup(Bind, LitP(1)), Tup(Bind, Bind),
             Tup(Or(LitP(0), LitP(1)), Upto(0, 1, FALSE))},
   Mixed |-> {Bind, Tup(Bind, LitP(0)), Tup(Or(Case("r", <<>>), Case("g", <<>>)), LitP(1))},
   Bare |-> {Wild, Case("r", <<>>), Case("g", <<>>), Or(Case("g", <<>>), Case("b", <<>>)),
             Or(Or(Case("r", <<>>), Case("g", <<>>)), Case("b", <<>>))},
   Sum  |-> {Wild, Case("n", <<>>), Case("s", <<Bind>>), Case("s", <<LitP(0)>>),
             Or(Case("s", <<Wild>>), Case("n", <<>>))}]

RECURSIVE Inside(_), Deepest(_)
Inside(p) == {p} \cup UNION {Inside(q) : q \in Within(p)}
Deepest(p) == IF Within(p) = {} THEN 0 ELSE 1 + Max({Deepest(q) : q \in Within(p)})

MCPatterns == {Missing} \cup UNION {Inside(p) : p \in UNION {Forms[t] : t \in DOMAIN Forms}}
MCHeight == [p \in MCPatterns |-> Deepest(p)]

Colour(c) == [case |-> c, fields |-> <<>>]
MCValues ==
  [Int |-> 0..2, Pair |-> (0..1) \X (0..1), Mixed |-> {Colour("r"), Colour("b")} \X (0..1),
   Bare |-> {Colour(c) : c \in {"r", "g", "b"}},
   Sum |-> {[case |-> "n", fields |-> <<>>]} \cup {[case |-> "s", fields |-> <<i>>] : i \in 0..1}]

ArmOf(p, g) == [pattern |-> p, guard |-> g]
Arms(t) == {ArmOf(p, g) : p \in Forms[t], g \in {"none", "plain"}}
           \cup {ArmOf(Missing, "none"), ArmOf(IF t = "Sum" THEN Case("s", <<Bind>>) ELSE Bind, "binding")}

Matchings(t) ==
  {[is |-> "match", type |-> t, hoisted |-> h, arms |-> as] :
     h \in BOOLEAN, as \in [1..2 -> Arms(t)] \cup [1..3 -> Arms(t)]}

----------------------------------------------------------------------------
(* Bodies: calls of a (plain), g and h (throwing), one nesting of branches. *)

Lit == [k |-> "Lit"]
C(f, args) == [k |-> "Call", f |-> f, args |-> args]
Try(id, e) == [k |-> "Try", id |-> id, e |-> e]
Bin(l, r)  == [k |-> "Bin", l |-> l, r |-> r]
Both(l, r) == [k |-> "And", l |-> l, r |-> r]
If(id, c, t, e)  == [k |-> "If", id |-> id, c |-> c, t |-> t, e |-> e]
Do(id, b, c, g)  == [k |-> "Do", id |-> id, body |-> b, catch |-> c, guard |-> g]
Block(ss)  == [k |-> "Block", ss |-> ss]
Throw      == [k |-> "Throw"]
Stat(k, e) == [k |-> k, e |-> e]
While(c, ss) == [k |-> "While", c |-> c, ss |-> ss]

\* Identities: a node's place, as a number no other node of the body has.
Leaves(i) == {C("a", <<>>), Try(i, C("g", <<>>)), C("a", <<Try(i, C("g", <<>>))>>)}
Nested(i) == {Try(i, C("h", <<Try(i + 1, C("g", <<>>))>>))}
Blocks(i) == {Block(<<Stat("Let", x), Stat("Expr", y)>>) :
                x \in {C("a", <<>>), Try(i, C("g", <<>>))}, y \in {C("a", <<>>), Try(i + 1, C("h", <<>>))}}
             \cup {Block(<<Stat("Return", C("a", <<>>))>>)}
Ends(i)  == Leaves(i) \cup Blocks(i) \cup {Throw}

Pairs(i) == {Bin(x, y) : x \in Leaves(i), y \in Leaves(i + 1) \cup {Try(i + 1, C("h", <<>>))}}
            \cup {Both(x, y) : x \in Leaves(i), y \in Leaves(i + 1)}
Ifs(i)   == {If(i, c, t, e) : c \in Leaves(i + 1), t \in Ends(i + 2), e \in Leaves(i + 4) \cup {Throw}}
Dos(i)   == {Do(i, b, c, g) : b \in Leaves(i + 1) \cup Blocks(i + 1),
               c \in {C("a", <<>>), Throw}, g \in {Absent, C("a", <<>>)}}
Deep(i)  == {Bin(x, y) : x \in Leaves(i), y \in {z \in Ifs(i + 1) : z.c.k = "Call" /\ z.c.args = <<>>}}
            \cup {Both(C("a", <<>>), y) : y \in Dos(i)}

Exprs == Leaves(1) \cup Nested(1) \cup Pairs(1) \cup Ifs(1) \cup Dos(1) \cup Deep(1)

Stmts == {<<Stat(k, e)>> : k \in {"Let", "Expr", "Return"}, e \in Exprs}
         \cup {<<While(c, <<Stat("Expr", e)>>)>> : c \in Leaves(20) \cup {Lit}, e \in Leaves(1) \cup Dos(1)}
Body(ss) == [is |-> "body", ss |-> ss \o <<Stat("Return", C("a", <<>>))>>]

Scripts == [a : {<<"yes">>, <<"yes", "no">>, <<"no", "yes">>},
            g : {<<"yes">>, <<"error">>, <<"yes", "error">>},
            h : {<<"no">>, <<"error">>}]

----------------------------------------------------------------------------
\* unit is one record at a time: a set of all of them would be slow to test.
Init ==
  /\ \/ \E t \in Types : unit \in Matchings(t)
     \/ \E ss \in Stmts : unit = Body(ss)
  /\ phase = "source" /\ code = None /\ wanted = None /\ got = None

Next ==
  \/ ResolveMatch
  \/ LowerMatch
  \/ RunMatch
  \/ LowerBody
  \/ \E script \in Scripts : RunBody(script)

Spec == Init /\ [][Next]_vars

----------------------------------------------------------------------------
(* The programs whose lowering keeps the order of the source.               *)

\* Every call the expression makes is hoisted.
RECURSIVE Quiet(_)
Quiet(x) == \/ x.k \in {"Lit", "Try"} \/ (x.k \in {"If", "Do"} /\ Hoists(x, {}) # <<>>)
            \/ (x.k = "Bin" /\ Quiet(x.l) /\ Quiet(x.r))

\* Nothing is called before what is hoisted in front of it.
RECURSIVE InOrder(_)
InOrder(x) ==
  CASE x.k \in {"Bin", "And"} -> /\ InOrder(x.l) /\ InOrder(x.r)
                                 /\ x.k = "Bin" /\ Hoists(x.r, {}) # <<>> => Quiet(x.l)
    [] x.k = "If"    -> InOrder(x.c) /\ InOrder(x.t) /\ InOrder(x.e)
    [] x.k = "Do"    -> /\ InOrder(x.body) /\ InOrder(x.catch)
                        /\ x.body.k = "Block" => Len(x.body.ss) = 1 \/ DoHoists(x.body) = <<>>
    [] x.k = "Block" -> \A i \in DOMAIN x.ss : InOrder(x.ss[i])
    [] x.k \in {"Let", "Expr", "Return", "Try"} -> InOrder(x.e)
    [] x.k = "While" -> StmtHoists(x) = <<>> /\ \A i \in DOMAIN x.ss : InOrder(x.ss[i])
    [] OTHER -> TRUE

\* A return inside an expression leaves only the lambda the expression became.
RECURSIVE Returns(_)
Returns(x) ==
  CASE x.k = "Return" -> TRUE
    [] x.k = "If"     -> Returns(x.t)
    [] x.k = "Do"     -> Returns(x.body)
    [] x.k \in {"Bin", "And"} -> Returns(x.r)
    [] x.k = "While"  -> \E i \in DOMAIN x.ss : Returns(x.ss[i].e)
    [] x.k = "Block"  -> \E i \in DOMAIN x.ss : Returns(x.ss[i])
    [] OTHER -> FALSE

\* The emitter used one of the forms it means never to run.
RECURSIVE Fallback(_)
Fallback(x) ==
  LET any(ss) == \E i \in DOMAIN ss : Fallback(ss[i])
  IN  CASE x.k \in {"Unwrap", "Dead"} -> TRUE
        [] x.k = "Call" -> any(x.args)
        [] x.k \in {"Bin", "And"} -> Fallback(x.l) \/ Fallback(x.r)
        [] x.k \in {"Value", "CheckedValue"} -> any(x.ss)
        [] x.k = "Caught" -> any(x.ss) \/ Fallback(x.catch) \/ (x.guard # Absent /\ ~x.hoisted)
        [] x.k = "IfS" -> Fallback(x.c) \/ any(x.t) \/ any(x.e)
        [] x.k = "While" -> Fallback(x.c) \/ any(x.ss)
        [] x.k \in {"Let", "Expr", "Return", "Checked"} -> Fallback(x.e)
        [] OTHER -> FALSE

Orderly(u) == \A i \in DOMAIN u.ss :
  InOrder(u.ss[i]) /\ ~Returns(IF u.ss[i].k = "While" THEN u.ss[i] ELSE u.ss[i].e)

----------------------------------------------------------------------------
(* Properties.                                                             *)

\* Where the emitter needed no fallback and the source calls nothing before
\* what is hoisted, a body's C++ makes the same calls with the same values in
\* the same order and leaves the same way: by value, by error, or not at all.
SameRun ==
  Ran("body") /\ Orderly(unit) /\ ~(\E i \in DOMAIN code : Fallback(code[i])) => got = wanted

\* "try e propagates the error ... try! e panics on error" (VESTRA_DRAFT.md):
\* the sources here have no try!, no panic and only covered matches, so their
\* C++ reaches neither a panic nor std::unreachable().
FallbacksNeverRun ==
  /\ Ran("body") => got.out \notin {"panic", "unreachable"}
  /\ Ran("match") => got # 0 \/ wanted = 0
=============================================================================
