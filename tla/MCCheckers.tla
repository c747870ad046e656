----------------------------- MODULE MCCheckers -----------------------------
(* Bounded bodies for the three flow checkers, and what an accepted body may *)
(* never do when it runs.                                                    *)
EXTENDS BodyRuns

----------------------------------------------------------------------------
(* The declarations around the bodies.                                     *)

Sym(type, kind) == [type |-> type, kind |-> kind, init |-> Missing]
View(init) == [type |-> "Span", kind |-> "Local", init |-> init]
Half(of, at, n) == View([k |-> "Split", of |-> of, at |-> at, half |-> n])

\* l, r and m, o are the halves of two splits of s, ll a half of l, al an
\* alias of l, h the chunk at hand of s; eats, logger and mixer hold functions.
MCLocals ==
  [a |-> Sym("String", "Local"), b |-> Sym("String", "Local"), t |-> Sym("Wrap", "Local"),
   i |-> Sym("Int", "Local"), p |-> Sym("Pair", "Local"), v |-> Sym("Vec", "Local"),
   s |-> Sym("Span", "Parameter"), l |-> Half("s", 1, 0), r |-> Half("s", 1, 1),
   m |-> Half("s", 2, 0), o |-> Half("s", 2, 1), ll |-> Half("l", 3, 0),
   al |-> View([k |-> "Ident", x |-> "l"]), h |-> View([k |-> "Chunks", of |-> "s", at |-> 4]),
   eats |-> Sym("Func", "Local"), logger |-> Sym("Func", "Local"), mixer |-> Sym("Func", "Local")]

MCStructs == [Tok  |-> [linear |-> TRUE, fields |-> {"Int"}],
              Wrap |-> [linear |-> FALSE, fields |-> {"Tok"}],
              Pair |-> [linear |-> FALSE, fields |-> {"Int"}]]

F(modes, caps, async) == [modes |-> modes, caps |-> caps, async |-> async]

MCFuncs == [take  |-> F(<<"sink">>, {}, FALSE),
            see   |-> F(<<"read">>, {}, FALSE),
            both  |-> F(<<"inout", "inout">>, {}, FALSE),
            mixed |-> F(<<"inout", "read">>, {}, FALSE),
            twice |-> F(<<"read", "read">>, {}, FALSE),
            give  |-> F(<<"read", "sink">>, {}, FALSE),
            logs  |-> F(<<>>, {"Log"}, FALSE),
            mk    |-> F(<<>>, {}, FALSE),
            heap  |-> F(<<>>, {"Alloc"}, FALSE),
            waits |-> F(<<>>, {}, TRUE)]

MCMethods == [eat |-> F(<<"sink">>, {}, FALSE), note |-> F(<<>>, {"Log"}, FALSE)]

MCValues == [eats |-> MCFuncs.take, logger |-> MCFuncs.logs, mixer |-> MCFuncs.mixed]

MCCells == [x \in DOMAIN MCLocals |->
              CASE x \in {"l", "al", "ll"} -> {"s0"} [] x = "r" -> {"s1", "s2"}
                [] x = "m" -> {"s0", "s1"} [] x = "o" -> {"s2"}
                [] x \in {"s", "h"} -> {"s0", "s1", "s2"} [] x = "p" -> {"pf", "pg"} [] OTHER -> {x}]
MCField == [f |-> {"pf"}, g |-> {"pg"}]

----------------------------------------------------------------------------
(* Trees.                                                                  *)

Id(x)      == [k |-> "Ident", x |-> x]
Lit        == [k |-> "Lit"]
N(k, sub)  == [k |-> k, sub |-> sub]
Stat(e)    == N("ExprStmt", <<e>>)
Name(f)    == [k |-> "Name", f |-> f]
Dot(e, n)  == [k |-> "Member", sub |-> <<e>>, name |-> n, type |-> "Pair"]
On(base, type, n) == [k |-> "Member", sub |-> <<base>>, name |-> n, type |-> type]
Arg(e)     == [e |-> e, amp |-> FALSE]
Amp(e)     == [e |-> e, amp |-> TRUE]
Call(f, as)   == [k |-> "Call", callee |-> Name(f), args |-> as]
Method(c, as) == [k |-> "Call", callee |-> c, args |-> as]
Let(x, e)  == [k |-> "Let", x |-> x, value |-> e]
Set(x, e)  == [k |-> "Assign", target |-> Id(x), value |-> e]
Ret(e)     == [k |-> "Return", value |-> e]
If(c, t, e) == [k |-> "If", cond |-> c, then |-> t, else |-> e]
Match(e, gs, as) == [k |-> "Match", scrutinee |-> e, guards |-> gs, arms |-> as]
With(v, cs, b) == [k |-> "With", values |-> <<v>>, caps |-> cs, body |-> b]
Select(e, b, d, y, t) == [k |-> "Select", events |-> <<e>>, arms |-> <<b>>, default |-> d,
                          delay |-> y, timeout |-> t]
DoCatch(b, g, c) == [k |-> "DoCatch", sub |-> <<b, c>>, guard |-> g]
Block(ss)  == N("Block", ss)
Closure(s) == N("Vector", <<N("Closure", <<s>>)>>)
Empty      == Block(<<>>)

Plainly == [modes |-> <<>>, caps |-> {}, async |-> FALSE]

\* Statements that hold an expression at each place a node has for one.
Forms(e) ==
  LET b == Block(<<Stat(e)>>)
  IN  {Stat(o) : o \in
         {e, Dot(e, "f"), Call("see", <<Arg(e)>>), Method(On(e, "Pair", "eat"), <<>>),
          N("Binary", <<e, Lit>>), N("Binary", <<Lit, e>>), N("Logic", <<e, Lit>>),
          N("Logic", <<Lit, e>>), N("Index", <<e, Lit>>), N("Index", <<Id("v"), e>>),
          If(e, Empty, Missing), If(Lit, b, Missing), If(Lit, Empty, b),
          Match(e, <<Missing, Missing>>, <<Empty, Empty>>),
          Match(Lit, <<e, Missing>>, <<Empty, Empty>>),
          Match(Lit, <<Missing, Missing>>, <<Empty, b>>),
          DoCatch(b, Missing, Empty), DoCatch(Block(<<Stat(N("Try", <<Lit>>))>>), Missing, b),
          DoCatch(Block(<<Stat(N("Try", <<Lit>>))>>), e, Empty)}
         \cup {N(k, <<e>>) : k \in {"Paren", "Unary", "Copy", "Await", "Spawn", "Throw", "Try",
                                   "As", "Vector", "Interp", "Tuple", "Comptime", "Macro"}}}
      \cup {Let("i", e), Ret(e), Set("i", e), Closure(Stat(e)),
            [k |-> "Assign", target |-> N("Index", <<Id("v"), e>>), value |-> Lit],
            N("While", <<e, Empty>>), N("While", <<Lit, b>>), N("For", <<e, Empty>>),
            N("For", <<Lit, b>>), With(e, {}, Empty), With(Lit, {}, b),
            Stat(Select(e, Empty, Lit, Lit, Missing)), Stat(Select(Lit, b, Lit, Lit, Missing)),
            Stat(Select(Lit, Empty, b, Lit, Missing)), Stat(Select(Lit, Empty, Missing, e, Empty)),
            Stat(Select(Lit, Empty, Missing, Lit, b))}

----------------------------------------------------------------------------
(* Ownership: a string a and a linear t are made, then at most three        *)
(* statements move, read, replace and branch over them.                     *)

TakeA == Call("take", <<Arg(Id("a"))>>)
TakeT == Call("take", <<Arg(Id("t"))>>)
SeeA  == Call("see", <<Arg(N("Paren", <<Id("a")>>))>>)
TrySeeA == N("Try", <<Call("see", <<Arg(Id("a"))>>)>>)

Refills == {Set("a", Lit), Set("a", N("Try", <<Call("mk", <<>>)>>))}
Moves == {Stat(TakeA), Stat(TakeT), Stat(SeeA), Let("b", Id("a")), Set("t", Lit)} \cup Refills
Ends  == {Ret(Id("a")), Ret(Missing), Stat(TrySeeA)}
Steps == Moves \cup Ends

Bodies1 == {Empty} \cup {Block(<<s>>) : s \in Steps}
Bodies2 == {Block(<<x, y>>) : x \in {Stat(TakeA), Stat(TrySeeA)}, y \in Refills \cup {Stat(TakeA)}}

\* A value that is filled again on the way to a truth value.
Refilling == LET b == Block(<<Set("a", Lit), Stat(Lit)>>) IN If(Lit, b, b)

Forks ==
  UNION {{Stat(If(SeeA, x, y)) : x \in Bodies1, y \in Bodies1},
         {Stat(Match(Lit, <<Lit, Missing>>, <<x, y>>)) : x \in Bodies1, y \in Bodies1},
         {Stat(DoCatch(x, Missing, y)) : x \in Bodies1 \cup Bodies2, y \in Bodies1},
         {If(Lit, Block(<<Let("t", Lit), x>>), Missing) : x \in {Stat(Lit), Stat(TakeT)}},
         {N("While", <<Lit, x>>) : x \in Bodies1},
         {N("While", <<Lit, Block(<<s, N(j, <<>>)>>)>>) : s \in Moves, j \in {"Break", "Continue"}},
         UNION {Forms(e) : e \in {TakeA, TakeT, SeeA, Refilling,
                                   Call("eats", <<>>), Method(Id("eats"), <<Arg(Id("a"))>>),
                                   Method(On(Id("p"), "Pair", "eat"), <<Arg(Id("a"))>>)}}}

\* What may have filled a again when it ends, or may not.
Refillers == Forms(Refilling)
             \cup {Stat(DoCatch(Block(<<x>>), Missing, y)) : x \in Refills, y \in Bodies1}

Owning(runs) ==
  {[fn |-> Plainly, body |-> Block(<<Let("p", Lit), Let("a", Lit)>> \o t \o ss)] :
     t \in {<<>>, <<Let("t", Lit)>>}, ss \in runs}

ForkUnits   == Owning({<<x, y>> : x \in Forks, y \in Steps})
RefillUnits == Owning({<<Stat(TakeA), x, y>> : x \in Refillers, y \in Steps})
StepUnits   == Owning({<<x, y, z>> : x \in Steps, y \in Moves, z \in Steps})

----------------------------------------------------------------------------
(* Exclusivity: two places in one call, in every form.                      *)

Fields == {Id("p"), Dot(Id("p"), "f"), Dot(Id("p"), "g")}

Places == Fields \cup {N("Paren", <<Dot(Id("p"), "f")>>), N("Index", <<Id("v"), Lit>>)}
          \cup {Id(x) : x \in {"i", "v", "s", "l", "r", "m", "o", "ll", "al", "h"}}

PairCalls(ps) ==
  {Call("both", <<Amp(x), Amp(y)>>) : x \in ps, y \in ps}
  \cup {Call("mixed", <<Amp(x), Arg(y)>>) : x \in ps, y \in ps}
  \cup {Call("twice", <<Arg(x), Arg(y)>>) : x \in ps, y \in ps}
  \cup {Method(On(Id("v"), "Vec", "push"), <<Arg(x)>>) : x \in ps}
  \cup {Method(Id("mixer"), <<x, Arg(Id("p"))>>) : x \in {Arg(Id("p")), Amp(Id("p"))}}
  \cup {Call("give", <<Arg(Id("p")), Arg(Id("p"))>>)}

BorrowUnits ==
  {[fn |-> Plainly, body |-> Block(<<Let("i", Lit), Let("p", Lit), Let("v", Lit), s>>)] :
     s \in {Stat(c) : c \in PairCalls(Places)} \cup UNION {Forms(c) : c \in PairCalls(Fields)}}

----------------------------------------------------------------------------
(* Capability: one effectful step in every form, under scopes that may not  *)
(* grant it.                                                                *)

Receive == Method(On(Id("v"), "Channel", "receive"), <<>>)

Effects == {Call("logs", <<>>), Call("heap", <<>>), Call("println", <<>>), Call("memcpy", <<>>),
            Call("waitForEvent", <<>>), Call("args", <<>>), N("Await", <<Call("waits", <<>>)>>),
            N("Spawn", <<Lit>>), Method(On(Id("i"), "Int", "toString"), <<>>),
            Method(On(Id("p"), "Pair", "note"), <<>>), Method(Id("logger"), <<>>),
            Method(On(Name("String"), "", "new"), <<>>), N("AddressOf", <<Name("logs")>>)}
           \cup {Select(Receive, Empty, Missing, Lit, m) : m \in {Missing, Empty}}

Grants == {{}, {"Log"}, {"Alloc"}, {"RawMemory"}, {"Async"}, {"Alloc", "Log"}}

ScopeUnits ==
  {[fn |-> F(<<>>, g, async), body |-> Block(<<With(Lit, w, Block(<<Stat(e)>>)), z>>)] :
     g \in Grants, async \in BOOLEAN, w \in Grants \cup {{"InterruptsOff"}},
     e \in Effects, z \in {Missing, Stat(Call("logs", <<>>))}}

FormUnits ==
  {[fn |-> F(<<>>, g, FALSE), body |-> Block(<<With(Lit, w, Block(<<s>>))>>)] :
     g \in Grants, w \in {{}, {"InterruptsOff"}}, s \in UNION {Forms(e) : e \in Effects}}

----------------------------------------------------------------------------
Init == \/ Start(ForkUnits)   \/ Start(RefillUnits) \/ Start(StepUnits)
        \/ Start(BorrowUnits)
        \/ Start(ScopeUnits)  \/ Start(FormUnits)

Spec == Init /\ [][Next]_vars

----------------------------------------------------------------------------
Faults(kind) == {f \in fault : f[1] = kind}

\* All nodes of a tree, those no pass visits included.
RECURSIVE Nodes(_)
Nodes(n) == {n} \cup UNION {Nodes(m) : m \in Range(Children(n))}
NodesOf(ns) == UNION {Nodes(n) : n \in ns}

Here == Nodes(unit.body)

\* What a pass that visits parts(n) of every node n leaves unread.
Unread(parts(_)) == NodesOf(UNION {Range(Children(n)) \ Range(parts(n)) : n \in Here})

Named(ns)  == {n.x : n \in {m \in ns : m.k \in {"Ident", "Let", "Var"}}}
Tracked(ns) == {x \in Named(ns) : Trackable(x) /\ Locals[x].type \notin Trivials}

\* What may run again, and what may be left out or broken off in the middle.
Repeated == NodesOf(UNION {Range(n.sub) : n \in {m \in Here : m.k \in {"While", "For"}}})
Skippable == NodesOf(UNION {IF n.k = "DoCatch" THEN Range(n.sub)
                            ELSE IF n.k = "Logic" THEN {n.sub[2]}
                            ELSE IF n.k = "Match" THEN Range(n.guards) ELSE {} : n \in Here})

\* All but the last statement, and the value that one returns.
BeforeEnd ==
  LET body == unit.body.sub
      end  == Last(body)
  IN  NodesOf(Range(Front(body)) \cup {IF end.k = "Return" THEN end.value ELSE end})

Inner == NodesOf(UNION {Range(Children(n)) : n \in Range(unit.body.sub)})

Calls == {n \in Here : n.k = "Call"}

\* Calls whose callee no pass knows: a method's, or a function value's.
Unresolved == {c \in Calls : CalleeDecl(c) # Target(c)}

\* The ownership pass reads all that is done with a, b, p and t, in the order
\* it is done.
OwnershipSees ==
  /\ Tracked(Unread(Parts) \cup Repeated) = {}
  /\ \A n \in Skippable : n.k # "Assign"
  /\ \A c \in Unresolved : \A d \in Target(c) : "sink" \notin Range(d.modes)

\* The ownership pass lets no path of an accepted body use or move again what
\* was moved, through branches, guards, operands that may not run, throws,
\* catches and returns.  Left out: bindings named in a loop, or where the pass
\* does not look (with, select, closures, interpolations, tuples, comptime,
\* macro calls, the guard of a catch); a binding filled again in a do, in its
\* catch, in a guard, or to the right of && or ||, which the pass takes to have
\* happened; and methods and function values that take ownership.
MovedNeverUsed == Faults("moved") # {} => ~OwnershipSees

\* With the same forms left out, a linear value is consumed on every path of an
\* accepted body in which nothing leaves early (throw, try, a return that is not
\* the last statement), no linear value is overwritten or bound in an inner
\* block, and none is named in a do, its catch, a guard, or to the right of && or
\* ||: the pass takes those to have run.
LinearConsumed ==
  Faults("leak") # {} =>
    ~ /\ OwnershipSees
      /\ \A n \in BeforeEnd : n.k \notin {"Throw", "Try", "Return"}
      /\ \A n \in Here : n.k = "Assign" /\ n.target.k = "Ident" => ~IsLinear(n.target.x)
      /\ \A n \in Inner : n.k \in {"Let", "Var"} => ~IsLinear(n.x)
      /\ \A x \in Tracked(Skippable) : ~IsLinear(x)

\* Which division of which span a binding is a view of.
RECURSIVE Cut(_)
Cut(x) ==
  LET init == Locals[x].init
  IN  CASE init.k = "Ident" -> Cut(init.x)
        [] init.k = "None"  -> {}
        [] OTHER            -> {<<init.of, init.at>>}


\* An accepted body reaches only what its row or an enclosing with grants, and a
\* masked region never waits for an interrupt.  Left out: what is done where the
\* pass does not look (closures, interpolations, tuples, comptime, macro calls,
\* the guard of a catch), what an interpolation itself allocates, and the rows of
\* methods and of functions called through a value.
CapabilitiesHeld ==
  Faults("capability") # {}
  \/ Faults("masked") \cap {<<"masked", "waitForInterrupt">>, <<"masked", "waitForEvent">>} # {}
    => ~ /\ \A n \in Unread(CapParts) : n.k \notin {"Call", "Await", "Spawn", "Select"}
         /\ \A n \in Here : n.k # "Interp"
         /\ \A c \in Unresolved : \A d \in Target(c) : RequiredCaps(d) = {}

\* What VESTRA_DRAFT.md section 5 claims of every accepted body: the compiler
\* reports every use after a move.
UseAfterMoveReported == Faults("moved") = {}
=============================================================================
