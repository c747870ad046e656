------------------------------ MODULE BodyRuns ------------------------------
(***************************************************************************)
(* A function body checked and then run.  Check is what the driver does    *)
(* with one resolved unit: the three passes of FlowCheckers, whose reports *)
(* stop the build.  The Run actions are the language's own account of the  *)
(* body (VESTRA_DRAFT.md sections 5, 8, 10 and 19), independent of the     *)
(* passes: one step at a time over a stack of work, taking every branch,   *)
(* loop count, throw and closure call the source allows, and noting in     *)
(* fault each rule of the language that the run breaks.  A value is moved  *)
(* by let and var, by return, and by a sink or a constructor that takes    *)
(* it; whether an assignment or a literal may copy one is not judged.      *)
(***************************************************************************)
EXTENDS FlowCheckers

CONSTANTS
  Methods,  \* method name -> [modes, caps, async]: the method really called
  Values,   \* symbol -> the like: the function that a local of function type holds
  Cells,    \* symbol -> the storage cells its value occupies
  Field,    \* field name -> the cells that field may be
  Turns     \* bound: loop iterations started in one run

VARIABLES unit, phase, reports, work, own, scopes, fault, turns

vars == <<unit, phase, reports, work, own, scopes, fault, turns>>
run  == <<work, own, scopes, fault, turns>>

----------------------------------------------------------------------------
(* The driver's part.                                                      *)

Reports(u) == UNION {OwnershipReports(u.body), ExclusivityReports(u.fn, u.body),
                     CapabilityReports(u.fn, u.body)}

\* The passes run on the whole unit; any report refuses it.
Check ==
  /\ phase = "resolved"
  /\ reports' = Reports(unit)
  /\ phase' = IF reports' = {} THEN "running" ELSE "refused"
  /\ work' = IF reports' = {} THEN <<unit.body>> ELSE <<>>
  /\ UNCHANGED <<unit, own, scopes, fault, turns>>

----------------------------------------------------------------------------
(* Running.  The head of work is the next thing to do; besides tree nodes   *)
(* it may be a marker: move, set, drop, push, pop, loop, catch, raise, end. *)

Node == Head(work)
At(kinds) == phase = "running" /\ work # <<>> /\ Node.k \in kinds
Do(items) == work' = items \o Tail(work)
Note(fs) == fault' = fault \cup fs
InForce == UNION Range(scopes)

Declared(ss) == {s.x : s \in {t \in Range(ss) : t.k \in {"Let", "Var"}}}
Owned(xs) == {x \in xs : IsLinear(x) /\ own[x] = "owned"}
Leak(xs) == {<<"leak", x>> : x \in Owned(xs)}

\* Unwinding to the first marker of a kind drops the blocks in between.
Mark(kinds) == SelectInSeq(work, LAMBDA w : w.k \in kinds)
Until(kinds) == IF Mark(kinds) = 0 THEN work ELSE SubSeq(work, 1, Mark(kinds) - 1)
Rest(kinds) == IF Mark(kinds) = 0 THEN <<>> ELSE SubSeq(work, Mark(kinds), Len(work))
Unwind(kinds, keep) ==
  LET passed == Range(Until(kinds))
      xs     == UNION {w.xs : w \in {p \in passed : p.k = "drop"}}
      pops   == Len(SelectSeq(Until(kinds), LAMBDA w : w.k = "pop"))
  IN  /\ work' = keep \o (IF Rest(kinds) = <<>> THEN <<>> ELSE Tail(Rest(kinds)))
      /\ Note(Leak(xs))
      /\ own' = [x \in DOMAIN own |-> IF x \in xs THEN "gone" ELSE own[x]]
      /\ scopes' = SubSeq(scopes, pops + 1, Len(scopes))
      /\ UNCHANGED turns

Moving(xs) ==
  /\ Note({<<"moved", x>> : x \in {y \in xs : own[y] = "moved"}})
  /\ own' = [x \in DOMAIN own |-> IF x \in xs THEN "moved" ELSE own[x]]

RunUse ==
  /\ At({"Ident"})
  /\ Do(<<>>)
  /\ Note({<<"moved", x>> : x \in {y \in {Node.x} : own[y] = "moved"}})
  /\ UNCHANGED <<own, scopes, turns>>

RunParts ==
  /\ At({"Paren", "Unary", "Binary", "Member", "Index", "Copy", "As", "Vector", "ExprStmt",
         "Tuple", "Comptime", "Macro"})
  /\ Do(Node.sub)
  /\ UNCHANGED <<own, scopes, fault, turns>>

\* An address is known when the program is linked.
RunNothing ==
  /\ At({"Name", "Lit", "None", "AddressOf", "catch"})
  /\ Do(<<>>)
  /\ UNCHANGED <<own, scopes, fault, turns>>

\* && and || may leave their right operand out.
RunLogic ==
  /\ At({"Logic"})
  /\ Do(Node.sub) \/ Do(<<Node.sub[1]>>)
  /\ UNCHANGED <<own, scopes, fault, turns>>

RunBlock ==
  /\ At({"Block"})
  /\ Do(Append(Node.sub, [k |-> "drop", xs |-> Declared(Node.sub)]))
  /\ UNCHANGED <<own, scopes, fault, turns>>

\* Leaving a block ends its bindings; a linear one still owned has leaked.
RunDrop ==
  /\ At({"drop"})
  /\ Do(<<>>)
  /\ Note(Leak(Node.xs))
  /\ own' = [x \in DOMAIN own |-> IF x \in Node.xs THEN "gone" ELSE own[x]]
  /\ UNCHANGED <<scopes, turns>>

RunBind ==
  /\ At({"Let", "Var"})
  /\ Do(<<Node.value, [k |-> "move", e |-> Node.value], [k |-> "set", x |-> Node.x]>>)
  /\ UNCHANGED <<own, scopes, fault, turns>>

RunMove ==
  /\ At({"move"})
  /\ Do(<<>>)
  /\ Moving(PlaceSymbol(Node.e))
  /\ UNCHANGED <<scopes, turns>>

RunAssign ==
  /\ At({"Assign"})
  /\ Do(<<Node.value>> \o IF Node.target.k = "Ident" THEN <<[k |-> "set", x |-> Node.target.x]>>
                          ELSE <<Node.target>>)
  /\ UNCHANGED <<own, scopes, fault, turns>>

\* A linear value overwritten while still owned has leaked too.
RunSet ==
  /\ At({"set"})
  /\ Do(<<>>)
  /\ Note(Leak({Node.x}))
  /\ own' = [own EXCEPT ![Node.x] = "owned"]
  /\ UNCHANGED <<scopes, turns>>

RunReturn ==
  /\ At({"Return"})
  /\ Do(<<Node.value, [k |-> "move", e |-> Node.value], [k |-> "end"]>>)
  /\ UNCHANGED <<own, scopes, fault, turns>>

RunEnd == At({"end"}) /\ Unwind({}, <<>>)

RunThrow ==
  /\ At({"Throw", "Try"})
  /\ \/ Do(Append(Node.sub, [k |-> "raise"]))
     \/ Node.k = "Try" /\ Do(Node.sub)
  /\ UNCHANGED <<own, scopes, fault, turns>>

\* The error is caught by the nearest do; where its catch has a guard, that is
\* asked first, and the error goes on if it refuses.
RunRaise ==
  /\ At({"raise"})
  /\ IF Mark({"catch"}) = 0 THEN Unwind({"catch"}, <<>>)
     ELSE LET catch == work[Mark({"catch"})]
          IN  \/ Unwind({"catch"}, <<catch.guard, catch.body>>)
              \/ /\ catch.guard # Missing
                 /\ Unwind({"catch"}, <<catch.guard, Node>>)

RunDo ==
  /\ At({"DoCatch"})
  /\ Do(<<Node.sub[1], [k |-> "catch", guard |-> Node.guard, body |-> Node.sub[2]]>>)
  /\ UNCHANGED <<own, scopes, fault, turns>>

\* An arm is taken once its guard was asked, and those of any arms before it
\* whose patterns fitted.
RunBranch ==
  /\ At({"If", "Match"})
  /\ IF Node.k = "If"
     THEN \E branch \in {Node.then, Node.else} : Do(<<Node.cond, branch>>)
     ELSE \E taken \in 1..Len(Node.arms) : \E fitted \in SUBSET (1..taken - 1) :
            LET asked == [i \in 1..taken |-> IF i \in fitted \cup {taken} THEN Node.guards[i]
                                             ELSE Missing]
            IN  Do(<<Node.scrutinee>> \o asked \o <<Node.arms[taken]>>)
  /\ UNCHANGED <<own, scopes, fault, turns>>

\* sub is the condition (or the iterated value, evaluated once) and the body.
RunLoop ==
  /\ At({"While", "For"})
  /\ LET again == IF Node.k = "For" THEN [Node EXCEPT !.sub[1] = Missing] ELSE Node
     IN  \/ Do(<<Node.sub[1]>>) /\ UNCHANGED turns
         \/ /\ turns < Turns
            /\ Do(<<Node.sub[1], Node.sub[2], [k |-> "loop", next |-> again]>>)
            /\ turns' = turns + 1
  /\ UNCHANGED <<own, scopes, fault>>

RunAgain ==
  /\ At({"loop"})
  /\ Do(<<Node.next>>)
  /\ UNCHANGED <<own, scopes, fault, turns>>

RunLeave ==
  /\ At({"Break", "Continue"})
  /\ Unwind({"loop"}, IF Node.k = "Break" \/ Mark({"loop"}) = 0 THEN <<>>
                      ELSE <<work[Mark({"loop"})].next>>)

RunWith ==
  /\ At({"With"})
  /\ Do(Node.values \o <<[k |-> "push", caps |-> Node.caps], Node.body, [k |-> "pop"]>>)
  /\ UNCHANGED <<own, scopes, fault, turns>>

RunScope ==
  /\ At({"push", "pop"})
  /\ Do(<<>>)
  /\ scopes' = IF Node.k = "push" THEN <<Node.caps>> \o scopes ELSE Tail(scopes)
  /\ UNCHANGED <<own, fault, turns>>

\* A closure handed to a call is run by it, or not.
RunClosure ==
  /\ At({"Closure"})
  /\ \/ Do(<<>>)
     \/ Do(<<[k |-> "Block", sub |-> Node.sub]>>)
  /\ UNCHANGED <<own, scopes, fault, turns>>

\* Using what the scopes do not grant, or what a masked region forbids.
Reaching(needed, what) ==
  {<<"capability", cap>> : cap \in needed \ InForce}
  \cup (IF "InterruptsOff" \in InForce
        THEN {<<"masked", w>> : w \in what \cup (needed \cap {"Alloc", "Async"})} ELSE {})

\* To await or to spawn needs the async runtime, to interpolate the allocator.
RunAsync ==
  /\ At({"Await", "Spawn", "Interp"})
  /\ Do(Node.sub)
  /\ Note(Reaching({IF Node.k = "Interp" THEN "Alloc" ELSE "Async"}, {}))
  /\ UNCHANGED <<own, scopes, turns>>

RunSelect ==
  /\ At({"Select"})
  /\ \/ \E i \in 1..Len(Node.arms) : Do(<<Node.events[i], Node.arms[i]>>)
     \/ Node.default # Missing /\ Do(<<Node.default>>)
     \/ Node.timeout # Missing /\ Do(<<Node.delay, Node.timeout>>)
  /\ Note(IF Node.default = Missing THEN Reaching({"Async"}, {}) ELSE {})
  /\ UNCHANGED <<own, scopes, turns>>

RunCall ==
  /\ At({"Call"})
  /\ Do((IF Node.callee.k = "Member" THEN Node.callee.sub ELSE <<Node.callee>>)
        \o [i \in 1..Len(Node.args) |-> Node.args[i].e] \o <<[k |-> "enter", c |-> Node]>>)
  /\ UNCHANGED <<own, scopes, fault, turns>>

\* The storage an argument names; an element may be any element.
RECURSIVE CellsOf(_)
CellsOf(e) ==
  CASE e.k \in {"Paren", "Index"} -> CellsOf(e.sub[1])
    [] e.k = "Ident"  -> Cells[e.x]
    [] e.k = "Member" -> CellsOf(e.sub[1]) \cap Field[e.name]
    [] OTHER -> {}

Target(c) ==
  CASE c.callee.k = "Member" /\ c.callee.name \in DOMAIN Methods -> {Methods[c.callee.name]}
    [] c.callee.k = "Ident" /\ c.callee.x \in DOMAIN Values -> {Values[c.callee.x]}
    [] OTHER -> CalleeDecl(c)

RealMode(c, i) ==
  IF c.callee.k = "Name" /\ c.callee.f \in DOMAIN Structs THEN "sink"
  ELSE IF \E d \in Target(c) : i <= Len(d.modes)
       THEN (CHOOSE d \in Target(c) : TRUE).modes[i]
       ELSE IF c.args[i].amp THEN "inout" ELSE "read"

\* Two arguments may share storage only when both are merely read.
Aliased(c) ==
  LET place(i) == IF i = 0 THEN CellsOf(c.callee.sub[1]) ELSE CellsOf(c.args[i].e)
      mode(i)  == IF i = 0 THEN "inout" ELSE RealMode(c, i)
      held     == (1..Len(c.args)) \cup (IF ReceiverInout(c) THEN {0} ELSE {})
  IN  {<<"alias", {i, j}>> : <<i, j>> \in
         {p \in held \X held : /\ p[1] < p[2]
                               /\ place(p[1]) \cap place(p[2]) # {}
                               /\ {mode(p[1]), mode(p[2])} # {"read"}}}

\* Entering the callee: sinks take ownership, borrows begin, the row is used.
RunEnter ==
  /\ At({"enter"})
  /\ Do(<<>>)
  /\ LET c      == Node.c
         sunk   == UNION {PlaceSymbol(c.args[i].e) :
                          i \in {j \in 1..Len(c.args) : RealMode(c, j) = "sink"}}
         needed == Gate(c) \cup UNION {RequiredCaps(d) : d \in Target(c)}
         waits  == IF c.callee.k = "Name"
                   THEN {c.callee.f} \cap {"waitForInterrupt", "waitForEvent"} ELSE {}
     IN  /\ Note({<<"moved", x>> : x \in {y \in sunk : own[y] = "moved"}}
                 \cup Aliased(c) \cup Reaching(needed, waits))
         /\ own' = [x \in DOMAIN own |-> IF x \in sunk THEN "moved" ELSE own[x]]
  /\ UNCHANGED <<scopes, turns>>

RunStep ==
  \/ RunUse \/ RunParts \/ RunNothing \/ RunLogic \/ RunBlock \/ RunDrop \/ RunBind \/ RunMove
  \/ RunAssign \/ RunSet \/ RunReturn \/ RunEnd \/ RunThrow \/ RunRaise \/ RunDo \/ RunBranch \/ RunLoop \/ RunAgain
  \/ RunLeave \/ RunWith \/ RunScope \/ RunClosure \/ RunAsync \/ RunSelect \/ RunCall
  \/ RunEnter

Run == RunStep /\ UNCHANGED <<unit, phase, reports>>

Start(units) ==
  /\ unit \in units
  /\ phase = "resolved"
  /\ reports = {}
  /\ work = <<>>
  /\ own = [x \in DOMAIN Locals |-> IF Locals[x].kind = "Parameter" THEN "owned" ELSE "unset"]
  /\ scopes = <<RequiredCaps(unit.fn)>>
  /\ fault = {}
  /\ turns = 0

Next == Check \/ Run
=============================================================================
