---------------------------- MODULE FlowCheckers ----------------------------
(***************************************************************************)
(* The three passes that walk a resolved function body before C++ is       *)
(* written: OwnershipChecker, ExclusivityChecker and CapabilityChecker     *)
(* (src/src/sema).  A body is a tree of records; field k is the node kind  *)
(* of ast/nodes.hpp, and sub holds the children of the kinds that need no  *)
(* names for them.  A BinaryExpr is a Logic where it is && or ||, else a   *)
(* Binary.  Positions and message texts are left out: a report is a tuple  *)
(* naming its rule and the binding, place or capability.                   *)
(***************************************************************************)
EXTENDS Naturals, Sequences, FiniteSets, SequencesExt

CONSTANTS
  Locals,   \* symbol -> [type, kind, init]: its declaration, as resolved
  Funcs,    \* function name -> [modes, caps, async]: the FuncDecl it names
  Structs   \* struct name -> [linear, fields]: the unit's struct declarations

Missing == [k |-> "None"]            \* an absent child (a null pointer)

----------------------------------------------------------------------------
(* The tree, and how far the passes walk it.                               *)

\* Kinds whose children are visited in source order, with no step of their own.
Plain == {"Paren", "Unary", "Binary", "Logic", "Member", "Index", "Copy", "Await", "Spawn",
          "Throw", "Try", "As", "DoCatch", "Vector", "Block", "ExprStmt", "While", "For"}

\* Kinds that fall into the default case of all three passes.
Unwalked == {"Closure", "Interp", "Tuple", "Comptime", "AddressOf", "Macro"}

\* All a node is made of, in source order; a macro call is made of its expansion.
Children(n) ==
  CASE n.k = "DoCatch" -> <<n.sub[1], n.guard, n.sub[2]>>
    [] n.k \in Plain \cup Unwalked -> n.sub
    [] n.k = "Call"   -> <<n.callee>> \o [i \in 1..Len(n.args) |-> n.args[i].e]
    [] n.k = "If"     -> <<n.cond, n.then, n.else>>
    [] n.k = "Match"  -> <<n.scrutinee>> \o n.guards \o n.arms
    [] n.k \in {"Let", "Var", "Return"} -> <<n.value>>
    [] n.k = "Assign" -> <<n.target, n.value>>
    [] n.k = "With"   -> Append(n.values, n.body)
    [] n.k = "Select" -> n.events \o n.arms \o <<n.default, n.delay, n.timeout>>
    [] OTHER -> <<>>

\* What the ownership and the exclusivity pass descend into: with and select are
\* further default cases, and the guard of a catch is not looked at.
Parts(n) ==
  CASE n.k \in Unwalked \cup {"With", "Select"} -> <<>>
    [] n.k = "DoCatch" -> n.sub
    [] OTHER -> Children(n)

\* The capability pass enters with and select.
CapParts(n) == IF n.k \in {"With", "Select"} THEN Children(n) ELSE Parts(n)

----------------------------------------------------------------------------
(* Types and places, as the passes see them.                               *)

Trivials == {"Int", "Bool", "Char", "Float", "Unit", "Error"}

\* Structs declared linear, closed under having a field of a linear struct.
RECURSIVE CloseLinear(_)
CloseLinear(ds) ==
  LET more == {s \in DOMAIN Structs : \E f \in Structs[s].fields : f \in ds}
  IN  IF more \subseteq ds THEN ds ELSE CloseLinear(ds \cup more)

LinearDecls == CloseLinear({s \in DOMAIN Structs : Structs[s].linear})

IsLinear(x) == Locals[x].type \in LinearDecls

Trackable(x) == Locals[x].kind \in {"Local", "Parameter"}

\* Parentheses are looked through; only a tracked, non-trivial name moves.
RECURSIVE PlaceSymbol(_)
PlaceSymbol(e) ==
  CASE e.k = "Paren" -> PlaceSymbol(e.sub[1])
    [] e.k = "Ident" /\ Trackable(e.x) /\ Locals[e.x].type \notin Trivials -> {e.x}
    [] OTHER -> {}

\* The declaration a call's callee resolves to.  A method's callee carries no
\* symbol and a function value's is not a function declaration, so that their
\* parameter modes and their capability rows are unknown here.
CalleeDecl(c) ==
  IF c.callee.k = "Name" /\ c.callee.f \in DOMAIN Funcs THEN {Funcs[c.callee.f]} ELSE {}

ModeAt(c, i, otherwise) ==
  IF \E d \in CalleeDecl(c) : i <= Len(d.modes)
  THEN (CHOOSE d \in CalleeDecl(c) : TRUE).modes[i]
  ELSE otherwise

----------------------------------------------------------------------------
(* Ownership: a flow state st maps the bindings met so far to "live" or     *)
(* "moved" (absent = never registered), errs collects the reports.          *)

NoBindings == [st |-> [x \in DOMAIN Locals |-> "absent"], errs |-> {}]

Report(s, r) == [s EXCEPT !.errs = @ \cup {r}]

CheckUse(x, s) ==
  IF Locals[x].type \notin Trivials /\ Trackable(x) /\ s.st[x] = "moved"
  THEN Report(s, <<"use after move", x>>) ELSE s

Put(st, xs, state) == [x \in DOMAIN st |-> IF x \in xs THEN state ELSE st[x]]

ConsumePlace(e, s) ==
  LET xs == PlaceSymbol(e)
  IN  [st   |-> Put(s.st, xs, "moved"),
       errs |-> s.errs \cup {<<"moved again", x>> : x \in {y \in xs : s.st[y] = "moved"}}]

RegisterLinear(xs, s) == [s EXCEPT !.st = Put(@, {x \in xs : IsLinear(x)}, "live")]

MergeConsumed(dst, branch) ==
  [x \in DOMAIN dst |-> IF branch[x] = "moved" THEN "moved" ELSE dst[x]]

\* Slip: only a binding no branch moves is reported.
DivergenceNone(pre, branches) ==
  {<<"diverges", x>> : x \in {y \in DOMAIN pre :
      /\ pre[y] = "live" /\ IsLinear(y)
      /\ \A b \in branches : b[y] # "moved"}}

\* A linear binding live at the fork must be moved by all branches or by none.
LinearDivergence(pre, branches) ==
  {<<"diverges", x>> : x \in {y \in DOMAIN pre :
      /\ pre[y] = "live" /\ IsLinear(y)
      /\ \E b \in branches : b[y] = "moved"
      /\ \E b \in branches : b[y] # "moved"}}

RECURSIVE Own(_, _)
OwnAll(es, s) == FoldLeft(LAMBDA acc, e : Own(e, acc), s, es)

\* The branches of an if or a match start from the same state.
OwnBranches(bodies, s) == {Own(b, s) : b \in bodies}

AllErrs(s, outs) == s.errs \cup UNION {o.errs : o \in outs}

\* Slip: the state after the then branch is forgotten.
OwnIfKeepElse(n, s) ==
  LET pre  == Own(n.cond, s)
      yes  == Own(n.then, pre)
      no   == Own(n.else, pre)
  IN  [st   |-> no.st,
       errs |-> yes.errs \cup no.errs \cup LinearDivergence(pre.st, {yes.st, no.st})]

OwnIf(n, s) ==
  LET pre  == Own(n.cond, s)
      yes  == Own(n.then, pre)
      no   == Own(n.else, pre)
  IN  [st   |-> MergeConsumed(no.st, yes.st),
       errs |-> yes.errs \cup no.errs \cup LinearDivergence(pre.st, {yes.st, no.st})]

\* Every guard is taken to run before any arm; the merge starts from the state
\* before the arms.
OwnMatch(n, s) ==
  LET pre  == OwnAll(n.guards, Own(n.scrutinee, s))
      outs == OwnBranches(Range(n.arms), pre)
  IN  [st   |-> [x \in DOMAIN pre.st |-> IF \E o \in outs : o.st[x] = "moved"
                                         THEN "moved" ELSE pre.st[x]],
       errs |-> AllErrs(pre, outs) \cup LinearDivergence(pre.st, {o.st : o \in outs})]

\* Arguments are walked and consumed left to right; a constructor's are all
\* sinks, and an unresolved callee's are never.
OwnCall(n, s) ==
  LET mode(i) == IF n.callee.k = "Name" /\ n.callee.f \in DOMAIN Structs THEN "sink"
                 ELSE ModeAt(n, i, IF n.args[i].amp THEN "inout" ELSE "read")
      arg(acc, i) == LET seen == Own(n.args[i].e, acc)
                     IN  IF mode(i) = "sink" THEN ConsumePlace(n.args[i].e, seen) ELSE seen
  IN  FoldLeft(arg, Own(n.callee, s), [i \in 1..Len(n.args) |-> i])

OwnBind(n, s) == RegisterLinear({n.x}, ConsumePlace(n.value, Own(n.value, s)))

OwnAssign(n, s) ==
  LET seen == Own(n.value, s)
      met  == {x \in DOMAIN seen.st : seen.st[x] # "absent"}
  IN  IF n.target.k # "Ident" THEN Own(n.target, seen)
      ELSE [seen EXCEPT !.st = Put(@, met \cap {n.target.x}, "live")]

\* check_expr and check_stmt.  A loop's body is walked once, a do and its catch
\* one after the other, both operands of && and || always; the children of the
\* kinds in the default case are not visited.
Own(n, s) ==
  CASE n.k = "Ident"            -> CheckUse(n.x, s)
    [] n.k \in Plain            -> OwnAll(Parts(n), s)
    [] n.k = "Call"             -> OwnCall(n, s)
    [] n.k = "If"               -> OwnIf(n, s)
    [] n.k = "Match"            -> OwnMatch(n, s)
    [] n.k \in {"Let", "Var"}   -> OwnBind(n, s)
    [] n.k = "Return"           -> ConsumePlace(n.value, Own(n.value, s))
    [] n.k = "Assign"           -> OwnAssign(n, s)
    [] OTHER                    -> s

\* check_func: walk the body, then report the linear bindings still live.
OwnershipReports(body) ==
  LET end == Own(body, NoBindings)
  IN  end.errs \cup {<<"never consumed", x>> : x \in
                     {y \in DOMAIN Locals : end.st[y] = "live" /\ IsLinear(y)}}

----------------------------------------------------------------------------
(* Exclusivity: the borrows one call takes, compared pairwise.              *)

\* The resolver's record_partition_provenance: a half of a split and a chunk
\* are a named segment of the span they were taken from, an alias of a
\* sub-view inherits its record, and nothing else has one.
RECURSIVE Provenance(_)
Provenance(x) ==
  LET init == Locals[x].init
  IN  CASE init.k = "Split"  -> {<<init.of, <<"@split", init.half>>>>}
        [] init.k = "Chunks" -> {<<init.of, <<"@chunks", 0>>>>}
        [] init.k = "Ident"  -> Provenance(init.x)
        [] OTHER -> {}

\* A place is a root with a path; a sub-view is a segment of its parent.
RECURSIVE AsPlace(_)
AsPlace(e) ==
  CASE e.k = "Paren" -> AsPlace(e.sub[1])
    [] e.k = "Ident" /\ Trackable(e.x) ->
         IF Provenance(e.x) = {} THEN {[root |-> e.x, path |-> <<>>]}
         ELSE {[root |-> v[1], path |-> <<v[2]>>] : v \in Provenance(e.x)}
    [] e.k = "Member" -> {[p EXCEPT !.path = Append(@, <<".", e.name>>)] : p \in AsPlace(e.sub[1])}
    [] OTHER -> {}


Overlap(a, b) ==
  /\ a.root = b.root
  /\ IsPrefix(a.path, b.path) \/ IsPrefix(b.path, a.path)

Conflict(a, b) == "inout" \in {a.access, b.access}

ReceiverInout(c) ==
  /\ c.callee.k = "Member"
  /\ \/ c.callee.type = "Vec"     /\ c.callee.name \in {"push", "pop", "set", "clear"}
     \/ c.callee.type = "String"  /\ c.callee.name = "append"
     \/ c.callee.type = "HashMap" /\ c.callee.name = "set"

Borrows(c) ==
  LET access(i) == IF c.args[i].amp THEN "inout" ELSE ModeAt(c, i, "read")
      borrowed  == {i \in 1..Len(c.args) : access(i) # "sink"}
  IN  UNION {{[at |-> i, place |-> p, access |-> access(i)] :
                 p \in AsPlace(c.args[i].e)} : i \in borrowed}
      \cup (IF ReceiverInout(c)
            THEN {[at |-> 0, place |-> p, access |-> "inout"] : p \in AsPlace(c.callee.sub[1])}
            ELSE {})

CallConflicts(c) ==
  {<<"overlap", {a.place, b.place}>> : <<a, b>> \in
     {p \in Borrows(c) \X Borrows(c) : /\ p[1].at < p[2].at
                                       /\ Overlap(p[1].place, p[2].place)
                                       /\ Conflict(p[1], p[2])}}

RECURSIVE Excl(_)
Excl(n) == (IF n.k = "Call" THEN CallConflicts(n) ELSE {})
           \cup UNION {Excl(m) : m \in Range(Parts(n))}

\* check_func: an async function's frame cannot hold a mutable borrow.
ExclusivityReports(fn, body) ==
  Excl(body) \cup {<<"inout across await", i>> : i \in
                   {j \in 1..Len(fn.modes) : fn.async /\ fn.modes[j] = "inout"}}

----------------------------------------------------------------------------
(* Capability: scopes is the set of capability names in force.              *)

\* What a call needs by its shape alone: the builtin types' constructors and
\* methods, and the builtin functions.
MemberGate(base, type, name, arity) ==
  LET on(bs, ms, cap) == IF base \in bs /\ name \in ms THEN {cap} ELSE {}
      of(ts, ms, cap) == IF type \in ts /\ name \in ms THEN {cap} ELSE {}
      strings == {"String", "Str", "StrConst"}
  IN  UNION {on({"Box", "PerCpu", "Vec", "String", "HashMap", "Soa"}, {"new"}, "Alloc"),
             on({"Ptr", "MutPtr"}, {"unchecked"}, "RawMemory"),
             on({"Span", "MutSpan"}, {"raw"}, "RawMemory"),
             on({"MmioView", "MmioRegion", "MmioWireView"}, {"at"}, "Mmio"),
             of({"SysregHandle", "SysregHandleRO", "SysregHandleWO"}, {"read", "write"}, "Asm"),
             IF arity = 0 THEN of({"Int", "Float"}, {"toString"}, "Alloc")
                               \cup of(strings, {"chars"}, "Alloc")
                               \cup of({"HashMap"}, {"keys", "values", "entries"}, "Alloc")
             ELSE IF arity = 1 THEN of(strings, {"split"}, "Alloc")
                                    \cup of({"PerCpu"}, {"slot"}, "RawMemory")
             ELSE {}}

\* A user's function of the same name shadows all but the raw-memory builtins.
NameGate(f) ==
  LET builtin(fs, cap) == IF f \in fs /\ f \notin DOMAIN Funcs THEN {cap} ELSE {}
  IN  UNION {IF f \in {"cleanData", "invalidateData", "cleanInvalidateData", "zeroData",
                       "publishInstructions", "memcpy", "memset", "memmove"}
             THEN {"RawMemory"} ELSE {},
             builtin({"parallel"}, "Async"),
             builtin({"print", "println", "eprint", "eprintln"}, "Log"),
             builtin({"readFile", "writeFile"}, "Fs"),
             builtin({"args"}, "Alloc")}

Gate(c) ==
  CASE c.callee.k = "Member" ->
         MemberGate(IF c.callee.sub[1].k = "Name" THEN c.callee.sub[1].f ELSE "",
                    c.callee.type, c.callee.name, Len(c.args))
    [] c.callee.k = "Name" -> NameGate(c.callee.f)
    [] OTHER -> {}

RequiredCaps(d) == d.caps \cup (IF d.async THEN {"Async"} ELSE {})

Needs(caps, scopes) == {<<"missing", cap>> : cap \in caps \ scopes}

\* Inside an InterruptsOff region some calls are refused whatever is in scope.
Masked(what, scopes) == IF "InterruptsOff" \in scopes THEN {<<"masked", w>> : w \in what} ELSE {}

CapCall(c, scopes) ==
  LET row == UNION {RequiredCaps(d) : d \in CalleeDecl(c)}
      waits == IF c.callee.k = "Name" THEN {c.callee.f} \cap {"waitForInterrupt", "waitForEvent"}
               ELSE {}
  IN  UNION {Needs(Gate(c), scopes), Needs(row, scopes),
             Masked(waits, scopes), Masked(row \cap {"Alloc", "Async"}, scopes)}

\* A select with no default that waits on a channel or a timeout suspends.
Blocking(n) ==
  /\ n.default = Missing
  /\ \/ n.timeout # Missing
     \/ \E e \in Range(n.events) : e.k = "Call" /\ e.callee.k = "Member" /\ e.callee.name = "receive"

RECURSIVE Cap(_, _)
CapAll(ns, scopes) == UNION {Cap(n, scopes) : n \in Range(ns)}

Cap(n, scopes) ==
  CASE n.k = "With" ->
         CapAll(n.values, scopes) \cup Cap(n.body, scopes \cup n.caps)
    [] n.k = "Select" ->
         CapAll(CapParts(n), scopes) \cup IF Blocking(n) THEN Needs({"Async"}, scopes) ELSE {}
    [] n.k \in {"Await", "Spawn"} ->
         UNION {CapAll(n.sub, scopes), Needs({"Async"}, scopes), Masked({n.k}, scopes)}
    [] n.k = "Call" -> CapCall(n, scopes) \cup CapAll(CapParts(n), scopes)
    [] OTHER -> CapAll(CapParts(n), scopes)

\* Slip: every body starts with the async runtime in scope, as if it were async.
CapabilityAlwaysAsync(fn, body) == Cap(body, fn.caps \cup {"Async"})

CapabilityReports(fn, body) == Cap(body, RequiredCaps(fn))
=============================================================================
