------------------------------ MODULE Comptime ------------------------------
(***************************************************************************)
(* The compile-time folder: ComptimeFolder::fold_with and fold_stmt        *)
(* (src/src/sema/comptime.cpp) and the walk over a unit's constants that   *)
(* calls it (Resolver::check_decl, src/src/sema/resolver_decls.cpp).       *)
(*                                                                         *)
(* A syntax tree is a record with a field k.  A fold is an operator from   *)
(* an expression and a frame to a value, or NoValue (std::nullopt), and    *)
(* the frame it leaves behind: what a fold that gives up half way already  *)
(* wrote to the frame stays written.  Floats, strings, reflection and      *)
(* macros are not modelled here.                                           *)
(***************************************************************************)
EXTENDS Integers, Sequences, Functions, TLC

CONSTANTS
    Units,               \* the compilation units: [funcs, consts]
    MaxDepth,            \* ComptimeFolder::MaxDepth, 64 in the code
    MaxLoopIterations,   \* ComptimeFolder::MaxLoopIterations, 1000000 there
    SlotBits             \* the width of ComptimeValue::i and ::u, 64 there

VARIABLES
    unit,     \* the unit being resolved
    next,     \* the constant check_decl reaches next
    env,      \* comptime_env_: the constants folded so far
    marks     \* what befell each fold, see Marks (an observer, not code)

vars == <<unit, next, env, marks>>

-----------------------------------------------------------------------------
(* Values: ComptimeValue.  Booleans keep 0 or 1 in n. *)

NoValue == [kind |-> "None", type |-> "Unit", n |-> 0, els |-> <<>>]
UnitValue == [kind |-> "Unit", type |-> "Unit", n |-> 0, els |-> <<>>]

Unsigned == {"UInt8", "UInt"}
Integer == {"Int8", "Int"} \cup Unsigned

\* The slots are machine words: i wraps as two's complement, u modulo 2^SlotBits.
UnwrappedUInt(n) == n                       \* variant: no wrap
WrapUInt(n) == n % 2^SlotBits
WrapInt(n) ==
    LET u == WrapUInt(n) IN IF u >= 2^(SlotBits - 1) THEN u - 2^SlotBits ELSE u

MakeUInt(n, hint) ==
    [kind |-> "UInt", type |-> IF hint \in Unsigned THEN hint ELSE "UInt",
     n |-> WrapUInt(n), els |-> <<>>]

MakeInt(n, hint) ==
    IF hint \in Unsigned
    THEN MakeUInt(n, hint)
    ELSE [kind |-> "Int", type |-> IF hint \in Integer THEN hint ELSE "Int",
          n |-> WrapInt(n), els |-> <<>>]

MakeBool(b) ==
    [kind |-> "Bool", type |-> "Bool", n |-> IF b THEN 1 ELSE 0, els |-> <<>>]

MakeVector(els, type) ==
    [kind |-> "Vector", type |-> type, n |-> Len(els), els |-> els]

ZeroOf(type) ==
    IF type = "Bool" THEN MakeBool(FALSE) ELSE MakeInt(0, type)

\* The slot an operation on values of kind `kind` reads from v: another
\* kind's value leaves it at its default, 0.
Slot(v, kind) == IF v.kind = kind THEN v.n ELSE 0

-----------------------------------------------------------------------------
(* Frames: ComptimeFolder::Frame, and what a fold returns. *)

\* What an observer notes of a fold: an iteration of a loop whose body gave
\* up half way ("cut"), a loop stopped by its cap ("cap"), == or != of values
\* of two kinds ("mixed").  The code keeps no such record.
Marks == {"cut", "cap", "mixed"}

\* What a block that ran to its end without a trailing expression yields.  The
\* code returns std::nullopt for it, as for a fold that gave up; only the
\* observer tells the two apart.
Ended == [NoValue EXCEPT !.kind = "End"]

EmptyFrame == [locals |-> <<>>, returned |-> NoValue, marks |-> {}]

Got(v, fr) == [v |-> v, fr |-> fr]
Bail(fr) == Got(NoValue, fr)
Folded(r) == r.v.kind \notin {"None", "End"}
Mark(fr, m) == [fr EXCEPT !.marks = @ \cup {m}]
Bind(fr, x, v) == [fr EXCEPT !.locals = (x :> v) @@ @]
Returned(fr) == fr.returned # NoValue

-----------------------------------------------------------------------------
(* Operators. *)

\* C++ division truncates toward zero.
Quotient(a, b) ==
    LET abs(n) == IF n < 0 THEN -n ELSE n
        q == abs(a) \div abs(b)
    IN IF (a < 0) = (b < 0) THEN q ELSE -q

Arithmetic == {"+", "-", "*", "/", "%"}
Comparison == {"==", "!=", "<", "<=", ">", ">="}

Calculate(op, a, b) ==
    CASE op = "+" -> a + b
      [] op = "-" -> a - b
      [] op = "*" -> a * b
      [] op = "/" -> Quotient(a, b)
      [] op = "%" -> a - b * Quotient(a, b)

Compare(op, a, b) ==
    CASE op = "==" -> a = b
      [] op = "!=" -> a # b
      [] op = "<"  -> a < b
      [] op = "<=" -> a <= b
      [] op = ">"  -> a > b
      [] op = ">=" -> a >= b

SameNumericKind(l, r) == l.kind = r.kind /\ l.kind \in {"Int", "UInt"}

\* The value of l op r, or NoValue: operands of two kinds (except == and !=,
\* which the code lets through), a zero divisor, a kind without the operation.
BinaryValue(op, l, r) ==
    CASE ~SameNumericKind(l, r) /\ op \notin {"==", "!="} -> NoValue
      [] op \in Arithmetic /\ l.kind \notin {"Int", "UInt"} -> NoValue
      [] op \in {"/", "%"} /\ r.n = 0 -> NoValue
      [] op \in Arithmetic -> MakeInt(Calculate(op, l.n, r.n), l.type)
      [] op \in Comparison /\ l.kind \in {"Int", "UInt", "Bool"} ->
            MakeBool(Compare(op, l.n, Slot(r, l.kind)))
      [] OTHER -> NoValue

UnaryValue(op, v) ==
    CASE op = "neg" /\ v.kind = "Int"  -> MakeInt(-v.n, v.type)
      [] op = "not" /\ v.kind = "Bool" -> MakeBool(v.n = 0)
      [] OTHER -> NoValue

\* A compound assignment `cur op= v`; += also appends vectors.  It is
\* defined on Int and Int alone, and keeps the type of cur.
Compound(op, cur, v) ==
    CASE op = "=" -> v
      [] op = "+" /\ cur.kind = "Vector" /\ v.kind = "Vector" ->
            MakeVector(cur.els \o v.els, cur.type)
      [] cur.kind # "Int" \/ v.kind # "Int" -> NoValue
      [] op \in {"/", "%"} /\ v.n = 0 -> NoValue
      [] OTHER -> [cur EXCEPT !.n = WrapInt(Calculate(op, cur.n, v.n))]

\* A primitive type called as a function keeps the bits and takes the type.
ConvertTo(type, v) ==
    CASE v.kind \notin {"Int", "UInt"} -> NoValue
      [] type \in Unsigned -> MakeUInt(v.n, type)
      [] OTHER -> MakeInt(v.n, type)

-----------------------------------------------------------------------------
(* Expressions: fold_with. `u` holds the functions and the folded constants. *)

RECURSIVE Fold(_, _, _, _, _), FoldAll(_, _, _, _, _), FoldBlock(_, _, _, _, _)
RECURSIVE FoldStmt(_, _, _, _), Iterate(_, _, _, _, _, _), While(_, _, _, _, _)

\* Several expressions, left to right, until one does not fold.
FoldAll(es, u, fr, hint, depth) ==
    IF es = <<>> THEN [vs |-> <<>>, ok |-> TRUE, fr |-> fr]
    ELSE LET first == Fold(Head(es), u, fr, hint, depth) IN
         IF ~Folded(first) THEN [vs |-> <<>>, ok |-> FALSE, fr |-> first.fr]
         ELSE LET rest == FoldAll(Tail(es), u, first.fr, hint, depth)
              IN [rest EXCEPT !.vs = <<first.v>> \o @]

\* Locals shadow the unit's constants.
FoldIdent(x, u, fr) ==
    CASE x \in DOMAIN fr.locals -> Got(fr.locals[x], fr)
      [] x \in DOMAIN u.env     -> Got(u.env[x], fr)
      [] OTHER                  -> Bail(fr)

FoldUnary(e, u, fr, hint, depth) ==
    LET r == Fold(e.a, u, fr, hint, depth)
    IN IF Folded(r) THEN Got(UnaryValue(e.k, r.v), r.fr) ELSE r

\* && and || fold the right operand only when the left does not decide.
FoldLogical(e, u, fr, depth) ==
    LET l == Fold(e.a, u, fr, "Bool", depth)
        r == Fold(e.b, u, l.fr, "Bool", depth)
    IN CASE l.v.kind # "Bool"         -> Bail(l.fr)
         [] e.k = "and" /\ l.v.n = 0  -> Got(MakeBool(FALSE), l.fr)
         [] e.k = "or"  /\ l.v.n = 1  -> Got(MakeBool(TRUE), l.fr)
         [] r.v.kind # "Bool"         -> Bail(r.fr)
         [] OTHER                     -> r

\* The left operand's type is the hint for the right one.
FoldBinary(e, u, fr, hint, depth) ==
    LET l == Fold(e.a, u, fr, hint, depth)
        r == Fold(e.b, u, l.fr, l.v.type, depth)
    IN IF ~Folded(l) THEN l
       ELSE IF ~Folded(r) THEN r
       ELSE Got(BinaryValue(e.op, l.v, r.v),
                IF e.op \in {"==", "!="} /\ l.v.kind # r.v.kind
                THEN Mark(r.fr, "mixed") ELSE r.fr)

\* Only the chosen branch; a false condition without else is Unit.
FoldIf(e, u, fr, hint, depth) ==
    LET c == Fold(e.c, u, fr, "Bool", depth)
    IN CASE c.v.kind # "Bool" -> Bail(c.fr)
         [] c.v.n = 1 -> Fold(e.t, u, c.fr, hint, depth)
         [] c.v.n = 0 /\ e.f # <<>> -> Fold(e.f[1], u, c.fr, hint, depth)
         [] OTHER -> Got(UnitValue, c.fr)

\* The statements in order. A trailing expression is the block's value, a
\* return ends it, and a block that yields nothing has not folded.
FoldBlock(stmts, u, fr, hint, depth) ==
    IF stmts = <<>> THEN Got(Ended, fr)
    ELSE LET s == Head(stmts) IN
         IF Tail(stmts) = <<>> /\ s.k = "expr"
         THEN LET r == Fold(s.e, u, fr, hint, depth)
              IN IF Returned(r.fr) THEN Got(r.fr.returned, r.fr) ELSE r
         ELSE LET r == FoldStmt(s, u, fr, depth) IN
              CASE ~r.ok          -> Bail(r.fr)
                [] Returned(r.fr) -> Got(r.fr.returned, r.fr)
                [] OTHER          -> FoldBlock(Tail(stmts), u, r.fr, hint, depth)

\* A call of a comptime function: the arguments in the caller's frame, the
\* body in a fresh one.
FoldCall(e, u, fr, hint, depth) ==
    IF e.x \notin DOMAIN u.funcs \/ Len(e.args) # Len(u.funcs[e.x].params)
    THEN Bail(fr)
    ELSE LET f    == u.funcs[e.x]
             args == FoldAll(e.args, u, fr, "Unit", depth + 1)
             callee == [EmptyFrame EXCEPT !.locals =
                          [p \in Range(f.params) |->
                             args.vs[CHOOSE i \in DOMAIN f.params : f.params[i] = p]]]
             r == Fold(f.body, u, callee, hint, depth + 1)
         IN IF ~args.ok THEN Bail(args.fr)
            ELSE Got(r.v, [args.fr EXCEPT !.marks = @ \cup r.fr.marks])

FoldConversion(e, u, fr, depth) ==
    LET r == Fold(e.a, u, fr, "Unit", depth + 1)
    IN IF Folded(r) THEN Got(ConvertTo(e.type, r.v), r.fr) ELSE r

\* A vector literal takes its first element's type.
FoldVector(e, u, fr, hint, depth) ==
    LET r == FoldAll(e.els, u, fr, hint, depth)
    IN IF r.ok
       THEN Got(MakeVector(r.vs, IF r.vs = <<>> THEN "Unit" ELSE r.vs[1].type), r.fr)
       ELSE Bail(r.fr)

FoldIndex(e, u, fr, depth) ==
    LET b == Fold(e.a, u, fr, "Unit", depth)
        i == Fold(e.i, u, b.fr, "Int", depth)
    IN CASE b.v.kind # "Vector" -> Bail(b.fr)
         [] i.v.kind # "Int" \/ i.v.n \notin 0..Len(b.v.els) - 1 -> Bail(i.fr)
         [] OTHER -> Got(b.v.els[i.v.n + 1], i.fr)

\* `v.length` of a folded vector.
FoldLength(e, u, fr, depth) ==
    LET b == Fold(e.a, u, fr, "Unit", depth)
    IN IF b.v.kind = "Vector" THEN Got(MakeInt(b.v.n, "Int"), b.fr) ELSE Bail(b.fr)

Fold(e, u, fr, hint, depth) ==
    IF depth > MaxDepth THEN Bail(fr)
    ELSE CASE e.k = "int"    -> Got(MakeInt(e.n, hint), fr)
           [] e.k = "bool"   -> Got(MakeBool(e.b), fr)
           [] e.k = "id"     -> FoldIdent(e.x, u, fr)
           [] e.k \in {"neg", "not"} -> FoldUnary(e, u, fr, hint, depth)
           [] e.k \in {"and", "or"}  -> FoldLogical(e, u, fr, depth)
           [] e.k = "bin"    -> FoldBinary(e, u, fr, hint, depth)
           [] e.k = "if"     -> FoldIf(e, u, fr, hint, depth)
           [] e.k = "block"  -> FoldBlock(e.stmts, u, fr, hint, depth)
           [] e.k = "call"   -> FoldCall(e, u, fr, hint, depth)
           [] e.k = "conv"   -> FoldConversion(e, u, fr, depth)
           [] e.k = "vec"    -> FoldVector(e, u, fr, hint, depth)
           [] e.k = "index"  -> FoldIndex(e, u, fr, depth)
           [] e.k = "length" -> FoldLength(e, u, fr, depth)
           [] OTHER          -> Bail(fr)

-----------------------------------------------------------------------------
(* Statements: fold_stmt.  ok is its result, false when it gave up. *)

Done(fr) == [ok |-> TRUE, fr |-> fr]
GiveUp(fr) == [ok |-> FALSE, fr |-> fr]

\* let and var: `.zero` of a vector type makes the vector; the element type of
\* a declared vector is the hint, any other declared type is not.
FoldLet(s, u, fr, depth) ==
    LET r == Fold(s.e, u, fr, IF s.vtype = <<>> THEN "Unit" ELSE s.vtype[1].elem, depth)
        zeros == [i \in 1..s.vtype[1].length |-> ZeroOf(s.vtype[1].elem)]
    IN CASE s.vtype # <<>> /\ s.e.k = "zero" ->
              IF s.vtype[1].length > 0
              THEN Done(Bind(fr, s.x, MakeVector(zeros, s.vtype[1].elem)))
              ELSE GiveUp(fr)
         [] Folded(r) -> Done(Bind(r.fr, s.x, r.v))
         [] OTHER     -> GiveUp(r.fr)

FoldReturn(s, u, fr, depth) ==
    LET r == Fold(s.e, u, fr, "Unit", depth)
    IN IF Folded(r) THEN Done([r.fr EXCEPT !.returned = r.v]) ELSE GiveUp(r.fr)

\* `x = e`, `x op= e`: the binding's own type is the hint, and only a plain
\* assignment may name what the frame does not hold.
FoldAssign(s, u, fr, depth) ==
    LET hint == IF s.x \in DOMAIN fr.locals THEN fr.locals[s.x].type ELSE "Unit"
        r == Fold(s.e, u, fr, hint, depth)
        v == IF s.op = "=" THEN r.v ELSE Compound(s.op, r.fr.locals[s.x], r.v)
    IN IF \/ ~Folded(r)
          \/ s.op # "=" /\ s.x \notin DOMAIN r.fr.locals
          \/ v = NoValue
       THEN GiveUp(r.fr)
       ELSE Done(Bind(r.fr, s.x, v))

\* `x[i] = e`, `x[i] op= e` on a vector the frame holds.
FoldAssignAt(s, u, fr, depth) ==
    LET i == Fold(s.i, u, fr, "Int", depth)
        held == i.fr.locals[s.x]
        r == Fold(s.e, u, i.fr, held.type, depth)
        v == Compound(s.op, held.els[i.v.n + 1], r.v)
    IN CASE s.x \notin DOMAIN fr.locals -> GiveUp(fr)
         [] fr.locals[s.x].kind # "Vector" -> GiveUp(fr)
         [] i.v.kind # "Int" \/ i.v.n \notin 0..Len(held.els) - 1 -> GiveUp(i.fr)
         [] ~Folded(r) \/ v = NoValue -> GiveUp(r.fr)
         [] OTHER -> Done([r.fr EXCEPT !.locals[s.x].els[i.v.n + 1] = v])

\* One run of a loop's body.  Its result is dropped, so a body that gives up
\* ends its iteration and the loop goes on.
FoldBody(s, u, fr, depth) ==
    LET r == Fold(s.body, u, fr, "Unit", depth)
    IN IF r.v = NoValue THEN Mark(r.fr, "cut") ELSE r.fr

\* Variant: the cap ends the loop instead of the fold.
IterateCapped(k, vals, s, u, fr, depth) ==
    IF k > Len(vals) \/ k > MaxLoopIterations THEN Done(Mark(fr, "cap"))
    ELSE LET bound == IF s.x = "_" THEN fr ELSE Bind(fr, s.x, vals[k])
             after == FoldBody(s, u, bound, depth)
         IN IF Returned(after) THEN Done(after)
            ELSE Iterate(k + 1, vals, s, u, after, depth)

\* Iterations k, k+1... of a for loop over the values vals.
Iterate(k, vals, s, u, fr, depth) ==
    IF k > Len(vals) THEN Done(fr)
    ELSE IF k > MaxLoopIterations THEN GiveUp(Mark(fr, "cap"))
    ELSE LET bound == IF s.x = "_" THEN fr ELSE Bind(fr, s.x, vals[k])
             after == FoldBody(s, u, bound, depth)
         IN IF Returned(after) THEN Done(after)
            ELSE Iterate(k + 1, vals, s, u, after, depth)

\* Variant: the loop variable keeps its last value.
KeepLoopVariable(r, s, before) == r

\* The loop variable gets back what it held before, but not when the cap hits.
Restore(r, s, before) ==
    IF ~r.ok \/ s.x = "_" THEN r
    ELSE Done([r.fr EXCEPT !.locals =
                 IF s.x \in DOMAIN before.locals
                 THEN (s.x :> before.locals[s.x]) @@ @
                 ELSE Restrict(@, DOMAIN @ \ {s.x})])

\* The values of lo..hi or lo..<hi; the loop never looks past its cap.
RangeValues(lo, hi, inclusive) ==
    LET end == IF inclusive THEN WrapInt(hi + 1) ELSE hi
        count == IF end - lo > MaxLoopIterations THEN MaxLoopIterations + 1 ELSE end - lo
    IN [i \in 1..count |-> MakeInt(lo + i - 1, "Int")]

FoldForRange(s, u, fr, depth) ==
    LET lo == Fold(s.lo, u, fr, "Int", depth)
        hi == Fold(s.hi, u, lo.fr, "Int", depth)
    IN IF lo.v.kind # "Int" \/ hi.v.kind # "Int" THEN GiveUp(hi.fr)
       ELSE Restore(Iterate(1, RangeValues(lo.v.n, hi.v.n, s.inclusive), s, u, hi.fr, depth),
                    s, fr)

FoldForEach(s, u, fr, depth) ==
    LET it == Fold(s.iter, u, fr, "Unit", depth)
    IN IF it.v.kind # "Vector" THEN GiveUp(it.fr)
       ELSE Restore(Iterate(1, it.v.els, s, u, it.fr, depth), s, fr)

\* Iterations k, k+1... of a while loop.
While(k, s, u, fr, depth) ==
    LET c == Fold(s.c, u, fr, "Bool", depth)
        after == FoldBody(s, u, c.fr, depth)
    IN CASE k > MaxLoopIterations -> GiveUp(Mark(fr, "cap"))
         [] c.v.kind # "Bool"     -> GiveUp(c.fr)
         [] c.v.n = 0             -> Done(c.fr)
         [] Returned(after)       -> Done(after)
         [] OTHER                 -> While(k + 1, s, u, after, depth)

FoldStmt(s, u, fr, depth) ==
    CASE Returned(fr)       -> Done(fr)
      [] s.k = "let"        -> FoldLet(s, u, fr, depth)
      [] s.k = "expr"       ->
            LET r == Fold(s.e, u, fr, "Unit", depth)
            IN [ok |-> Folded(r), fr |-> r.fr]
      [] s.k = "return"     -> FoldReturn(s, u, fr, depth)
      [] s.k = "leave"      -> Done([fr EXCEPT !.returned = UnitValue])
      [] s.k = "assign"     -> FoldAssign(s, u, fr, depth)
      [] s.k = "assignAt"   -> FoldAssignAt(s, u, fr, depth)
      [] s.k = "range"      -> FoldForRange(s, u, fr, depth)
      [] s.k = "each"       -> FoldForEach(s, u, fr, depth)
      [] s.k = "while"      -> While(1, s, u, fr, depth)
      [] OTHER              -> GiveUp(fr)      \* break, continue and the rest

-----------------------------------------------------------------------------
(* The unit's constants: check_decl, in source order. *)

Init ==
    /\ unit \in Units
    /\ next = 1
    /\ env = <<>>
    /\ marks = <<>>

\* A constant that folds joins the environment of the later ones; one that
\* does not is left to the emitted program.
FoldConst ==
    /\ next <= Len(unit.consts)
    /\ LET c == unit.consts[next]
           u == [funcs |-> unit.funcs, env |-> env]
           r == Fold(c.e, u, EmptyFrame, c.type, 0)
       IN /\ env' = IF Folded(r) THEN (c.x :> r.v) @@ env ELSE env
          /\ marks' = Append(marks, r.fr.marks)
    /\ next' = next + 1
    /\ UNCHANGED unit

Next == FoldConst

Spec == Init /\ [][Next]_vars

=============================================================================
