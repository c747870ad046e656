-------------------------- MODULE ComptimeMeaning --------------------------
(***************************************************************************)
(* What the expressions and statements of Comptime mean when the program   *)
(* itself evaluates them (VESTRA_DRAFT.md sections 4, 5, 12 and 19.9):     *)
(* lexical scopes, break and continue, numbers without a width, a trap for *)
(* a zero divisor or an index out of bounds.  It is the abstract           *)
(* specification the folder is held to, and shares no operator with it.    *)
(***************************************************************************)
EXTENDS Integers, Sequences, SequencesExt, TLC

CONSTANTS
    MaxSteps,    \* iterations of one loop, or nested calls, followed this far
    Widest       \* numbers beyond -Widest..Widest count as an overflow

\* A state: the scopes, innermost last, whether a number left its range (over),
\* and whether a let reused the name of an enclosing scope (hides).
\* A result: how it ends ("go", "return", "break", "continue", "trap", and
\* "long" when it outlives MaxSteps), the value, the state.
R(ctl, v, st) == [ctl |-> ctl, v |-> v, st |-> st]
Go(v, st) == R("go", v, st)
Nothing == [n |-> 0, els |-> <<>>, unit |-> TRUE]
Num(n) == [n |-> n, els |-> <<>>, unit |-> FALSE]
Bit(b) == Num(IF b THEN 1 ELSE 0)
Vec(els) == [n |-> Len(els), els |-> els, unit |-> FALSE]

Counted(n, st) ==
    Go(Num(n), [st EXCEPT !.over = @ \/ n > Widest \/ n < (IF st.nat THEN 0 ELSE -Widest)])

Scope(x, st) == SelectLastInSeq(st.scopes, LAMBDA sc : x \in DOMAIN sc)
Declare(x, v, st) ==
    [st EXCEPT !.scopes[Len(st.scopes)] = (x :> v) @@ @]
DeclareLet(x, v, st) ==
    [Declare(x, v, st) EXCEPT !.hides = @ \/ Scope(x, st) \in 1..Len(st.scopes) - 1]
Store(x, v, st) == [st EXCEPT !.scopes[Scope(x, st)][x] = v]
Enter(st) == [st EXCEPT !.scopes = Append(@, <<>>)]
Exit(r) == [r EXCEPT !.st.scopes = Front(@)]

Divided(a, b) == CHOOSE q \in -Widest..Widest :
    LET rem == a - q * b
    IN /\ (rem = 0 \/ (rem > 0) = (a > 0))
       /\ rem \in {i \in -Widest..Widest : i * i < b * b}

Calc(op, a, b, st) ==
    CASE op = "+" -> Counted(a + b, st)
      [] op = "-" -> Counted(a - b, st)
      [] op = "*" -> Counted(a * b, st)
      [] op \in {"/", "%"} /\ b = 0 -> R("trap", Nothing, st)
      [] a > Widest \/ a < -Widest \/ b > Widest \/ b < -Widest ->
            Go(Num(0), [st EXCEPT !.over = TRUE])
      [] op = "/" -> Counted(Divided(a, b), st)
      [] op = "%" -> Counted(a - b * Divided(a, b), st)
      [] op = "==" -> Go(Bit(a = b), st)
      [] op = "!=" -> Go(Bit(a # b), st)
      [] op = "<"  -> Go(Bit(a < b), st)
      [] op = "<=" -> Go(Bit(a <= b), st)
      [] op = ">"  -> Go(Bit(a > b), st)
      [] op = ">=" -> Go(Bit(a >= b), st)

RECURSIVE Eval(_, _, _, _), EvalAll(_, _, _, _), Run(_, _, _, _)
RECURSIVE Loop(_, _, _, _, _, _), Again(_, _, _, _, _)

EvalAll(es, fs, st, d) ==
    IF es = <<>> THEN [ctl |-> "go", vs |-> <<>>, st |-> st]
    ELSE LET first == Eval(Head(es), fs, st, d)
             rest == EvalAll(Tail(es), fs, first.st, d)
         IN IF first.ctl # "go" THEN [ctl |-> first.ctl, vs |-> <<first.v>>, st |-> first.st]
            ELSE [rest EXCEPT !.vs = IF rest.ctl = "go" THEN <<first.v>> \o @ ELSE @]

\* The statements of a block already entered; its value is the last one's.
Run(stmts, fs, st, d) ==
    IF stmts = <<>> THEN Go(Nothing, st)
    ELSE LET r == Eval(Head(stmts), fs, st, d)
         IN IF Tail(stmts) = <<>> \/ r.ctl # "go" THEN r
            ELSE Run(Tail(stmts), fs, r.st, d)

\* A loop body ended with r: what the loop does.
EndsLoop(r) == r.ctl \in {"break", "return", "trap", "long"}
LeaveLoop(r) == IF r.ctl = "break" THEN Go(Nothing, r.st) ELSE r

Loop(k, vals, s, fs, st, d) ==
    CASE k > Len(vals) -> Go(Nothing, st)
      [] k > MaxSteps  -> R("long", Nothing, st)
      [] OTHER ->
            LET r == Exit(Eval(s.body, fs, Declare(s.x, vals[k], Enter(st)), d))
            IN IF EndsLoop(r) THEN LeaveLoop(r) ELSE Loop(k + 1, vals, s, fs, r.st, d)

Again(k, s, fs, st, d) ==
    LET c == Eval(s.c, fs, st, d)
        r == Eval(s.body, fs, c.st, d)
    IN CASE k > MaxSteps  -> R("long", Nothing, st)
         [] c.ctl # "go"  -> c
         [] c.v.n = 0     -> Go(Nothing, c.st)
         [] EndsLoop(r)   -> LeaveLoop(r)
         [] OTHER         -> Again(k + 1, s, fs, r.st, d)

Invoke(e, fs, st, d) ==
    LET f == fs[e.x]
        args == EvalAll(e.args, fs, st, d)
        bound == [p \in ToSet(f.params) |->
                    args.vs[CHOOSE i \in DOMAIN f.params : f.params[i] = p]]
        r == Eval(f.body, fs, [args.st EXCEPT !.scopes = <<Head(@), bound>>], d + 1)
        back == [r.st EXCEPT !.scopes = args.st.scopes]
    IN CASE args.ctl # "go" -> R(args.ctl, args.vs[1], args.st)
         [] d > MaxSteps    -> R("long", Nothing, st)
         [] r.ctl = "return" -> Go(r.v, back)
         [] OTHER            -> R(r.ctl, r.v, back)

\* A binary operation, an index or a comparison, operands left to right.
Operate(e, fs, st, d) ==
    LET l == Eval(e.a, fs, st, d)
        r == Eval(IF e.k = "bin" THEN e.b ELSE e.i, fs, l.st, d)
    IN CASE l.ctl # "go" -> l
         [] r.ctl # "go" -> r
         [] e.k = "bin"  -> Calc(e.op, l.v.n, r.v.n, r.st)
         [] r.v.n \notin 0..Len(l.v.els) - 1 -> R("trap", Nothing, r.st)
         [] OTHER -> Go(l.v.els[r.v.n + 1], r.st)

\* One operand, then a function of its value.
With(e, fs, st, d) ==
    LET r == Eval(e.a, fs, st, d)
    IN CASE r.ctl # "go"  -> r
         [] e.k = "neg"   -> Counted(-r.v.n, r.st)
         [] e.k = "not"   -> Go(Bit(r.v.n = 0), r.st)
         [] e.k = "conv"  -> Counted(r.v.n, r.st)
         [] e.k = "length" -> Go(Num(Len(r.v.els)), r.st)

ShortCircuit(e, fs, st, d) ==
    LET l == Eval(e.a, fs, st, d)
    IN IF l.ctl # "go" \/ l.v.n = (IF e.k = "and" THEN 0 ELSE 1) THEN l
       ELSE Eval(e.b, fs, l.st, d)

Choose(e, fs, st, d) ==
    LET c == Eval(e.c, fs, st, d)
    IN CASE c.ctl # "go" -> c
         [] c.v.n = 1    -> Eval(e.t, fs, c.st, d)
         [] e.f # <<>>   -> Eval(e.f[1], fs, c.st, d)
         [] OTHER        -> Go(Nothing, c.st)

\* x op= e and x[i] op= e.
Update(s, fs, st, d) ==
    LET i == IF s.k = "assignAt" THEN Eval(s.i, fs, st, d) ELSE Go(Nothing, st)
        r == Eval(s.e, fs, i.st, d)
        held == r.st.scopes[Scope(s.x, r.st)][s.x]
        old == IF s.k = "assignAt" THEN held.els[i.v.n + 1].n ELSE held.n
        new == IF s.op = "=" THEN r ELSE Calc(s.op, old, r.v.n, r.st)
    IN CASE i.ctl # "go" -> i
         [] r.ctl # "go" -> r
         [] s.k = "assignAt" /\ i.v.n \notin 0..Len(held.els) - 1 ->
               R("trap", Nothing, r.st)
         [] new.ctl # "go" -> new
         [] s.k = "assign" -> Go(Nothing, Store(s.x, new.v, new.st))
         [] OTHER -> Go(Nothing, Store(s.x, [held EXCEPT !.els[i.v.n + 1] = new.v], new.st))

Eval(e, fs, st, d) ==
    CASE e.k = "int"  -> Counted(e.n, st)
      [] e.k = "bool" -> Go(Bit(e.b), st)
      [] e.k = "id"   -> Go(st.scopes[Scope(e.x, st)][e.x], st)
      [] e.k \in {"neg", "not", "conv", "length"} -> With(e, fs, st, d)
      [] e.k \in {"and", "or"} -> ShortCircuit(e, fs, st, d)
      [] e.k \in {"bin", "index"} -> Operate(e, fs, st, d)
      [] e.k = "if" -> Choose(e, fs, st, d)
      [] e.k = "block" -> Exit(Run(e.stmts, fs, Enter(st), d))
      [] e.k = "call" -> Invoke(e, fs, st, d)
      [] e.k = "vec" ->
            LET r == EvalAll(e.els, fs, st, d)
            IN IF r.ctl = "go" THEN Go(Vec(r.vs), r.st) ELSE R(r.ctl, r.vs[1], r.st)
      [] e.k = "expr" -> Eval(e.e, fs, st, d)
      [] e.k = "let" ->
            LET zero == Vec([i \in 1..e.vtype[1].length |-> Num(0)])
                r == IF e.e.k = "zero" THEN Go(zero, st) ELSE Eval(e.e, fs, st, d)
            IN IF r.ctl = "go" THEN Go(Nothing, DeclareLet(e.x, r.v, r.st)) ELSE r
      [] e.k = "return" ->
            LET r == Eval(e.e, fs, st, d)
            IN IF r.ctl = "go" THEN R("return", r.v, r.st) ELSE r
      [] e.k = "leave" -> R("return", Nothing, st)
      [] e.k \in {"break", "continue"} -> R(e.k, Nothing, st)
      [] e.k \in {"assign", "assignAt"} -> Update(e, fs, st, d)
      [] e.k = "range" ->
            LET lo == Eval(e.lo, fs, st, d)
                hi == Eval(e.hi, fs, lo.st, d)
                last == IF e.inclusive THEN hi.v.n ELSE hi.v.n - 1
            IN CASE lo.ctl # "go" -> lo
                 [] hi.ctl # "go" -> hi
                 [] OTHER -> Loop(1, [i \in 1..(last - lo.v.n + 1) |-> Num(lo.v.n + i - 1)],
                                  e, fs, hi.st, d)
      [] e.k = "each" ->
            LET it == Eval(e.iter, fs, st, d)
            IN IF it.ctl # "go" THEN it ELSE Loop(1, it.v.els, e, fs, it.st, d)
      [] e.k = "while" -> Again(1, e, fs, st, d)

\* The value of constant number i of a unit, after those before it.
RECURSIVE ConstantsTo(_, _)
ConstantsTo(u, i) ==
    IF i = 0 THEN [ctl |-> "go", v |-> Nothing,
                   st |-> [scopes |-> <<<<>>>>, over |-> FALSE, hides |-> FALSE, nat |-> u.nat]]
    ELSE LET before == ConstantsTo(u, i - 1)
             r == Eval(u.consts[i].e, u.funcs, before.st, 0)
         IN IF before.ctl # "go" THEN before
            ELSE IF r.ctl # "go" THEN r
            ELSE [r EXCEPT !.st = Declare(u.consts[i].x, r.v, @)]

=============================================================================
