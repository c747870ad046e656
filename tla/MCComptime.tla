----------------------------- MODULE MCComptime -----------------------------
(***************************************************************************)
(* The folder on small units, beside what they mean.                       *)
(***************************************************************************)
EXTENDS Comptime, FiniteSets

CONSTANTS MaxSteps, Widest

Meaning == INSTANCE ComptimeMeaning

-----------------------------------------------------------------------------
(* Writing syntax trees. *)

N(n) == [k |-> "int", n |-> n]
X(x) == [k |-> "id", x |-> x]
Bin(a, op, b) == [k |-> "bin", op |-> op, a |-> a, b |-> b]
Un(k, a) == [k |-> k, a |-> a]
Conv(type, a) == [k |-> "conv", type |-> type, a |-> a]
Call(x, args) == [k |-> "call", x |-> x, args |-> args]
At(x, i) == [k |-> "index", a |-> X(x), i |-> i]
Block(stmts) == [k |-> "block", stmts |-> stmts]
If(c, t) == [k |-> "if", c |-> c, t |-> Block(t), f |-> <<>>]
IfElse(c, t, f) == [k |-> "if", c |-> c, t |-> Block(t), f |-> <<Block(f)>>]
Do(e) == [k |-> "expr", e |-> e]
Let(x, e) == [k |-> "let", x |-> x, e |-> e, vtype |-> <<>>]
LetVec(x, e) == [k |-> "let", x |-> x, e |-> e, vtype |-> <<[length |-> 2, elem |-> "Int"]>>]
Set(x, op, e) == [k |-> "assign", x |-> x, op |-> op, e |-> e]
SetAt(x, i, op, e) == [k |-> "assignAt", x |-> x, i |-> i, op |-> op, e |-> e]
Ret(e) == [k |-> "return", e |-> e]
Break == [k |-> "break"]
Continue == [k |-> "continue"]
For(x, hi, inclusive, body) ==
    [k |-> "range", x |-> x, lo |-> N(0), hi |-> hi, inclusive |-> inclusive,
     body |-> Block(body)]
Each(x, iter, body) == [k |-> "each", x |-> x, iter |-> iter, body |-> Block(body)]
Whilst(c, body) == [k |-> "while", c |-> c, body |-> Block(body)]

Const(x, type, e) == [x |-> x, type |-> type, e |-> e]

-----------------------------------------------------------------------------
(* Units. *)

\* Statements over a variable a, the parameter n and, in a loop, i.
Straight ==
    { Set("a", "+", N(1)), Set("a", "=", Bin(N(4), "/", X("a"))), Let("b", X("a")),
      Do(If(Bin(X("a"), "==", X("n")), <<Set("a", "+", N(2))>>)),
      Do(If(Bin(X("a"), ">", N(1)), <<Ret(Un("neg", X("a")))>>)),
      Do(IfElse(Bin(X("a"), "<", X("n")), <<Set("a", "*", N(3)), Do(X("a"))>>, <<Do(N(0))>>)) }

Adds == {Set("a", "+", N(1)), Set("a", "+", X("i"))}
Jumps == { Do(If(Bin(X("a"), "==", N(1)), <<j>>)) : j \in {Break, Continue} }

\* A let in a loop's body may hide the function's own a.
InLoop == Straight \cup {Set("a", "+", X("i")), Set("a", "%", X("i")), Let("a", N(7))}

\* One or two statements; a name is declared once.
Bodies(S) ==
    { b \in [1..1 -> S] \cup [1..2 -> S] :
        \A i, j \in DOMAIN b : i # j /\ b[i].k = "let" => b[i] # b[j] }

Loops(S) ==
    UNION { { For("i", X("n"), FALSE, body), For("i", X("n"), TRUE, body) } : body \in Bodies(S) }

Whiles ==
    { Whilst(Bin(X("a"), "<", X("n")), body) : body \in Bodies(Straight) }

Nested ==
    { For("_", N(2), FALSE, <<For("i", X("n"), FALSE, <<Set("a", "+", X("i"))>>), s>>)
        : s \in Straight }

\* func f(n) { var a = 0; stmts; return a }, and constants that call it.
Calling(stmts, n) ==
    [funcs |-> ("f" :> [params |-> <<"n">>,
                        body |-> Block(<<Let("a", N(0))>> \o stmts \o <<Ret(X("a"))>>)]),
     consts |-> <<Const("A", "Int", Call("f", <<N(n)>>)),
                  Const("B", "Bool", Bin(X("A"), "==", Bin(X("A"), "*", X("A"))))>>,
     nat |-> FALSE]

LoopUnits == { Calling(<<s>>, n) : s \in Loops(InLoop) \cup Whiles \cup Nested, n \in {0, 2, 4} }
StraightUnits == { Calling(<<s>> \o b, n) : s \in Straight \ {Let("b", X("a"))},
                                           b \in Bodies(Straight), n \in {0, 2} }

\* A loop that reuses the parameter's name, which is read after it.
ReuseUnits ==
    { Calling(<<For("n", N(h), TRUE, body), Set("a", "+", X("n"))>>, 2)
        : h \in 0..3, body \in Bodies(Straight) }
JumpUnits == { Calling(<<s>>, n) : s \in Loops(Adds \cup Jumps), n \in {2, 3} }

\* Vectors: a slot written, read, walked, and an index out of bounds.
VectorUnits ==
    { [funcs |-> ("f" :> [params |-> <<"n">>, body |-> Block(<<
           LetVec("v", init), SetAt("v", X("n"), op, e), Let("a", N(0)),
           Each("x", X("v"), <<Set("a", "+", X("x")), SetAt("v", N(0), "=", X("a"))>>),
           Do(Bin(X("a"), "+", At("v", X("n"))))>>)]),
       consts |-> <<Const("A", "Int", Call("f", <<N(n)>>))>>, nat |-> FALSE]
      : init \in {[k |-> "zero"], [k |-> "vec", els |-> <<N(1), N(2)>>]}, op \in {"=", "+", "/"},
        e \in {N(3), At("v", N(1)), Un("length", X("v"))}, n \in 0..2 }

\* Recursion up to and past MaxDepth.
DepthUnits ==
    { [funcs |-> ("f" :> [params |-> <<"n">>, body |-> Block(<<
           Do(If(Bin(X("n"), "==", N(0)), <<Ret(N(0))>>)), s>>)]),
       consts |-> <<Const("A", "Int", Call("f", <<N(n)>>))>>, nat |-> FALSE]
      : n \in 0..5, s \in { Ret(Bin(Call("f", <<Bin(X("n"), "-", N(1))>>), "+", N(1))),
                            Do(Bin(N(1), "+", Call("f", <<Bin(X("n"), "-", N(1))>>))) } }

\* Types: an unsigned constant, a conversion, a parameter, a narrow sum.
TypedUnits ==
    { [funcs |-> ("f" :> [params |-> <<"p">>, body |-> Block(<<Let("b", e1), Do(e2)>>)]),
       consts |-> <<Const("K", "UInt8", N(n)), Const("A", t, Call("f", <<a>>))>>, nat |-> TRUE]
      : n \in {2, 12},
        e1 \in {N(2), Conv("UInt8", N(2)), X("K"), Bin(X("K"), "*", X("K"))},
        e2 \in { Bin(x, op, y) : x, y \in {X("b"), X("p"), X("K")}, op \in {"==", "<", "+", "*", "/"} },
        a \in {N(2), X("K")},
        t \in {"Int", "UInt8"} }

Sample == LoopUnits \cup StraightUnits \cup ReuseUnits \cup VectorUnits \cup DepthUnits \cup TypedUnits

-----------------------------------------------------------------------------
(* Properties. *)

TypeOK ==
    /\ next \in 1..Len(unit.consts) + 1
    /\ DOMAIN env \subseteq { unit.consts[i].x : i \in 1..next - 1 }
    /\ \A x \in DOMAIN env :
          /\ env[x].kind \in {"Int", "UInt", "Bool", "Unit", "Vector"}
          /\ env[x].n \in -(2^(SlotBits - 1))..2^SlotBits - 1
    /\ marks \in Seq(SUBSET Marks) /\ Len(marks) = next - 1

\* The value a folded constant stands for.
SameValue(v, m) ==
    CASE v.kind = "Unit"   -> m.unit
      [] v.kind = "Vector" -> [i \in DOMAIN v.els |-> v.els[i].n] = [i \in DOMAIN m.els |-> m.els[i].n]
      [] OTHER             -> ~m.unit /\ m.els = <<>> /\ v.n = m.n

\* Constants 1..i all fold to what they mean, or some of them do not fold.
FoldedAsMeant(i) ==
    LET m == Meaning!ConstantsTo(unit, i) IN
    unit.consts[i].x \in DOMAIN env =>
        m.ctl = "go" /\ SameValue(env[unit.consts[i].x], m.v)

\* A constant the folder yields a value for is the value the program would
\* compute, whatever statements, loops, early returns, traps and limits its
\* evaluation meets: as long as no loop body gave up half way, no two kinds
\* were compared, no let reused the name of an enclosing scope and no number
\* left its range (what the code does then is in the README).
FoldIsMeaning ==
    \A i \in 1..next - 1 :
        LET m == Meaning!ConstantsTo(unit, i) IN
        \/ \E j \in 1..i : marks[j] \cap {"cut", "mixed"} # {}
        \/ m.st.hides \/ m.st.over
        \/ FoldedAsMeant(i)

\* A loop stopped by its cap leaves the constant to the program: no half-run
\* loop is ever a value, unless an outer loop's body was cut with it.
CapNeverFolds ==
    \A i \in 1..next - 1 :
        "cap" \in marks[i] /\ "cut" \notin marks[i] => unit.consts[i].x \notin DOMAIN env

\* "A body using either [break or continue] bails the fold cleanly instead of
\* misexecuting" (comptime.cpp): then every folded constant is what it means.
BreakBails == \A i \in 1..next - 1 : FoldedAsMeant(i)

=============================================================================
