------------------------------ MODULE MCTyping ------------------------------
(***************************************************************************)
(* The resolver on a small unit and many bodies.                           *)
(***************************************************************************)
EXTENDS TypingMeaning

-----------------------------------------------------------------------------
(* Writing types and expressions. *)

W(n) == Ty("Named", <<>>, n, 0)
WA(n, args) == Ty("Named", args, n, 0)

E(e, x, a) == [e |-> e, x |-> x, a |-> a, l |-> <<>>, t |-> <<>>]
X(x) == E("name", x, <<>>)
Atom(e) == E(e, "", <<>>)
Lit == Atom("int")
Bin(l, op, r) == E("binary", op, <<l, r>>)
Call(f, args) == E("call", "", <<X(f)>> \o args)
Make(n, args, labels) == [Call(n, args) EXCEPT !.l = labels]
MakeOf(n, types, args, labels) == [Make(n, args, labels) EXCEPT !.a[1].t = types]
Dot(x) == E("dot", x, <<>>)
DotCall(x, args) == E("call", "", <<Dot(x)>> \o args)
Of(base, x) == E("member", x, <<base>>)
Closure(x, body) == [E("closure", "", <<body>>) EXCEPT !.l = <<x>>]

Let(x, t, e) == [s |-> "let", x |-> x, t |-> t, e |-> e]
Set(x, v) == [s |-> "assign", e |-> X(x), v |-> v]
Ret(e) == [s |-> "return", e |-> e]
Do(e) == [s |-> "expr", e |-> e]
Whilst(e, body) == [s |-> "while", e |-> e, body |-> body]
For(x, e, body) == [s |-> "for", x |-> x, e |-> e, body |-> body]
Using(x, t, e, body) == [s |-> "with", x |-> x, t |-> t, e |-> e, body |-> body]

-----------------------------------------------------------------------------
(* The unit. *)

G(n) == [n |-> n, const |-> FALSE, bounds |-> {}]
Bounded(n, p) == [n |-> n, const |-> FALSE, bounds |-> {p}]
Const(n) == [n |-> n, const |-> TRUE, bounds |-> {}]

MCDecls ==
    LET Field(n, t) == [n |-> n, type |-> t, embed |-> FALSE]
        Case(n, payload) == [n |-> n, payload |-> payload]
        Type(kind, generics, fields, cases, derives) ==
            [kind |-> kind, generics |-> generics, fields |-> fields, cases |-> cases,
             underlying |-> Prim("Int64"), derives |-> derives]
    IN
    [ Point |-> Type("Struct", <<>>, <<Field("x", W("Int32"))>>, <<>>, {}),
      Key   |-> Type("Struct", <<>>, <<Field("at", W("Point")),
                    [n |-> "at", type |-> W("Point"), embed |-> TRUE]>>, <<>>, {"Eq", "Default"}),
      Pair  |-> Type("Struct", <<G("T")>>, <<Field("lo", W("T")), Field("hi", W("T"))>>, <<>>, {}),
      Buf   |-> Type("Struct", <<G("T"), Const("N")>>,
                     <<Field("data", SymbolicVector("N", W("T")))>>, <<>>, {}),
      Opt   |-> Type("Enum", <<G("T")>>, <<>>, <<Case("none", <<>>), Case("full", <<W("T")>>)>>, {}),
      Either |-> Type("Enum", <<G("A"), G("B")>>, <<>>,
                     <<Case("left", <<W("A")>>), Case("right", <<W("B")>>)>>, {}),
      Id    |-> Type("Opaque", <<>>, <<>>, <<>>, {}) ]

MCFuncs ==
    LET F(generics, params, result) ==
            [generics |-> generics, params |-> params, result |-> result, throws |-> NoType]
    IN
    [ identity |-> F(<<G("T")>>, <<W("T")>>, W("T")),
      pick     |-> F(<<G("T")>>, <<W("T"), W("T")>>, W("T")),
      first    |-> F(<<G("T"), G("U")>>, <<W("T"), W("U")>>, W("T")),
      orElse   |-> F(<<G("T")>>, <<Optional(W("T")), W("T")>>, W("T")),
      swap     |-> F(<<G("T"), G("U")>>, <<Tuple(<<W("T"), W("U")>>)>>, Tuple(<<W("U"), W("T")>>)),
      pair     |-> F(<<G("T")>>, <<W("T")>>, WA("Pair", <<W("T")>>)),
      lo       |-> F(<<G("T")>>, <<WA("Pair", <<W("T")>>)>>, W("T")),
      head     |-> F(<<G("T"), Const("N")>>, <<SymbolicVector("N", W("T"))>>, W("T")),
      same     |-> F(<<Bounded("T", "Eq")>>, <<W("T"), W("T")>>, W("Bool")),
      apply    |-> F(<<G("T")>>, <<Function(<<W("T")>>, W("T")), W("T")>>, W("T")),
      make     |-> F(<<G("T")>>, <<>>, W("T")),
      size     |-> F(<<>>, <<W("Str")>>, W("Int")),
      total    |-> F(<<>>, <<WA("Span", <<W("Int32")>>)>>, W("Int32")),
      load     |-> [F(<<>>, <<W("Int32")>>, W("Int64")) EXCEPT !.throws = W("Point")] ]

Int32 == Prim("Int32")
MCUniverse ==
    { Int32, Prim("Int64"), Prim("Int"), Bool, Prim("Str"), Prim("StrConst"), Prim("String"),
      Optional(Int32), Nominal("Struct", "Point", <<>>), Nominal("Struct", "Key", <<>>),
      Nominal("Struct", "Pair", <<Int32>>), Nominal("Enum", "Opt", <<Int32>>), Tuple(<<Int32, Bool>>), Vector(2, Int32),
      Function(<<Int32>>, Int32), GenericParam("T") }

\* Types first; a function before a type it names; a type between the two.
Early == <<"Point", "Key", "Pair", "Buf", "Opt", "Either", "Id">>
Fns == <<"identity", "pick", "first", "orElse", "swap", "pair", "lo", "head", "same", "apply",
         "make", "size", "total", "load">>
Others == { <<"load", "lo">> \o Early, <<"Point", "load", "pair">> \o Early,
            <<"Pair", "size", "pair", "Point", "load">> }

-----------------------------------------------------------------------------
(* Bodies. *)

P(n, t) == [n |-> n, t |-> t]
Params == << P("k", W("Int32")), P("w", W("Int64")), P("i", W("Int")), P("b", W("Bool")),
             P("s", W("Str")), P("z", W("String")), P("o", Optional(W("Int32"))),
             P("p", WA("Pair", <<W("Int32")>>)), P("q", W("Point")), P("y", W("Key")),
             P("t", Tuple(<<W("Int32"), W("Bool")>>)), P("v", Vector(2, W("Int32"))),
             P("d", W("Id")), P("f", Function(<<W("Int32")>>, W("Int32"))) >>

Names == {X(Params[i].n) : i \in DOMAIN Params}
Few == {X("k"), X("i"), X("o"), X("t"), Lit, Atom("nil"), Atom("str")}

Ones == {"identity", "swap", "pair", "lo", "head", "size", "total"}
Twos == {"pick", "first", "orElse", "same"}

Flat == { Call(f, <<a>>) : f \in Ones, a \in Names \cup Few }
          \cup { Call(f, <<a, b>>) : f \in Twos, a \in Few \cup {X("w"), X("y"), X("q")}, b \in Few \cup {X("y")} }

Inside == { Call(f, <<a>>) : f \in {"identity", "pair"}, a \in {X("k"), Lit, X("o")} }
            \cup { Call("pick", <<X("k"), Lit>>), Make("Pair", <<Lit, Lit>>, <<"lo", "hi">>) }

Nested == { Call(f, <<a>>) : f \in {"identity", "lo", "head"}, a \in Inside }
            \cup { Call(f, <<a, b>>) : f \in Twos, a \in {X("k"), Lit}, b \in Inside }

Made == { Make("Pair", <<a, b>>, l) : a, b \in {X("k"), X("i"), Lit, X("o")},
                                      l \in {<<"lo", "hi">>, <<"hi", "lo">>, <<"lo", "no">>} }
          \cup { MakeOf("Pair", <<t>>, <<Lit, X("k")>>, <<"lo", "hi">>) : t \in {W("Int"), W("Int32")} }
          \cup { Make("Buf", <<a>>, <<"data">>) : a \in {X("v"), X("k")} }
          \cup { Make("Key", <<X("q")>>, <<"at">>), Make("Key", <<>>, <<>>) }
          \cup { DotCall(x, <<a>>) : x \in {"full", "left", "none"}, a \in {X("k"), Lit, X("b")} }
          \cup { E("call", "", <<Of(X(n), x), a>>) :
                    n \in {"Opt", "Either"}, x \in {"full", "left"}, a \in {X("k"), Lit} }
          \cup { Dot("none"), Of(X("Opt"), "none"), Dot("absent") }

Operands == {X("k"), X("w"), X("i"), X("b"), X("v"), Lit, Atom("bool")}
Operators == { Bin(l, op, r) : l, r \in Operands, op \in {"+", "&", "<", "&&"} }
               \cup { Bin(l, "??", r) : l \in {X("o"), X("k"), Atom("nil")}, r \in {Lit, X("k"), X("w")} }
               \cup { E("unary", op, <<a>>) : op \in {"-", "!", "~", "?"}, a \in Operands \cup {X("o")} }
               \cup { Bin(E("unary", "-", <<Lit>>), "+", X("k")), Bin(Bin(X("i"), "+", Lit), "+", X("k")) }

Shapes == { E("tuple", "", <<a, b>>) : a \in Few, b \in {Lit, X("b"), Call("identity", <<X("k")>>)} }
            \cup { E("vector", "", <<a, b>>) : a, b \in {Lit, X("k"), X("b")} }
            \cup { E("if", "", <<a, b, c>>) : a \in {X("b"), X("k")}, b, c \in {Lit, X("k"), X("o"), Atom("nil")} }
            \cup { E("if", "", <<X("b"), E("throw", "", <<X("q")>>), b>>) : b \in {Lit, X("k")} }
            \cup { E("iflet", "n", <<a, X("n"), b>>) : a \in {X("o"), X("k")}, b \in {Lit, X("k")} }
            \cup { E("try", x, <<a>>) : x \in {"try", "try?", "try!"},
                                        a \in {Call("load", <<Lit>>), X("o")} }
            \cup { E("index", "", <<a, b>>) : a \in {X("v"), X("k")}, b \in {Lit, X("b")} }
            \cup { Of(X(a), x) : a \in {"p", "q", "y", "d", "v"}, x \in {"lo", "x", "at", "value", "length"} }
            \cup { [Of(X("o"), "x") EXCEPT !.l = <<"?">>], X("nowhere"), Atom("float") }
            \cup { Call("apply", <<c, a>>) : c \in {X("f"), Closure("n", Bin(X("n"), "+", Lit)),
                                                   Closure("n", X("b"))}, a \in {X("k"), Lit} }
            \cup { Call("f", <<a>>) : a \in {X("k"), Lit, X("w")} }
            \cup { Call("make", <<>>), Call("k", <<Lit>>), Call("identity", <<>>), Call("total", <<X("v")>>),
                   Call("Float64", <<X("d")>>), Call("Int32", <<X("b")>>),
                   E("await", "", <<E("spawn", "", <<Call("identity", <<X("k")>>)>>)>>),
                   E("spawn", "", <<Call("total", <<X("v")>>)>>) }

Slots == { NoType, W("Int32"), W("Int64"), Optional(W("Int32")), W("String"),
           WA("Pair", <<W("Int32")>>), WA("Opt", <<W("Int32")>>), W("Foo") }

Body(generics, params, result, throws, body) ==
    [generics |-> generics, params |-> params, result |-> result, throws |-> throws, body |-> body]

Short == { Body(<<>>, Params, W("Int32"), W("Point"), <<Let("r", t, e)>>) :
             e \in Flat \cup Nested \cup Made \cup Operators \cup Shapes, t \in Slots }

\* Longer bodies: scopes, loops, assignments and returns.
Inner1 == { Let("k", NoType, X("b")), Let("r", W("Int64"), Call("identity", <<X("w")>>)),
            Set("i", X("k")), Set("i", X("w")), Do(X("n")), Ret(X("k")) }
Loops(body) == { Whilst(Bin(X("k"), "<", Lit), body), Whilst(X("k"), body),
                 For("n", Bin(Lit, "..<", X("k")), body), For("n", X("v"), body),
                 Using("n", W("Int64"), Lit, body), Using("n", NoType, X("o"), body) }
Ends == { Do(Call("pick", <<X("k"), Lit>>)), Do(X("b")), Ret(X("o")), Let("n", NoType, Lit) }

Long == { Body(<<>>, Params, W("Int32"), NoType, <<l, e>>) :
            l \in UNION {Loops(<<a, b>>) : a, b \in Inner1}, e \in Ends }

\* A generic function: its own parameter is a type like any other inside it.
Rigid == { Body(<<G("T")>>, <<P("x", W("T")), P("g", Function(<<W("T")>>, W("T"))), P("k", W("Int32")),
                              P("m", SymbolicVector("N", W("T")))>>, W("T"), NoType,
                <<Let("r", NoType, e), Do(X("r"))>>) :
             e \in { X("x"), Call("identity", <<X("x")>>), Call("pick", <<X("x"), X("x")>>),
                     Call("pick", <<X("x"), X("k")>>), Call("g", <<X("x")>>), Call("g", <<X("k")>>),
                     Call("pair", <<X("x")>>), Call("head", <<X("m")>>), Call("same", <<X("x"), X("x")>>) } }

MCCheckees == { <<Early \o Fns, f>> : f \in Short \cup Long \cup Rigid }
                 \cup { <<order, f>> : order \in Others, f \in Rigid }
=============================================================================
