---------------------------- MODULE TypingMeaning ----------------------------
(***************************************************************************)
(* What the resolver's checks promise, without expectations, bindings or   *)
(* an order: the set of types an expression may be given.  A generic call  *)
(* may be any instance of its function.  Only the relations on types are   *)
(* shared with the resolver.                                               *)
(***************************************************************************)
EXTENDS Typing

CONSTANTS
    Universe,   \* the types a type parameter may stand for
    Lengths     \* the lengths a const parameter may stand for

\* Every way to instantiate a sequence of generics with those types and others.
InstancesWith(generics, others) ==
    { b \in [{generics[i].n : i \in DOMAIN generics} ->
                Universe \cup others \cup {ConstValue(n) : n \in Lengths}] :
        \A i \in DOMAIN generics : generics[i].const <=> b[generics[i].n].k = "ConstValue" }

Instances(generics) == InstancesWith(generics, {})

Arguments(generics, b) == [i \in DOMAIN generics |-> b[generics[i].n]]

\* What a member of a declaration is under an instance, read where it is declared.
MemberAt(n, written, b, c) ==
    Substitute(ReadType(written, BindGenerics(SubSeq(c.sc, 1, 1), Decls[n].generics, <<>>)).t, b)

Enums == {n \in DOMAIN Decls : Decls[n].kind = "Enum"}

\* The constructors of a case x of the enum n: function types, or values.
Cases(n, x, c) ==
    { LET case == CHOOSE k \in Range(Decls[n].cases) : k.n = x
          enum == Nominal("Enum", n, Arguments(Decls[n].generics, b))
      IN  IF case.payload = <<>> THEN enum
          ELSE Function([i \in DOMAIN case.payload |-> MemberAt(n, case.payload[i], b, c)], enum)
      : b \in IF \E k \in Range(Decls[n].cases) : k.n = x
              THEN Instances(Decls[n].generics) ELSE {} }

\* A branch that never ends with a value may have any type.
Joined(ss, ts) ==
    (ss \cap ts) \cup (IF Never \in ss THEN ts ELSE {}) \cup (IF Never \in ts THEN ss ELSE {})

RECURSIVE Typings(_, _)

\* Some type the expression may have fits t.
MayBe(e, t, c) == \E s \in Typings(e, c) : Assignable(s, t) \/ ReadBorrowsAs(s, t)
MayFill(e, t, c) == \E s \in Typings(e, c) : Assignable(s, t)

Constructions(n, args, labels, c) ==
    { Nominal("Struct", n, Arguments(Decls[n].generics, b)) :
        b \in { b \in Instances(Decls[n].generics) :
                  \A j \in DOMAIN args : \E i \in DOMAIN Columns(n) :
                      /\ Columns(n)[i].n = labels[j]
                      /\ MayFill(args[j], MemberAt(n, Columns(n)[i].type, b, c), c) } }

\* The types a callee may have where the arguments may have the types others.
Callees(callee, others, c) ==
    LET sym == IF callee.e = "name" THEN LookUp(c.sc, callee.x) ELSE NoSymbol
    IN  IF sym.s = "Func"
        THEN { Substitute(sym.t, b) : b \in { b \in InstancesWith(Funcs[callee.x].generics, others) :
                                                 BoundsHold(Funcs[callee.x].generics, b) } }
        ELSE Typings(callee, c)

Calls(callee, args, c) ==
    { Returned(f) : f \in { f \in Callees(callee, UNION {Typings(args[i], c) : i \in DOMAIN args}, c) :
        /\ f.k = "Function" /\ Len(ParamsOf(f)) = Len(args)
        /\ \A i \in DOMAIN args : MayBe(args[i], f.a[i], c) } }

Typings(e, c) ==
    LET A(i) == Typings(e.a[i], c)
        sym == LookUp(c.sc, e.x)
        enum == IF e.e = "member" /\ e.a[1].e = "name" THEN LookUp(c.sc, e.a[1].x) ELSE NoSymbol
        callee == IF e.e = "call" THEN e.a[1] ELSE e
        struct == IF callee.e = "name" THEN LookUp(c.sc, callee.x) ELSE NoSymbol
    IN  CASE e.e = "int"    -> {t \in Universe : t.k \in Integer} \cup {Prim("Int")}
          [] e.e = "float"  -> {t \in Universe : t.k \in Float} \cup {Prim("Float64")}
          [] e.e = "bool"   -> {Bool}
          [] e.e = "str"    -> {Prim("StrConst")}
          [] e.e = "nil"    -> {Optional(t) : t \in Universe \cup {Never}}
          [] e.e = "name"   -> {sym.t}
          [] e.e = "tuple"  -> {Tuple(<<s, t>>) : s \in A(1), t \in A(2)}
          [] e.e = "vector" ->
                {Vector(Len(e.a), t) : t \in {t \in Universe \cup A(1) :
                                                 \A i \in DOMAIN e.a : MayFill(e.a[i], t, c)}}
          [] e.e = "unary"  -> {UnaryType(e.x, t) : t \in A(1)} \ {NoType}
          [] e.e = "binary" /\ e.x = "??" ->
                {Inner(t) : t \in {t \in A(1) : t.k = "Optional" /\ MayFill(e.a[2], Inner(t), c)}}
          [] e.e = "binary" -> {BinaryType(e.x, s, t) : s \in A(1), t \in A(2)} \ {NoType}
          [] e.e = "if"     -> IF MayFill(e.a[1], Bool, c) THEN Joined(A(2), A(3)) ELSE {}
          [] e.e = "iflet"  ->
                UNION {Joined(Typings(e.a[2], Local(c, e.x, Inner(t))), A(3)) :
                          t \in {t \in A(1) : t.k = "Optional"}}
          [] e.e = "closure" ->
                UNION {{Function(<<s>>, t) : t \in Typings(e.a[1], Local(c, e.l[1], s))} :
                          s \in Universe}
          [] e.e = "try"    ->
                {IF e.x = "try?" THEN Optional(t.a[1]) ELSE t.a[1] :
                    t \in {t \in A(1) : t.k = "Result" /\
                              (e.x = "try" => c.throws # NoType /\ Assignable(t.a[2], c.throws))}}
          [] e.e = "throw"  -> IF MayFill(e.a[1], c.throws, c) THEN {Never} ELSE {}
          [] e.e = "index"  -> {Inner(t) : t \in {t \in A(1) : t.k \in Indexable}}
          [] e.e = "member" -> IF enum.s = "Enum" THEN Cases(enum.t.n, e.x, c)
                               ELSE {Access(Got(t, TRUE), e.x, e.l # <<>>, c.sc).t : t \in A(1)}
          [] e.e = "dot"    -> UNION {Cases(n, e.x, c) : n \in Enums}
          [] e.e = "spawn"  -> {Wrap("Future", t) : t \in A(1)}
          [] e.e = "await"  -> {IF t.k = "Future" THEN Inner(t) ELSE t : t \in A(1)}
          [] e.e = "call" /\ callee.e = "name" /\ callee.x \in Numeric -> {Prim(callee.x)}
          [] e.e = "call" /\ struct.s = "Struct" -> Constructions(struct.t.n, Tail(e.a), e.l, c)
          [] e.e = "call"   -> Calls(callee, Tail(e.a), c)

-----------------------------------------------------------------------------
(* Where the resolver knowingly asks less: a literal whose element type is *)
(* taken from its first element, a case that leaves a parameter of its     *)
(* enum open, and a function value whose type mentions a type parameter.   *)

RECURSIVE Lenient(_, _)
Lenient(e, c) ==
    LET f == IF e.e = "call" THEN e.a[1] ELSE e
        sym == IF f.e = "name" THEN LookUp(c.sc, f.x) ELSE NoSymbol
    IN  \/ e.e = "vector"
        \/ f.e \in {"dot", "member"} /\ \E n \in Enums : Len(Decls[n].generics) > 1
              /\ \E k \in Range(Decls[n].cases) : k.n = f.x
        \/ sym.s = "Value" /\ sym.t.k = "Function"
              /\ \E i \in DOMAIN sym.t.a : sym.t.a[i].k = "GenericParam"
        \/ \E i \in DOMAIN e.a : Lenient(e.a[i], c)

-----------------------------------------------------------------------------
(* Properties. *)

\* check_expr: while nothing was reported, every expression checked has the type
\* it was given under some instance of every generic it calls, whatever was
\* expected of it and in whatever order its arguments were looked at.
AcceptedIsTyped ==
    ok /\ last # NoCheck /\ ~Lenient(last.e, last.c) => last.t \in Typings(last.e, last.c)

\* The parameters unify_generic can bind from an argument of type p.
RECURSIVE Inferred(_)
Inferred(p) ==
    CASE p.k = "GenericParam"  -> {p.n}
      [] p.k = "Vector"        -> Inferred(Inner(p)) \cup ({p.n} \ {""})
      [] p.k \in {"Optional", "Tuple", "Struct", "Enum"} ->
            UNION {Inferred(p.a[i]) : i \in DOMAIN p.a}
      [] OTHER                 -> {}

\* The last check was of a call of a declared function, and b makes the types
\* its arguments have by themselves exactly those of its parameters.
Exactly(b) ==
    LET f == LookUp(last.c.sc, last.e.a[1].x).t
        args == Tail(last.e.a)
    IN  /\ Len(args) = Len(ParamsOf(f))
        /\ DOMAIN b = UNION {Inferred(f.a[i]) : i \in DOMAIN args}
        /\ \A i \in DOMAIN args :
              Check(args[i], NoType, last.c) = Got(Substitute(f.a[i], b), TRUE)
        /\ last.exp \in {NoType, Substitute(Returned(f), b)}

IsCall(e, c) == e.e = "call" /\ e.a[1].e = "name" /\ LookUp(c.sc, e.a[1].x).s = "Func"

Evident(names) ==
    \A b \in Instances(Funcs[last.e.a[1].x].generics) :
        /\ \A i \in 2..Len(last.e.a) : last.e.a[i].e \in names
        /\ BoundsHold(Funcs[last.e.a[1].x].generics, b)
        /\ Exactly(b)
        => last.ok /\ last.t = Substitute(Returned(LookUp(last.c.sc, last.e.a[1].x).t), b)

\* unify_generic: a call of names whose types are those of an instance of the
\* function is accepted, and has that instance's result.
GenericsInferred == IsCall(last.e, last.c) => Evident({"name"})

\* README.md:238: "At each call site, types are inferred by unifying parameter
\* types against argument types" - of an argument that is itself a call too.
NestedCallsInfer == IsCall(last.e, last.c) => Evident({"name", "call"})

\* collect_func: a signature that was read without a report, from the names
\* there were then, reads the same once every name is there.
SignaturesStable ==
    pending = <<>> /\ ok =>
        \A f \in DOMAIN Funcs \cap DOMAIN scopes[1] :
            scopes[1][f].t = TypeOfFunc(Funcs[f], SubSeq(scopes, 1, 1)).t
=============================================================================
