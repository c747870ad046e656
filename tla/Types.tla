------------------------------- MODULE Types -------------------------------
(***************************************************************************)
(* Types and the relations the resolver keeps between them: TypeArena      *)
(* (src/src/sema/types.cpp), generic unification and conformance           *)
(* (src/src/sema/resolver_generics.cpp), scopes (src/src/sema/scope.cpp)   *)
(* and the reading of a written type (src/src/sema/resolver_types.cpp).    *)
(*                                                                         *)
(* A type is a record: k its kind, a its inner types, parts and result in  *)
(* order, n the name of a nominal, of a parameter or of a symbolic length, *)
(* len a length.  A written type has the same shape, with k = "Named" for  *)
(* a path.  Imported modules and target features are not modelled.         *)
(***************************************************************************)
EXTENDS Integers, Sequences, FiniteSets, SequencesExt

CONSTANTS
    Decls   \* the unit's structs, enums and opaques by name: [kind, generics,
            \* fields, cases, underlying, derives]; a generic is [n, const, bounds]

-----------------------------------------------------------------------------
(* Making types. *)

Ty(k, a, n, len) == [k |-> k, a |-> a, n |-> n, len |-> len]

Signed == {"Int", "Int8", "Int16", "Int32", "Int64", "Int128"}
Unsigned == {"UInt", "UInt8", "UInt16", "UInt32", "UInt64", "UInt128"}
Integer == Signed \cup Unsigned
Float == {"Float32", "Float64"}
Numeric == Integer \cup Float
Stringy == {"StrConst", "Str", "String"}
Primitive == Numeric \cup Stringy \cup {"Bool", "Char", "Unit"}
PrimitiveNames == Primitive \cup {"Duration", "Expr", "Decl", "Never"}

\* Wrappers with one argument; those in Cells take a primitive only.
Cells == {"MmioView", "MmioRegion", "MmioWireView", "Atomic"}
Wrappers == Cells \cup {"Box", "Future", "Channel", "Vec", "Soa", "Span", "MutSpan",
                        "Ptr", "MutPtr", "PerCpu", "Padded"}

Prim(k) == Ty(k, <<>>, "", 0)
Wrap(k, t) == Ty(k, <<t>>, "", 0)
Optional(t) == Wrap("Optional", t)
Vector(len, t) == Ty("Vector", <<t>>, "", len)
SymbolicVector(n, t) == Ty("Vector", <<t>>, n, 0)
ConstValue(len) == Ty("ConstValue", <<>>, "", len)
Function(params, result) == Ty("Function", Append(params, result), "", 0)
Tuple(parts) == Ty("Tuple", parts, "", 0)
ResultOf(ok, err) == Ty("Result", <<ok, err>>, "", 0)
Nominal(k, n, args) == Ty(k, args, n, 0)
GenericParam(n) == Ty("GenericParam", <<>>, n, 0)

Error == Prim("Error")
Never == Prim("Never")
Unit == Prim("Unit")
Bool == Prim("Bool")

\* The null TypePtr: no type is expected.
NoType == Prim("None")

Inner(t) == t.a[1]
ParamsOf(f) == Front(f.a)
Returned(f) == Last(f.a)

-----------------------------------------------------------------------------
(* Equality, conversion, substitution. *)

Nominals == {"Struct", "Enum", "Protocol", "Opaque", "GenericParam"}

EqualHeads(a, b) ==
    CASE a.k = "Vector"     -> a.n = b.n /\ a.len = b.len
      [] a.k \in Nominals   -> a.n = b.n
      [] a.k = "ConstValue" -> a.len = b.len
      [] OTHER              -> TRUE

RECURSIVE Equal(_, _)
Equal(a, b) ==
    /\ a.k = b.k
    /\ EqualHeads(a, b)
    /\ Len(a.a) = Len(b.a)
    /\ \A i \in DOMAIN a.a : Equal(a.a[i], b.a[i])

\* One of two integers has the natural width and both have the same sign.
Widens(from, to) ==
    /\ {from.k, to.k} \cap {"Int", "UInt"} # {}
    /\ {from.k, to.k} \subseteq Signed \/ {from.k, to.k} \subseteq Unsigned

Views(from, to) ==
    \/ to.k = "Span" /\ from.k \in {"Vector", "MutSpan"} /\ Equal(Inner(from), Inner(to))
    \/ to.k = "MutSpan" /\ from.k = "Vector" /\ Equal(Inner(from), Inner(to))

Handles(from, to) ==
    /\ to.k = "InterruptHandler" /\ from.k = "Function"
    /\ Len(from.a) = 2 /\ Returned(from) = Unit /\ Equal(from.a[1], Inner(to))

Rank(t) == CASE t.k = "StrConst" -> 0 [] t.k = "Str" -> 1 [] t.k = "String" -> 2

WidensText(from, to) ==
    from.k \in Stringy /\ to.k \in Stringy /\ Rank(from) <= Rank(to)

RECURSIVE Assignable(_, _)
Assignable(from, to) ==
    \/ NoType \in {from, to} \/ Error \in {from, to} \/ from = Never
    \/ Widens(from, to)
    \/ to.k = "Optional" /\ from = Optional(Never)
    \/ to.k = "Optional" /\ from.k # "Optional" /\ Assignable(from, Inner(to))
    \/ Views(from, to)
    \/ to.k = "Atomic" /\ Assignable(from, Inner(to))
    \/ Handles(from, to)
    \/ WidensText(from, to)
    \/ Equal(from, to)

\* A String argument is lent to a Str parameter for the length of the call.
ReadBorrowsAs(arg, param) == arg.k = "String" /\ param.k = "Str"

\* b binds names of generic parameters to types.
RECURSIVE Substitute(_, _)
Substitute(t, b) ==
    LET inner == [t EXCEPT !.a = [i \in DOMAIN @ |-> Substitute(@[i], b)]]
    IN  IF t.k = "GenericParam" THEN IF t.n \in DOMAIN b THEN b[t.n] ELSE t
        ELSE IF t.k = "Vector" /\ t.n \in DOMAIN b /\ b[t.n].k = "ConstValue"
        THEN Vector(b[t.n].len, Inner(inner))
        ELSE inner

-----------------------------------------------------------------------------
(* Unification: u is [b, ok], the bindings so far and no error reported. *)

NoBindings == [b |-> [x \in {} |-> Error], ok |-> TRUE]

BindOnce(u, name, t) ==                     \* variant: a second binding is an error
    [u EXCEPT !.b = (name :> t) @@ @, !.ok = @ /\ name \notin DOMAIN u.b]
Bind(u, name, t) ==
    IF name \notin DOMAIN u.b THEN [u EXCEPT !.b = (name :> t) @@ @]
    ELSE [u EXCEPT !.ok = @ /\ (Equal(u.b[name], t) \/ t = Error)]

RECURSIVE Unify(_, _, _)
UnifyAll(ps, ts, u) ==
    FoldLeft(LAMBDA v, i : Unify(ps[i], ts[i], v), u, [i \in DOMAIN ps |-> i])

Unify(p, t, u) ==
    CASE NoType \in {p, t}                               -> u
      [] p.k = "GenericParam"                            -> Bind(u, p.n, t)
      [] p.k = "Optional" /\ t.k = "Optional"            -> Unify(Inner(p), Inner(t), u)
      [] p.k = "Vector" /\ t.k = "Vector"                ->
            LET v == Unify(Inner(p), Inner(t), u)
            IN  IF p.n = "" THEN v ELSE Bind(v, p.n, ConstValue(t.len))
      [] /\ p.k \in {"Tuple", "Struct", "Enum"} /\ t.k = p.k
         /\ t.n = p.n /\ Len(t.a) = Len(p.a)             -> UnifyAll(p.a, t.a, u)
      [] OTHER                                           -> u

-----------------------------------------------------------------------------
(* Conformance, by name of the protocol, and the bounds of generics. *)

Derives(t, protocol) == protocol \in Decls[t.n].derives

RECURSIVE DisplayConformant(_)
DisplayConformant(t) ==
    CASE t = Error \/ t.k \in Primitive         -> TRUE
      [] t.k \in {"Vector", "Optional"}         -> DisplayConformant(Inner(t))
      [] t.k \in {"Struct", "Enum", "Opaque"}   -> Derives(t, "Display") \/ Derives(t, "Debug")
      [] OTHER                                  -> FALSE

RECURSIVE DefaultConformant(_)
DefaultConformant(t) ==
    CASE t.k \in (Numeric \cup {"Bool", "Char", "Str", "Optional", "GenericParam"}) -> TRUE
      [] t.k \in {"Vector", "Tuple"} -> \A i \in DOMAIN t.a : DefaultConformant(t.a[i])
      [] t.k = "Struct"              -> Derives(t, "Default")
      [] t.k = "Opaque"              -> /\ Derives(t, "Default")
                                        /\ DefaultConformant(Decls[t.n].underlying)
      [] OTHER                       -> FALSE

Structural == {"Eq", "Hash", "Debug", "Clone"}

RECURSIVE Satisfies(_, _)
Satisfies(t, protocol) ==
    CASE t = Error \/ t.k = "GenericParam" -> TRUE
      [] protocol = "Display"   -> DisplayConformant(t)
      [] protocol = "Default"   -> DefaultConformant(t)
      [] protocol \in Structural /\ t.k \in Primitive -> TRUE
      [] protocol \in Structural /\ t.k \in {"Optional", "Vector", "Tuple"} ->
            \A i \in DOMAIN t.a : Satisfies(t.a[i], protocol)
      [] protocol \in Structural -> t.k \in {"Struct", "Enum", "Opaque"} /\ Derives(t, protocol)
      [] protocol \in {"Comparable", "Ordered"} ->
            t.k \in Numeric \cup Stringy \cup {"Char"}
      [] OTHER -> TRUE

BoundsHold(generics, b) ==
    \A i \in DOMAIN generics :
        ~generics[i].const /\ generics[i].n \in DOMAIN b
            => \A p \in generics[i].bounds : Satisfies(b[generics[i].n], p)

-----------------------------------------------------------------------------
(* Scopes: a stack, innermost last, of functions from names to symbols.  A *)
(* symbol is [s, t]: what declared the name, and its type.                 *)

Symbol(s, t) == [s |-> s, t |-> t]
NoSymbol == Symbol("None", NoType)
EmptyScope == [x \in {} |-> NoSymbol]

Push(scopes) == Append(scopes, EmptyScope)
Pop(scopes) == Front(scopes)

LookUp(scopes, x) ==
    LET holding == {i \in DOMAIN scopes : x \in DOMAIN scopes[i]}
    IN  IF holding = {} THEN NoSymbol
        ELSE scopes[CHOOSE i \in holding : \A j \in holding : j <= i][x]

\* The first declaration of a name in a scope stays; Declares tells a second.
Declares(scopes, x) == x \in DOMAIN Last(scopes)
Insert(scopes, x, symbol) ==
    IF Declares(scopes, x) THEN scopes
    ELSE Append(Front(scopes), (x :> symbol) @@ Last(scopes))

BindGenerics(scopes, generics, args) ==
    FoldLeft(LAMBDA sc, i : Insert(sc, generics[i].n, Symbol("Generic",
                 IF i <= Len(args) THEN args[i] ELSE GenericParam(generics[i].n))),
             Push(scopes), [i \in DOMAIN generics |-> i])

-----------------------------------------------------------------------------
(* Reading a written type in a scope: [t, ok]. *)

Read(t, ok) == [t |-> t, ok |-> ok]

RECURSIVE ReadType(_, _)
ReadAll(ts, scopes) ==
    LET All(rs) == [ts |-> [i \in DOMAIN rs |-> rs[i].t], ok |-> \A i \in DOMAIN rs : rs[i].ok]
    IN  All([i \in DOMAIN ts |-> ReadType(ts[i], scopes)])

\* Type arguments go to type parameters and constants to const parameters,
\* each kind in its own order; a parameter left without one is an error type.
Distributed(generics, args) ==
    LET consts == SelectSeq(args, LAMBDA t : t.k = "ConstValue")
        types == SelectSeq(args, LAMBDA t : t.k # "ConstValue")
        Before(i) == Cardinality({j \in 1..i : generics[j].const = generics[i].const})
        From(s, i) == IF i <= Len(s) THEN s[i] ELSE Error
    IN  [i \in DOMAIN generics |->
            From(IF generics[i].const THEN consts ELSE types, Before(i))]

ReadNominal(sym, t, scopes) ==
    LET generics == Decls[sym.t.n].generics
        Bound(args) == [x \in {generics[i].n : i \in DOMAIN generics} |->
                           args[CHOOSE i \in DOMAIN generics : generics[i].n = x]]
        Instance(args, ok) ==
            Read(Nominal(sym.s, sym.t.n, args),
                 ok /\ Len(t.a) = Len(generics) /\ BoundsHold(generics, Bound(args)))
        From(read) == Instance(Distributed(generics, read.ts), read.ok)
    IN  IF generics = <<>> \/ t.a = <<>>
        THEN Read(sym.t, generics = <<>> /\ t.a = <<>>)
        ELSE From(ReadAll(t.a, scopes))

Columns(n) == SelectSeq(Decls[n].fields, LAMBDA f : ~f.embed)

ReadWrapper(t, scopes) ==
    LET Refused(inner) ==
            CASE inner = Error -> FALSE
              [] t.n \in Cells -> inner.k \notin Primitive
              [] t.n = "Soa"   -> inner.k # "Struct" \/ inner.a # <<>> \/ Columns(inner.n) = <<>>
              [] OTHER         -> FALSE
        Of(r) == CASE ~Refused(r.t) -> Read(Wrap(t.n, r.t), r.ok)
                   [] OTHER         -> Read(IF t.n = "Soa" THEN Error ELSE Wrap(t.n, Error), FALSE)
    IN  Of(ReadType(t.a[1], scopes))

ReadNamed(t, scopes) ==
    LET Pair(both) == Read(Ty("HashMap", both.ts, "", 0), both.ok)
        Entered(sym) ==
            CASE sym.s \in {"Struct", "Enum"} -> ReadNominal(sym, t, scopes)
              [] sym = NoSymbol               -> Read(Error, FALSE)
              [] OTHER                        -> Read(sym.t, TRUE)
    IN  CASE t.n \in Wrappers /\ Len(t.a) = 1      -> ReadWrapper(t, scopes)
          [] t.n = "HashMap" /\ Len(t.a) = 2       -> Pair(ReadAll(t.a, scopes))
          [] t.n \in PrimitiveNames                -> Read(Prim(t.n), TRUE)
          [] OTHER                                 -> Entered(LookUp(scopes, t.n))

ReadType(t, scopes) ==
    LET sym == LookUp(scopes, t.n)
        Known(inner) == IF t.k = "Vector" /\ t.n # "" /\ sym.t.k = "ConstValue"
                        THEN Read(Vector(sym.t.len, inner.ts[1]), inner.ok)
                        ELSE Read([t EXCEPT !.a = inner.ts], inner.ok)
    IN  IF t.k = "Named" THEN ReadNamed(t, scopes) ELSE Known(ReadAll(t.a, scopes))
=============================================================================
