------------------------------ MODULE ExprTypes ------------------------------
(***************************************************************************)
(* The type the resolver gives an expression: Resolver::check_expr and the *)
(* functions it calls (src/src/sema/resolver_exprs.cpp, resolver_call.cpp, *)
(* resolver_members.cpp).                                                  *)
(*                                                                         *)
(* An expression is [e, x, a, l, t]: its form, a name or operator, its     *)
(* subexpressions, labels or closure parameters, and written types.  A     *)
(* check takes the expected type (NoType for none) and a context: sc, the  *)
(* scopes, and throws, the error type of the enclosing function.  It gives *)
(* [t, ok], ok when nothing was reported.  Compiler-known methods, macros, *)
(* match, do/catch, reflection and imported modules are not modelled here. *)
(***************************************************************************)
EXTENDS Types, TLC

CONSTANTS
    Funcs   \* the unit's functions by name: [generics, params, result, throws]

Got(t, ok) == [t |-> t, ok |-> ok]
Failed == Got(Error, FALSE)

Kind(t) == IF t = NoType THEN "" ELSE t.k
HintOr(hint, set, default) == IF hint.k \in set THEN hint ELSE Prim(default)
PeelOptional(t) == IF t.k = "Optional" THEN Inner(t) ELSE t

-----------------------------------------------------------------------------
(* Signatures. *)

\* A function's external type when an unknown name is not reported.
SilentTypeOfFunc(f, scopes) ==              \* variant: read as an error type
    LET sc == BindGenerics(scopes, SelectSeq(f.generics, LAMBDA g : ~g.const), <<>>)
    IN  Read(Function(ReadAll(f.params, sc).ts, ReadType(f.result, sc).t), TRUE)

\* A function's external type, read in the scopes there are so far: its own
\* parameters stay placeholders and a throws clause widens the result.
TypeOfFunc(f, scopes) ==
    LET Throwing(result, throws) ==
            IF f.throws = NoType THEN result
            ELSE Read(ResultOf(result.t, throws.t), result.ok /\ throws.ok)
        Signature(params, result) == Read(Function(params.ts, result.t), params.ok /\ result.ok)
        In(sc) == Signature(ReadAll(f.params, sc),
                            Throwing(ReadType(f.result, sc), ReadType(f.throws, sc)))
    IN  In(BindGenerics(scopes, SelectSeq(f.generics, LAMBDA g : ~g.const), <<>>))

-----------------------------------------------------------------------------
(* Members. *)

\* A member's type is read where it is used, with the owner's parameters in scope.
MemberType(n, written, args, sc) ==
    ReadType(written, IF Decls[n].generics = <<>> THEN sc
                      ELSE BindGenerics(sc, Decls[n].generics, args)).t

Placeholders(n) ==
    LET g == Decls[n].generics IN [i \in DOMAIN g |-> GenericParam(g[i].n)]

RECURSIVE FieldType(_, _, _)
FieldType(t, x, sc) ==
    LET fields == IF t.k = "Struct" THEN Decls[t.n].fields ELSE <<>>
        Typed(f) == LET ft == MemberType(t.n, f.type, t.a, sc)
                    IN  IF f.embed THEN FieldType(ft, x, sc) ELSE IF f.n = x THEN ft ELSE NoType
        First(types) == IF types = <<>> THEN NoType ELSE types[1]
        own == SelectSeq(fields, LAMBDA f : ~f.embed)
        embedded == SelectSeq(fields, LAMBDA f : f.embed)
        all == own \o embedded
    IN  First(SelectSeq([i \in DOMAIN all |-> Typed(all[i])], LAMBDA ft : ft # NoType))

Member(t, x, sc) ==
    CASE t.k = "Vector" /\ x = "length"                        -> Prim("Int")
      [] t.k = "Opaque" /\ x = "value"                         -> Decls[t.n].underlying
      [] t.k \in {"Box", "Ptr", "MutPtr", "Padded"} /\ x = "value" -> Inner(t)
      [] t.k \in {"Span", "MutSpan", "MmioRegion"} /\ x = "count"  -> Prim("Int")
      [] t.k \in {"Span", "MutSpan"} /\ x = "isEmpty"          -> Bool
      [] t.k = "Duration" /\ x \in {"nanoseconds", "microseconds", "milliseconds", "seconds"} -> Prim("Int")
      [] OTHER                                                 -> FieldType(t, x, sc)

\* base.x, and base?.x, whose result is optional at most once.
AccessTo(t, base, chained) ==
    CASE base.t = Error                             -> Got(Error, base.ok)
      [] chained /\ base.t.k # "Optional"           -> Failed
      [] t = NoType                                 -> Failed
      [] chained /\ t.k \notin {"Error", "Optional"} -> Got(Optional(t), base.ok)
      [] OTHER                                      -> Got(t, base.ok)

Access(base, x, chained, sc) ==
    AccessTo(Member(IF chained THEN Inner(base.t) ELSE base.t, x, sc), base, chained)

\* The type of a case named x: the enum itself, or a function to it.
CaseType(enum, x, sc) ==
    LET cases == SelectSeq(Decls[enum.n].cases, LAMBDA c : c.n = x)
        result == IF enum.a = <<>> THEN Nominal("Enum", enum.n, Placeholders(enum.n)) ELSE enum
    IN  IF cases = <<>> THEN NoType
        ELSE IF cases[1].payload = <<>> THEN result
        ELSE Function([i \in DOMAIN cases[1].payload |->
                          MemberType(enum.n, cases[1].payload[i], enum.a, sc)], result)

Found(t) == IF t = NoType THEN Failed ELSE Got(t, TRUE)

LeadingDot(x, exp, sc) ==
    CASE Kind(exp) = "Vector" /\ x = "zero" -> Got(exp, TRUE)
      [] Kind(exp) = "Enum"                 -> Found(CaseType(exp, x, sc))
      [] OTHER                              -> Failed

\* Without an expected instance, a case that needs no call has no arguments.
QualifiedCase(sym, x, exp, sc) ==
    LET instance == Kind(exp) = "Enum" /\ exp.n = sym.t.n /\ exp.a # <<>>
        Case(t) == IF t.k = "Enum" /\ ~instance /\ t.a # <<>> THEN Failed ELSE Found(t)
    IN  Case(CaseType(IF instance THEN exp ELSE sym.t, x, sc))

-----------------------------------------------------------------------------
(* Operators. *)

Arithmetic == {"+", "-", "*", "/", "%"}
Bitwise == {"&", "|", "^", "<<", ">>"}
Comparison == {"==", "!=", "<", "<=", ">", ">="}

Elementwise(op, l, r) ==
    IF op \in {"+", "-", "*", "/"} /\ Equal(l, r) /\ Inner(l).k \in Numeric THEN l ELSE NoType

OnDurations(op, l, r) ==
    LET both == l.k = "Duration" /\ r.k = "Duration"
        scalar == IF l.k = "Duration" THEN r ELSE l
    IN  CASE op \in {"+", "-"} -> IF both THEN l ELSE NoType
          [] op = "*" -> IF scalar.k \in Numeric THEN Prim("Duration") ELSE NoType
          [] op = "/" -> IF both THEN Prim("Float64")
                         ELSE IF l.k = "Duration" /\ r.k \in Numeric THEN l ELSE NoType
          [] op \in Comparison -> IF both THEN Bool ELSE NoType
          [] OTHER -> NoType

\* The type two operands share: a sized integer wins over a natural one.
Shared(l, r) ==
    IF Equal(l, r) THEN l
    ELSE IF {l.k, r.k} \subseteq Integer /\ (Assignable(l, r) \/ Assignable(r, l))
    THEN IF l.k \in {"Int", "UInt"} THEN r ELSE l
    ELSE NoType

BinaryType(op, l, r) ==
    CASE "Duration" \in {l.k, r.k}  -> OnDurations(op, l, r)
      [] "Vector" \in {l.k, r.k}    -> Elementwise(op, l, r)
      [] op \in {"&&", "||"}        -> IF l = Bool /\ r = Bool THEN Bool ELSE NoType
      [] op \in Arithmetic /\ l.k \notin Numeric -> NoType
      [] op \in Bitwise /\ l.k \notin Integer -> NoType
      [] OTHER -> LET Of(shared) == IF shared # NoType /\ op \in Comparison THEN Bool ELSE shared
                  IN  Of(Shared(l, r))

UnaryType(op, t) ==
    CASE op = "-" -> IF t.k \in Numeric THEN t ELSE NoType
      [] op = "!" -> IF t = Bool THEN t ELSE NoType
      [] op = "~" -> IF t.k \in Integer THEN t ELSE NoType
      [] OTHER    -> IF t.k = "Optional" THEN Inner(t) ELSE NoType

\* A result from an operation on checked operands.
Result(t, operands) ==
    IF \E i \in DOMAIN operands : operands[i].t = Error
    THEN Got(Error, \A i \in DOMAIN operands : operands[i].ok)
    ELSE IF t = NoType THEN Failed
    ELSE Got(t, \A i \in DOMAIN operands : operands[i].ok)

-----------------------------------------------------------------------------
(* Checking. *)

RECURSIVE Check(_, _, _)

With(c, scopes) == [c EXCEPT !.sc = scopes]
Local(c, x, t) == With(c, Insert(Push(c.sc), x, Symbol("Value", t)))

\* Arguments without an expected type, for their own errors only.
Plain(args, c) == \A i \in DOMAIN args : Check(args[i], NoType, c).ok

CheckTuple(e, exp, c) ==
    LET hinted == Kind(exp) = "Tuple" /\ Len(exp.a) = Len(e.a)
        rs == [i \in DOMAIN e.a |-> Check(e.a[i], IF hinted THEN exp.a[i] ELSE NoType, c)]
    IN  Got(Tuple([i \in DOMAIN rs |-> rs[i].t]), \A i \in DOMAIN rs : rs[i].ok)

\* Without an expected element type the first element gives it to the others,
\* which are not compared with it.
CheckVector(e, exp, c) ==
    LET hint == IF Kind(exp) = "Vector" THEN Inner(exp) ELSE NoType
        rs == [i \in DOMAIN e.a |-> Check(e.a[i], hint, c)]
        elem == IF hint # NoType THEN hint ELSE IF rs = <<>> THEN Error ELSE rs[1].t
    IN  Got(Vector(Len(e.a), elem), \A i \in DOMAIN rs : rs[i].ok /\ Assignable(rs[i].t, hint))

CheckCoalesce(e, exp, c) ==
    LET l == Check(e.a[1], IF exp = NoType THEN exp ELSE Optional(exp), c)
        r == Check(e.a[2], IF l.t.k = "Optional" THEN Inner(l.t) ELSE exp, c)
    IN  Result(IF l.t.k = "Optional" /\ Assignable(r.t, Inner(l.t)) THEN Inner(l.t) ELSE NoType,
               <<l, r>>)

CheckBinary(e, exp, c) ==
    LET l == Check(e.a[1], exp, c)
        r == Check(e.a[2], l.t, c)
    IN  IF e.x = "??" THEN CheckCoalesce(e, exp, c)
        ELSE Result(BinaryType(e.x, l.t, r.t), <<l, r>>)

Branches(cond, then, els) ==
    LET t == IF then.t = Never THEN els.t
             ELSE IF els.t = Never \/ Equal(then.t, els.t) THEN then.t ELSE Error
    IN  Got(t, cond.ok /\ then.ok /\ els.ok
               /\ (t = Error => Error \in {then.t, els.t} /\ Equal(then.t, els.t)))

CheckIf(e, exp, c) ==
    LET cond == Check(e.a[1], IF e.e = "if" THEN Bool ELSE NoType, c)
        test == [cond EXCEPT !.ok = @ /\ (cond.t.k \in
                    (IF e.e = "if" THEN {"Bool", "Error"} ELSE {"Optional", "Error"}))]
        then == Check(e.a[2], exp,
                      IF e.e = "if" THEN c
                      ELSE Local(c, e.x, IF cond.t.k = "Optional" THEN Inner(cond.t) ELSE Error))
        els == Check(e.a[3], IF exp # NoType THEN exp ELSE then.t, c)
    IN  IF Len(e.a) = 2 THEN Got(Unit, test.ok /\ then.ok) ELSE Branches(test, then, els)

CheckClosure(e, exp, c) ==
    LET fits == Kind(exp) = "Function" /\ Len(exp.a) = Len(e.l) + 1
        scopes == FoldLeft(LAMBDA sc, i : Insert(sc, e.l[i], Symbol("Value", exp.a[i])),
                           Push(c.sc), [i \in DOMAIN e.l |-> i])
        body == Check(e.a[1], Returned(exp), With(c, scopes))
    IN  IF fits THEN Got(Function(ParamsOf(exp), body.t),
                         body.ok /\ Assignable(body.t, Returned(exp)))
        ELSE Failed

Tried(x, r, throws) ==
    CASE r.t = Error       -> Got(Error, r.ok)
      [] r.t.k # "Result"  -> Failed
      [] x = "try"         -> Got(r.t.a[1], r.ok /\ throws # NoType
                                            /\ Assignable(r.t.a[2], throws))
      [] x = "try?"        -> Got(Optional(r.t.a[1]), r.ok)
      [] OTHER             -> Got(r.t.a[1], r.ok)

CheckTry(e, c) == Tried(e.x, Check(e.a[1], NoType, c), c.throws)

CheckThrow(e, c) ==
    LET r == Check(e.a[1], c.throws, c)
    IN  Got(Never, r.ok /\ c.throws # NoType /\ Assignable(r.t, c.throws))

Indexable == {"Vector", "Span", "MutSpan", "Vec"}

CheckIndex(e, c) ==
    LET base == Check(e.a[1], NoType, c)
        index == Check(e.a[2], NoType, c)
        ok == base.ok /\ index.ok /\ index.t.k \in Integer \cup {"Error"}
    IN  IF base.t.k \in Indexable THEN Got(Inner(base.t), ok)
        ELSE Got(Error, ok /\ base.t = Error)

\* Name(e): an explicit conversion, which looks at neither scope nor expectation.
CheckConversion(e, c) ==
    LET r == Check(e.a[2], NoType, c)
        from == IF r.t.k = "Opaque" THEN Decls[r.t.n].underlying ELSE r.t
    IN  IF Len(e.a) # 2 THEN Got(Prim(e.a[1].x), FALSE)
        ELSE Got(Prim(e.a[1].x), r.ok /\ from.k \in Numeric \cup {"Error"})

-----------------------------------------------------------------------------
(* Calls: e.a[1] is the callee, the rest are the arguments. *)

\* Struct(label: argument, ...): one pass, each field's type from the bindings so far.
Construct(n, exp, args, labels, c) ==
    LET generics == Decls[n].generics
        seeded == IF Kind(exp) = "Struct" /\ exp.n = n
                  THEN [x \in {generics[i].n : i \in 1..Len(exp.a)} |->
                           exp.a[CHOOSE i \in DOMAIN generics : generics[i].n = x]]
                  ELSE NoBindings.b
        Written(l) == CHOOSE i \in DOMAIN Columns(n) : Columns(n)[i].n = l
        FieldOf(l) == MemberType(n, Columns(n)[Written(l)].type, <<>>, c.sc)
        Filled(field, r, v) == [v EXCEPT !.ok = /\ @ /\ r.ok
                                               /\ Assignable(r.t, Substitute(field, v.b))]
        Unified(field, r, u) ==
            Filled(field, r, IF generics = <<>> THEN u ELSE Unify(field, r.t, u))
        Fill(field, u, i) == Unified(field, Check(args[i], Substitute(field, u.b), c), u)
        Known(l) == \E i \in DOMAIN Columns(n) : Columns(n)[i].n = l
        Take(u, i) == IF Known(labels[i]) THEN Fill(FieldOf(labels[i]), u, i)
                      ELSE [u EXCEPT !.ok = FALSE]
        Instance(u) ==
            Got(Nominal("Struct", n, [i \in DOMAIN generics |->
                    IF generics[i].n \in DOMAIN u.b THEN u.b[generics[i].n] ELSE Error]),
                /\ u.ok
                /\ \A i \in DOMAIN generics : generics[i].n \in DOMAIN u.b
                /\ \A i \in DOMAIN Columns(n) : \E j \in DOMAIN args : labels[j] = Columns(n)[i].n)
    IN  Instance(FoldLeft(Take, [b |-> seeded, ok |-> TRUE], [i \in DOMAIN args |-> i]))

\* Bindings seeded by the expected result and collected over the arguments,
\* each checked against its parameter under the bindings so far.
Seeded(f, exp) == Unify(Returned(f), exp, NoBindings)

Collected(f, exp, args, c) ==
    LET Take(u, i) ==
            LET r == Check(args[i], Substitute(f.a[i], u.b), c)
                v == Unify(f.a[i], r.t, u)
            IN  [v EXCEPT !.ok = @ /\ r.ok]
    IN  FoldLeft(Take, Seeded(f, exp), [i \in DOMAIN args |-> i])

\* Every argument is checked again, against the parameter as it is bound now.
TrustCollected(f, b, args, c) == TRUE       \* variant: no second pass
Enforced(f, b, args, c) ==
    \A i \in DOMAIN args :
        LET p == Substitute(f.a[i], b)
            r == Check(args[i], p, c)
        IN  r.ok /\ (Assignable(r.t, p) \/ ReadBorrowsAs(r.t, p))

\* fn is the declared function the callee names, "" for any other value.
Apply(f, fn, exp, args, c) ==
    LET generics == IF fn = "" THEN <<>> ELSE Funcs[fn].generics
        Bound(u) == Got(Substitute(Returned(f), u.b),
                        /\ u.ok
                        /\ Enforced(f, u.b, args, c)
                        /\ \A i \in DOMAIN generics : generics[i].n \in DOMAIN u.b
                        /\ BoundsHold(generics, u.b))
    IN  IF Len(ParamsOf(f)) # Len(args) THEN Got(Returned(f), FALSE)
        ELSE Bound(Collected(f, exp, args, c))

\* Name[T, ...](...): written arguments make an instance, which is then expected.
Explicit(callee, c) ==
    LET sym == LookUp(c.sc, callee.x)
        want == Len(Decls[sym.t.n].generics)
        Instance(read) == Got(Nominal(sym.s, sym.t.n, read.ts), read.ok)
    IN  IF sym.s \in {"Struct", "Enum"} /\ want > 0 /\ Len(callee.t) = want
        THEN Instance(ReadAll(callee.t, c.sc))
        ELSE Failed

\* The call of a callee checked as f, with exp expected of the result.
Called(f, e, exp, c) ==
    LET callee == e.a[1]
        args == Tail(e.a)
        fn == IF callee.e = "name" /\ LookUp(c.sc, callee.x).s = "Func" THEN callee.x ELSE ""
    IN  CASE f.t.k = "Struct"   -> [Construct(f.t.n, exp, args, e.l, c) EXCEPT !.ok = @ /\ f.ok]
          [] f.t.k = "Function" -> [Apply(f.t, fn, exp, args, c) EXCEPT !.ok = @ /\ f.ok]
          [] f.t = Error        -> Got(Error, f.ok /\ Plain(args, c))
          [] OTHER              -> Failed

CheckCall(e, exp, c) ==
    LET callee == e.a[1]
        explicit == callee.e = "name" /\ callee.t # <<>>
        Expecting(f) == Called(f, e, IF explicit THEN f.t ELSE exp, c)
    IN  IF callee.e = "name" /\ callee.x \in Numeric THEN CheckConversion(e, c)
        ELSE Expecting(IF explicit THEN Explicit(callee, c) ELSE Check(callee, exp, c))

\* A task owns its arguments: no parameter of a spawned call is a view.
CheckSpawn(e, c) ==
    LET call == Check(e.a[1], NoType, c)
        f == Check(e.a[1].a[1], NoType, c).t
        views == f.k = "Function" /\ \E i \in DOMAIN ParamsOf(f) : f.a[i].k \in {"Span", "MutSpan"}
    IN  Got(Wrap("Future", call.t), call.ok /\ ~views)

CheckName(e, exp, c) ==
    LET sym == LookUp(c.sc, e.x)
    IN  IF sym = NoSymbol THEN Failed ELSE Got(sym.t, TRUE)

CheckMember(e, exp, c) ==
    LET sym == IF e.a[1].e = "name" THEN LookUp(c.sc, e.a[1].x) ELSE NoSymbol
    IN  IF sym.s = "Enum" THEN QualifiedCase(sym, e.x, exp, c.sc)
        ELSE Access(Check(e.a[1], NoType, c), e.x, e.l # <<>>, c.sc)

Check(e, exp, c) ==
    LET hint == IF exp.k \in {"Optional", "Atomic"} THEN Inner(exp) ELSE exp
        Unary(operand) == Result(UnaryType(e.x, operand.t), <<operand>>)
    IN  CASE e.e = "int"     -> Got(HintOr(hint, Integer, "Int"), TRUE)
          [] e.e = "float"   -> Got(HintOr(PeelOptional(exp), Float, "Float64"), TRUE)
          [] e.e = "bool"    -> Got(Bool, TRUE)
          [] e.e = "str"     -> Got(Prim("StrConst"), TRUE)
          [] e.e = "nil"     -> Got(IF Kind(exp) = "Optional" THEN exp ELSE Optional(Never), TRUE)
          [] e.e = "name"    -> CheckName(e, exp, c)
          [] e.e = "tuple"   -> CheckTuple(e, exp, c)
          [] e.e = "vector"  -> CheckVector(e, exp, c)
          [] e.e = "unary"   -> Unary(Check(e.a[1], exp, c))
          [] e.e = "binary"  -> CheckBinary(e, exp, c)
          [] e.e \in {"if", "iflet"} -> CheckIf(e, exp, c)
          [] e.e = "closure" -> CheckClosure(e, exp, c)
          [] e.e = "try"     -> CheckTry(e, c)
          [] e.e = "throw"   -> CheckThrow(e, c)
          [] e.e = "index"   -> CheckIndex(e, c)
          [] e.e = "member"  -> CheckMember(e, exp, c)
          [] e.e = "dot"     -> LeadingDot(e.x, exp, c.sc)
          [] e.e = "call"    -> CheckCall(e, exp, c)
          [] e.e = "spawn"   -> CheckSpawn(e, c)
          [] e.e = "await"   -> [Check(e.a[1], NoType, c) EXCEPT !.t = IF @.k = "Future" THEN Inner(@) ELSE @]
=============================================================================
