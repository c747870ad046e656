------------------------------- MODULE Typing -------------------------------
(***************************************************************************)
(* The resolver's two passes over a unit: Resolver::resolve,               *)
(* collect_top_level (src/src/sema/resolver.cpp), then check_func,         *)
(* check_block_expr and check_stmt (src/src/sema/resolver_decls.cpp).  The *)
(* first pass enters the declarations in the order they are written; the   *)
(* second checks the body of one function, a statement a step.  Blocks in  *)
(* value position, tuple patterns, attributes and gates are not modelled.  *)
(***************************************************************************)
EXTENDS ExprTypes

CONSTANTS
    Checkees  \* what may be checked: <<the order the declarations are written in,
              \* a sequence of names, and a function [generics, params, result,
              \* throws, body]>>

VARIABLES
    pending,  \* declarations not collected yet
    func,     \* the function whose body is to check, or NoFunc
    frame,    \* the tops of return_stack_ and throws_stack_
    scopes,   \* ScopeStack
    todo,     \* statements still to check, "leave" where a scope ends
    ok,       \* no error was reported so far
    value,    \* the type of the body's trailing expression
    last      \* the check made last (an observer, not code)

vars == <<pending, func, frame, scopes, todo, ok, value, last>>

Nothing == [e |-> "bool", x |-> "", a |-> <<>>, l |-> <<>>, t |-> <<>>]
NoCheck == [e |-> Nothing, exp |-> NoType, slot |-> NoType, t |-> NoType, ok |-> TRUE, c |-> <<>>]

NoFunc == [body |-> <<>>]

Init ==
    /\ \E unit \in Checkees : pending = unit[1] /\ func = unit[2]
    /\ frame = [result |-> Unit, throws |-> NoType]
    /\ scopes = <<EmptyScope>>
    /\ todo = <<>>
    /\ ok = TRUE
    /\ value = Unit
    /\ last = NoCheck

-----------------------------------------------------------------------------
(* Pass 1. *)

\* The symbol a declaration gets, from what was collected before it.
Declared(n) ==
    IF n \in DOMAIN Decls
    THEN [s |-> Symbol(Decls[n].kind, Nominal(Decls[n].kind, n, <<>>)), ok |-> TRUE]
    ELSE LET Signature(r) == [s |-> Symbol("Func", r.t), ok |-> r.ok]
         IN  Signature(TypeOfFunc(Funcs[n], scopes))

Collect ==
    /\ pending # <<>>
    /\ \E new \in {Declared(Head(pending))} :
           /\ scopes' = Insert(scopes, Head(pending), new.s)
           /\ ok' = (ok /\ new.ok /\ ~Declares(scopes, Head(pending)))
    /\ pending' = Tail(pending)
    /\ UNCHANGED <<func, frame, todo, value, last>>

-----------------------------------------------------------------------------
(* Pass 2: check_func binds generics and parameters, then walks the body. *)

Started == pending = <<>> /\ todo # <<>>

TypeParams(f) == SelectSeq(f.generics, LAMBDA g : ~g.const)

\* A parameter's type is read beside the parameters before it.
ParamScopes ==
    FoldLeft(LAMBDA sc, p : Insert(sc, p.n, Symbol("Value", ReadType(p.t, sc).t)),
             BindGenerics(scopes, TypeParams(func), <<>>), func.params)

Written(t, sc) == IF t = NoType THEN Read(NoType, TRUE) ELSE ReadType(t, sc)

Enter ==
    /\ pending = <<>> /\ todo = <<>> /\ func # NoFunc
    /\ \E sc \in {ParamScopes} : \E result \in {ReadType(func.result, sc)} :
           /\ scopes' = Push(sc)
           /\ frame' = [result |-> result.t, throws |-> Written(func.throws, sc).t]
           /\ ok' = /\ ok /\ result.ok
                    /\ Cardinality(DOMAIN Last(sc)) = Len(TypeParams(func)) + Len(func.params)
                    /\ \A i \in DOMAIN func.params : ReadType(func.params[i].t, sc).ok
    /\ todo' = Append(func.body, [s |-> "end"])
    /\ UNCHANGED <<pending, func, value, last>>

Context == [sc |-> scopes, throws |-> frame.throws]

Now(s) == Started /\ Head(todo).s = s
Stmt == Head(todo)

Recorded(e, exp, slot, r) ==
    [e |-> e, exp |-> exp, slot |-> slot, t |-> r.t,
     ok |-> r.ok /\ Assignable(r.t, slot), c |-> Context]

\* Check e against a slot's type; the value must fit the slot.
Fits(e, slot) == Recorded(e, slot, slot, Check(e, slot, Context))

\* Check e with an expectation but no slot.
Checked(e, exp) == Recorded(e, exp, NoType, Check(e, exp, Context))

Report(check) == last' = check /\ ok' = (ok /\ check.ok)

\* A value for an annotation, which gives the name its type if it is there.
Annotated(e, annotation) ==
    LET Named(check) == [check |-> check, ok |-> check.ok /\ annotation.ok,
                         t |-> IF annotation.t = NoType THEN check.t ELSE annotation.t]
    IN  Named(Fits(e, annotation.t))

CheckLet ==
    /\ Now("let")
    /\ \E new \in {Annotated(Stmt.e, Written(Stmt.t, scopes))} :
           /\ last' = new.check
           /\ ok' = (ok /\ new.ok /\ ~Declares(scopes, Stmt.x))
           /\ scopes' = Insert(scopes, Stmt.x, Symbol("Value", new.t))
    /\ todo' = Tail(todo)
    /\ UNCHANGED <<pending, func, frame, value>>

CheckAssign ==
    /\ Now("assign")
    /\ \E target \in {Check(Stmt.e, NoType, Context)} :
           Report([Fits(Stmt.v, target.t) EXCEPT !.ok = @ /\ target.ok])
    /\ todo' = Tail(todo)
    /\ UNCHANGED <<pending, func, frame, scopes, value>>

CheckReturn ==
    /\ Now("return")
    /\ Report(Fits(Stmt.e, frame.result))
    /\ todo' = Tail(todo)
    /\ UNCHANGED <<pending, func, frame, scopes, value>>

\* An expression that ends the function's body is its value; at the end of
\* another block, or before the end, nothing is expected of it.
CheckExprStmt ==
    /\ Now("expr")
    /\ LET trailing == todo[2].s = "end"
       IN  \E check \in {Checked(Stmt.e, IF trailing THEN frame.result ELSE NoType)} :
               /\ Report(check)
               /\ value' = IF trailing THEN check.t ELSE value
    /\ todo' = Tail(todo)
    /\ UNCHANGED <<pending, func, frame, scopes>>

Leave == [s |-> "leave"]

CheckWhile ==
    /\ Now("while")
    /\ \E check \in {Checked(Stmt.e, NoType)} :
           Report([check EXCEPT !.ok = @ /\ check.t.k \in {"Bool", "Error"}])
    /\ scopes' = Push(scopes)
    /\ todo' = Stmt.body \o <<Leave>> \o Tail(todo)
    /\ UNCHANGED <<pending, func, frame, value>>

\* for x in lo..<hi, or over the elements of a growable vector or a view.
Element(e, t) ==
    IF e.e = "binary" /\ e.x \in {"..", "..<"} THEN t
    ELSE IF t.k \in {"Vec", "Span", "MutSpan"} THEN Inner(t) ELSE Error

CheckFor ==
    /\ Now("for")
    /\ \E check \in {Checked(Stmt.e, NoType)} : \E elem \in {Element(Stmt.e, check.t)} :
           /\ Report([check EXCEPT !.ok = @ /\ (elem = Error => check.t = Error)])
           /\ scopes' = Push(Insert(Push(scopes), Stmt.x, Symbol("Value", elem)))
    /\ todo' = Stmt.body \o <<Leave, Leave>> \o Tail(todo)
    /\ UNCHANGED <<pending, func, frame, value>>

CheckWith ==
    /\ Now("with")
    /\ \E new \in {Annotated(Stmt.e, Written(Stmt.t, scopes))} :
           /\ last' = new.check
           /\ ok' = (ok /\ new.ok)
           /\ scopes' = Push(Insert(Push(scopes), Stmt.x, Symbol("Value", new.t)))
    /\ todo' = Stmt.body \o <<Leave, Leave>> \o Tail(todo)
    /\ UNCHANGED <<pending, func, frame, value>>

LeaveBlock ==
    /\ Now("leave")
    /\ scopes' = Pop(scopes)
    /\ todo' = Tail(todo)
    /\ UNCHANGED <<pending, func, frame, ok, value, last>>

\* A body without a value is taken to return elsewhere.
Finish ==
    /\ Now("end")
    /\ ok' = (ok /\ (frame.result.k = "Unit" \/ value.k \in {"Unit", "Never"}
                       \/ Assignable(value, frame.result)))
    /\ scopes' = <<scopes[1]>>
    /\ todo' = Tail(todo)
    /\ func' = NoFunc
    /\ UNCHANGED <<pending, frame, value, last>>

Next ==
    \/ Collect \/ Enter
    \/ CheckLet \/ CheckAssign \/ CheckReturn \/ CheckExprStmt
    \/ CheckWhile \/ CheckFor \/ CheckWith \/ LeaveBlock \/ Finish

Spec == Init /\ [][Next]_vars
=============================================================================
