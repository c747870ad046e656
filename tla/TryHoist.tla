------------------------------ MODULE TryHoist ------------------------------
(***************************************************************************)
(* try, throw and do/catch become C++ without exceptions: a propagating try *)
(* is hoisted in front of its statement, tested there, and left as a name   *)
(* (cpp_emitter_errors.cpp, the statements of cpp_emitter_stmts.cpp, the    *)
(* try, if, block and do cases of CppEmitter::emit_expr).  Source and C++   *)
(* are trees of one language, so that one evaluator runs both.             *)
(*                                                                         *)
(* Source: Lit, Call f args, Try e, Bin l r, And l r, If c t e, Block ss,  *)
(* Throw, Do body catch guard; Let x e, Expr e, Return e, While c body.    *)
(* A match is the If of its arms (MatchLowering says which).  C++ adds:    *)
(* Name n, Unwrap e (panics on an error), Dead (std::unreachable), IfS,    *)
(* Value ss (a lambda called at once), Caught ss catch guard, Checked n e  *)
(* and CheckedValue n ss (return the error, or name the value), Throws.    *)
(***************************************************************************)
EXTENDS Integers, Sequences, FiniteSets, SequencesExt

Absent == [k |-> "Absent"]

----------------------------------------------------------------------------
(* Which expressions are hoisted.                                          *)

RECURSIVE HasTry(_)
HasTry(x) ==
  CASE x.k = "Try"  -> TRUE
    [] x.k \in {"Bin", "And"} -> HasTry(x.l) \/ HasTry(x.r)
    [] x.k = "Call" -> \E i \in DOMAIN x.args : HasTry(x.args[i])
    [] x.k = "If"   -> HasTry(x.c) \/ HasTry(x.t) \/ HasTry(x.e)
    [] x.k = "Block" -> \E i \in DOMAIN x.ss : HasTry(x.ss[i])
    [] x.k \in {"Let", "Expr", "Return"} -> HasTry(x.e)
    [] OTHER -> FALSE

Ids(hs) == {h.id : h \in Range(hs)}

\* In evaluation order, save for what && may skip, branches, and do bodies.
RECURSIVE Hoists(_, _)
Hoists(x, already) ==
  LET self(need) == IF need /\ x.id \notin already THEN <<x>> ELSE <<>>
  IN  CASE x.k = "Try"  -> Hoists(x.e, already) \o self(TRUE)
        [] x.k = "Call" -> FlattenSeq([i \in DOMAIN x.args |-> Hoists(x.args[i], already)])
        [] x.k = "Bin"  -> Hoists(x.l, already) \o Hoists(x.r, already)
        [] x.k = "And"  -> Hoists(x.l, already)
        [] x.k = "If"   -> Hoists(x.c, already) \o self(HasTry(x.t) \/ HasTry(x.e))
        [] x.k = "Do"   -> self(x.guard # Absent)
        [] OTHER        -> <<>>

\* Slip: the hoists of a statement are written last first.
StmtHoistsReversed(s) == Reverse(Hoists(IF s.k = "While" THEN s.c ELSE s.e, {}))

StmtHoists(s) ==
  CASE s.k \in {"Let", "Expr", "Return"} -> Hoists(s.e, {})
    [] s.k = "While" -> Hoists(s.c, {})

\* The do body hoists for its last expression only, before its first statement.
DoHoists(b) ==
  IF b.k # "Block" THEN Hoists(b, {})
  ELSE IF b.ss # <<>> /\ Last(b.ss).k = "Expr" THEN Hoists(Last(b.ss).e, {}) ELSE <<>>

----------------------------------------------------------------------------
(* Emission.  h is the set of hoists a use is replaced by the name of.      *)

RECURSIVE EmitExpr(_, _), EmitStmtExpr(_, _, _), EmitStmt(_, _), EmitHoist(_, _), EmitDo(_, _)

Each(ss, Op(_)) == FlattenSeq([i \in DOMAIN ss |-> Op(ss[i])])
Return(e) == [k |-> "Return", e |-> e]

\* A block in value position: statements, then the last expression returned.
BlockLambda(b, h) ==
  LET n == Len(b.ss)
  IN  Each([i \in 1..n |-> <<i, b.ss[i]>>],
           LAMBDA s : IF s[1] = n /\ s[2].k = "Expr" THEN <<Return(EmitExpr(s[2].e, h))>>
                      ELSE EmitStmt(s[2], h))

EmitExpr(x, h) ==
  CASE x.k \in {"Try", "If", "Do"} /\ x.id \in h -> [k |-> "Name", n |-> x.id]
    [] x.k = "Try"  -> [k |-> "Unwrap", e |-> EmitExpr(x.e, h)]
    [] x.k = "Call" -> [x EXCEPT !.args = [i \in DOMAIN @ |-> EmitExpr(@[i], h)]]
    [] x.k \in {"Bin", "And"} -> [x EXCEPT !.l = EmitExpr(@, h), !.r = EmitExpr(@, h)]
    [] x.k = "If"   -> [k |-> "Value",
                        ss |-> <<[k |-> "IfS", c |-> EmitExpr(x.c, h), t |-> <<Return(EmitExpr(x.t, h))>>,
                                  e |-> <<Return(EmitExpr(x.e, h))>>]>>]
    [] x.k = "Block" -> [k |-> "Value", ss |-> BlockLambda(x, h)]
    [] x.k = "Throw" -> [k |-> "Dead"]
    [] x.k = "Do"    -> EmitDo(x, h)
    [] OTHER         -> x

EmitDo(x, h) ==
  LET hs == DoHoists(x.body)
  IN  [k |-> "Caught", hoisted |-> FALSE, guard |-> EmitExpr(x.guard, h), catch |-> EmitExpr(x.catch, h),
       ss |-> Each(hs, LAMBDA n : EmitHoist(n, h)) \o EmitStmtExpr(x.body, TRUE, Ids(hs))]

\* Statement position: throw, if and blocks keep their own returns.
EmitStmtExpr(x, ret, h) ==
  LET local == Hoists(x, h)
      put(e) == IF ret THEN Return(e) ELSE [k |-> "Expr", e |-> e]
  IN  CASE x.k = "Throw" -> <<[k |-> "Throws"]>>
        [] x.k = "Try" /\ x.id \notin h ->
             <<[k |-> "Checked", n |-> x.id, e |-> EmitExpr(x.e, h)], put([k |-> "Name", n |-> x.id])>>
        [] x.k = "If" /\ x.id \notin h ->
             <<[k |-> "IfS", c |-> EmitExpr(x.c, h), t |-> EmitStmtExpr(x.t, ret, h),
                e |-> IF x.e = Absent THEN <<>> ELSE EmitStmtExpr(x.e, ret, h)]>>
        [] x.k = "Block" ->
             Each([i \in DOMAIN x.ss |-> <<i, x.ss[i]>>],
                  LAMBDA s : IF s[1] = Len(x.ss) /\ s[2].k = "Expr"
                             THEN EmitStmtExpr(s[2].e, ret, h) ELSE EmitStmt(s[2], h))
        [] OTHER -> Each(local, LAMBDA n : EmitHoist(n, h))
                    \o <<put(EmitExpr(x, h \cup Ids(local)))>>

\* The hoists of a hoist are not yet names when it is written.
EmitHoist(n, h) ==
  CASE n.k = "Try" -> <<[k |-> "Checked", n |-> n.id, e |-> EmitExpr(n.e, h)]>>
    [] n.k = "If"  -> <<[k |-> "CheckedValue", n |-> n.id, ss |-> EmitStmtExpr(n, TRUE, h \ {n.id})]>>
    [] n.k = "Do"  -> <<[k |-> "CheckedValue", n |-> n.id, 
                      ss |-> <<Return([EmitDo(n, h \ {n.id}) EXCEPT !.hoisted = TRUE])>>]>>

EmitStmt(s, outer) ==
  LET hs == StmtHoists(s)
      h  == Ids(hs)
      body == CASE s.k = "Let"    -> <<[s EXCEPT !.e = EmitExpr(@, h)]>>
                [] s.k = "Expr"   -> EmitStmtExpr(s.e, FALSE, h)
                [] s.k = "Return" -> EmitStmtExpr(s.e, TRUE, h)
                [] s.k = "While"  -> <<[k |-> "While", c |-> EmitExpr(s.c, h),
                                        ss |-> Each(s.ss, LAMBDA t : EmitStmt(t, h))]>>
  IN  Each(hs, LAMBDA n : EmitHoist(n, outer)) \o body

EmitBody(ss) == Each(ss, LAMBDA s : EmitStmt(s, {}))

\* An error returned from a plain value lambda has no type to return to.
RECURSIVE Compiles(_, _)
Compiles(x, canThrow) ==
  LET all(ss, can) == \A i \in DOMAIN ss : Compiles(ss[i], can)
  IN  CASE x.k \in {"Checked", "CheckedValue", "Throws"} ->
             /\ canThrow
             /\ x.k = "Checked" => Compiles(x.e, TRUE)
             /\ x.k = "CheckedValue" => all(x.ss, TRUE)
        [] x.k = "Value"  -> all(x.ss, FALSE)
        [] x.k = "Caught" -> all(x.ss, TRUE) /\ Compiles(x.catch, FALSE)
        [] x.k \in {"Let", "Expr", "Return", "Unwrap", "Try"} -> Compiles(x.e, canThrow)
        [] x.k \in {"Bin", "And"} -> Compiles(x.l, canThrow) /\ Compiles(x.r, canThrow)
        [] x.k = "Call"  -> all(x.args, canThrow)
        [] x.k = "IfS"   -> Compiles(x.c, canThrow) /\ all(x.t, canThrow) /\ all(x.e, canThrow)
        [] x.k = "While" -> Compiles(x.c, canThrow) /\ all(x.ss, canThrow)
        [] OTHER -> TRUE
=============================================================================
