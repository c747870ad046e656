------------------------------ MODULE Lowering ------------------------------
(***************************************************************************)
(* One match, or one function body, from resolved source to a run of the   *)
(* C++ it became.  Source and C++ run against the same script: which        *)
(* guards hold, and what each call answers the first, second, ... time.     *)
(***************************************************************************)
EXTENDS MatchLowering, TryHoist

CONSTANT MaxTrace  \* bound: calls made by one run before it is cut

vars == matchVars

----------------------------------------------------------------------------
(* Running trees.  A state s of a run has the calls made with the values    *)
(* passed, how control leaves (out), the last value, the names and the      *)
(* script.  Values are "yes", "no" and "error", an expected holding one.    *)

Started(script) == [calls |-> <<>>, out |-> "go", val |-> "no", names |-> <<>>, script |-> script]
Leave(s, how) == [s EXCEPT !.out = how]
Valued(s, v)  == [s EXCEPT !.val = v]
Answer(answers, n) == answers[IF n > Len(answers) THEN Len(answers) ELSE n]
Named(s, n) == [s EXCEPT !.names = [x \in DOMAIN @ \cup {n} |-> IF x = n THEN s.val ELSE @[x]]]

CallOf(s, f, vals) ==
  IF Len(s.calls) = MaxTrace THEN Leave(s, "cut")
  ELSE LET nth == 1 + Len(SelectSeq(s.calls, LAMBDA c : c[1] = f))
       IN  [s EXCEPT !.calls = Append(@, <<f, vals>>), !.val = Answer(s.script[f], nth)]

\* What is left of an expression's run when a lambda returns to it.
Landed(s) == IF s.out = "return" THEN Leave(s, "go") ELSE s
OrElse(s, how) == IF s.out = "go" /\ s.val = "error" THEN Leave(Valued(s, "no"), how) ELSE s

RECURSIVE Ev(_, _), Args(_, _, _, _), Exec(_, _), Loop(_, _, _)

Args(x, i, vals, s) ==
  IF s.out # "go" THEN s
  ELSE IF i > Len(x.args) THEN CallOf(s, x.f, vals)
  ELSE LET t == Ev(x.args[i], s) IN Args(x, i + 1, Append(vals, t.val), t)

\* do: a thrown error asks the guard, then the handler, else it goes on.
Handle(x, s, unguarded) ==
  IF s.out # "throw" THEN Landed(s)
  ELSE LET g == IF x.guard = Absent THEN Valued(Leave(s, "go"), "yes") ELSE Ev(x.guard, Leave(s, "go"))
       IN  IF g.out # "go" THEN g ELSE IF g.val = "yes" THEN Ev(x.catch, g) ELSE Leave(g, unguarded)

Ev(x, s) ==
  IF s.out # "go" THEN s
  ELSE CASE x.k = "Call"   -> Args(x, 1, <<>>, s)
         [] x.k = "Try"    -> OrElse(Ev(x.e, s), "throw")
         [] x.k = "Unwrap" -> OrElse(Ev(x.e, s), "panic")
         [] x.k = "Throw"  -> Leave(s, "throw")
         [] x.k = "Dead"   -> Leave(s, "unreachable")
         [] x.k = "Name"   -> Valued(s, s.names[x.n])
         [] x.k = "Bin"    -> LET l == Ev(x.l, s) r == Ev(x.r, l)
                              IN  IF r.out = "go" THEN Valued(r, IF l.val = r.val THEN "yes" ELSE "no")
                                  ELSE r
         [] x.k = "And"    -> LET l == Ev(x.l, s)
                              IN  IF l.out = "go" /\ l.val = "yes" THEN Ev(x.r, l) ELSE l
         [] x.k = "If"     -> LET c == Ev(x.c, s) IN Ev(IF c.val = "yes" THEN x.t ELSE x.e, c)
         [] x.k = "Block"  -> Exec(x.ss, s)
         [] x.k = "Value"  -> Landed(Exec(x.ss, s))
         [] x.k = "Do"     -> LET b == Ev(x.body, s) IN IF b.out = "throw" THEN Handle(x, b, "throw") ELSE b
         [] x.k = "Caught" -> Handle(x, Exec(x.ss, s), IF x.hoisted THEN "throw" ELSE "panic")
         [] OTHER          -> Valued(s, "no")

Exec(ss, s) ==
  IF ss = <<>> \/ s.out # "go" THEN s
  ELSE LET x == Head(ss)
           e == IF x.k \in {"Let", "Expr", "Return", "Checked"} THEN Ev(x.e, s) ELSE s
           t == CASE x.k \in {"Let", "Expr"} -> e
                  [] x.k = "Return"  -> IF e.out = "go" THEN Leave(e, "return") ELSE e
                  [] x.k = "Throws"  -> Leave(s, "throw")
                  [] x.k = "Checked" -> LET c == OrElse(e, "throw")
                                        IN  IF c.out = "go" THEN Named(c, x.n) ELSE c
                  [] x.k = "CheckedValue" -> LET c == Landed(Exec(x.ss, s))
                                             IN  IF c.out = "go" THEN Named(c, x.n) ELSE c
                  [] x.k = "IfS"     -> LET c == Ev(x.c, s) IN Exec(IF c.val = "yes" THEN x.t ELSE x.e, c)
                  [] x.k = "While"   -> Loop(x, s, MaxTrace)
       IN  Exec(Tail(ss), t)

Loop(x, s, fuel) ==
  LET c == Ev(x.c, s)
  IN  IF c.out # "go" \/ c.val # "yes" THEN c
      ELSE IF fuel = 0 THEN Leave(c, "cut") ELSE Loop(x, Exec(x.ss, c), fuel - 1)

\* The outcome of a body's run, as the rest of the program can tell.
Outcome(s) == [calls |-> s.calls, out |-> s.out, val |-> IF s.out = "return" THEN s.val ELSE "no"]
Run(ss, script) == Outcome(Exec(ss, Started(script)))

----------------------------------------------------------------------------
(* The steps of a body.                                                    *)

\* A body is taken as resolved: its types and throws clauses agree.
LowerBody ==
  /\ phase = "source" /\ unit.is = "body"
  /\ code' = EmitBody(unit.ss)
  /\ phase' = IF \A i \in DOMAIN code' : Compiles(code'[i], TRUE) THEN "lowered" ELSE "refused"
  /\ UNCHANGED <<unit, wanted, got>>

RunBody(script) ==
  /\ phase = "lowered" /\ unit.is = "body"
  /\ wanted' = Run(unit.ss, script)
  /\ got' = Run(code, script)
  /\ phase' = "done"
  /\ UNCHANGED <<unit, code>>
=============================================================================
