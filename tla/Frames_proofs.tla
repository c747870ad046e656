---------------------------- MODULE Frames_proofs ----------------------------
(***************************************************************************)
(* The types of AsyncRuntime, and its C++ frames: none that is buried       *)
(* under a pump is entered again, for every set of tasks and channels and  *)
(* every program, those that assign a future over another included.  A     *)
(* pump is pushed by the task that owns the future it waits for, so two    *)
(* pumps for one future would have one caller; and a caller in a pump is   *)
(* neither suspended nor complete, so nothing the run-loop resumes, and no *)
(* continuation, is one.                                                   *)
(***************************************************************************)
EXTENDS AsyncRuntime, SequenceTheorems, TLAPS

-----------------------------------------------------------------------------
\* Sequences

\* A function on 1 .. n is a sequence.
LEMMA FunctionIsSeq ==
  ASSUME NEW S, NEW n \in Nat, NEW g \in [1 .. n -> S]
  PROVE  g \in Seq(S)
OBVIOUS

\* Appending a new element keeps a sequence without repetitions so.
LEMMA AppendNew ==
  ASSUME NEW S, NEW s \in Seq(S), NEW x \in S, IsInjective(s), ~Contains(s, x)
  PROVE  /\ Append(s, x) \in Seq(S)
         /\ IsInjective(Append(s, x))
         /\ \A i \in DOMAIN Append(s, x) :
              Append(s, x)[i] = x \/ \E j \in DOMAIN s : Append(s, x)[i] = s[j]
<1> DEFINE a == Append(s, x)
<1>1. /\ a \in Seq(S) /\ Len(a) = Len(s) + 1 /\ a[Len(s) + 1] = x
      /\ \A i \in 1 .. Len(s) : a[i] = s[i]
  BY AppendProperties
<1>2. DOMAIN a = 1 .. Len(s) + 1 /\ DOMAIN s = 1 .. Len(s) /\ Len(s) \in Nat
  BY <1>1, LenProperties
<1>3. \A i \in 1 .. Len(s) : s[i] # x
  BY DEF Contains
<1>4. \A i, j \in 1 .. Len(s) : s[i] = s[j] => i = j
  BY <1>2 DEF IsInjective
<1>5. IsInjective(a)
  BY <1>1, <1>2, <1>3, <1>4 DEF IsInjective
<1>6. \A i \in DOMAIN a : a[i] = x \/ \E j \in DOMAIN s : a[i] = s[j]
  BY <1>1, <1>2
<1> QED BY <1>1, <1>5, <1>6

\* The tail of a sequence without repetitions holds all but its head.
LEMMA TailRest ==
  ASSUME NEW S, NEW s \in Seq(S), s # << >>, IsInjective(s)
  PROVE  /\ Head(s) \in S /\ Tail(s) \in Seq(S)
         /\ \E i \in DOMAIN s : Head(s) = s[i]
         /\ IsInjective(Tail(s))
         /\ \A i \in DOMAIN Tail(s) :
              /\ Tail(s)[i] # Head(s)
              /\ \E j \in DOMAIN s : Tail(s)[i] = s[j]
<1> DEFINE r == Tail(s)
<1>1. /\ Head(s) \in S /\ r \in Seq(S) /\ Len(r) = Len(s) - 1
      /\ \A i \in 1 .. Len(r) : r[i] = s[i + 1]
  BY HeadTailProperties
<1>2. /\ DOMAIN s = 1 .. Len(s) /\ DOMAIN r = 1 .. Len(r)
      /\ Len(s) \in Nat \ {0} /\ Head(s) = s[1]
  BY <1>1, LenProperties, EmptySeq
<1>3. \A i, j \in 1 .. Len(s) : s[i] = s[j] => i = j
  BY <1>2 DEF IsInjective
<1>4. IsInjective(r)
  <2> SUFFICES ASSUME NEW i \in DOMAIN r, NEW j \in DOMAIN r, r[i] = r[j] PROVE i = j
    BY DEF IsInjective
  <2>1. i + 1 \in 1 .. Len(s) /\ j + 1 \in 1 .. Len(s) /\ s[i + 1] = s[j + 1]
    BY <1>1, <1>2
  <2>2. i + 1 = j + 1
    BY <2>1, <1>3
  <2> QED BY <2>2, <1>2
<1>5. ASSUME NEW i \in DOMAIN r
      PROVE  r[i] # Head(s) /\ \E j \in DOMAIN s : r[i] = s[j]
  <2>1. i + 1 \in 1 .. Len(s) /\ 1 \in 1 .. Len(s) /\ i + 1 # 1 /\ r[i] = s[i + 1]
    BY <1>1, <1>2
  <2> QED BY <2>1, <1>2, <1>3
<1>6. 1 \in DOMAIN s
  BY <1>2
<1> QED BY <1>1, <1>2, <1>4, <1>5, <1>6

\* RemoveAt closes the gap over position k.
LEMMA RemoveAtRest ==
  ASSUME NEW S, NEW s \in Seq(S), NEW k \in 1 .. Len(s)
  PROVE  /\ RemoveAt(s, k) \in Seq(S)
         /\ Len(RemoveAt(s, k)) = Len(s) - 1
         /\ \A i \in 1 .. Len(s) - 1 :
              RemoveAt(s, k)[i] = s[IF i < k THEN i ELSE i + 1]
<1> DEFINE f == SubSeq(s, 1, k - 1)
           b == SubSeq(s, k + 1, Len(s))
<1>1. Len(s) \in Nat /\ k \in Int /\ 1 <= k /\ k <= Len(s)
  BY LenProperties
<1>2. \A i \in 1 .. Len(s) : s[i] \in S
  BY ElementOfSeq
<1>3. /\ f \in Seq(S) /\ Len(f) = k - 1
      /\ \A i \in 1 .. k - 1 : f[i] = s[i]
  <2>1. \A i \in 1 .. k - 1 : s[i] \in S
    BY <1>1, <1>2
  <2>2. /\ f \in Seq(S)
        /\ Len(f) = IF 1 <= k - 1 THEN (k - 1) - 1 + 1 ELSE 0
        /\ \A i \in 1 .. (k - 1) - 1 + 1 : f[i] = s[1 + i - 1]
    BY <1>1, <2>1, SubSeqProperties
  <2> HIDE DEF f
  <2> QED BY <1>1, <2>2
<1>4. /\ b \in Seq(S) /\ Len(b) = Len(s) - k
      /\ \A i \in 1 .. Len(s) - k : b[i] = s[k + i]
  <2>1. \A i \in k + 1 .. Len(s) : s[i] \in S
    BY <1>1, <1>2
  <2>2. /\ b \in Seq(S)
        /\ Len(b) = IF k + 1 <= Len(s) THEN Len(s) - (k + 1) + 1 ELSE 0
        /\ \A i \in 1 .. Len(s) - (k + 1) + 1 : b[i] = s[(k + 1) + i - 1]
    BY <1>1, <2>1, SubSeqProperties
  <2> HIDE DEF b
  <2> QED BY <1>1, <2>2
<1>5. RemoveAt(s, k) = f \o b
  BY DEF RemoveAt
<1> HIDE DEF f, b
<1>6. /\ f \o b \in Seq(S)
      /\ Len(f \o b) = Len(f) + Len(b)
      /\ \A i \in 1 .. Len(f) + Len(b) :
           (f \o b)[i] = IF i <= Len(f) THEN f[i] ELSE b[i - Len(f)]
  BY <1>3, <1>4, ConcatProperties
<1>7. Len(f) + Len(b) = Len(s) - 1
  BY <1>1, <1>3, <1>4
<1>8. ASSUME NEW i \in 1 .. Len(s) - 1
      PROVE  (f \o b)[i] = s[IF i < k THEN i ELSE i + 1]
  <2>1. CASE i < k
    BY <1>1, <1>3, <1>6, <1>7, <2>1
  <2>2. CASE ~(i < k)
    <3>1. i - Len(f) \in 1 .. Len(s) - k /\ k + (i - Len(f)) = i + 1 /\ ~(i <= Len(f))
      BY <1>1, <1>3, <2>2
    <3>2. (f \o b)[i] = b[i - Len(f)]
      BY <1>6, <1>7, <3>1
    <3>3. b[i - Len(f)] = s[k + (i - Len(f))]
      BY <1>4, <3>1
    <3> QED BY <3>1, <3>2, <3>3, <2>2
  <2> QED BY <2>1, <2>2
<1> QED BY <1>5, <1>6, <1>7, <1>8

\* Front drops the last element.
LEMMA FrontRest ==
  ASSUME NEW S, NEW s \in Seq(S), s # << >>
  PROVE  /\ Front(s) \in Seq(S) /\ Len(Front(s)) = Len(s) - 1
         /\ \A i \in 1 .. Len(s) - 1 : Front(s)[i] = s[i]
<1>1. PICK n \in Nat : n = Len(s) - 1
  BY LenProperties, EmptySeq
<1>2. \A i \in 1 .. n : s[i] \in S
  BY <1>1, ElementOfSeq, LenProperties
<1>3. Front(s) = SubSeq(s, 1, n)
  BY <1>1 DEF Front
<1> DEFINE f == SubSeq(s, 1, n)
<1>4. /\ f \in Seq(S)
      /\ Len(f) = IF 1 <= n THEN n - 1 + 1 ELSE 0
      /\ \A i \in 1 .. n - 1 + 1 : f[i] = s[1 + i - 1]
  BY <1>2, SubSeqProperties
<1> HIDE DEF f
<1>5. Len(f) = n /\ \A i \in 1 .. n : f[i] = s[i]
  BY <1>4
<1> QED BY <1>1, <1>3, <1>4, <1>5 DEF f

\* Unpark drops a task from a sequence without repetitions and nobody else.
LEMMA UnparkRest ==
  ASSUME NEW S, NEW s \in Seq(S), NEW x, IsInjective(s)
  PROVE  /\ Unpark(s, x) \in Seq(S)
         /\ IsInjective(Unpark(s, x))
         /\ \A i \in DOMAIN Unpark(s, x) :
              /\ Unpark(s, x)[i] # x
              /\ \E j \in DOMAIN s : Unpark(s, x)[i] = s[j]
<1>1. DOMAIN s = 1 .. Len(s) /\ Len(s) \in Nat
  BY LenProperties
<1>2. CASE ~Contains(s, x)
  BY <1>1, <1>2 DEF Unpark, Contains
<1>3. CASE Contains(s, x)
  <2>1. PICK k \in 1 .. Len(s) : s[k] = x /\ Unpark(s, x) = RemoveAt(s, k)
    BY <1>1, <1>3 DEF Unpark, Contains
  <2> DEFINE u == RemoveAt(s, k)
             at(i) == IF i < k THEN i ELSE i + 1
  <2>2. /\ u \in Seq(S) /\ Len(u) = Len(s) - 1
        /\ \A i \in 1 .. Len(s) - 1 : u[i] = s[at(i)]
    BY RemoveAtRest
  <2>3. DOMAIN u = 1 .. Len(s) - 1
    BY <2>2, LenProperties
  <2> HIDE DEF u
  <2>4. \A i, j \in 1 .. Len(s) : s[i] = s[j] => i = j
    BY <1>1 DEF IsInjective
  <2>5. \A i, j \in 1 .. Len(s) - 1 :
          /\ at(i) \in 1 .. Len(s) /\ at(i) # k
          /\ at(i) = at(j) => i = j
    BY <1>1
  <2> HIDE DEF at
  <2>6. IsInjective(u)
    BY <2>2, <2>3, <2>4, <2>5 DEF IsInjective
  <2>7. \A i \in DOMAIN u : u[i] # x /\ \E j \in DOMAIN s : u[i] = s[j]
    BY <1>1, <2>1, <2>2, <2>3, <2>4, <2>5
  <2> QED BY <2>1, <2>2, <2>6, <2>7 DEF u
<1> QED BY <1>2, <1>3

-----------------------------------------------------------------------------
\* Types

\* Main has the bottom pump of a stack and no other.
MainAtBottom(st) == \A i \in DOMAIN st : st[i].by = Main <=> i = 1

\* TypeOK is inductive once it is known that the stack is empty only when get()
\* is over.
TypeInv ==
  /\ TypeOK
  /\ MainAtBottom(stack)
  /\ cur = Main <=> stack = << >>

\* A pump of a task is pushed on a stack that has one.
LEMMA PushPump ==
  ASSUME NEW st \in Seq(Pump), st # << >>, MainAtBottom(st),
         NEW t \in Tasks, NEW f \in Tasks
  PROVE  LET st2 == Append(st, [by |-> t, of |-> f, loop |-> TRUE])
         IN st2 \in Seq(Pump) /\ st2 # << >> /\ MainAtBottom(st2)
<1> DEFINE p == [by |-> t, of |-> f, loop |-> TRUE]
           st2 == Append(st, p)
<1>1. p \in Pump /\ p.by # Main
  BY NamesAssumption DEF Pump
<1> HIDE DEF p
<1>2. /\ st2 \in Seq(Pump) /\ st2 # << >> /\ Len(st2) = Len(st) + 1
      /\ \A i \in 1 .. Len(st) : st2[i] = st[i]
      /\ st2[Len(st) + 1] = p
  BY <1>1, AppendProperties
<1>3. /\ DOMAIN st2 = 1 .. Len(st) + 1 /\ DOMAIN st = 1 .. Len(st)
      /\ Len(st) \in Nat \ {0}
  BY <1>2, LenProperties, EmptySeq
<1> HIDE DEF st2
<1>4. MainAtBottom(st2)
  BY <1>1, <1>2, <1>3 DEF MainAtBottom
<1> QED BY <1>2, <1>4 DEF st2, p

\* The top pump entering run() keeps its place.
LEMMA LoopPump ==
  ASSUME TypeInv, stack # << >>
  PROVE  /\ InLoop \in Seq(Pump) /\ InLoop # << >> /\ MainAtBottom(InLoop)
         /\ Len(InLoop) = Len(stack)
         /\ \A i \in 1 .. Len(stack) :
              InLoop[i].by = stack[i].by /\ InLoop[i].of = stack[i].of
         /\ Top \in Pump
<1>1. stack \in Seq(Pump) /\ Len(stack) \in Nat \ {0} /\ DOMAIN stack = 1 .. Len(stack)
  BY LenProperties, EmptySeq DEF TypeInv, TypeOK
<1>2. \A i \in 1 .. Len(stack) : stack[i] \in Pump
  BY <1>1, ElementOfSeq
<1> DEFINE e == [stack[Len(stack)] EXCEPT !.loop = TRUE]
<1>3. Len(stack) \in 1 .. Len(stack)
  BY <1>1
<1>4. e \in Pump /\ e.by = stack[Len(stack)].by /\ e.of = stack[Len(stack)].of
  BY <1>2, <1>3 DEF Pump
<1>5. InLoop = [stack EXCEPT ![Len(stack)] = e]
  BY DEF InLoop
<1> HIDE DEF e
<1>6. /\ InLoop \in Seq(Pump) /\ Len(InLoop) = Len(stack)
      /\ \A j \in 1 .. Len(stack) :
           InLoop[j] = IF j = Len(stack) THEN e ELSE stack[j]
  BY <1>1, <1>3, <1>4, <1>5, ExceptSeq
<1>7. DOMAIN InLoop = 1 .. Len(stack) /\ InLoop # << >>
  BY <1>6, <1>1, LenProperties, EmptySeq
<1>8. \A j \in 1 .. Len(stack) : InLoop[j].by = stack[j].by /\ InLoop[j].of = stack[j].of
  BY <1>4, <1>6
<1>9. MainAtBottom(InLoop)
  BY <1>1, <1>7, <1>8 DEF MainAtBottom, TypeInv
<1> QED BY <1>2, <1>3, <1>6, <1>7, <1>8, <1>9 DEF Top

\* Popping the top pump uncovers a stack with Main at its bottom, or nothing.
LEMMA PopPump ==
  ASSUME TypeInv, stack # << >>
  PROVE  /\ Front(stack) \in Seq(Pump) /\ MainAtBottom(Front(stack))
         /\ Top.by \in Tasks \cup {Main}
         /\ Top.by = Main <=> Front(stack) = << >>
         /\ Len(Front(stack)) = Len(stack) - 1
         /\ \A i \in 1 .. Len(stack) - 1 : Front(stack)[i] = stack[i]
<1> DEFINE r == Front(stack)
<1>1. stack \in Seq(Pump) /\ Len(stack) \in Nat \ {0} /\ DOMAIN stack = 1 .. Len(stack)
  BY LenProperties, EmptySeq DEF TypeInv, TypeOK
<1>2. \A i \in 1 .. Len(stack) : stack[i] \in Pump
  BY <1>1, ElementOfSeq
<1>3. r \in Seq(Pump)
  BY <1>1, FrontRest
<1>4. Len(r) = Len(stack) - 1 /\ \A i \in 1 .. Len(stack) - 1 : r[i] = stack[i]
  BY <1>1, FrontRest
<1> HIDE DEF r
<1>5. DOMAIN r = 1 .. Len(stack) - 1
  BY <1>3, <1>4, LenProperties
<1>6. \A i \in 1 .. Len(stack) : stack[i].by = Main <=> i = 1
  BY <1>1 DEF MainAtBottom, TypeInv
<1>7. MainAtBottom(r)
  BY <1>1, <1>4, <1>5, <1>6 DEF MainAtBottom
<1>8. Len(stack) \in 1 .. Len(stack)
  BY <1>1
<1>9. Top \in Pump /\ (Top.by = Main <=> Len(stack) = 1)
  BY <1>2, <1>6, <1>8 DEF Top
<1>10. Top.by \in Tasks \cup {Main}
  BY <1>9 DEF Pump
<1>11. r = << >> <=> Len(r) = 0
  BY <1>3, EmptySeq
<1>12. r = << >> <=> Len(stack) = 1
  BY <1>1, <1>4, <1>11
<1> QED BY <1>3, <1>4, <1>7, <1>9, <1>10, <1>12 DEF r

\* Unpark keeps the type.
LEMMA UnparkType ==
  ASSUME NEW s \in Seq(Tasks), NEW x
  PROVE  Unpark(s, x) \in Seq(Tasks)
<1>1. CASE ~Contains(s, x)
  BY <1>1 DEF Unpark
<1>2. CASE Contains(s, x)
  <2>1. PICK k \in 1 .. Len(s) : Unpark(s, x) = RemoveAt(s, k)
    BY <1>2, LenProperties DEF Unpark, Contains
  <2> QED BY <2>1, RemoveAtRest
<1> QED BY <1>1, <1>2

\* Forcing a future leaves pc, cur and the stack well formed.
LEMMA ForceType ==
  ASSUME TypeInv, NEW t \in Tasks, NEW f \in Tasks,
         NEW st \in Seq(Pump), st # << >>, MainAtBottom(st), ForceFuture(t, f, st)
  PROVE  /\ pc' \in [Tasks -> Where] /\ cur' \in Tasks \cup {None}
         /\ stack' \in Seq(Pump) /\ stack' # << >> /\ MainAtBottom(stack')
<1>1. CASE Complete(f)
  <2>1. stack' = st /\ cur' = t
    BY <1>1 DEF ForceFuture
  <2>2. pc' \in [Tasks -> Where]
    BY <1>1 DEF ForceFuture, TypeInv, TypeOK, Where
  <2> QED BY <2>1, <2>2
<1>2. CASE ~Complete(f)
  <2>1. stack' \in Seq(Pump) /\ stack' # << >> /\ MainAtBottom(stack')
    BY <1>2, PushPump DEF ForceFuture
  <2>2. pc' \in [Tasks -> Where]
    BY <1>2 DEF ForceFuture, TypeInv, TypeOK, Where
  <2>3. cur' = None
    BY <1>2 DEF ForceFuture
  <2> QED BY <2>1, <2>2, <2>3
<1> QED BY <1>1, <1>2

\* So does taking the value of an arm.
LEMMA TakeArmType ==
  ASSUME TypeInv, NEW t \in Tasks, NEW s,
         NEW st \in Seq(Pump), st # << >>, MainAtBottom(st), TakeArm(t, s, st)
  PROVE  /\ pc' \in [Tasks -> Where] /\ cur' \in Tasks \cup {None}
         /\ stack' \in Seq(Pump) /\ stack' # << >> /\ MainAtBottom(stack')
         /\ q' \in [Chans -> Nat]
<1>1. CASE s \in Chans /\ TakeValue(s) /\ pc' = [pc EXCEPT ![t] = "run"]
           /\ cur' = t /\ stack' = st
  BY <1>1 DEF TakeValue, TypeInv, TypeOK, Where
<1>2. CASE s \in Tasks /\ ForceFuture(t, s, st) /\ UNCHANGED q
  <2>1. q' \in [Chans -> Nat]
    BY <1>2 DEF TypeInv, TypeOK
  <2> QED BY <1>2, <2>1, ForceType
<1> QED BY <1>1, <1>2 DEF TakeArm

\* The arms a select may state are sequences of sources.
LEMMA ArmListsType ==
  ASSUME NEW t \in Tasks, NEW as \in ArmLists(t)
  PROVE  as \in Seq(Sources)
<1>1. PICK n \in 0 .. MaxArms :
        as \in [1 .. n -> {c \in Chans : t \in Readers[c]} \cup Owned(t)]
  BY DEF ArmLists
<1>2. n \in Nat
  BY <1>1, BoundsAssumption
<1>3. \A i \in 1 .. n : as[i] \in Sources
  BY <1>1 DEF Owned, Sources
<1>4. as \in [1 .. n -> Sources]
  BY <1>1, <1>3
<1> QED BY <1>2, <1>4, FunctionIsSeq

\* While anything runs the stack holds a pump.
LEMMA RunningStack ==
  ASSUME TypeInv, cur # Main
  PROVE  stack \in Seq(Pump) /\ stack # << >> /\ MainAtBottom(stack)
BY DEF TypeInv, TypeOK

LEMMA TypeInvInit == Init => TypeInv
<1> SUFFICES ASSUME Init PROVE TypeInv
  OBVIOUS
<1> DEFINE p == [by |-> Main, of |-> Root, loop |-> FALSE]
<1>1. p \in Pump /\ p.by = Main
  BY NamesAssumption DEF Pump
<1> HIDE DEF p
<1>2. stack = <<p>>
  BY DEF Init, p
<1>3. stack \in Seq(Pump) /\ stack # << >> /\ MainAtBottom(stack)
  BY <1>1, <1>2 DEF MainAtBottom
<1>4. cur = Root /\ Root \in Tasks /\ Root # Main
  BY NamesAssumption DEF Init
<1>5. TypeOK
  BY <1>3, <1>4, BoundsAssumption DEF Init, TypeOK, Where, Quiet
<1> QED BY <1>3, <1>4, <1>5 DEF TypeInv

\* Parking keeps the types.
LEMMA ParkType ==
  ASSUME TypeInv, NEW t \in Tasks, NEW as \in Seq(Sources),
         NEW where \in {"recv", "sel"}, Park(t, as, where)
  PROVE  /\ pc' \in [Tasks -> Where] /\ arms' \in [Tasks -> Seq(Sources)]
         /\ waiters' \in [Chans -> Seq(Tasks)] /\ cur' = None
<1>1. pc' \in [Tasks -> Where]
  BY DEF Park, TypeInv, TypeOK, Where
<1>2. arms' \in [Tasks -> Seq(Sources)]
  BY DEF Park, TypeInv, TypeOK
<1>3. \A c \in Chans : Append(waiters[c], t) \in Seq(Tasks) /\ waiters[c] \in Seq(Tasks)
  BY AppendProperties DEF TypeInv, TypeOK
<1>4. waiters' \in [Chans -> Seq(Tasks)]
  BY <1>3 DEF Park
<1> QED BY <1>1, <1>2, <1>4 DEF Park

\* The budget of operations does not run below zero.
LEMMA StepOps ==
  ASSUME TypeInv, NEW t \in Tasks, Step(t)
  PROVE  ops' \in [Tasks -> 0 .. MaxOps] /\ cur = t
BY BoundsAssumption DEF TypeInv, TypeOK, Step

\* The operations of a task.
LEMMA TypeInvOperation ==
  ASSUME TypeInv, NEW t \in Tasks, Operation(t)
  PROVE  TypeInv'
<1> USE DEF TypeInv
<1>1. CASE \E u \in Tasks : Spawn(t, u)
  <2>1. PICK u \in Tasks : Spawn(t, u)
    BY <1>1
  <2>2. ready' \in Seq(Tasks)
    BY <2>1 DEF Spawn, TypeOK
  <2>3. TypeOK'
    BY <2>1, <2>2, StepOps DEF Spawn, TypeOK, Where, chanVars, waitVars
  <2> QED BY <2>1, <2>3 DEF Spawn
<1>2. CASE \E u \in Tasks : Call(t, u)
  <2>1. PICK u \in Tasks : Call(t, u)
    BY <1>2
  <2>2. TypeOK'
    BY <2>1, StepOps DEF Call, Step, TypeOK, Where, chanVars, waitVars
  <2> QED BY <2>1, <2>2, NamesAssumption DEF Call, Step
<1>3. CASE \E f \in Tasks : AwaitFuture(t, f)
  <2>1. PICK f \in Tasks : AwaitFuture(t, f)
    BY <1>3
  <2>2. /\ pc' \in [Tasks -> Where] /\ cur' \in Tasks \cup {None}
        /\ stack' \in Seq(Pump) /\ stack' # << >> /\ MainAtBottom(stack')
    BY <2>1, ForceType, RunningStack, NamesAssumption DEF AwaitFuture, Step
  <2>3. TypeOK'
    BY <2>1, StepOps, <2>2 DEF AwaitFuture, Step, TypeOK, frameVars, chanVars, waitVars
  <2> QED BY <2>2, <2>3, NamesAssumption
<1>4. CASE \E f, u \in Tasks : Reassign(t, f, u)
  <2>1. PICK f \in Tasks, u \in Tasks : Reassign(t, f, u)
    BY <1>4
  <2>2. ready' \in Seq(Tasks)
    BY <2>1 DEF Reassign, TypeOK
  <2>3. pc' \in [Tasks -> Where]
    BY <2>1 DEF Reassign, TypeOK, Where
  <2>4. owner' \in [Tasks -> Tasks \cup {None}]
    BY <2>1 DEF Reassign, TypeOK
  <2>5. TypeOK'
    BY <2>1, <2>2, <2>3, <2>4, StepOps DEF Reassign, TypeOK, chanVars, waitVars
  <2> QED BY <2>1, <2>5 DEF Reassign
<1>5. CASE \E c \in Chans : Send(t, c)
  <2>1. PICK c \in Chans : Send(t, c)
    BY <1>5
  <2>2. q' \in [Chans -> Nat]
    BY <2>1 DEF Send, TypeOK
  <2>3. wake' \in [on: Chans, all: BOOLEAN]
    BY <2>1 DEF Send
  <2>4. TypeOK'
    BY <2>1, <2>2, <2>3, StepOps DEF Send, TypeOK, frameVars, waitVars
  <2> QED BY <2>1, <2>4 DEF Send
<1>11. CASE \E c \in Chans : Close(t, c)
  <2>1. PICK c \in Chans : Close(t, c)
    BY <1>11
  <2>2. closed' \in [Chans -> BOOLEAN]
    BY <2>1 DEF Close, TypeOK
  <2>3. wake' \in [on: Chans, all: BOOLEAN]
    BY <2>1 DEF Close
  <2>4. TypeOK'
    BY <2>1, <2>2, <2>3, StepOps DEF Close, TypeOK, frameVars, waitVars
  <2> QED BY <2>1, <2>4 DEF Close
<1>6. CASE \E c \in Chans : Poll(t, c)
  <2>1. PICK c \in Chans : Poll(t, c)
    BY <1>6
  <2>2. q' \in [Chans -> Nat]
    BY <2>1 DEF Poll, TakeValue, TypeOK
  <2>3. TypeOK'
    BY <2>1, <2>2, StepOps DEF Poll, TypeOK, frameVars, waitVars
  <2> QED BY <2>1, <2>3 DEF Poll
<1>7. CASE \E c \in Chans : Receive(t, c)
  <2>1. PICK c \in Chans : Receive(t, c)
    BY <1>7
  <2>2. CASE ChanReady(c)
    <3>1. q' \in [Chans -> Nat]
      <4>1. TakeValue(c)
        BY <2>1, <2>2 DEF Receive
      <4> QED BY <4>1 DEF TakeValue, TypeOK
    <3>2. TypeOK'
      BY <2>1, <2>2, <3>1, StepOps DEF Receive, TypeOK, frameVars
    <3> QED BY <2>1, <2>2, <3>2 DEF Receive
  <2>3. CASE ~ChanReady(c)
    <3>1. <<c>> \in Seq(Sources)
      BY DEF Sources
    <3>2. Park(t, <<c>>, "recv") /\ UNCHANGED <<q, stack>>
      BY <2>1, <2>3 DEF Receive
    <3>3. /\ pc' \in [Tasks -> Where] /\ arms' \in [Tasks -> Seq(Sources)]
          /\ waiters' \in [Chans -> Seq(Tasks)] /\ cur' = None
      BY <3>1, <3>2, ParkType
    <3>4. TypeOK'
      BY <2>1, <3>2, <3>3, StepOps DEF Receive, TypeOK, frameVars
    <3>5. cur' = None /\ cur # Main /\ None # Main
      BY <2>1, <3>2, StepOps, NamesAssumption DEF Park, Receive
    <3> QED BY <3>2, <3>4, <3>5
  <2> QED BY <2>2, <2>3
<1>8. CASE \E as \in ArmLists(t) : SelectReady(t, as)
  <2>1. PICK as \in ArmLists(t) : SelectReady(t, as)
    BY <1>8
  <2>2. PICK i \in DOMAIN as : TakeArm(t, as[i], stack)
    BY <2>1 DEF SelectReady
  <2>3. /\ pc' \in [Tasks -> Where] /\ cur' \in Tasks \cup {None}
        /\ stack' \in Seq(Pump) /\ stack' # << >> /\ MainAtBottom(stack')
        /\ q' \in [Chans -> Nat]
    BY <2>1, <2>2, TakeArmType, RunningStack, NamesAssumption DEF SelectReady, Step
  <2>4. TypeOK'
    BY <2>1, StepOps, <2>3 DEF SelectReady, Step, TypeOK, frameVars, waitVars
  <2> QED BY <2>3, <2>4, NamesAssumption
<1>9. CASE \E as \in ArmLists(t), d \in Delays \cup {None}, lag \in 0 .. MaxLag :
             SelectPark(t, as, d, lag)
  <2>1. PICK as \in ArmLists(t), d \in Delays \cup {None}, lag \in 0 .. MaxLag :
          SelectPark(t, as, d, lag)
    BY <1>9
  <2>2. as \in Seq(Sources)
    BY ArmListsType
  <2>3. /\ pc' \in [Tasks -> Where] /\ arms' \in [Tasks -> Seq(Sources)]
        /\ waiters' \in [Chans -> Seq(Tasks)] /\ cur' = None
    BY <2>1, <2>2, ParkType DEF SelectPark
  <2>4. now' \in Nat /\ (d # None => now + lag + d \in Nat)
    BY <2>1, ProgramAssumption, BoundsAssumption DEF SelectPark, TypeOK
  <2>5. /\ deadline' \in [Tasks -> Nat \cup {None}]
        /\ slot' \in [Tasks -> Tasks \cup {None}]
    <3> DEFINE dl == IF d = None THEN None ELSE now + lag + d
    <3>2. dl \in Nat \cup {None} /\ deadline' = [deadline EXCEPT ![t] = dl]
      BY <2>1, <2>4 DEF SelectPark
    <3> HIDE DEF dl
    <3>3. deadline' \in [Tasks -> Nat \cup {None}]
      BY <3>2 DEF TypeOK
    <3>4. slot' \in [Tasks -> Tasks \cup {None}]
      BY <2>1 DEF SelectPark, TypeOK
    <3> QED BY <3>3, <3>4
  <2>6. TypeOK'
    BY <2>1, <2>3, <2>4, <2>5, StepOps DEF SelectPark, TypeOK, frameVars
  <2>7. cur # Main /\ None # Main /\ stack' = stack
    BY <2>1, StepOps, NamesAssumption DEF SelectPark
  <2> QED BY <2>3, <2>6, <2>7
<1>10. CASE \E as \in ArmLists(t), binds \in BOOLEAN : PollSelect(t, as, binds)
  <2>1. PICK as \in ArmLists(t), binds \in BOOLEAN : PollSelect(t, as, binds)
    BY <1>10
  <2>2. CASE \E i \in DOMAIN as : TakeArm(t, as[i], stack)
    <3>1. PICK i \in DOMAIN as : TakeArm(t, as[i], stack)
      BY <2>2
    <3>2. /\ pc' \in [Tasks -> Where] /\ cur' \in Tasks \cup {None}
          /\ stack' \in Seq(Pump) /\ stack' # << >> /\ MainAtBottom(stack')
          /\ q' \in [Chans -> Nat]
      BY <2>1, <3>1, TakeArmType, RunningStack, NamesAssumption DEF PollSelect, Step
    <3>3. TypeOK'
      BY <2>1, StepOps, <3>2 DEF PollSelect, Step, TypeOK, frameVars, waitVars
    <3> QED BY <3>2, <3>3, NamesAssumption
  <2>3. CASE UNCHANGED <<pc, cur, stack, q>>
    <3>1. TypeOK'
      BY <2>1, StepOps, <2>3 DEF PollSelect, Step, TypeOK, frameVars, waitVars
    <3> QED BY <2>3, <3>1
  <2> QED BY <2>1, <2>2, <2>3 DEF PollSelect
<1> QED BY <1>1, <1>2, <1>3, <1>4, <1>5, <1>6, <1>7, <1>8, <1>9, <1>10, <1>11 DEF Operation

\* The wake loops, whose next Waiter is that of a task.
LEMMA TypeInvWake ==
  ASSUME TypeInv, WakeNext \/ WakeEnd
  PROVE  TypeInv'
<1> USE DEF TypeInv
<1>1. CASE WakeNext
  <2> DEFINE w == Head(waiters[wake.on])
  <2>1. /\ wake.on \in Chans /\ waiters[wake.on] \in Seq(Tasks)
        /\ waiters[wake.on] # << >>
    BY <1>1 DEF WakeNext, TypeOK
  <2>2. w \in Tasks /\ Tail(waiters[wake.on]) \in Seq(Tasks)
    BY <2>1, HeadTailProperties
  <2> HIDE DEF w
  <2>3. waiters' \in [Chans -> Seq(Tasks)]
    BY <1>1, <2>2 DEF WakeNext, TypeOK
  <2>4. fired' = [fired EXCEPT ![w] = TRUE]
    BY <1>1 DEF WakeNext, w
  <2>5. fired' \in [Tasks -> BOOLEAN]
    BY <2>4 DEF TypeOK
  <2>6. ready' = ready \/ ready' = Append(ready, w)
    BY <1>1 DEF WakeNext, w
  <2>7. ready' \in Seq(Tasks)
    <3>1. ready \in Seq(Tasks) /\ Append(ready, w) \in Seq(Tasks)
      BY <2>2, AppendProperties DEF TypeOK
    <3> QED BY <2>6, <3>1
  <2>8. wake' \in {Quiet} \cup [on: Chans, all: BOOLEAN]
    BY <1>1 DEF WakeNext, TypeOK
  <2>9. TypeOK'
    BY <1>1, <2>3, <2>5, <2>7, <2>8 DEF WakeNext, TypeOK, frameVars
  <2> QED BY <1>1, <2>9 DEF WakeNext
<1>2. CASE WakeEnd
  <2>1. TypeOK'
    BY <1>2 DEF WakeEnd, TypeOK, frameVars, waitVars
  <2> QED BY <1>2, <2>1 DEF WakeEnd
<1> QED BY <1>1, <1>2

\* Scheduler::run and the pumps.
LEMMA TypeInvRunLoop ==
  ASSUME TypeInv, RunLoop
  PROVE  TypeInv'
<1> USE DEF TypeInv
<1>0. ASSUME cur = None
      PROVE  /\ cur # Main /\ stack # << >> /\ stack \in Seq(Pump)
             /\ InLoop \in Seq(Pump) /\ InLoop # << >> /\ MainAtBottom(InLoop)
             /\ Top \in Pump
  BY <1>0, NamesAssumption, LoopPump DEF TypeOK
<1>1. ASSUME NEW t \in Tasks, Start(t)
      PROVE  TypeInv'
  <2>1. cur = None
    BY <1>1 DEF Start, Pumping
  <2>2. Tail(ready) \in Seq(Tasks)
    BY <1>1, HeadTailProperties DEF Start, TypeOK
  <2>3. pc' \in [Tasks -> Where]
    BY <1>1 DEF Start, TypeOK, Where
  <2>4. TypeOK'
    BY <1>0, <1>1, <2>1, <2>2, <2>3 DEF Start, TypeOK, frameVars, chanVars, waitVars
  <2> QED BY <1>0, <1>1, <2>1, <2>4, NamesAssumption DEF Start
<1>2. ASSUME NEW t \in Tasks, Resume(t)
      PROVE  TypeInv'
  <2>1. cur = None
    BY <1>2 DEF Resume, Pumping
  <2>2. Tail(ready) \in Seq(Tasks)
    BY <1>2, HeadTailProperties DEF Resume, TypeOK
  <2>3. /\ pc' \in [Tasks -> Where] /\ cur' \in Tasks \cup {None}
        /\ stack' \in Seq(Pump) /\ stack' # << >> /\ MainAtBottom(stack')
        /\ q' \in [Chans -> Nat]
    <3>1. CASE \E s : TakeArm(t, s, InLoop)
      BY <1>0, <2>1, <3>1, TakeArmType
    <3>2. CASE /\ pc' = [pc EXCEPT ![t] = "run"] /\ cur' = t
               /\ stack' = InLoop /\ UNCHANGED q
      BY <1>0, <2>1, <3>2 DEF TypeOK, Where
    <3> QED BY <1>2, <3>1, <3>2 DEF Resume
  <2>4. slot' \in [Tasks -> Tasks \cup {None}]
    BY <1>2 DEF Resume, Disarm, TypeOK
  <2>5. waiters' \in [Chans -> Seq(Tasks)]
    <3>1. \A c \in Chans : Unpark(waiters[c], t) \in Seq(Tasks)
      BY UnparkType DEF TypeOK
    <3> QED BY <1>2, <3>1 DEF Resume, Disarm, TypeOK
  <2>6. arms' \in [Tasks -> Seq(Sources)]
    BY <1>2, EmptySeq DEF Resume, TypeOK
  <2>7. fired' \in [Tasks -> BOOLEAN] /\ deadline' \in [Tasks -> Nat \cup {None}]
    BY <1>2 DEF Resume, TypeOK
  <2>8. TypeOK'
    BY <1>2, <2>2, <2>3, <2>4, <2>5, <2>6, <2>7 DEF Resume, TypeOK, frameVars
  <2> QED BY <2>3, <2>8, NamesAssumption
<1>3. ASSUME NEW t \in Tasks, FireTimer(t)
      PROVE  TypeInv'
  <2>1. cur = None
    BY <1>3 DEF FireTimer, Pumping
  <2>2. deadline[t] \in Nat
    BY <1>3 DEF FireTimer, Timers, TypeOK
  <2>3. now' \in Nat
    BY <1>3, <2>2 DEF FireTimer, TypeOK
  <2>4. fired' \in [Tasks -> BOOLEAN] /\ ready' \in Seq(Tasks)
    BY <1>3 DEF FireTimer, TypeOK
  <2>5. TypeOK'
    BY <1>0, <1>3, <2>1, <2>3, <2>4 DEF FireTimer, TypeOK, frameVars, chanVars
  <2> QED BY <1>0, <1>3, <2>1, <2>5 DEF FireTimer
<1>4. ASSUME Leave
      PROVE  TypeInv'
  <2>1. cur = None
    BY <1>4 DEF Leave
  <2>2. pc' \in [Tasks -> Where]
    BY <1>0, <1>4, <2>1 DEF Leave, Pump, TypeOK, Where
  <2>3. /\ stack' \in Seq(Pump) /\ MainAtBottom(stack')
        /\ Top.by \in Tasks \cup {Main}
        /\ Top.by = Main <=> stack' = << >>
    BY <1>0, <1>4, <2>1, PopPump DEF Leave
  <2>4. TypeOK'
    BY <1>4, <2>2, <2>3 DEF Leave, TypeOK, frameVars, chanVars, waitVars
  <2> QED BY <1>4, <2>3, <2>4 DEF Leave
<1> QED BY <1>1, <1>2, <1>3, <1>4 DEF RunLoop

\* The end of a task.
LEMMA TypeInvEnding ==
  ASSUME TypeInv, NEW t \in Tasks, Ending(t)
  PROVE  TypeInv'
<1> USE DEF TypeInv
<1>1. CASE Return(t)
  <2>1. TypeOK'
    BY <1>1 DEF Return, TypeOK, Where, frameVars, chanVars, waitVars
  <2> QED BY <1>1, <2>1 DEF Return
<1>2. CASE \E f \in Tasks : Unwind(t, f)
  <2>1. PICK f \in Tasks : Unwind(t, f)
    BY <1>2
  <2>2. cur = t /\ cur # Main /\ None # Main
    BY <2>1, NamesAssumption DEF Unwind
  <2>3. stack' \in Seq(Pump) /\ stack' # << >> /\ MainAtBottom(stack')
    BY <2>1, <2>2, RunningStack, PushPump DEF Unwind
  <2>4. TypeOK'
    BY <2>1, <2>3 DEF Unwind, TypeOK, frameVars, chanVars, waitVars
  <2> QED BY <2>1, <2>2, <2>3, <2>4 DEF Unwind
<1>3. CASE Finish(t)
  <2>1. cont[t] \in Tasks \cup {None} /\ slot[t] \in Tasks \cup {None}
    BY DEF TypeOK
  <2>2. pc' \in [Tasks -> Where]
    BY <1>3 DEF Finish, TypeOK, Where
  <2>3. fired' \in [Tasks -> BOOLEAN] /\ ready' \in Seq(Tasks)
    <3>1. CASE slot[t] # None /\ ~fired[slot[t]]
      <4>1. ready' = Append(ready, slot[t]) /\ slot[t] \in Tasks
        BY <1>3, <2>1, <3>1 DEF Finish
      <4>2. fired' = [fired EXCEPT ![slot[t]] = TRUE]
        BY <1>3, <3>1 DEF Finish
      <4>3. ready' \in Seq(Tasks)
        BY <4>1 DEF TypeOK
      <4> QED BY <4>2, <4>3 DEF TypeOK
    <3>2. CASE UNCHANGED <<fired, ready>>
      BY <3>2 DEF TypeOK
    <3> QED BY <1>3, <3>1, <3>2 DEF Finish
  <2>4. TypeOK'
    BY <1>3, <2>1, <2>2, <2>3 DEF Finish, TypeOK, frameVars, chanVars
  <2>5. cur' # Main /\ cur # Main /\ stack' = stack
    BY <1>3, <2>1, NamesAssumption DEF Finish
  <2> QED BY <2>4, <2>5
<1> QED BY <1>1, <1>2, <1>3 DEF Ending

LEMMA TypeInvStep == TypeInv /\ [Next]_vars => TypeInv'
<1> SUFFICES ASSUME TypeInv, [Next]_vars PROVE TypeInv'
  OBVIOUS
<1>1. CASE UNCHANGED vars
  <2>1. TypeOK'
    BY <1>1 DEF TypeInv, TypeOK, vars
  <2> QED BY <1>1, <2>1 DEF TypeInv, vars
<1>2. CASE Next
  BY <1>2, TypeInvOperation, TypeInvEnding, TypeInvWake, TypeInvRunLoop DEF Next
<1> QED BY <1>1, <1>2

\* Every reachable state has the declared types: no queue length goes below
\* zero, no handle, slot or continuation names anything but a task.
THEOREM TypeCorrect == Spec => []TypeOK
<1>1. Spec => []TypeInv
  BY TypeInvInit, TypeInvStep, PTL DEF Spec
<1>2. TypeInv => TypeOK
  BY DEF TypeInv
<1> QED BY <1>1, <1>2, PTL

-----------------------------------------------------------------------------
\* Frames

Live(t) == pc[t] \in {"run", "exit"}

\* The callers that are buried under a pump.
Callers == {stack[i].by : i \in DOMAIN stack}

\* A select waits only on futures of its own task, and on nothing at all only
\* until a timeout.
OwnersInv ==
  /\ pc[Root] # "unborn" /\ owner[Root] = None
  /\ \A u \in Tasks : pc[u] = "unborn" => owner[u] = None
  /\ \A u \in Tasks : Parked(u) =>
       TasksOf(arms[u]) \subseteq Owned(u) /\ (arms[u] # << >> \/ deadline[u] # None)

StackInv ==
  /\ cur \notin Callers
  /\ \A u \in Callers \ {Main} : Live(u)
  /\ \A i \in DOMAIN stack :
       \/ stack[i].by = Main /\ stack[i].of = Root
       \/ stack[i].by \in Tasks /\ owner[stack[i].of] = stack[i].by
  /\ \A i, j \in DOMAIN stack : stack[i].by = stack[j].by => i = j

LiveInv == \A t \in Tasks : Live(t) => t = cur \/ t \in Callers

FrameInv == TypeInv /\ CallersWait /\ OwnersInv /\ StackInv /\ LiveInv

-----------------------------------------------------------------------------
\* How a step moves the program counters

\* No task outside S moves, but that completed frames may be dropped.
Only(S) ==
  \A u \in Tasks \ S : pc'[u] = pc[u] \/ (Complete(u) /\ pc'[u] = "gone")

\* Suspended callers stay so, and nothing is revived.
Forward ==
  \A u \in Tasks :
    /\ pc[u] = "call" => pc'[u] = "call"
    /\ Complete(u) => Complete(u)'
    /\ pc'[u] = "unborn" => pc[u] = "unborn"

\* No other task than t changes what it waits for.
Others(t) == \A u \in Tasks : u # t => arms'[u] = arms[u] /\ deadline'[u] = deadline[u]

\* The pumps of st are those of the stack.
Kept(st) ==
  /\ st \in Seq(Pump) /\ DOMAIN st = DOMAIN stack
  /\ \A i \in DOMAIN stack : st[i].by = stack[i].by /\ st[i].of = stack[i].of

LEMMA OnlyForward ==
  ASSUME NEW t \in Tasks, Only({t}), pc[t] # "call", ~Complete(t), pc'[t] # "unborn"
  PROVE  Forward
BY DEF Only, Forward, Complete

LEMMA KeepCalls ==
  ASSUME FrameInv, Forward, UNCHANGED cont
  PROVE  CallersWait'
<1>1. \A u \in Tasks : cont[u] \in Tasks \cup {None}
  BY DEF FrameInv, TypeInv, TypeOK
<1>2. \A u \in Tasks : ~Complete(u)' => ~Complete(u)
  BY DEF Forward
<1>3. \A u \in Tasks : cont[u] # None /\ ~Complete(u)' => pc'[cont[u]] = "call"
  BY <1>1, <1>2 DEF Forward, FrameInv, CallersWait
<1> QED BY <1>2, <1>3 DEF Forward, FrameInv, CallersWait

LEMMA KeepOwners ==
  ASSUME FrameInv, Forward, UNCHANGED owner,
         \A u \in Tasks : Parked(u)' =>
           \/ Parked(u) /\ arms'[u] = arms[u] /\ deadline'[u] = deadline[u]
           \/ TasksOf(arms'[u]) \subseteq Owned(u) /\ (arms'[u] # << >> \/ deadline'[u] # None)
  PROVE  OwnersInv'
<1>1. \A u \in Tasks : Owned(u)' = Owned(u)
  BY DEF Owned
<1>2. \A u \in Tasks : Parked(u)' =>
        TasksOf(arms'[u]) \subseteq Owned(u) /\ (arms'[u] # << >> \/ deadline'[u] # None)
  BY DEF FrameInv, OwnersInv, TasksOf
<1>3. \A u \in Tasks : TasksOf(arms[u])' = TasksOf(arms'[u])
  BY DEF TasksOf
<1> QED BY <1>1, <1>2, <1>3, NamesAssumption DEF Forward, FrameInv, OwnersInv

-----------------------------------------------------------------------------
\* What a step does to the stack

LEMMA CallersAreCallers ==
  ASSUME FrameInv
  PROVE  Callers \subseteq Tasks \cup {Main} /\ None \notin Callers
<1>1. \A i \in DOMAIN stack : stack[i] \in Pump
  BY DEF FrameInv, TypeInv, TypeOK
<1> QED BY <1>1, NamesAssumption DEF Callers, Pump

LEMMA KeptStack ==
  ASSUME FrameInv, cur # Main
  PROVE  /\ Kept(stack) /\ Kept(InLoop) /\ stack # << >> /\ InLoop # << >>
<1>1. stack \in Seq(Pump) /\ stack # << >>
  BY RunningStack DEF FrameInv
<1>2. /\ InLoop \in Seq(Pump) /\ InLoop # << >> /\ Len(InLoop) = Len(stack)
      /\ \A i \in 1 .. Len(stack) :
           InLoop[i].by = stack[i].by /\ InLoop[i].of = stack[i].of
  BY <1>1, LoopPump DEF FrameInv
<1>3. DOMAIN stack = 1 .. Len(stack) /\ DOMAIN InLoop = 1 .. Len(stack)
  BY <1>1, <1>2, LenProperties
<1> QED BY <1>1, <1>2, <1>3 DEF Kept

\* The same pumps, or one pump more, whose caller was in none.
LEMMA SameStack ==
  ASSUME FrameInv, Kept(stack'), cur' \notin Callers,
         \A u \in Callers \ {Main} : Live(u)',
         \A f \in Tasks : owner[f] \in Callers => owner'[f] = owner[f]
  PROVE  StackInv' /\ Callers' = Callers
<1>1. Callers' = Callers
  BY DEF Kept, Callers
<1>2. \A i \in DOMAIN stack : stack[i] \in Pump
  BY DEF FrameInv, TypeInv, TypeOK
<1>3. ASSUME NEW i \in DOMAIN stack
      PROVE  \/ stack'[i].by = Main /\ stack'[i].of = Root
             \/ stack'[i].by \in Tasks /\ owner'[stack'[i].of] = stack'[i].by
  <2>1. stack'[i].by = stack[i].by /\ stack'[i].of = stack[i].of
    BY DEF Kept
  <2>2. stack[i].of \in Tasks /\ stack[i].by \in Callers
    BY <1>2 DEF Pump, Callers
  <2> QED BY <2>1, <2>2 DEF FrameInv, StackInv
<1>4. \A i, j \in DOMAIN stack : stack'[i].by = stack'[j].by => i = j
  BY DEF Kept, FrameInv, StackInv
<1>5. DOMAIN stack' = DOMAIN stack
  BY DEF Kept
<1> QED BY <1>1, <1>3, <1>4, <1>5 DEF StackInv

LEMMA PushStack ==
  ASSUME FrameInv, NEW st, Kept(st), NEW t \in Tasks, NEW f \in Tasks,
         stack' = Append(st, [by |-> t, of |-> f, loop |-> TRUE]),
         t \notin Callers, owner[f] = t, UNCHANGED owner,
         cur' = None, Live(t)', \A u \in Callers \ {Main} : Live(u)'
  PROVE  StackInv' /\ Callers' = Callers \cup {t}
<1> DEFINE p == [by |-> t, of |-> f, loop |-> TRUE]
<1>1. p \in Pump /\ p.by = t /\ p.of = f
  BY DEF Pump
<1> HIDE DEF p
<1>2. st \in Seq(Pump) /\ stack' = Append(st, p)
  BY DEF Kept, p
<1> DEFINE n == Len(st)
<1>3. /\ n \in Nat /\ DOMAIN st = 1 .. n /\ DOMAIN stack = 1 .. n
      /\ DOMAIN stack' = 1 .. n + 1
      /\ \A i \in 1 .. n : stack'[i] = st[i]
      /\ stack'[n + 1] = p
  BY <1>1, <1>2, AppendProperties, LenProperties DEF Kept
<1>4. \A i \in 1 .. n : stack'[i].by = stack[i].by /\ stack'[i].of = stack[i].of
  BY <1>3 DEF Kept
<1> HIDE DEF n
<1>5. n + 1 \notin 1 .. n /\ 1 .. n + 1 = (1 .. n) \cup {n + 1}
  BY <1>3
<1>6. Callers' = {stack'[i].by : i \in (1 .. n) \cup {n + 1}}
  BY <1>3, <1>5 DEF Callers
<1>7. Callers = {stack'[i].by : i \in 1 .. n}
  BY <1>3, <1>4 DEF Callers
<1>8. Callers' = Callers \cup {t}
  BY <1>1, <1>3, <1>6, <1>7
<1>9. cur' \notin Callers'
  BY <1>8, CallersAreCallers, NamesAssumption
<1>10. \A i \in DOMAIN stack' :
         \/ stack'[i].by = Main /\ stack'[i].of = Root
         \/ stack'[i].by \in Tasks /\ owner'[stack'[i].of] = stack'[i].by
  BY <1>1, <1>3, <1>4, <1>5 DEF FrameInv, StackInv
<1>11. ASSUME NEW i \in DOMAIN stack', NEW j \in DOMAIN stack', stack'[i].by = stack'[j].by
       PROVE  i = j
  <2>1. \A k \in 1 .. n : stack'[k].by # t
    BY <1>7
  <2> QED BY <1>1, <1>3, <1>4, <1>5, <1>11, <2>1 DEF FrameInv, StackInv
<1>12. \A u \in Callers' \ {Main} : Live(u)'
  BY <1>8
<1> QED BY <1>8, <1>9, <1>10, <1>11, <1>12 DEF StackInv

-----------------------------------------------------------------------------
\* The kinds of step

\* Nothing moves but the loop flag of the top pump.
LEMMA IdleStep ==
  ASSUME FrameInv, UNCHANGED <<pc, cur, owner, cont, arms, deadline>>, Kept(stack')
  PROVE  CallersWait' /\ OwnersInv' /\ StackInv' /\ LiveInv'
<1>1. Forward
  BY DEF Forward, Complete
<1>2. CallersWait'
  BY <1>1, KeepCalls
<1>3. OwnersInv'
  BY <1>1, KeepOwners DEF Parked
<1>4. StackInv' /\ Callers' = Callers
  BY SameStack DEF FrameInv, StackInv, Live
<1>5. LiveInv'
  BY <1>4 DEF FrameInv, LiveInv, Live
<1> QED BY <1>2, <1>3, <1>4, <1>5

\* Task t, alone, goes on, parks or ends; it is on no pump.
LEMMA TaskStep ==
  ASSUME FrameInv, NEW t \in Tasks, Only({t}), pc[t] # "call", ~Complete(t),
         pc'[t] # "unborn", t \notin Callers, cur \in {t, None},
         UNCHANGED <<cont, owner>>, Others(t),
         Parked(t)' => /\ TasksOf(arms'[t]) \subseteq Owned(t)
                       /\ arms'[t] # << >> \/ deadline'[t] # None,
         Kept(stack'), cur' \in {t, None}, Live(t)' => cur' = t
  PROVE  CallersWait' /\ OwnersInv' /\ StackInv' /\ LiveInv'
<1>1. Forward
  BY OnlyForward
<1>2. CallersWait'
  BY <1>1, KeepCalls
<1>3. \A u \in Tasks : u # t /\ Parked(u)' => Parked(u)
  BY DEF Only, Parked
<1>4. OwnersInv'
  BY <1>1, <1>3, KeepOwners DEF Others
<1>5. \A u \in Tasks : u # t => (Live(u)' <=> Live(u))
  BY DEF Only, Live, Complete
<1>6. cur' \notin Callers
  BY CallersAreCallers
<1>7. StackInv' /\ Callers' = Callers
  BY <1>5, <1>6, CallersAreCallers, SameStack DEF FrameInv, StackInv
<1>8. LiveInv'
  BY <1>5, <1>7, NamesAssumption DEF FrameInv, LiveInv
<1> QED BY <1>2, <1>4, <1>7, <1>8

\* Task t, alone, pumps the run-loop for a future of its own.
LEMMA PumpStep ==
  ASSUME FrameInv, NEW t \in Tasks, Only({t}), pc[t] # "call", ~Complete(t),
         Live(t)', t \notin Callers, cur \in {t, None},
         UNCHANGED <<cont, owner>>, Others(t),
         NEW st, Kept(st), NEW f \in Owned(t), cur' = None,
         stack' = Append(st, [by |-> t, of |-> f, loop |-> TRUE])
  PROVE  CallersWait' /\ OwnersInv' /\ StackInv' /\ LiveInv'
<1>1. Forward
  BY OnlyForward DEF Live
<1>2. CallersWait'
  BY <1>1, KeepCalls
<1>3. \A u \in Tasks : u # t /\ Parked(u)' => Parked(u)
  BY DEF Only, Parked
<1>4. ~Parked(t)'
  BY DEF Live, Parked
<1>5. OwnersInv'
  BY <1>1, <1>3, <1>4, KeepOwners DEF Others
<1>6. \A u \in Tasks : u # t => (Live(u)' <=> Live(u))
  BY DEF Only, Live, Complete
<1>7. f \in Tasks /\ owner[f] = t
  BY DEF Owned
<1>8. StackInv' /\ Callers' = Callers \cup {t}
  <2>1. \A u \in Callers \ {Main} : Live(u)'
    BY <1>6, CallersAreCallers DEF FrameInv, StackInv
  <2> QED BY <1>7, <2>1, PushStack
<1>9. LiveInv'
  BY <1>6, <1>8, NamesAssumption DEF FrameInv, LiveInv
<1> QED BY <1>2, <1>5, <1>8, <1>9

\* Task t, which runs or is resumed, takes the value of a future of its own ...
LEMMA ForceFrames ==
  ASSUME FrameInv, NEW t \in Tasks, pc[t] # "call", ~Complete(t),
         t \notin Callers, cur \in {t, None},
         UNCHANGED <<cont, owner>>, Others(t),
         NEW st, Kept(st), NEW f \in Owned(t), ForceFuture(t, f, st)
  PROVE  CallersWait' /\ OwnersInv' /\ StackInv' /\ LiveInv'
<1>1. pc \in [Tasks -> Where] /\ f \in Tasks
  BY DEF FrameInv, TypeInv, TypeOK, Owned
<1>2. CASE Complete(f)
  <2>1. pc' = [pc EXCEPT ![t] = "run", ![f] = "gone"] /\ t # f /\ cur' = t /\ stack' = st
    BY <1>2 DEF ForceFuture
  <2>2. Only({t}) /\ pc'[t] = "run"
    BY <1>1, <1>2, <2>1 DEF Only
  <2>3. ~Parked(t)'
    BY <2>2 DEF Parked
  <2> QED BY <2>1, <2>2, <2>3, TaskStep
<1>3. CASE ~Complete(f)
  <2>1. /\ pc' = [pc EXCEPT ![t] = "run"] /\ cur' = None
        /\ stack' = Append(st, [by |-> t, of |-> f, loop |-> TRUE])
    BY <1>3 DEF ForceFuture
  <2>2. Only({t}) /\ Live(t)'
    BY <1>1, <2>1 DEF Only, Live
  <2> QED BY <2>1, <2>2, PumpStep
<1> QED BY <1>2, <1>3

\* ... or that of a channel.
LEMMA TakeArmFrames ==
  ASSUME FrameInv, NEW t \in Tasks, pc[t] # "call", ~Complete(t),
         t \notin Callers, cur \in {t, None},
         UNCHANGED <<cont, owner>>, Others(t),
         NEW st, Kept(st), NEW s, s \in Tasks => s \in Owned(t), TakeArm(t, s, st)
  PROVE  CallersWait' /\ OwnersInv' /\ StackInv' /\ LiveInv'
<1>1. CASE pc' = [pc EXCEPT ![t] = "run"] /\ cur' = t /\ stack' = st
  <2>1. Only({t}) /\ pc'[t] = "run"
    BY <1>1 DEF FrameInv, TypeInv, TypeOK, Only
  <2>2. ~Parked(t)'
    BY <2>1 DEF Parked
  <2> QED BY <1>1, <2>1, <2>2, TaskStep
<1>2. CASE s \in Tasks /\ ForceFuture(t, s, st)
  BY <1>2, ForceFrames
<1> QED BY <1>1, <1>2 DEF TakeArm

\* The running task is on no pump.
LEMMA RunningFrames ==
  ASSUME FrameInv, NEW t \in Tasks, cur = t, Live(t)
  PROVE  /\ pc[t] # "call" /\ ~Complete(t) /\ ~Parked(t) /\ t \notin Callers
         /\ Kept(stack) /\ stack # << >> /\ cur \in {t, None}
<1>1. cur # Main
  BY NamesAssumption
<1> QED BY <1>1, KeptStack DEF Live, Complete, Parked, FrameInv, StackInv

\* The arms of a select are the task's own futures.
LEMMA ArmsOwned ==
  ASSUME NEW t \in Tasks, NEW as \in ArmLists(t)
  PROVE  TasksOf(as) \subseteq Owned(t)
<1>1. PICK n \in 0 .. MaxArms :
        as \in [1 .. n -> {c \in Chans : t \in Readers[c]} \cup Owned(t)]
  BY DEF ArmLists
<1>2. \A i \in DOMAIN as : as[i] \in Chans \cup Owned(t)
  BY <1>1
<1> QED BY <1>2, NamesAssumption DEF TasksOf, ToSet

-----------------------------------------------------------------------------
\* The steps that change an owner, a continuation or the bottom of the stack

LEMMA SpawnFrames ==
  ASSUME FrameInv, NEW t \in Tasks, NEW u \in Tasks, Spawn(t, u)
  PROVE  CallersWait' /\ OwnersInv' /\ StackInv' /\ LiveInv'
<1>1. /\ cur = t /\ pc[t] = "run" /\ pc[u] = "unborn"
      /\ pc' = [pc EXCEPT ![u] = "fresh"] /\ owner' = [owner EXCEPT ![u] = t]
      /\ UNCHANGED <<cont, stack, cur, arms, deadline>>
  BY DEF Spawn, Step, waitVars
<1>2. pc \in [Tasks -> Where] /\ owner \in [Tasks -> Tasks \cup {None}]
  BY DEF FrameInv, TypeInv, TypeOK
<1>3. Forward
  BY <1>1, <1>2 DEF Forward, Complete
<1>4. CallersWait'
  BY <1>1, <1>3, KeepCalls
<1>5. owner[u] = None /\ u # Root
  BY <1>1 DEF FrameInv, OwnersInv
<1>6. \A v \in Tasks : Owned(v) \subseteq Owned(v)' /\ (Parked(v)' => Parked(v))
  BY <1>1, <1>2, <1>5, NamesAssumption DEF Owned, Parked
<1>7. OwnersInv'
  BY <1>1, <1>2, <1>5, <1>6, NamesAssumption DEF FrameInv, OwnersInv, TasksOf
<1>8. \A v \in Tasks : Live(v)' <=> Live(v)
  BY <1>1, <1>2 DEF Live
<1>9. StackInv' /\ Callers' = Callers
  <2>1. Kept(stack')
    BY <1>1, RunningFrames DEF Live
  <2>2. \A w \in Tasks : owner[w] \in Callers => owner'[w] = owner[w]
    BY <1>1, <1>2, <1>5, CallersAreCallers
  <2> QED BY <1>1, <1>8, <2>1, <2>2, CallersAreCallers, SameStack DEF FrameInv, StackInv
<1>10. LiveInv'
  BY <1>1, <1>8, <1>9 DEF FrameInv, LiveInv
<1> QED BY <1>4, <1>7, <1>9, <1>10

LEMMA ReassignFrames ==
  ASSUME FrameInv, NEW t \in Tasks, NEW f \in Tasks, NEW u \in Tasks, Reassign(t, f, u)
  PROVE  CallersWait' /\ OwnersInv' /\ StackInv' /\ LiveInv'
<1>1. /\ cur = t /\ pc[t] = "run" /\ pc[u] = "unborn" /\ owner[f] = t
      /\ pc[f] \in {"fresh", "recv", "sel", "done", "gone"}
      /\ \A g \in Owned(f) : Complete(g)
      /\ owner' = [owner EXCEPT ![u] = t, ![f] = None]
      /\ UNCHANGED <<cont, stack, cur, arms, deadline>>
  BY DEF Reassign, Step, waitVars
<1>2. pc \in [Tasks -> Where] /\ owner \in [Tasks -> Tasks \cup {None}]
  BY DEF FrameInv, TypeInv, TypeOK
<1>3. owner[u] = None /\ u # Root /\ u # f /\ u # t /\ t # f /\ u \notin Owned(f)
  BY <1>1, NamesAssumption DEF FrameInv, OwnersInv, Owned
<1>4. \A v \in Tasks :
        pc'[v] = IF v = u THEN "fresh"
                 ELSE IF v \in Owned(f) \cup {f} THEN "gone" ELSE pc[v]
  BY <1>3 DEF Reassign
<1>5. Forward
  BY <1>1, <1>4 DEF Forward, Complete
<1>6. CallersWait'
  BY <1>1, <1>5, KeepCalls
<1>7. \A v \in Tasks : Parked(v)' => Parked(v) /\ v # t
  BY <1>1, <1>4 DEF Parked
<1>8. \A v \in Tasks : v # t => Owned(v) \subseteq Owned(v)'
  BY <1>1, <1>2, <1>3, NamesAssumption DEF Owned
<1>9. OwnersInv'
  <2>1. owner'[Root] = None
    BY <1>1, <1>2, <1>3, NamesAssumption DEF FrameInv, OwnersInv
  <2>2. \A v \in Tasks : pc'[v] = "unborn" => owner'[v] = None
    <3>1. \A v \in Tasks : pc'[v] = "unborn" => pc[v] = "unborn" /\ v # u
      BY <1>4, <1>5 DEF Forward
    <3>2. \A v \in Tasks : pc'[v] = "unborn" => owner[v] = None
      BY <3>1 DEF FrameInv, OwnersInv
    <3> QED BY <1>1, <1>2, <3>1, <3>2
  <2>3. \A v \in Tasks : Parked(v)' =>
          TasksOf(arms[v]) \subseteq Owned(v)' /\ (arms[v] # << >> \/ deadline[v] # None)
    BY <1>7, <1>8 DEF FrameInv, OwnersInv
  <2>4. pc'[Root] # "unborn"
    BY <1>5, NamesAssumption DEF Forward, FrameInv, OwnersInv
  <2> QED BY <1>1, <2>1, <2>2, <2>3, <2>4 DEF OwnersInv, TasksOf
<1>10. \A v \in Tasks : Live(v)' <=> Live(v)
  BY <1>1, <1>4 DEF Live, Complete
<1>11. StackInv' /\ Callers' = Callers
  <2>1. Kept(stack')
    BY <1>1, RunningFrames DEF Live
  <2>2. cur \notin Callers
    BY DEF FrameInv, StackInv
  <2>3. \A w \in Tasks : owner[w] \in Callers => owner'[w] = owner[w]
    BY <1>1, <1>2, <1>3, <2>2, CallersAreCallers
  <2> QED BY <1>1, <1>10, <2>1, <2>2, <2>3, CallersAreCallers, SameStack
          DEF FrameInv, StackInv
<1>12. LiveInv'
  BY <1>1, <1>10, <1>11 DEF FrameInv, LiveInv
<1> QED BY <1>6, <1>9, <1>11, <1>12

LEMMA CallFrames ==
  ASSUME FrameInv, NEW t \in Tasks, NEW u \in Tasks, Call(t, u)
  PROVE  CallersWait' /\ OwnersInv' /\ StackInv' /\ LiveInv'
<1>1. /\ cur = t /\ pc[t] = "run" /\ pc[u] = "unborn"
      /\ pc' = [pc EXCEPT ![t] = "call", ![u] = "run"]
      /\ cont' = [cont EXCEPT ![u] = t] /\ cur' = u
      /\ UNCHANGED <<owner, stack, arms, deadline>>
  BY DEF Call, Step, waitVars
<1>2. pc \in [Tasks -> Where] /\ cont \in [Tasks -> Tasks \cup {None}]
  BY DEF FrameInv, TypeInv, TypeOK
<1>3. Forward
  BY <1>1, <1>2 DEF Forward, Complete
<1>4. t # u /\ pc'[t] = "call" /\ pc'[u] = "run" /\ cont'[u] = t
  BY <1>1, <1>2
<1>5. CallersWait'
  <2>1. \A v \in Tasks : v # u => cont'[v] = cont[v] /\ (Complete(v)' <=> Complete(v))
    BY <1>1, <1>2 DEF Complete
  <2>2. \A v \in Tasks : cont[v] = t => Complete(v)
    BY <1>1, NamesAssumption DEF FrameInv, CallersWait
  <2>3. ASSUME NEW v \in Tasks, cont'[v] # None, ~Complete(v)'
        PROVE  pc'[cont'[v]] = "call"
    <3>1. CASE v = u
      BY <1>4, <3>1
    <3>2. CASE v # u
      <4>1. pc[cont[v]] = "call" /\ cont[v] \in Tasks /\ cont'[v] = cont[v]
        BY <1>2, <2>1, <2>3, <3>2 DEF FrameInv, CallersWait
      <4> QED BY <1>3, <4>1 DEF Forward
    <3> QED BY <3>1, <3>2
  <2>4. \A v \in Tasks : pc'[v] = "unborn" => cont'[v] = None
    BY <1>3, <1>4, <2>1 DEF Forward, FrameInv, CallersWait
  <2>5. ASSUME NEW v \in Tasks, NEW w \in Tasks, cont'[v] # None,
               cont'[v] = cont'[w], ~Complete(v)', ~Complete(w)'
        PROVE  v = w
    BY <1>4, <2>1, <2>2, <2>5 DEF FrameInv, CallersWait
  <2> QED BY <2>3, <2>4, <2>5 DEF CallersWait
<1>6. OwnersInv'
  BY <1>1, <1>2, <1>3, KeepOwners DEF Parked
<1>7. t \notin Callers /\ u \notin Callers
  BY <1>1, NamesAssumption DEF FrameInv, StackInv, Live
<1>8. \A v \in Tasks \ {t, u} : Live(v)' <=> Live(v)
  BY <1>1, <1>2 DEF Live
<1>9. StackInv' /\ Callers' = Callers
  <2>1. Kept(stack')
    BY <1>1, RunningFrames DEF Live
  <2> QED BY <1>1, <1>7, <1>8, <2>1, CallersAreCallers, SameStack DEF FrameInv, StackInv
<1>10. LiveInv'
  BY <1>1, <1>4, <1>8, <1>9 DEF FrameInv, LiveInv, Live
<1> QED BY <1>5, <1>6, <1>9, <1>10

\* run() returns to the caller on top of the stack, which thereby leaves it.
LEMMA LeaveFrames ==
  ASSUME FrameInv, Leave
  PROVE  CallersWait' /\ OwnersInv' /\ StackInv' /\ LiveInv'
<1>1. /\ cur = None /\ Complete(Top.of) /\ pc' = [pc EXCEPT ![Top.of] = "gone"]
      /\ cur' = Top.by /\ stack' = Front(stack)
      /\ UNCHANGED <<cont, owner, arms, deadline>>
  BY DEF Leave, frameVars, waitVars
<1>2. pc \in [Tasks -> Where]
  BY DEF FrameInv, TypeInv, TypeOK
<1>3. cur # Main
  BY <1>1, NamesAssumption
<1>4. /\ stack \in Seq(Pump) /\ stack # << >> /\ Front(stack) \in Seq(Pump)
      /\ Len(Front(stack)) = Len(stack) - 1
      /\ \A i \in 1 .. Len(stack) - 1 : Front(stack)[i] = stack[i]
  BY <1>3, RunningStack, PopPump DEF FrameInv
<1> DEFINE n == Len(stack)
<1>5. /\ n \in Nat \ {0} /\ DOMAIN stack = 1 .. n /\ DOMAIN stack' = 1 .. n - 1
      /\ \A i \in 1 .. n - 1 : stack'[i] = stack[i]
      /\ Top = stack[n]
  BY <1>1, <1>4, LenProperties, EmptySeq DEF Top
<1> HIDE DEF n
<1>6. n \in 1 .. n /\ 1 .. n = (1 .. n - 1) \cup {n} /\ n \notin 1 .. n - 1
  BY <1>5
<1>7. Callers' = Callers \ {Top.by}
  <2>1. Callers' = {stack[i].by : i \in 1 .. n - 1}
    BY <1>5 DEF Callers
  <2>2. Callers = {stack[i].by : i \in 1 .. n}
    BY <1>5 DEF Callers
  <2>3. \A i \in 1 .. n - 1 : stack[i].by # stack[n].by
    BY <1>5, <1>6 DEF FrameInv, StackInv
  <2> QED BY <1>5, <1>6, <2>1, <2>2, <2>3
<1>8. \A v \in Tasks : pc'[v] = pc[v] \/ (Complete(v) /\ pc'[v] = "gone")
  BY <1>1, <1>2
<1>9. Forward
  BY <1>8 DEF Forward, Complete
<1>10. CallersWait'
  BY <1>1, <1>9, KeepCalls
<1>11. \A v \in Tasks : (Parked(v)' <=> Parked(v)) /\ (Live(v)' <=> Live(v))
  BY <1>8 DEF Parked, Live, Complete
<1>12. OwnersInv'
  BY <1>1, <1>9, <1>11, KeepOwners
<1>13. StackInv'
  <2>1. \A i \in DOMAIN stack' :
          \/ stack'[i].by = Main /\ stack'[i].of = Root
          \/ stack'[i].by \in Tasks /\ owner'[stack'[i].of] = stack'[i].by
    BY <1>1, <1>5, <1>6 DEF FrameInv, StackInv
  <2>2. \A i, j \in DOMAIN stack' : stack'[i].by = stack'[j].by => i = j
    BY <1>5, <1>6 DEF FrameInv, StackInv
  <2>3. \A v \in Callers' \ {Main} : Live(v)'
    BY <1>7, <1>11, CallersAreCallers DEF FrameInv, StackInv
  <2> QED BY <1>1, <1>7, <2>1, <2>2, <2>3 DEF StackInv
<1>14. LiveInv'
  BY <1>1, <1>7, <1>11, NamesAssumption DEF FrameInv, LiveInv
<1> QED BY <1>10, <1>12, <1>13, <1>14

\* A task ends, and its caller, if one awaits it, goes on in its place.
LEMMA FinishFrames ==
  ASSUME FrameInv, NEW t \in Tasks, Finish(t)
  PROVE  CallersWait' /\ OwnersInv' /\ StackInv' /\ LiveInv'
<1> DEFINE caller == cont[t]
<1>1. /\ cur = t /\ pc[t] = "exit" /\ cur' = caller
      /\ \A f \in Owned(t) : Complete(f)
      /\ UNCHANGED <<cont, owner, stack, arms, deadline>>
  BY DEF Finish, frameVars
<1>2. /\ pc \in [Tasks -> Where] /\ cont \in [Tasks -> Tasks \cup {None}]
  BY DEF FrameInv, TypeInv, TypeOK
<1>3. t # None /\ ~Complete(t) /\ t \notin Callers /\ Kept(stack)
  BY <1>1, RunningFrames, NamesAssumption DEF Live
<1>4. caller # None => caller \in Tasks /\ pc[caller] = "call" /\ caller # t
  BY <1>1, <1>2, <1>3 DEF FrameInv, CallersWait
<1>5. /\ pc'[t] \in {"done", "gone"}
      /\ caller # None => pc'[caller] = "run"
      /\ \A u \in Tasks \ {t, caller} :
           pc'[u] = pc[u] \/ (Complete(u) /\ pc'[u] = "gone")
  BY <1>1, <1>4 DEF Finish
<1> HIDE DEF caller
<1>6. ASSUME NEW u \in Tasks
      PROVE  /\ Complete(u) => Complete(u)'
             /\ pc'[u] = "unborn" => pc[u] = "unborn"
             /\ pc[u] = "call" /\ u # caller => pc'[u] = "call"
             /\ Parked(u)' => Parked(u)
             /\ Live(u)' => u = caller \/ (Live(u) /\ u # t)
             /\ Live(u) /\ u # t => Live(u)'
  <2>1. CASE u = t
    BY <1>1, <1>5, <2>1 DEF Complete, Parked, Live
  <2>2. CASE u = caller
    BY <1>1, <1>3, <1>4, <1>5, <2>2, NamesAssumption DEF Complete, Parked, Live
  <2>3. CASE u # t /\ u # caller
    BY <1>5, <2>3 DEF Complete, Parked, Live
  <2> QED BY <2>1, <2>2, <2>3
<1>7. CallersWait'
  <2>1. \A v \in Tasks : ~Complete(v)' => ~Complete(v) /\ v # t
    BY <1>5, <1>6 DEF Complete
  <2>2. ASSUME NEW v \in Tasks, cont[v] # None, ~Complete(v)'
        PROVE  pc'[cont[v]] = "call"
    <3>1. /\ ~Complete(v) /\ v # t /\ pc[cont[v]] = "call" /\ cont[v] \in Tasks
      BY <1>2, <2>1, <2>2 DEF FrameInv, CallersWait
    <3>2. cont[v] # caller
      BY <1>3, <2>2, <3>1 DEF FrameInv, CallersWait, caller
    <3> QED BY <1>6, <3>1, <3>2
  <2>3. \A v \in Tasks : pc'[v] = "unborn" => cont[v] = None
    BY <1>6 DEF FrameInv, CallersWait
  <2>4. \A u, v \in Tasks :
          cont[u] # None /\ cont[u] = cont[v] /\ ~Complete(u)' /\ ~Complete(v)' => u = v
    BY <2>1 DEF FrameInv, CallersWait
  <2> QED BY <1>1, <2>2, <2>3, <2>4 DEF CallersWait
<1>8. OwnersInv'
  <2>1. \A u \in Tasks : Owned(u)' = Owned(u) /\ TasksOf(arms[u])' = TasksOf(arms[u])
    BY <1>1 DEF Owned, TasksOf
  <2> QED BY <1>1, <1>6, <2>1, NamesAssumption DEF FrameInv, OwnersInv
<1>9. caller \notin Callers
  BY <1>4, CallersAreCallers, NamesAssumption DEF FrameInv, StackInv, Live
<1>10. StackInv' /\ Callers' = Callers
  <2>1. \A u \in Callers \ {Main} : Live(u)'
    BY <1>3, <1>6, CallersAreCallers DEF FrameInv, StackInv
  <2> QED BY <1>1, <1>3, <1>9, <2>1, SameStack
<1>11. LiveInv'
  BY <1>1, <1>6, <1>10 DEF FrameInv, LiveInv
<1> QED BY <1>7, <1>8, <1>10, <1>11

-----------------------------------------------------------------------------
\* Every action is a step of one of these kinds

LEMMA FrameInvOperation ==
  ASSUME FrameInv, NEW t \in Tasks, Operation(t)
  PROVE  CallersWait' /\ OwnersInv' /\ StackInv' /\ LiveInv'
<1>0. cur = t /\ pc[t] = "run"
  BY DEF Operation, Spawn, Call, AwaitFuture, Reassign, Send, Close, Poll, Receive,
         SelectReady, SelectPark, PollSelect, Step
<1>1. /\ pc[t] # "call" /\ ~Complete(t) /\ t \notin Callers
      /\ Kept(stack) /\ cur \in {t, None}
  BY <1>0, RunningFrames DEF Live
<1>2. ASSUME NEW u \in Tasks, Spawn(t, u) \/ Call(t, u)
      PROVE  CallersWait' /\ OwnersInv' /\ StackInv' /\ LiveInv'
  BY <1>2, SpawnFrames, CallFrames
<1>3. ASSUME NEW f \in Tasks, NEW u \in Tasks, Reassign(t, f, u)
      PROVE  CallersWait' /\ OwnersInv' /\ StackInv' /\ LiveInv'
  BY <1>3, ReassignFrames
<1>4. ASSUME NEW f \in Tasks, AwaitFuture(t, f)
      PROVE  CallersWait' /\ OwnersInv' /\ StackInv' /\ LiveInv'
  <2>1. /\ f \in Owned(t) /\ ForceFuture(t, f, stack)
        /\ UNCHANGED <<cont, owner, arms, deadline>>
    BY <1>4 DEF AwaitFuture, Owned, frameVars, waitVars
  <2> QED BY <1>1, <2>1, ForceFrames DEF Others
<1>5. ASSUME UNCHANGED <<pc, cur, owner, cont, arms, deadline, stack>>
      PROVE  CallersWait' /\ OwnersInv' /\ StackInv' /\ LiveInv'
  BY <1>1, <1>5, IdleStep
<1>6. ASSUME NEW c \in Chans, Send(t, c) \/ Close(t, c) \/ Poll(t, c)
      PROVE  CallersWait' /\ OwnersInv' /\ StackInv' /\ LiveInv'
  BY <1>5, <1>6 DEF Send, Close, Poll, frameVars, waitVars
<1>7. ASSUME NEW as, NEW where \in {"recv", "sel"}, Park(t, as, where),
             TasksOf(as) \subseteq Owned(t), as # << >> \/ deadline'[t] # None,
             \A u \in Tasks : u # t => deadline'[u] = deadline[u],
             UNCHANGED <<owner, cont, stack>>
      PROVE  CallersWait' /\ OwnersInv' /\ StackInv' /\ LiveInv'
  <2>1. /\ pc' = [pc EXCEPT ![t] = where] /\ arms' = [arms EXCEPT ![t] = as] /\ cur' = None
    BY <1>7 DEF Park
  <2>2. pc \in [Tasks -> Where] /\ arms \in [Tasks -> Seq(Sources)]
    BY DEF FrameInv, TypeInv, TypeOK
  <2>3. Only({t}) /\ pc'[t] = where /\ arms'[t] = as /\ ~Live(t)'
    BY <2>1, <2>2 DEF Only, Live
  <2>4. Others(t)
    BY <1>7, <2>1, <2>2 DEF Others
  <2> QED BY <1>1, <1>7, <2>1, <2>3, <2>4, TaskStep
<1>8. ASSUME NEW c \in Chans, Receive(t, c)
      PROVE  CallersWait' /\ OwnersInv' /\ StackInv' /\ LiveInv'
  <2>1. CASE ChanReady(c)
    BY <1>5, <1>8, <2>1 DEF Receive, frameVars
  <2>2. CASE ~ChanReady(c)
    <3>1. Park(t, <<c>>, "recv") /\ UNCHANGED <<owner, cont, stack, deadline>>
      BY <1>8, <2>2 DEF Receive, frameVars
    <3>2. TasksOf(<<c>>) = {} /\ <<c>> # << >>
      BY NamesAssumption DEF TasksOf, ToSet
    <3> QED BY <1>7, <3>1, <3>2
  <2> QED BY <2>1, <2>2
<1>9. ASSUME NEW as \in ArmLists(t), NEW i \in DOMAIN as, TakeArm(t, as[i], stack),
             UNCHANGED <<owner, cont, arms, deadline>>
      PROVE  CallersWait' /\ OwnersInv' /\ StackInv' /\ LiveInv'
  <2>1. as[i] \in Tasks => as[i] \in Owned(t)
    BY ArmsOwned DEF TasksOf, ToSet
  <2> QED BY <1>1, <1>9, <2>1, TakeArmFrames DEF Others
<1>10. ASSUME NEW as \in ArmLists(t), SelectReady(t, as)
       PROVE  CallersWait' /\ OwnersInv' /\ StackInv' /\ LiveInv'
  BY <1>9, <1>10 DEF SelectReady, frameVars, waitVars
<1>11. ASSUME NEW as \in ArmLists(t), NEW d \in Delays \cup {None}, NEW lag \in 0 .. MaxLag,
              SelectPark(t, as, d, lag)
       PROVE  CallersWait' /\ OwnersInv' /\ StackInv' /\ LiveInv'
  <2>1. /\ Park(t, as, "sel") /\ UNCHANGED <<owner, cont, stack>>
        /\ deadline' = [deadline EXCEPT ![t] = IF d = None THEN None ELSE now + lag + d]
        /\ d = None => ChansOf(as) # {}
    BY <1>11 DEF SelectPark, frameVars
  <2>2. /\ deadline \in [Tasks -> Nat \cup {None}] /\ now \in Nat
        /\ d # None => now + lag + d \in Nat
    BY <1>11, ProgramAssumption, BoundsAssumption DEF FrameInv, TypeInv, TypeOK
  <2>3. d # None => deadline'[t] # None
    BY <2>1, <2>2, NamesAssumption
  <2>4. as = << >> => ChansOf(as) = {}
    BY DEF ChansOf, ToSet
  <2>5. \A u \in Tasks : u # t => deadline'[u] = deadline[u]
    BY <2>1, <2>2
  <2> QED BY <1>7, <2>1, <2>3, <2>4, <2>5, ArmsOwned
<1>12. ASSUME NEW as \in ArmLists(t), NEW binds, PollSelect(t, as, binds)
       PROVE  CallersWait' /\ OwnersInv' /\ StackInv' /\ LiveInv'
  BY <1>5, <1>9, <1>12 DEF PollSelect, frameVars, waitVars
<1> QED BY <1>2, <1>3, <1>4, <1>6, <1>8, <1>10, <1>11, <1>12 DEF Operation

LEMMA FrameInvEnding ==
  ASSUME FrameInv, NEW t \in Tasks, Ending(t)
  PROVE  CallersWait' /\ OwnersInv' /\ StackInv' /\ LiveInv'
<1>0. cur = t /\ Live(t)
  BY DEF Ending, Return, Unwind, Finish, Live
<1>1. /\ pc[t] # "call" /\ ~Complete(t) /\ ~Parked(t) /\ t \notin Callers
      /\ Kept(stack) /\ cur \in {t, None}
  BY <1>0, RunningFrames
<1>2. CASE Return(t)
  <2>1. pc' = [pc EXCEPT ![t] = "exit"] /\ UNCHANGED <<owner, cont, arms, deadline, stack, cur>>
    BY <1>2 DEF Return, frameVars, waitVars
  <2>2. Only({t}) /\ pc'[t] = "exit"
    BY <2>1 DEF Only, FrameInv, TypeInv, TypeOK
  <2>3. ~Parked(t)'
    BY <2>2 DEF Parked
  <2> QED BY <1>0, <1>1, <2>1, <2>2, <2>3, TaskStep DEF Others
<1>3. ASSUME NEW f \in Tasks, Unwind(t, f)
      PROVE  CallersWait' /\ OwnersInv' /\ StackInv' /\ LiveInv'
  <2>1. /\ f \in Owned(t) /\ cur' = None /\ UNCHANGED <<pc, owner, cont, arms, deadline>>
        /\ stack' = Append(stack, [by |-> t, of |-> f, loop |-> TRUE])
    BY <1>3 DEF Unwind, Owned, frameVars, waitVars
  <2>2. Only({t}) /\ Live(t)'
    BY <1>0, <2>1 DEF Only, Live
  <2> QED BY <1>1, <2>1, <2>2, PumpStep DEF Others
<1> QED BY <1>2, <1>3, FinishFrames DEF Ending

LEMMA FrameInvWake ==
  ASSUME FrameInv, WakeNext \/ WakeEnd
  PROVE  CallersWait' /\ OwnersInv' /\ StackInv' /\ LiveInv'
<1>1. UNCHANGED <<pc, cur, owner, cont, arms, deadline, stack>>
  BY DEF WakeNext, WakeEnd, frameVars, waitVars
<1>2. Kept(stack)
  BY DEF Kept, FrameInv, TypeInv, TypeOK
<1> QED BY <1>1, <1>2, IdleStep

LEMMA FrameInvRunLoop ==
  ASSUME FrameInv, RunLoop
  PROVE  CallersWait' /\ OwnersInv' /\ StackInv' /\ LiveInv'
<1>0. cur = None /\ cur # Main
  BY NamesAssumption DEF RunLoop, Start, Resume, FireTimer, Leave, Pumping
<1>1. Kept(InLoop)
  BY <1>0, KeptStack
<1>2. \A t \in Tasks : ~Live(t) => t \notin Callers
  BY NamesAssumption DEF FrameInv, StackInv
<1>3. ASSUME NEW t \in Tasks, Start(t)
      PROVE  CallersWait' /\ OwnersInv' /\ StackInv' /\ LiveInv'
  <2>1. /\ pc[t] = "fresh" /\ pc' = [pc EXCEPT ![t] = "run"] /\ cur' = t
        /\ stack' = InLoop /\ UNCHANGED <<owner, cont, arms, deadline>>
    BY <1>3 DEF Start, frameVars, waitVars
  <2>2. Only({t}) /\ pc'[t] = "run"
    BY <2>1 DEF Only, FrameInv, TypeInv, TypeOK
  <2>3. ~Parked(t)' /\ ~Complete(t) /\ ~Live(t)
    BY <2>1, <2>2 DEF Parked, Complete, Live
  <2> QED BY <1>0, <1>1, <1>2, <2>1, <2>2, <2>3, TaskStep DEF Others
<1>4. ASSUME NEW t \in Tasks, Resume(t)
      PROVE  CallersWait' /\ OwnersInv' /\ StackInv' /\ LiveInv'
  <2>1. /\ Parked(t) /\ UNCHANGED <<owner, cont>>
        /\ arms' = [arms EXCEPT ![t] = << >>] /\ deadline' = [deadline EXCEPT ![t] = None]
    BY <1>4 DEF Resume, frameVars
  <2>2. ~Live(t) /\ ~Complete(t) /\ pc[t] # "call"
    BY <2>1 DEF Parked, Live, Complete
  <2>3. Others(t)
    BY <2>1 DEF Others, FrameInv, TypeInv, TypeOK
  <2>4. ASSUME NEW s, TakeArm(t, s, InLoop), s \in Tasks => s \in Owned(t)
        PROVE  CallersWait' /\ OwnersInv' /\ StackInv' /\ LiveInv'
    BY <1>0, <1>1, <1>2, <2>1, <2>2, <2>3, <2>4, TakeArmFrames
  <2>5. \A i \in DOMAIN arms[t] : arms[t][i] \in Tasks => arms[t][i] \in Owned(t)
    BY <2>1 DEF FrameInv, OwnersInv, TasksOf, ToSet
  <2>6. CASE \E i \in DOMAIN arms[t] : TakeArm(t, arms[t][i], InLoop)
    BY <2>4, <2>5, <2>6
  <2>7. CASE deadline[t] = None /\ TakeArm(t, arms[t][1], InLoop)
    <3>1. arms[t] # << >> /\ arms[t] \in Seq(Sources)
      BY <2>1, <2>7 DEF FrameInv, OwnersInv, TypeInv, TypeOK
    <3>2. 1 \in DOMAIN arms[t]
      BY <3>1, LenProperties, EmptySeq
    <3> QED BY <2>6, <2>7, <3>2
  <2>8. CASE pc' = [pc EXCEPT ![t] = "run"] /\ cur' = t /\ stack' = InLoop
    <3>1. Only({t}) /\ pc'[t] = "run"
      BY <2>8 DEF Only, FrameInv, TypeInv, TypeOK
    <3>2. ~Parked(t)'
      BY <3>1 DEF Parked
    <3> QED BY <1>0, <1>1, <1>2, <2>1, <2>2, <2>3, <2>8, <3>1, <3>2, TaskStep
  <2> QED BY <1>4, <2>6, <2>7, <2>8 DEF Resume
<1>5. ASSUME NEW t \in Tasks, FireTimer(t)
      PROVE  CallersWait' /\ OwnersInv' /\ StackInv' /\ LiveInv'
  BY <1>1, <1>5, IdleStep DEF FireTimer, frameVars
<1> QED BY <1>3, <1>4, <1>5, LeaveFrames DEF RunLoop

-----------------------------------------------------------------------------
\* The invariant, and what it means

LEMMA FrameInvInit == Init => FrameInv
<1> SUFFICES ASSUME Init PROVE FrameInv
  OBVIOUS
<1>1. TypeInv
  BY TypeInvInit
<1>2. /\ pc[Root] = "run" /\ \A t \in Tasks : t # Root => pc[t] = "unborn"
      /\ \A t \in Tasks : owner[t] = None /\ cont[t] = None
      /\ stack = << [by |-> Main, of |-> Root, loop |-> FALSE] >> /\ cur = Root
  BY NamesAssumption DEF Init
<1>3. DOMAIN stack = {1} /\ stack[1].by = Main /\ stack[1].of = Root
  BY <1>2
<1>4. CallersWait
  BY <1>2 DEF CallersWait
<1>5. OwnersInv
  BY <1>2, NamesAssumption DEF OwnersInv, Parked
<1>6. Callers = {Main}
  BY <1>3 DEF Callers
<1>7. StackInv /\ LiveInv
  BY <1>2, <1>3, <1>6, NamesAssumption DEF StackInv, LiveInv, Live
<1> QED BY <1>1, <1>4, <1>5, <1>7 DEF FrameInv

LEMMA FrameInvStep == FrameInv /\ [Next]_vars => FrameInv'
<1> SUFFICES ASSUME FrameInv, [Next]_vars PROVE FrameInv'
  OBVIOUS
<1>1. TypeInv'
  BY TypeInvStep DEF FrameInv
<1>2. CASE Next
  <2>1. CallersWait' /\ OwnersInv' /\ StackInv' /\ LiveInv'
    BY <1>2, FrameInvOperation, FrameInvEnding, FrameInvWake, FrameInvRunLoop DEF Next
  <2> QED BY <1>1, <2>1 DEF FrameInv
<1>3. CASE UNCHANGED vars
  <2>1. UNCHANGED <<pc, cur, owner, cont, arms, deadline, stack>>
    BY <1>3 DEF vars
  <2>2. Kept(stack)
    BY DEF Kept, FrameInv, TypeInv, TypeOK
  <2> QED BY <1>1, <2>1, <2>2, IdleStep DEF FrameInv
<1> QED BY <1>2, <1>3

LEMMA FramesApart == FrameInv => NoReentry
<1> SUFFICES ASSUME FrameInv PROVE NoReentry
  OBVIOUS
<1>1. \A i \in DOMAIN stack : stack[i] \in Pump
  BY DEF FrameInv, TypeInv, TypeOK
<1>2. ASSUME NEW i \in DOMAIN stack, NEW j \in DOMAIN stack,
             stack[i].by = stack[j].by \/ stack[i].of = stack[j].of
      PROVE  i = j
  <2>1. stack[i].of = stack[j].of => stack[i].by = stack[j].by
    BY <1>1, NamesAssumption DEF FrameInv, StackInv, OwnersInv, Pump
  <2> QED BY <1>2, <2>1 DEF FrameInv, StackInv
<1>3. ASSUME NEW i \in DOMAIN stack
      PROVE  stack[i].by # cur /\ (stack[i].by = Main \/ pc[stack[i].by] \in {"run", "exit"})
  BY DEF FrameInv, StackInv, Callers, Live
<1>4. \A t \in Tasks : pc[t] \in {"run", "exit"} =>
        t = cur \/ \E i \in DOMAIN stack : stack[i].by = t
  BY DEF FrameInv, LiveInv, Callers, Live
<1> QED BY <1>2, <1>3, <1>4 DEF NoReentry

\* No C++ frame buried under a pump is entered again, and no two pumps have one
\* caller or wait for one task (Future::force, ~Future, Task::get and
\* Scheduler::run, which they run on top of the caller's frame).
THEOREM FramesNotReentered == Spec => []NoReentry
<1>1. Spec => []FrameInv
  BY FrameInvInit, FrameInvStep, PTL DEF Spec
<1> QED BY <1>1, FramesApart, PTL

\* A caller stays suspended while its callee lives, so a continuation is resumed
\* by one FinalAwaiter, once.
THEOREM OneContinuation == Spec => []CallersWait
<1>1. Spec => []FrameInv
  BY FrameInvInit, FrameInvStep, PTL DEF Spec
<1>2. FrameInv => CallersWait
  BY DEF FrameInv
<1> QED BY <1>1, <1>2, PTL

=============================================================================
