--------------------------- MODULE Delivery_proofs ---------------------------
(***************************************************************************)
(* What one consumer for each channel buys, for every set of tasks and     *)
(* channels and every program: the run-loop never comes to rest beside a   *)
(* sleeper that could go on, a parked task never goes on without a cause,  *)
(* and every step of AsyncRuntime is one of CoopChannels or a stutter.     *)
(* Values are taken from a channel only by its consumer, so the cause that *)
(* fired a Waiter is still there when its task is resumed, and a value     *)
(* that was sent is nobody else's.                                         *)
(***************************************************************************)
EXTENDS WakeUps_proofs

\* Each channel is received from by at most one task.
OneConsumer == \A c \in Chans : \A t, u \in Readers[c] : t = u

\* The arms of as that are channels are those that t may receive from.
Readable(t, as) == \A c \in ChansOf(as) : t \in Readers[c]

ReadersOnly == \A t \in Tasks : Readable(t, arms[t])

\* A wake loop runs in the code of a task, on a channel that is ready.
WakeJustified ==
  wake # Quiet => cur \in Tasks /\ pc[cur] = "run" /\ ChanReady(wake.on)

\* What may have fired the Waiter of t.
HasCause(t) ==
  \/ \E i \in DOMAIN arms[t] : SelReady(arms[t][i])
  \/ deadline[t] # None /\ now >= deadline[t]

CauseStays == \A t \in Tasks : Parked(t) /\ fired[t] => HasCause(t)

\* Nobody sleeps on a value but while the loop that is to wake it runs.
ValueWakes ==
  \A t \in Tasks : Sleeps(t) =>
    \A c \in ChansOf(arms[t]) : q[c] > 0 => wake # Quiet /\ wake.on = c

DeliverInv == SleepInv /\ ReadersOnly /\ WakeJustified /\ CauseStays /\ ValueWakes

-----------------------------------------------------------------------------
\* The kinds of steps, seen from the channels and the sleepers

SameTasks ==
  \A u \in Tasks : (StaysParked(u) <=> Parked(u)) /\ (Complete(u)' <=> Complete(u))

\* Nobody parks, goes on or completes, and nobody is woken.
Unseen == SameTasks /\ UNCHANGED <<arms, fired, deadline, closed, wake, now>>

\* A task that is not parked takes a value.
Takes(t, c) ==
  /\ t \in Readers[c] /\ ~StaysParked(t)
  /\ q[c] > 0 /\ q' = [q EXCEPT ![c] = @ - 1]

UnseenTake == Unseen /\ (UNCHANGED q \/ \E c \in Chans, t \in Tasks : Takes(t, c))

\* Task t parks on arms of which none is ready.
Parks(t) ==
  /\ pc[t] = "run" /\ wake = Quiet
  /\ pc' = [pc EXCEPT ![t] = pc'[t]] /\ StaysParked(t)
  /\ arms'[t] \in Seq(Sources) /\ arms' = [arms EXCEPT ![t] = arms'[t]]
  /\ NoneReady(arms'[t]) /\ Readable(t, arms'[t])
  /\ now' \in Nat /\ now' >= now
  /\ deadline'[t] = None \/ (deadline'[t] \in Nat /\ deadline'[t] >= now')
  /\ deadline' = [deadline EXCEPT ![t] = deadline'[t]]
  /\ UNCHANGED <<q, closed, wake, fired>>

\* Task f is destroyed before it completes; its owner was running.
Drops(f) ==
  /\ MayReassign /\ ~StaysParked(f) /\ Complete(f)'
  /\ \A u \in Tasks \ {f} : (StaysParked(u) <=> Parked(u)) /\ (Complete(u)' <=> Complete(u))
  /\ wake = Quiet /\ UNCHANGED <<arms, fired, deadline, q, closed, wake, now>>

LEMMA ArmsReadable ==
  ASSUME NEW t \in Tasks, NEW as \in ArmLists(t)
  PROVE  Readable(t, as)
<1>1. PICK n \in 0 .. MaxArms :
        as \in [1 .. n -> {c \in Chans : t \in Readers[c]} \cup Owned(t)]
  BY DEF ArmLists
<1>2. ASSUME NEW c \in ChansOf(as)
      PROVE  t \in Readers[c]
  <2>1. c \in Chans /\ c \in {d \in Chans : t \in Readers[d]} \cup Owned(t)
    BY <1>1 DEF ChansOf, ToSet
  <2>2. c \notin Owned(t)
    BY <2>1, NamesAssumption DEF Owned
  <2> QED BY <2>1, <2>2
<1> QED BY <1>2 DEF Readable

LEMMA TakeValueKinds ==
  ASSUME KnownInv, NEW t \in Tasks, NEW c \in Chans, t \in Readers[c], ~StaysParked(t),
         TakeValue(c)
  PROVE  UNCHANGED q \/ Takes(t, c)
BY DEF TakeValue, Takes

\* A future that is forced is complete before and after, or runs on.
LEMMA ForceUnseen ==
  ASSUME KnownInv, NEW t \in Tasks, NEW f \in Tasks, NEW st, pc[t] = "run",
         ForceFuture(t, f, st)
  PROVE  SameTasks /\ ~StaysParked(t)
<1>0. pc \in [Tasks -> Where]
  BY DEF KnownInv, WakeInv, FrameInv, TypeInv, TypeOK
<1>1. CASE Complete(f)
  <2>1. pc' = [pc EXCEPT ![t] = "run", ![f] = "gone"] /\ f # t
    BY <1>1 DEF ForceFuture, Complete
  <2> QED BY <1>0, <1>1, <2>1 DEF SameTasks, StaysParked, Parked, Complete
<1>2. CASE ~Complete(f)
  <2>1. pc' = [pc EXCEPT ![t] = "run"]
    BY <1>2 DEF ForceFuture
  <2> QED BY <1>0, <2>1 DEF SameTasks, StaysParked, Parked, Complete
<1> QED BY <1>1, <1>2

LEMMA TakeArmUnseen ==
  ASSUME KnownInv, NEW t \in Tasks, NEW as \in ArmLists(t), NEW i \in DOMAIN as,
         pc[t] = "run", TakeArm(t, as[i], stack)
  PROVE  SameTasks /\ (UNCHANGED q \/ \E c \in Chans : Takes(t, c))
<1>0. pc \in [Tasks -> Where]
  BY DEF KnownInv, WakeInv, FrameInv, TypeInv, TypeOK
<1>1. CASE as[i] \in Chans /\ TakeValue(as[i]) /\ pc' = [pc EXCEPT ![t] = "run"]
  <2>1. SameTasks /\ ~StaysParked(t)
    BY <1>0, <1>1 DEF SameTasks, StaysParked, Parked, Complete
  <2>2. t \in Readers[as[i]]
    BY <1>1, ArmsReadable DEF Readable, ChansOf, ToSet
  <2> QED BY <1>1, <2>1, <2>2, TakeValueKinds
<1>2. CASE as[i] \in Tasks /\ ForceFuture(t, as[i], stack) /\ UNCHANGED q
  BY <1>2, ForceUnseen
<1> QED BY <1>1, <1>2 DEF TakeArm

LEMMA OperationKinds ==
  ASSUME KnownInv, NEW t \in Tasks, Operation(t)
  PROVE  \/ UnseenTake \/ (\E c \in Chans : Send(t, c) \/ Close(t, c)) \/ Parks(t)
         \/ \E f \in Tasks : Drops(f)
<1>0. /\ pc \in [Tasks -> Where] /\ arms \in [Tasks -> Seq(Sources)]
      /\ deadline \in [Tasks -> Nat \cup {None}] /\ now \in Nat
  BY DEF KnownInv, WakeInv, FrameInv, TypeInv, TypeOK
<1>1. pc[t] = "run" /\ wake = Quiet
  BY DEF Operation, Spawn, Call, AwaitFuture, Reassign, Send, Close, Poll, Receive,
         SelectReady, SelectPark, PollSelect, Step
<1>2. ASSUME NEW u \in Tasks, Spawn(t, u) \/ Call(t, u)
      PROVE  UnseenTake
  <2>1. /\ pc[u] = "unborn"
        /\ \/ pc' = [pc EXCEPT ![u] = "fresh"]
           \/ pc' = [pc EXCEPT ![t] = "call", ![u] = "run"]
        /\ UNCHANGED <<chanVars, waitVars>>
    BY <1>2 DEF Spawn, Call
  <2>2. SameTasks
    BY <1>0, <1>1, <2>1 DEF SameTasks, StaysParked, Parked, Complete
  <2> QED BY <2>1, <2>2 DEF UnseenTake, Unseen, chanVars, waitVars
<1>3. ASSUME NEW f \in Tasks, AwaitFuture(t, f)
      PROVE  UnseenTake
  BY <1>1, <1>3, ForceUnseen DEF AwaitFuture, UnseenTake, Unseen, chanVars, waitVars
<1>4. ASSUME UNCHANGED pc
      PROVE  SameTasks
  BY <1>4 DEF SameTasks, StaysParked, Parked, Complete
<1>5. ASSUME NEW c \in Chans, TakeValue(c), t \in Readers[c], UNCHANGED pc
      PROVE  UNCHANGED q \/ Takes(t, c)
  <2>1. ~StaysParked(t)
    BY <1>1, <1>5 DEF StaysParked
  <2> QED BY <1>5, <2>1, TakeValueKinds
<1>6. ASSUME NEW c \in Chans, Poll(t, c)
      PROVE  UnseenTake
  BY <1>4, <1>5, <1>6 DEF Poll, UnseenTake, Unseen, waitVars
<1>7. ASSUME NEW as \in Seq(Sources), NEW where \in {"recv", "sel"}, Park(t, as, where),
             NoneReady(as), Readable(t, as), UNCHANGED <<q, closed, wake, fired>>,
             now' \in Nat, now' >= now,
             NEW d, d = None \/ (d \in Nat /\ d >= now'),
             deadline' = [deadline EXCEPT ![t] = d]
      PROVE  Parks(t)
  <2>1. pc'[t] = where /\ arms'[t] = as /\ deadline'[t] = d
    BY <1>0, <1>7 DEF Park
  <2>2. pc' = [pc EXCEPT ![t] = where] /\ arms' = [arms EXCEPT ![t] = as]
    BY <1>7 DEF Park
  <2> QED BY <1>1, <1>7, <2>1, <2>2 DEF Parks, StaysParked
<1>8. ASSUME NEW c \in Chans, Receive(t, c)
      PROVE  UnseenTake \/ Parks(t)
  <2>1. t \in Readers[c] /\ UNCHANGED <<closed, wake, fired, deadline, now>>
    BY <1>8 DEF Receive
  <2>2. CASE ChanReady(c)
    BY <1>4, <1>5, <1>8, <2>1, <2>2 DEF Receive, UnseenTake, Unseen
  <2>3. CASE ~ChanReady(c)
    <3>1. Park(t, <<c>>, "recv") /\ UNCHANGED q
      BY <1>8, <2>3 DEF Receive
    <3>2. <<c>> \in Seq(Sources) /\ NoneReady(<<c>>)
      BY <2>3 DEF Sources, NoneReady, SelReady
    <3>3. Readable(t, <<c>>)
      BY <2>1 DEF Readable, ChansOf, ToSet
    <3>4. deadline[t] = None
      BY <1>1, RunningAway DEF KnownInv
    <3>5. deadline' = [deadline EXCEPT ![t] = None]
      BY <1>0, <2>1, <3>4
    <3>6. UNCHANGED <<q, closed, wake, fired>> /\ now' \in Nat /\ now' >= now
      BY <1>0, <2>1, <3>1
    <3> QED BY <1>7, <3>1, <3>2, <3>3, <3>5, <3>6
  <2> QED BY <2>2, <2>3
<1>9. ASSUME NEW as \in ArmLists(t), SelectReady(t, as)
      PROVE  UnseenTake
  <2>1. \E i \in DOMAIN as : TakeArm(t, as[i], stack)
    BY <1>9 DEF SelectReady
  <2> QED BY <1>1, <1>9, <2>1, TakeArmUnseen DEF SelectReady, UnseenTake, Unseen, waitVars
<1>10. ASSUME NEW as \in ArmLists(t), NEW d \in Delays \cup {None}, NEW lag \in 0 .. MaxLag,
              SelectPark(t, as, d, lag)
       PROVE  Parks(t)
  <2> DEFINE e == IF d = None THEN None ELSE now + lag + d
  <2>1. /\ Park(t, as, "sel") /\ NoneReady(as) /\ now' = now + lag
        /\ deadline' = [deadline EXCEPT ![t] = e]
        /\ UNCHANGED <<q, closed, wake, fired>>
    BY <1>10 DEF SelectPark
  <2>2. now' \in Nat /\ now' >= now /\ (e = None \/ (e \in Nat /\ e >= now'))
    BY <1>0, <2>1, ProgramAssumption, BoundsAssumption
  <2> HIDE DEF e
  <2> QED BY <1>7, <2>1, <2>2, ArmListsType, ArmsReadable
<1>11. ASSUME NEW as \in ArmLists(t), NEW binds, PollSelect(t, as, binds)
       PROVE  UnseenTake
  <2>1. \/ \E i \in DOMAIN as : TakeArm(t, as[i], stack)
        \/ UNCHANGED <<pc, q>>
    BY <1>11 DEF PollSelect
  <2>2. SameTasks /\ (UNCHANGED q \/ \E c \in Chans : Takes(t, c))
    BY <1>1, <1>4, <2>1, TakeArmUnseen
  <2> QED BY <1>11, <2>2 DEF PollSelect, UnseenTake, Unseen, waitVars
<1>12. ASSUME NEW f \in Tasks, NEW u \in Tasks, Reassign(t, f, u)
       PROVE  Drops(f)
  <2>1. /\ MayReassign /\ u # f /\ u \notin Owned(f) /\ pc[u] = "unborn"
        /\ \A g \in Owned(f) : Complete(g)
        /\ UNCHANGED <<chanVars, waitVars>>
    BY <1>12 DEF Reassign, Complete
  <2>2. pc'[f] = "gone"
    BY <1>12, <2>1 DEF Reassign
  <2>3. ASSUME NEW v \in Tasks, v # f
        PROVE  (StaysParked(v) <=> Parked(v)) /\ (Complete(v)' <=> Complete(v))
    <3>1. CASE v = u
      <4>1. pc'[v] = "fresh"
        BY <1>12, <2>1, <3>1 DEF Reassign
      <4> QED BY <2>1, <3>1, <4>1 DEF StaysParked, Parked, Complete
    <3>2. CASE v \in Owned(f)
      <4>1. pc'[v] = "gone" /\ Complete(v)
        BY <1>12, <2>1, <3>2 DEF Reassign
      <4> QED BY <4>1 DEF StaysParked, Parked, Complete
    <3>3. CASE v # u /\ v \notin Owned(f)
      <4>1. pc'[v] = pc[v]
        BY <1>12, <2>3, <3>3 DEF Reassign
      <4> QED BY <4>1 DEF StaysParked, Parked, Complete
    <3> QED BY <3>1, <3>2, <3>3
  <2> QED BY <1>1, <2>1, <2>2, <2>3 DEF Drops, StaysParked, Complete, chanVars, waitVars
<1> QED BY <1>2, <1>3, <1>6, <1>8, <1>9, <1>10, <1>11, <1>12 DEF Operation

\* Task t completes: its locals are already gone, and its caller was suspended.
Completes(t) ==
  /\ Finish(t) /\ ~Complete(t) /\ ~Parked(t) /\ Complete(t)'
  /\ \A u \in Tasks : (StaysParked(u) <=> Parked(u)) /\ (u # t => (Complete(u)' <=> Complete(u)))
  /\ UNCHANGED <<arms, deadline, q, closed, wake, now>>

LEMMA EndingKinds ==
  ASSUME KnownInv, NEW t \in Tasks, Ending(t)
  PROVE  UnseenTake \/ Completes(t)
<1>0. pc \in [Tasks -> Where]
  BY DEF KnownInv, WakeInv, FrameInv, TypeInv, TypeOK
<1>1. CASE Return(t)
  <2>1. /\ pc[t] = "run" /\ pc' = [pc EXCEPT ![t] = "exit"]
        /\ UNCHANGED <<chanVars, waitVars>>
    BY <1>1 DEF Return
  <2>2. SameTasks
    BY <1>0, <2>1 DEF SameTasks, StaysParked, Parked, Complete
  <2> QED BY <2>1, <2>2 DEF UnseenTake, Unseen, chanVars, waitVars
<1>2. CASE \E f \in Tasks : Unwind(t, f)
  <2>1. UNCHANGED <<pc, chanVars, waitVars>>
    BY <1>2 DEF Unwind
  <2>2. SameTasks
    BY <2>1 DEF SameTasks, StaysParked, Parked, Complete
  <2> QED BY <2>1, <2>2 DEF UnseenTake, Unseen, chanVars, waitVars
<1>3. CASE Finish(t)
  <2>1. /\ pc[t] = "exit" /\ \A f \in Owned(t) : Complete(f)
        /\ UNCHANGED <<arms, deadline, q, closed, wake, now>>
    BY <1>3 DEF Finish, chanVars
  <2>2. ~Complete(t) /\ ~Parked(t)
    BY <2>1 DEF Complete, Parked
  <2>3. cont[t] # None => pc[cont[t]] = "call"
    BY <2>2 DEF KnownInv, WakeInv, FrameInv, CallersWait
  <2>4. pc'[t] \in {"done", "gone"}
    BY <1>3 DEF Finish
  <2>5. ASSUME NEW u \in Tasks, u # t
        PROVE  \/ pc'[u] = pc[u]
               \/ pc[u] = "call" /\ pc'[u] = "run"
               \/ Complete(u) /\ pc'[u] = "gone"
    <3>1. CASE u = cont[t]
      BY <1>3, <2>3, <2>5, <3>1, NamesAssumption DEF Finish
    <3>2. CASE u # cont[t] /\ u \in Owned(t)
      BY <1>3, <2>1, <2>5, <3>2 DEF Finish
    <3>3. CASE u # cont[t] /\ u \notin Owned(t)
      BY <1>3, <2>5, <3>3 DEF Finish
    <3> QED BY <3>1, <3>2, <3>3
  <2>6. ~StaysParked(t) /\ Complete(t)'
    BY <2>4 DEF StaysParked, Complete
  <2>7. \A u \in Tasks : u # t => (StaysParked(u) <=> Parked(u)) /\ (Complete(u)' <=> Complete(u))
    BY <2>5 DEF StaysParked, Parked, Complete
  <2> QED BY <1>3, <2>1, <2>2, <2>6, <2>7 DEF Completes
<1> QED BY <1>1, <1>2, <1>3 DEF Ending

\* Steps of the run-time system that wake a task or let the time pass.
Wakes ==
  /\ SameTasks /\ UNCHANGED <<arms, deadline, q, closed>>
  /\ \/ (WakeNext \/ WakeEnd) /\ UNCHANGED <<pc, cur, now>>
     \/ /\ \E t \in Timers : /\ fired' = [fired EXCEPT ![t] = TRUE]
                            /\ now' >= deadline[t]
        /\ now' \in Nat /\ now' >= now /\ UNCHANGED wake

\* Task t, which was woken, goes on.
GoesOn(t) ==
  /\ Resume(t) /\ Parked(t) /\ ~StaysParked(t) /\ fired[t] /\ pc'[t] = "run"
  /\ \A u \in Tasks : (u # t => (StaysParked(u) <=> Parked(u))) /\ (Complete(u)' <=> Complete(u))
  /\ arms' = [arms EXCEPT ![t] = << >>] /\ deadline' = [deadline EXCEPT ![t] = None]
  /\ fired' = [fired EXCEPT ![t] = FALSE]
  /\ \/ \E i \in DOMAIN arms[t] :
          /\ FirstReady(arms[t], i)
          /\ IF arms[t][i] \in Chans THEN TakeValue(arms[t][i]) ELSE UNCHANGED q
     \/ NoneReady(arms[t]) /\ deadline[t] = None
     \/ NoneReady(arms[t]) /\ deadline[t] # None /\ UNCHANGED q
  /\ UNCHANGED <<closed, wake, now>>

LEMMA WakeKinds ==
  ASSUME KnownInv, WakeNext \/ WakeEnd
  PROVE  Wakes
<1>1. UNCHANGED <<pc, cur, now, arms, deadline, q, closed>>
  BY DEF WakeNext, WakeEnd, waitVars
<1>2. SameTasks
  BY <1>1 DEF SameTasks, StaysParked, Parked, Complete
<1> QED BY <1>1, <1>2 DEF Wakes

\* A parked task waits on sources, and a ready one that is a future is complete.
LEMMA ResumeArm ==
  ASSUME KnownInv, NEW t \in Tasks, Parked(t), NEW i \in DOMAIN arms[t],
         TakeArm(t, arms[t][i], InLoop)
  PROVE  /\ pc'[t] = "run"
         /\ \A u \in Tasks : (u # t => (StaysParked(u) <=> Parked(u)))
                             /\ (Complete(u)' <=> Complete(u))
         /\ IF arms[t][i] \in Chans THEN TakeValue(arms[t][i]) ELSE UNCHANGED q
<1>0. pc \in [Tasks -> Where] /\ ~Complete(t)
  BY DEF KnownInv, WakeInv, FrameInv, TypeInv, TypeOK, Parked, Complete
<1>1. CASE /\ arms[t][i] \in Chans /\ TakeValue(arms[t][i])
           /\ pc' = [pc EXCEPT ![t] = "run"]
  BY <1>0, <1>1 DEF StaysParked, Parked, Complete
<1>2. CASE arms[t][i] \in Tasks /\ ForceFuture(t, arms[t][i], InLoop) /\ UNCHANGED q
  <2> DEFINE f == arms[t][i]
  <2>1. \/ Complete(f) /\ pc' = [pc EXCEPT ![t] = "run", ![f] = "gone"]
        \/ pc' = [pc EXCEPT ![t] = "run"]
    BY <1>2 DEF ForceFuture
  <2>2. f \in Tasks /\ f \notin Chans
    BY <1>2, NamesAssumption
  <2> HIDE DEF f
  <2>3. pc'[t] = "run" /\ \A u \in Tasks : u # t => pc'[u] = pc[u] \/ (Complete(u) /\ pc'[u] = "gone")
    BY <1>0, <2>1, <2>2
  <2>4. \A u \in Tasks : (u # t => (StaysParked(u) <=> Parked(u)))
                         /\ (Complete(u)' <=> Complete(u))
    BY <1>0, <2>3 DEF StaysParked, Parked, Complete
  <2> QED BY <1>2, <2>2, <2>3, <2>4 DEF f
<1> QED BY <1>1, <1>2 DEF TakeArm

LEMMA ResumeKinds ==
  ASSUME KnownInv, NEW t \in Tasks, Resume(t)
  PROVE  GoesOn(t)
<1>0. /\ pc \in [Tasks -> Where] /\ ready \in Seq(Tasks)
      /\ arms \in [Tasks -> Seq(Sources)]
  BY DEF KnownInv, WakeInv, FrameInv, TypeInv, TypeOK
<1>1. /\ ready # << >> /\ t = Head(ready) /\ Parked(t)
      /\ arms' = [arms EXCEPT ![t] = << >>] /\ deadline' = [deadline EXCEPT ![t] = None]
      /\ fired' = [fired EXCEPT ![t] = FALSE]
      /\ UNCHANGED <<closed, wake, now>>
  BY DEF Resume
<1>2. fired[t]
  <2>1. 1 \in DOMAIN ready /\ ready[1] = t
    BY <1>0, <1>1, EmptySeq, LenProperties, HeadTailProperties
  <2>2. pc[t] # "fresh"
    BY <1>1 DEF Parked
  <2> QED BY <1>1, <2>1, <2>2 DEF KnownInv, WakeInv, QueueInv, Due, Dropped, Parked
<1>3. CASE \E i \in DOMAIN arms[t] : FirstReady(arms[t], i) /\ TakeArm(t, arms[t][i], InLoop)
  BY <1>1, <1>2, <1>3, ResumeArm DEF GoesOn, StaysParked
<1>4. CASE NoneReady(arms[t]) /\ deadline[t] = None /\ TakeArm(t, arms[t][1], InLoop)
  <2>1. arms[t] # << >> /\ arms[t] \in Seq(Sources)
    BY <1>0, <1>1, <1>4 DEF KnownInv, WakeInv, FrameInv, OwnersInv
  <2>2. 1 \in DOMAIN arms[t]
    BY <2>1, EmptySeq, LenProperties
  <2> QED BY <1>1, <1>2, <1>4, <2>2, ResumeArm DEF GoesOn, StaysParked
<1>5. CASE NoneReady(arms[t]) /\ deadline[t] # None /\ pc' = [pc EXCEPT ![t] = "run"]
           /\ UNCHANGED q
  <2>1. /\ pc'[t] = "run"
        /\ \A u \in Tasks : (u # t => (StaysParked(u) <=> Parked(u)))
                            /\ (Complete(u)' <=> Complete(u))
    BY <1>0, <1>1, <1>5 DEF StaysParked, Parked, Complete
  <2> QED BY <1>1, <1>2, <1>5, <2>1 DEF GoesOn, StaysParked
<1> QED BY <1>3, <1>4, <1>5 DEF Resume

LEMMA RunLoopKinds ==
  ASSUME KnownInv, RunLoop
  PROVE  UnseenTake \/ Wakes \/ \E t \in Tasks : GoesOn(t)
<1>0. /\ pc \in [Tasks -> Where] /\ now \in Nat
      /\ deadline \in [Tasks -> Nat \cup {None}]
  BY DEF KnownInv, WakeInv, FrameInv, TypeInv, TypeOK
<1>1. ASSUME NEW t \in Tasks, Start(t)
      PROVE  UnseenTake
  <2>1. /\ pc[t] = "fresh" /\ pc' = [pc EXCEPT ![t] = "run"]
        /\ UNCHANGED <<chanVars, waitVars>>
    BY <1>1 DEF Start
  <2>2. SameTasks
    BY <1>0, <2>1 DEF SameTasks, StaysParked, Parked, Complete
  <2> QED BY <2>1, <2>2 DEF UnseenTake, Unseen, chanVars, waitVars
<1>2. ASSUME NEW t \in Tasks, FireTimer(t)
      PROVE  Wakes
  <2>1. /\ t \in Timers /\ fired' = [fired EXCEPT ![t] = TRUE]
        /\ now' = IF deadline[t] > now THEN deadline[t] ELSE now
        /\ UNCHANGED <<pc, arms, deadline, chanVars>>
    BY <1>2 DEF FireTimer
  <2>2. deadline[t] \in Nat
    BY <1>0, <2>1 DEF Timers
  <2>3. now' \in Nat /\ now' >= now /\ now' >= deadline[t]
    BY <1>0, <2>1, <2>2
  <2>4. SameTasks
    BY <2>1 DEF SameTasks, StaysParked, Parked, Complete
  <2> QED BY <2>1, <2>3, <2>4 DEF Wakes, chanVars
<1>3. ASSUME Leave
      PROVE  UnseenTake
  <2>1. /\ Complete(Top.of) /\ pc' = [pc EXCEPT ![Top.of] = "gone"]
        /\ UNCHANGED <<chanVars, waitVars>>
    BY <1>3 DEF Leave
  <2>2. SameTasks
    BY <1>0, <2>1 DEF SameTasks, StaysParked, Parked, Complete
  <2> QED BY <2>1, <2>2 DEF UnseenTake, Unseen, chanVars, waitVars
<1> QED BY <1>1, <1>2, <1>3, ResumeKinds DEF RunLoop

\* Every step is of one of these kinds.
LEMMA StepKinds ==
  ASSUME KnownInv, Next
  PROVE  \/ UnseenTake
         \/ \E t \in Tasks, c \in Chans : Send(t, c) \/ Close(t, c)
         \/ \E t \in Tasks : Parks(t) \/ Completes(t) \/ GoesOn(t) \/ Drops(t)
         \/ Wakes
BY OperationKinds, EndingKinds, WakeKinds, RunLoopKinds DEF Next

-----------------------------------------------------------------------------
\* Who is parked after a step, and what woke it

LEMMA ParkedAfter ==
  ASSUME KnownInv, Next, NEW u \in Tasks, StaysParked(u)
  PROVE  \/ /\ Parked(u) /\ arms'[u] = arms[u] /\ deadline'[u] = deadline[u]
            /\ fired[u] => fired'[u]
         \/ Parks(u)
<1>0. /\ pc \in [Tasks -> Where] /\ arms \in [Tasks -> Seq(Sources)]
      /\ deadline \in [Tasks -> Nat \cup {None}] /\ fired \in [Tasks -> BOOLEAN]
  BY DEF KnownInv, WakeInv, FrameInv, TypeInv, TypeOK
<1>1. ASSUME NEW t \in Tasks, NEW c \in Chans, Send(t, c) \/ Close(t, c)
      PROVE  Parked(u) /\ UNCHANGED <<arms, deadline, fired>>
  BY <1>1 DEF Send, Close, waitVars, StaysParked, Parked
<1>2. CASE UnseenTake
  BY <1>2 DEF UnseenTake, Unseen, SameTasks
<1>3. CASE Wakes
  <2>1. Parked(u) /\ UNCHANGED <<arms, deadline>>
    BY <1>3 DEF Wakes, SameTasks
  <2>2. UNCHANGED fired \/ \E w : fired' = [fired EXCEPT ![w] = TRUE]
    BY <1>3 DEF Wakes, WakeNext, WakeEnd, waitVars
  <2>3. fired[u] => fired'[u]
    BY <1>0, <2>2
  <2> QED BY <2>1, <2>3
<1>4. ASSUME NEW t \in Tasks, Parks(t), t # u
      PROVE  Parked(u) /\ arms'[u] = arms[u] /\ deadline'[u] = deadline[u]
             /\ fired'[u] = fired[u]
  <2>1. /\ pc' = [pc EXCEPT ![t] = pc'[t]] /\ arms' = [arms EXCEPT ![t] = arms'[t]]
        /\ deadline' = [deadline EXCEPT ![t] = deadline'[t]] /\ UNCHANGED fired
    BY <1>4 DEF Parks
  <2>2. pc'[u] = pc[u] /\ arms'[u] = arms[u] /\ deadline'[u] = deadline[u]
    BY <1>0, <1>4, <2>1
  <2> QED BY <2>1, <2>2 DEF StaysParked, Parked
<1>5. ASSUME NEW t \in Tasks, Completes(t)
      PROVE  Parked(u) /\ UNCHANGED <<arms, deadline>> /\ (fired[u] => fired'[u])
  <2>1. Parked(u) /\ UNCHANGED <<arms, deadline>>
    BY <1>5 DEF Completes
  <2>2. UNCHANGED fired \/ \E w : fired' = [fired EXCEPT ![w] = TRUE]
    BY <1>5 DEF Completes, Finish
  <2>3. fired[u] => fired'[u]
    BY <1>0, <2>2
  <2> QED BY <2>1, <2>3
<1>6. ASSUME NEW t \in Tasks, GoesOn(t)
      PROVE  Parked(u) /\ arms'[u] = arms[u] /\ deadline'[u] = deadline[u]
             /\ fired'[u] = fired[u]
  <2>1. u # t /\ Parked(u)
    BY <1>6 DEF GoesOn
  <2>2. /\ arms' = [arms EXCEPT ![t] = << >>] /\ deadline' = [deadline EXCEPT ![t] = None]
        /\ fired' = [fired EXCEPT ![t] = FALSE]
    BY <1>6 DEF GoesOn
  <2> QED BY <1>0, <2>1, <2>2
<1>7. ASSUME NEW f \in Tasks, Drops(f)
      PROVE  Parked(u) /\ UNCHANGED <<arms, deadline, fired>>
  BY <1>7 DEF Drops
<1> QED BY <1>1, <1>2, <1>3, <1>4, <1>5, <1>6, <1>7, StepKinds

\* The head of a channel's queue waits for that channel, or did.
LEMMA FirstWaiter ==
  ASSUME KnownInv, NEW c \in Chans, waiters[c] # << >>
  PROVE  Head(waiters[c]) \in Tasks /\ c \in ChansOf(arms[Head(waiters[c])])
<1>1. waiters[c] \in Seq(Tasks)
  BY DEF KnownInv, WakeInv, FrameInv, TypeInv, TypeOK
<1>2. 1 \in DOMAIN waiters[c] /\ Head(waiters[c]) = waiters[c][1]
  BY <1>1, EmptySeq, LenProperties, HeadTailProperties
<1> QED BY <1>1, <1>2 DEF KnownInv, WakeInv, WaitersInv, Waits

\* A Waiter is fired by a ready channel, a completed future or a timer.
LEMMA FiredFor ==
  ASSUME KnownInv, WakeJustified, Next, NEW u \in Tasks,
         StaysParked(u), fired'[u], ~(Parked(u) /\ fired[u])
  PROVE  HasCause(u)'
<1>0. /\ pc \in [Tasks -> Where] /\ arms \in [Tasks -> Seq(Sources)]
      /\ deadline \in [Tasks -> Nat \cup {None}] /\ fired \in [Tasks -> BOOLEAN]
      /\ wake \in {Quiet} \cup [on: Chans, all: BOOLEAN]
  BY DEF KnownInv, WakeInv, FrameInv, TypeInv, TypeOK
<1>1. ~fired[u]
  <2>1. ~Dropped(u)
    BY ParkedAfter DEF Dropped, Parked, Parks
  <2> QED BY <1>0, <2>1 DEF KnownInv, WakeInv, WaitersInv
<1>2. UNCHANGED fired => FALSE
  BY <1>1
<1>3. CASE UnseenTake
  BY <1>2, <1>3 DEF UnseenTake, Unseen
<1>4. ASSUME NEW t \in Tasks, NEW c \in Chans, Send(t, c) \/ Close(t, c)
      PROVE  FALSE
  BY <1>2, <1>4 DEF Send, Close, waitVars
<1>5. ASSUME NEW t \in Tasks, Parks(t)
      PROVE  FALSE
  BY <1>2, <1>5 DEF Parks
<1>6. ASSUME NEW t \in Tasks, GoesOn(t)
      PROVE  FALSE
  BY <1>0, <1>1, <1>6 DEF GoesOn
<1>7. ASSUME NEW t \in Tasks, Completes(t)
      PROVE  HasCause(u)'
  <2>1. /\ slot[t] # None /\ fired' = [fired EXCEPT ![slot[t]] = TRUE]
        /\ ~Complete(t) /\ Complete(t)' /\ UNCHANGED arms
    BY <1>2, <1>7 DEF Completes, Finish
  <2>2. slot[t] = u
    BY <1>0, <1>1, <2>1
  <2>3. t \in TasksOf(arms[u])
    BY <2>1, <2>2 DEF KnownInv, WakeInv, WaitersInv
  <2>4. PICK i \in DOMAIN arms[u] : arms[u][i] = t
    BY <2>3 DEF TasksOf, ToSet
  <2>5. t \notin Chans
    BY NamesAssumption
  <2> QED BY <2>1, <2>4, <2>5 DEF HasCause, SelReady
<1>8. CASE Wakes
  <2>1. UNCHANGED <<arms, deadline, q, closed>>
    BY <1>8 DEF Wakes
  <2>2. CASE \E t \in Timers : fired' = [fired EXCEPT ![t] = TRUE] /\ now' >= deadline[t]
    <3>1. u \in Timers /\ now' >= deadline[u]
      BY <1>0, <1>1, <2>2
    <3> QED BY <2>1, <3>1 DEF Timers, HasCause
  <2>3. CASE WakeEnd
    BY <1>2, <2>3 DEF WakeEnd, waitVars
  <2>4. CASE WakeNext
    <3>1. PICK c \in Chans : c = wake.on /\ ChanReady(c) /\ waiters[c] # << >>
      BY <1>0, <2>4 DEF WakeNext, WakeJustified
    <3>2. fired' = [fired EXCEPT ![Head(waiters[c])] = TRUE]
      BY <2>4, <3>1 DEF WakeNext
    <3>3. u = Head(waiters[c])
      BY <1>0, <1>1, <3>2
    <3>4. c \in ChansOf(arms[u])
      BY <3>1, <3>3, FirstWaiter
    <3>5. PICK i \in DOMAIN arms[u] : arms[u][i] = c
      BY <3>4 DEF ChansOf, ToSet
    <3>6. SelReady(c)'
      BY <2>1, <3>1 DEF SelReady, ChanReady
    <3> QED BY <2>1, <3>5, <3>6 DEF HasCause
  <2> QED BY <1>8, <2>2, <2>3, <2>4 DEF Wakes
<1>9. ASSUME NEW f \in Tasks, Drops(f)
      PROVE  FALSE
  BY <1>2, <1>9 DEF Drops
<1> QED BY <1>3, <1>4, <1>5, <1>6, <1>7, <1>8, <1>9, StepKinds

-----------------------------------------------------------------------------
\* The invariant

\* A woken task that goes on finds an arm ready or its timeout expired.
LEMMA GoesOnFor ==
  ASSUME DeliverInv, NEW t \in Tasks, GoesOn(t)
  PROVE  /\ HasCause(t)
         /\ \/ \E i \in DOMAIN arms[t] :
                 /\ FirstReady(arms[t], i)
                 /\ IF arms[t][i] \in Chans THEN TakeValue(arms[t][i]) ELSE UNCHANGED q
            \/ NoneReady(arms[t]) /\ deadline[t] # None /\ now >= deadline[t] /\ UNCHANGED q
<1>1. HasCause(t)
  BY DEF GoesOn, DeliverInv, CauseStays
<1>2. NoneReady(arms[t]) => deadline[t] # None /\ now >= deadline[t]
  BY <1>1 DEF HasCause, NoneReady
<1> QED BY <1>1, <1>2 DEF GoesOn

\* Only a task that receives from a channel takes values from it, and it is not
\* parked afterwards.
LEMMA WhoTakes ==
  ASSUME DeliverInv, Next, NEW c \in Chans, q[c] > 0, ~(q'[c] > 0)
  PROVE  \E t \in Readers[c] : ~StaysParked(t)
<1>0. q \in [Chans -> Nat] /\ KnownInv
  BY DEF DeliverInv, SleepInv, KnownInv, WakeInv, FrameInv, TypeInv, TypeOK
<1>1. UNCHANGED q => FALSE
  OBVIOUS
<1>2. CASE UnseenTake
  <2>1. PICK d \in Chans, t \in Tasks : Takes(t, d)
    BY <1>1, <1>2 DEF UnseenTake
  <2>2. d = c
    BY <1>0, <2>1 DEF Takes
  <2> QED BY <2>1, <2>2 DEF Takes
<1>3. ASSUME NEW t \in Tasks, NEW d \in Chans, Send(t, d) \/ Close(t, d)
      PROVE  FALSE
  <2>1. UNCHANGED q \/ q' = [q EXCEPT ![d] = @ + 1]
    BY <1>3 DEF Send, Close
  <2> QED BY <1>0, <2>1
<1>4. ASSUME NEW t \in Tasks, Parks(t) \/ Completes(t) \/ Drops(t)
      PROVE  FALSE
  BY <1>1, <1>4 DEF Parks, Completes, Drops
<1>5. CASE Wakes
  BY <1>1, <1>5 DEF Wakes
<1>6. ASSUME NEW t \in Tasks, GoesOn(t)
      PROVE  \E v \in Readers[c] : ~StaysParked(v)
  <2>1. PICK i \in DOMAIN arms[t] : arms[t][i] \in Chans /\ TakeValue(arms[t][i])
    BY <1>1, <1>6, GoesOnFor
  <2>2. arms[t][i] = c
    BY <1>0, <2>1 DEF TakeValue
  <2>3. Parked(t) /\ ~StaysParked(t)
    BY <1>6 DEF GoesOn
  <2>4. c \in ChansOf(arms[t])
    BY <2>2 DEF ChansOf, ToSet
  <2>5. t \in Readers[c]
    BY <2>4 DEF DeliverInv, ReadersOnly, Readable
  <2> QED BY <2>3, <2>5
<1> QED BY <1>0, <1>2, <1>3, <1>4, <1>5, <1>6, StepKinds

LEMMA NothingReopens ==
  ASSUME KnownInv, Next
  PROVE  /\ \A c \in Chans : closed[c] => closed'[c]
         /\ \A f \in Tasks : Complete(f) => Complete(f)'
         /\ now \in Nat /\ now' \in Nat /\ now' >= now
<1>0. /\ closed \in [Chans -> BOOLEAN] /\ now \in Nat /\ pc \in [Tasks -> Where]
  BY DEF KnownInv, WakeInv, FrameInv, TypeInv, TypeOK
<1>1. CASE UnseenTake
  BY <1>0, <1>1 DEF UnseenTake, Unseen, SameTasks
<1>2. ASSUME NEW t \in Tasks, NEW d \in Chans, Send(t, d) \/ Close(t, d)
      PROVE  /\ \A c \in Chans : closed[c] => closed'[c]
             /\ UNCHANGED <<pc, now>>
  <2>1. /\ UNCHANGED closed \/ closed' = [closed EXCEPT ![d] = TRUE]
        /\ UNCHANGED <<pc, now>>
    BY <1>2 DEF Send, Close, waitVars
  <2> QED BY <1>0, <2>1
<1>3. ASSUME NEW t \in Tasks, Parks(t)
      PROVE  /\ \A c \in Chans : closed[c] => closed'[c]
             /\ \A f \in Tasks : Complete(f) => Complete(f)'
             /\ now' \in Nat /\ now' >= now
  <2>1. /\ pc[t] = "run" /\ pc' = [pc EXCEPT ![t] = pc'[t]]
        /\ now' \in Nat /\ now' >= now /\ UNCHANGED closed
    BY <1>3 DEF Parks
  <2>2. \A f \in Tasks : Complete(f) => Complete(f)'
    BY <1>0, <2>1 DEF Complete
  <2> QED BY <2>1, <2>2
<1>4. ASSUME NEW t \in Tasks, Completes(t)
      PROVE  UNCHANGED <<closed, now>> /\ \A f \in Tasks : Complete(f) => Complete(f)'
  BY <1>4 DEF Completes
<1>5. ASSUME NEW t \in Tasks, GoesOn(t)
      PROVE  UNCHANGED <<closed, now>> /\ \A f \in Tasks : Complete(f) => Complete(f)'
  BY <1>5 DEF GoesOn
<1>6. CASE Wakes
  BY <1>0, <1>6 DEF Wakes, SameTasks
<1>7. UNCHANGED pc => \A f \in Tasks : Complete(f) => Complete(f)'
  BY DEF Complete
<1>8. ASSUME NEW t \in Tasks, Drops(t)
      PROVE  UNCHANGED <<closed, now>> /\ \A f \in Tasks : Complete(f) => Complete(f)'
  BY <1>8 DEF Drops
<1> QED BY <1>0, <1>1, <1>2, <1>3, <1>4, <1>5, <1>6, <1>7, <1>8, StepKinds

\* The cause a parked task was woken for is not taken away by another task.
LEMMA CauseKept ==
  ASSUME DeliverInv, OneConsumer, Next, NEW u \in Tasks,
         Parked(u), StaysParked(u), HasCause(u),
         arms'[u] = arms[u], deadline'[u] = deadline[u]
  PROVE  HasCause(u)'
<1>0. /\ KnownInv /\ deadline[u] \in Nat \cup {None} /\ arms[u] \in Seq(Sources)
  BY DEF DeliverInv, SleepInv, KnownInv, WakeInv, FrameInv, TypeInv, TypeOK
<1>1. ASSUME NEW i \in DOMAIN arms[u], NEW s, s = arms[u][i], SelReady(s)
      PROVE  SelReady(s)'
  <2>1. s \in Sources /\ s = arms[u][i] /\ SelReady(s)
    BY <1>0, <1>1
  <2>2. CASE s \in Chans
    <3>1. u \in Readers[s]
      BY <2>1, <2>2 DEF DeliverInv, ReadersOnly, Readable, ChansOf, ToSet
    <3>2. CASE q[s] > 0
      <4>1. q'[s] > 0
        BY <2>2, <3>1, <3>2, WhoTakes DEF OneConsumer
      <4> QED BY <2>1, <2>2, <4>1 DEF SelReady, ChanReady
    <3>3. CASE closed[s]
      <4>1. closed'[s]
        BY <1>0, <2>2, <3>3, NothingReopens
      <4> QED BY <2>1, <2>2, <4>1 DEF SelReady, ChanReady
    <3> QED BY <2>1, <2>2, <3>2, <3>3 DEF SelReady, ChanReady
  <2>3. CASE s \notin Chans
    <3>1. s \in Tasks /\ Complete(s)
      BY <2>1, <2>3 DEF SelReady, Sources
    <3>2. Complete(s)'
      BY <1>0, <3>1, NothingReopens
    <3> QED BY <2>1, <2>3, <3>2 DEF SelReady
  <2> QED BY <2>2, <2>3
<1>2. ASSUME deadline[u] # None, now >= deadline[u]
      PROVE  deadline'[u] # None /\ now' >= deadline'[u]
  <2>1. now \in Nat /\ now' \in Nat /\ now' >= now /\ deadline[u] \in Nat
    BY <1>0, <1>2, NothingReopens
  <2> QED BY <1>2, <2>1
<1>3. CASE \E i \in DOMAIN arms[u] : SelReady(arms[u][i])
  <2>1. PICK i \in DOMAIN arms[u], s \in Sources : s = arms[u][i] /\ SelReady(s)
    BY <1>0, <1>3
  <2>2. SelReady(s)' /\ s = arms'[u][i]
    BY <1>1, <2>1
  <2> QED BY <2>1, <2>2 DEF HasCause
<1>4. CASE deadline[u] # None /\ now >= deadline[u]
  BY <1>2, <1>4 DEF HasCause
<1> QED BY <1>3, <1>4 DEF HasCause

\* While a wake loop runs nothing else does.
LEMMA OnlyWakes ==
  ASSUME DeliverInv, Next, wake # Quiet
  PROVE  WakeNext \/ WakeEnd
<1>1. cur \in Tasks /\ pc[cur] = "run"
  BY DEF DeliverInv, WakeJustified
<1>2. cur # None
  BY <1>1, NamesAssumption
<1>3. ASSUME NEW t \in Tasks, Operation(t)
      PROVE  FALSE
  BY <1>3 DEF Operation, Spawn, Call, AwaitFuture, Reassign, Send, Close, Poll, Receive,
              SelectReady, SelectPark, PollSelect, Step
<1>4. ASSUME NEW t \in Tasks, Ending(t)
      PROVE  FALSE
  BY <1>1, <1>4 DEF Ending, Return, Unwind, Finish
<1>5. ASSUME RunLoop
      PROVE  FALSE
  BY <1>2, <1>5 DEF RunLoop, Start, Resume, FireTimer, Leave, Pumping
<1> QED BY <1>3, <1>4, <1>5 DEF Next

LEMMA WakeJustifiedStep ==
  ASSUME DeliverInv, Next
  PROVE  WakeJustified'
<1>0. /\ q \in [Chans -> Nat] /\ closed \in [Chans -> BOOLEAN] /\ KnownInv
      /\ wake \in {Quiet} \cup [on: Chans, all: BOOLEAN]
  BY DEF DeliverInv, SleepInv, KnownInv, WakeInv, FrameInv, TypeInv, TypeOK
<1>1. CASE wake # Quiet
  <2>1. /\ wake' = wake \/ wake' = Quiet
        /\ UNCHANGED <<cur, pc, q, closed>>
    BY <1>1, OnlyWakes DEF WakeNext, WakeEnd
  <2>2. Quiet' = Quiet
    BY DEF Quiet
  <2> QED BY <1>1, <2>1, <2>2 DEF DeliverInv, WakeJustified, ChanReady
<1>2. CASE wake = Quiet
  <2>1. ASSUME NEW t \in Tasks, NEW c \in Chans, Send(t, c)
        PROVE  WakeJustified'
    <3>1. /\ cur' = cur /\ pc' = pc /\ cur = t /\ pc[t] = "run" /\ wake'.on = c
          /\ q'[c] > 0
      BY <1>0, <2>1 DEF Send, Step
    <3> QED BY <3>1 DEF WakeJustified, ChanReady
  <2>2. ASSUME NEW t \in Tasks, NEW c \in Chans, Close(t, c)
        PROVE  WakeJustified'
    <3>1. /\ cur' = cur /\ pc' = pc /\ cur = t /\ pc[t] = "run" /\ wake'.on = c
          /\ closed'[c]
      BY <1>0, <2>2 DEF Close, Step
    <3> QED BY <3>1 DEF WakeJustified, ChanReady
  <2>3. UNCHANGED wake => WakeJustified'
    BY <1>2 DEF WakeJustified, Quiet
  <2>4. \/ UNCHANGED wake
        \/ \E t \in Tasks, c \in Chans : Send(t, c) \/ Close(t, c)
    <3>1. ~WakeNext /\ ~WakeEnd
      BY <1>2 DEF WakeNext, WakeEnd
    <3> QED BY <1>0, <3>1, StepKinds
            DEF UnseenTake, Unseen, Parks, Completes, GoesOn, Drops, Wakes
  <2> QED BY <2>1, <2>2, <2>3, <2>4
<1> QED BY <1>1, <1>2

LEMMA ReadersOnlyStep ==
  ASSUME DeliverInv, Next
  PROVE  ReadersOnly'
<1> SUFFICES ASSUME NEW u \in Tasks PROVE \A c \in ChansOf(arms'[u]) : u \in Readers[c]
  BY DEF ReadersOnly, Readable, ChansOf
<1>0. KnownInv /\ arms \in [Tasks -> Seq(Sources)]
  BY DEF DeliverInv, SleepInv, KnownInv, WakeInv, FrameInv, TypeInv, TypeOK
<1>1. CASE Parks(u)
  BY <1>1 DEF Parks, Readable
<1>2. CASE arms'[u] = arms[u]
  BY <1>2 DEF DeliverInv, ReadersOnly, Readable, ChansOf
<1>3. CASE arms'[u] = << >>
  BY <1>3 DEF ChansOf, ToSet
<1>4. ASSUME NEW t \in Tasks, Parks(t)
      PROVE  t = u \/ arms'[u] = arms[u]
  <2>1. arms' = [arms EXCEPT ![t] = arms'[t]]
    BY <1>4 DEF Parks
  <2> QED BY <1>0, <2>1
<1>5. ASSUME NEW t \in Tasks, GoesOn(t)
      PROVE  arms'[u] = << >> \/ arms'[u] = arms[u]
  BY <1>0, <1>5 DEF GoesOn
<1> QED BY <1>0, <1>1, <1>2, <1>3, <1>4, <1>5, StepKinds
        DEF UnseenTake, Unseen, Send, Close, waitVars, Completes, Drops, Wakes

LEMMA CauseStaysStep ==
  ASSUME DeliverInv, OneConsumer, Next
  PROVE  CauseStays'
<1> SUFFICES ASSUME NEW u \in Tasks, StaysParked(u), fired'[u]
             PROVE  HasCause(u)'
  BY DEF CauseStays, Parked, StaysParked
<1>0. KnownInv /\ WakeJustified
  BY DEF DeliverInv, SleepInv
<1>1. CASE Parked(u) /\ fired[u]
  <2>1. arms'[u] = arms[u] /\ deadline'[u] = deadline[u]
    <3>1. ~Parks(u)
      BY <1>1 DEF Parks, Parked
    <3> QED BY <1>0, <3>1, ParkedAfter
  <2>2. HasCause(u)
    BY <1>1 DEF DeliverInv, CauseStays
  <2> QED BY <1>1, <2>1, <2>2, CauseKept
<1>2. CASE ~(Parked(u) /\ fired[u])
  BY <1>0, <1>2, FiredFor
<1> QED BY <1>1, <1>2

LEMMA ValueWakesStep ==
  ASSUME DeliverInv, OneConsumer, Next
  PROVE  ValueWakes'
<1> SUFFICES ASSUME NEW u \in Tasks, StaysParked(u), ~fired'[u],
                    NEW c \in ChansOf(arms'[u]), q'[c] > 0
             PROVE  wake' # Quiet /\ wake'.on = c
  BY DEF ValueWakes, Sleeps, Parked, StaysParked, ChansOf, Quiet
<1>0. /\ q \in [Chans -> Nat] /\ c \in Chans /\ KnownInv /\ waiters[c] \in Seq(Tasks)
      /\ fired \in [Tasks -> BOOLEAN]
  BY DEF ChansOf, DeliverInv, SleepInv, KnownInv, WakeInv, FrameInv, TypeInv, TypeOK
<1>1. CASE Parks(u)
  <2>1. \E i \in DOMAIN arms'[u] : arms'[u][i] = c
    BY DEF ChansOf, ToSet
  <2>2. ~SelReady(c) /\ q'[c] = q[c]
    BY <1>1, <2>1 DEF Parks, NoneReady
  <2> QED BY <1>0, <2>2 DEF SelReady, ChanReady
<1>2. CASE Parked(u) /\ arms'[u] = arms[u] /\ (fired[u] => fired'[u])
  <2>1. Sleeps(u) /\ c \in ChansOf(arms[u])
    BY <1>2 DEF Sleeps, ChansOf
  <2>2. u \in Readers[c]
    BY <2>1 DEF DeliverInv, ReadersOnly, Readable, Sleeps
  <2>3. CASE q[c] > 0
    <3>1. wake # Quiet /\ wake.on = c
      BY <2>1, <2>3 DEF DeliverInv, ValueWakes
    <3>2. Contains(waiters[c], u)
      BY <2>1 DEF Sleeps, KnownInv, NeverForgotten, DeliverInv, SleepInv
    <3>3. waiters[c] # << >>
      BY <1>0, <3>2, EmptySeq DEF Contains
    <3>4. WakeNext
      BY <3>1, <3>3, OnlyWakes DEF WakeEnd
    <3> DEFINE w == Head(waiters[c])
    <3>5. w \in Tasks /\ w \in Readers[c]
      BY <1>0, <3>3, FirstWaiter DEF DeliverInv, ReadersOnly, Readable
    <3>6. u = w
      BY <1>0, <2>2, <3>5 DEF OneConsumer
    <3>7. fired' = [fired EXCEPT ![w] = TRUE]
      BY <3>1, <3>4 DEF WakeNext
    <3> HIDE DEF w
    <3>8. fired'[u]
      BY <1>0, <3>6, <3>7
    <3> QED BY <3>8
  <2>4. CASE ~(q[c] > 0)
    <3>1. ASSUME NEW t \in Tasks, NEW d \in Chans, Send(t, d)
          PROVE  wake' # Quiet /\ wake'.on = c
      <4>1. q' = [q EXCEPT ![d] = @ + 1] /\ wake' = [on |-> d, all |-> FALSE]
        BY <3>1 DEF Send
      <4>2. d = c
        BY <1>0, <2>4, <4>1
      <4>3. wake'.on = c /\ c # None
        BY <1>0, <4>1, <4>2, NamesAssumption
      <4> QED BY <4>3 DEF Quiet
    <3>2. ~(UNCHANGED q)
      BY <2>4
    <3>3. ASSUME NEW d \in Chans, NEW t \in Tasks, Takes(t, d)
          PROVE  FALSE
      BY <1>0, <2>4, <3>3 DEF Takes
    <3>4. ASSUME NEW t \in Tasks, GoesOn(t)
          PROVE  FALSE
      <4>1. PICK i \in DOMAIN arms[t] : arms[t][i] \in Chans /\ TakeValue(arms[t][i])
        BY <3>2, <3>4, GoesOnFor
      <4> QED BY <1>0, <2>4, <4>1 DEF TakeValue
    <3> QED BY <1>0, <3>1, <3>2, <3>3, <3>4, StepKinds
            DEF UnseenTake, Close, Parks, Completes, Drops, Wakes
  <2> QED BY <2>3, <2>4
<1> QED BY <1>0, <1>1, <1>2, ParkedAfter

LEMMA DeliverInvInit == Init => DeliverInv
<1> SUFFICES ASSUME Init PROVE DeliverInv
  OBVIOUS
<1>1. \A t \in Tasks : ~Parked(t)
  BY DEF Init, Parked
<1>2. wake = Quiet
  BY DEF Init
<1>3. \A t \in Tasks : arms[t] = << >>
  BY DEF Init
<1>4. ReadersOnly
  BY <1>3 DEF ReadersOnly, Readable, ChansOf, ToSet
<1> QED BY <1>1, <1>2, <1>4, SleepInvInit
        DEF DeliverInv, WakeJustified, CauseStays, ValueWakes, Sleeps

LEMMA DeliverInvStep ==
  ASSUME OneConsumer
  PROVE  DeliverInv /\ [Next]_vars => DeliverInv'
<1> SUFFICES ASSUME DeliverInv, [Next]_vars PROVE DeliverInv'
  OBVIOUS
<1>1. SleepInv'
  BY SleepInvStep DEF DeliverInv
<1>2. CASE Next
  BY <1>1, <1>2, ReadersOnlyStep, WakeJustifiedStep, CauseStaysStep, ValueWakesStep
     DEF DeliverInv
<1>3. CASE UNCHANGED vars
  <2>1. ReadersOnly' /\ WakeJustified' /\ CauseStays' /\ ValueWakes'
    BY <1>3 DEF vars, DeliverInv, ReadersOnly, WakeJustified, CauseStays, ValueWakes, Sleeps,
                Readable, HasCause, SelReady, ChanReady, Parked, Complete, ChansOf, Quiet
  <2> QED BY <1>1, <2>1 DEF DeliverInv
<1> QED BY <1>2, <1>3

\* When the run-loop has nothing left to resume nobody sleeps on a channel that
\* holds a value or is closed, nor on a completed future: with one consumer for
\* each channel no wake-up is lost (SelectableState::wake_one, Channel::send).
THEOREM RestsWithoutReady ==
  ASSUME OneConsumer
  PROVE  Spec => []QuiescentNoReady
<1>1. Spec => []DeliverInv
  BY DeliverInvInit, DeliverInvStep, PTL DEF Spec
<1>2. DeliverInv => QuiescentNoReady
  <2> SUFFICES ASSUME DeliverInv, cur = None, NEW t \in Tasks, Sleeps(t),
                      NEW i \in DOMAIN arms[t], SelReady(arms[t][i])
               PROVE  FALSE
    BY DEF QuiescentNoReady, NoneReady, Sleeps
  <2> DEFINE s == arms[t][i]
  <2>1. wake = Quiet
    BY NamesAssumption DEF DeliverInv, WakeJustified
  <2>2. arms[t] \in Seq(Sources) /\ s \in Sources
    BY DEF DeliverInv, SleepInv, KnownInv, WakeInv, FrameInv, TypeInv, TypeOK
  <2>3. CASE s \in Chans
    <3>1. s \in ChansOf(arms[t])
      BY <2>3 DEF ChansOf, ToSet
    <3>2. ~(q[s] > 0)
      BY <2>1, <3>1 DEF DeliverInv, ValueWakes
    <3>3. ~closed[s]
      BY <2>1, <2>3, <3>1, NamesAssumption
         DEF DeliverInv, SleepInv, CloseReachesAll, Sleeps, Quiet
    <3> QED BY <2>3, <3>2, <3>3 DEF SelReady, ChanReady
  <2>4. CASE s \in Tasks /\ s \notin Chans
    <3>1. s \in TasksOf(arms[t])
      BY <2>4 DEF TasksOf, ToSet
    <3> QED BY <2>4, <3>1 DEF SelReady, DeliverInv, SleepInv, FutureArmNotMissed, Sleeps
  <2> QED BY <2>2, <2>3, <2>4 DEF Sources
<1> QED BY <1>1, <1>2, PTL

\* A receive or a select goes on only when an arm of it is ready or its timeout
\* has expired (Awaiter::await_resume, SelectAwaiter::await_resume, Scheduler::run).
THEOREM ResumedForACause ==
  ASSUME OneConsumer
  PROVE  Spec => NoSpuriousResume
<1>1. Spec => []DeliverInv
  BY DeliverInvInit, DeliverInvStep, PTL DEF Spec
<1> DEFINE A == \A t \in Tasks : Parked(t) /\ ~Parked(t)' /\ ~Complete(t)' =>
                  \/ \E i \in DOMAIN arms[t] : SelReady(arms[t][i])
                  \/ deadline[t] # None /\ now >= deadline[t]
<1>2. DeliverInv /\ [Next]_vars => [A]_vars
  <2> SUFFICES ASSUME DeliverInv, Next, NEW t \in Tasks,
                      Parked(t), ~StaysParked(t), ~Complete(t)'
               PROVE  HasCause(t)
    BY DEF HasCause, Parked, StaysParked
  <2>1. KnownInv /\ pc \in [Tasks -> Where]
    BY DEF DeliverInv, SleepInv, KnownInv, WakeInv, FrameInv, TypeInv, TypeOK
  <2>2. UNCHANGED pc => FALSE
    BY DEF Parked, StaysParked
  <2>3. CASE UnseenTake \/ Wakes
    BY <2>3 DEF UnseenTake, Unseen, Wakes, SameTasks
  <2>4. ASSUME NEW u \in Tasks, NEW c \in Chans, Send(u, c) \/ Close(u, c)
        PROVE  FALSE
    BY <2>2, <2>4 DEF Send, Close
  <2>5. ASSUME NEW u \in Tasks, Parks(u)
        PROVE  FALSE
    <3>1. pc[u] = "run" /\ StaysParked(u) /\ pc' = [pc EXCEPT ![u] = pc'[u]]
      BY <2>5 DEF Parks
    <3>2. u # t /\ pc'[t] = pc[t]
      BY <2>1, <3>1 DEF Parked
    <3> QED BY <3>2 DEF Parked, StaysParked
  <2>6. ASSUME NEW u \in Tasks, Completes(u)
        PROVE  FALSE
    BY <2>6 DEF Completes
  <2>7. ASSUME NEW u \in Tasks, GoesOn(u)
        PROVE  HasCause(t)
    <3>1. u = t
      BY <2>7 DEF GoesOn
    <3> QED BY <2>7, <3>1, GoesOnFor
  <2>8. ASSUME NEW u \in Tasks, Drops(u)
        PROVE  FALSE
    BY <2>8 DEF Drops
  <2> QED BY <2>1, <2>3, <2>4, <2>5, <2>6, <2>7, <2>8, StepKinds
<1> QED BY <1>1, <1>2, PTL DEF Spec, NoSpuriousResume

-----------------------------------------------------------------------------
\* The refinement of CoopChannels

Sleeping == {t \in Tasks : Parked(t)}
Completed == {t \in Tasks : Complete(t)}

\* What CoopChannels sees is left as it is.
Hidden ==
  /\ Sleeping' = Sleeping /\ Completed' = Completed
  /\ UNCHANGED <<arms, deadline, q, closed, now>>

LEMMA SameSets ==
  ASSUME SameTasks
  PROVE  Sleeping' = Sleeping /\ Completed' = Completed
BY DEF SameTasks, Sleeping, Completed, Parked, StaysParked

LEMMA SameReady ==
  ASSUME NEW s \in Sources
  PROVE  Promise!Ready(s) <=> SelReady(s)
BY DEF Promise!Ready, SelReady, ChanReady, Sources

LEMMA PromiseInit == Init => Promise!Init
<1> SUFFICES ASSUME Init PROVE Promise!Init
  OBVIOUS
<1>1. \A t \in Tasks : ~Parked(t) /\ ~Complete(t)
  BY DEF Init, Parked, Complete
<1> QED BY <1>1 DEF Init, Promise!Init

\* A step that only takes a value is Take, or is not seen.
LEMMA PromiseTake ==
  ASSUME DeliverInv, UnseenTake
  PROVE  Hidden \/ Promise!Next
<1>1. /\ Sleeping' = Sleeping /\ Completed' = Completed
      /\ UNCHANGED <<arms, deadline, closed, now>>
  BY SameSets DEF UnseenTake, Unseen
<1>2. CASE UNCHANGED q
  BY <1>1, <1>2 DEF Hidden
<1>3. CASE \E c \in Chans, t \in Tasks : Takes(t, c)
  <2>1. PICK c \in Chans : q[c] > 0 /\ q' = [q EXCEPT ![c] = @ - 1]
    BY <1>3 DEF Takes
  <2>2. Promise!Take(c)
    BY <1>1, <2>1 DEF Promise!Take, Sleeping, Completed
  <2> QED BY <2>2 DEF Promise!Next
<1> QED BY <1>2, <1>3 DEF UnseenTake

LEMMA PromiseSend ==
  ASSUME DeliverInv, NEW t \in Tasks, NEW c \in Chans, Send(t, c) \/ Close(t, c)
  PROVE  Promise!Next
<1>1. UNCHANGED <<pc, arms, deadline, now>>
  BY DEF Send, Close, waitVars
<1>2. Sleeping' = Sleeping /\ Completed' = Completed
  BY <1>1 DEF Sleeping, Completed, Parked, Complete
<1>3. CASE Send(t, c)
  <2>1. q' = [q EXCEPT ![c] = @ + 1] /\ closed' = closed
    BY <1>3 DEF Send
  <2>2. Promise!Put(c)
    BY <1>1, <1>2, <2>1 DEF Promise!Put, Sleeping, Completed
  <2> QED BY <2>2 DEF Promise!Next
<1>4. CASE Close(t, c)
  <2>1. closed' = [closed EXCEPT ![c] = TRUE] /\ q' = q
    BY <1>4 DEF Close
  <2>2. Promise!Shut(c)
    BY <1>1, <1>2, <2>1 DEF Promise!Shut, Sleeping, Completed
  <2> QED BY <2>2 DEF Promise!Next
<1> QED BY <1>3, <1>4

LEMMA PromiseSleep ==
  ASSUME DeliverInv, NEW t \in Tasks, Parks(t)
  PROVE  Promise!Next
<1>0. pc \in [Tasks -> Where] /\ arms \in [Tasks -> Seq(Sources)]
  BY DEF DeliverInv, SleepInv, KnownInv, WakeInv, FrameInv, TypeInv, TypeOK
<1>1. /\ pc[t] = "run" /\ StaysParked(t) /\ pc' = [pc EXCEPT ![t] = pc'[t]]
      /\ arms'[t] \in Seq(Sources) /\ arms' = [arms EXCEPT ![t] = arms'[t]]
      /\ NoneReady(arms'[t])
      /\ now' \in Nat /\ now' >= now
      /\ deadline'[t] = None \/ (deadline'[t] \in Nat /\ deadline'[t] >= now')
      /\ deadline' = [deadline EXCEPT ![t] = deadline'[t]]
      /\ UNCHANGED <<q, closed>>
  BY DEF Parks
<1>2. t \notin Sleeping \cup Completed
  BY <1>1 DEF Sleeping, Completed, Parked, Complete
<1>3. Sleeping' = Sleeping \cup {t} /\ Completed' = Completed
  BY <1>0, <1>1 DEF Sleeping, Completed, Parked, Complete, StaysParked
<1>4. \A i \in DOMAIN arms'[t] : ~Promise!Ready(arms'[t][i])
  <2>1. \A i \in DOMAIN arms'[t] : arms'[t][i] \in Sources /\ ~SelReady(arms'[t][i])
    BY <1>1 DEF NoneReady
  <2> QED BY <2>1, SameReady
<1>5. Promise!Sleep(t)
  BY <1>1, <1>2, <1>3, <1>4 DEF Promise!Sleep, Sleeping, Completed, Sources
<1> QED BY <1>5 DEF Promise!Next

LEMMA PromiseEnd ==
  ASSUME DeliverInv, NEW t \in Tasks, Completes(t)
  PROVE  Promise!Next
<1>1. /\ ~Parked(t) /\ Complete(t)'
      /\ \A u \in Tasks : (StaysParked(u) <=> Parked(u)) /\ (u # t => (Complete(u)' <=> Complete(u)))
      /\ UNCHANGED <<arms, deadline, q, closed, now>>
  BY DEF Completes
<1>2. t \notin Sleeping /\ Sleeping' = Sleeping /\ Completed' = Completed \cup {t}
  BY <1>1 DEF Sleeping, Completed, Parked, StaysParked
<1>3. Promise!End(t)
  BY <1>1, <1>2 DEF Promise!End, Sleeping, Completed
<1> QED BY <1>3 DEF Promise!Next

\* A task that goes on takes from its first ready arm, or has waited long enough.
LEMMA PromiseGoesOn ==
  ASSUME DeliverInv, NEW t \in Tasks, GoesOn(t)
  PROVE  Promise!Next
<1>0. arms[t] \in Seq(Sources) /\ q \in [Chans -> Nat]
  BY DEF DeliverInv, SleepInv, KnownInv, WakeInv, FrameInv, TypeInv, TypeOK
<1>1. /\ Parked(t) /\ ~StaysParked(t)
      /\ \A u \in Tasks : (u # t => (StaysParked(u) <=> Parked(u))) /\ (Complete(u)' <=> Complete(u))
      /\ arms' = [arms EXCEPT ![t] = << >>] /\ deadline' = [deadline EXCEPT ![t] = None]
      /\ UNCHANGED <<closed, now>>
  BY DEF GoesOn
<1>2. t \in Sleeping /\ Sleeping' = Sleeping \ {t} /\ Completed' = Completed
  BY <1>1 DEF Sleeping, Completed, Parked, StaysParked
<1>3. Promise!WakeUp(t)
  BY <1>1, <1>2 DEF Promise!WakeUp, Sleeping, Completed
<1>4. \A i \in DOMAIN arms[t] : Promise!Ready(arms[t][i]) <=> SelReady(arms[t][i])
  BY <1>0, SameReady
<1>5. ASSUME NEW i \in DOMAIN arms[t], FirstReady(arms[t], i),
             IF arms[t][i] \in Chans THEN TakeValue(arms[t][i]) ELSE UNCHANGED q
      PROVE  Promise!Deliver(t)
  <2>1. Promise!Winner(arms[t], i)
    <3>1. DOMAIN arms[t] = 1 .. Len(arms[t]) /\ Len(arms[t]) \in Nat
      BY <1>0, LenProperties
    <3>2. \A j \in 1 .. i - 1 : j \in DOMAIN arms[t]
      BY <3>1
    <3> QED BY <1>4, <1>5, <3>2 DEF FirstReady, Promise!Winner
  <2>2. q' = IF arms[t][i] \in Chans /\ q[arms[t][i]] > 0
             THEN [q EXCEPT ![arms[t][i]] = @ - 1]
             ELSE q
    BY <1>5 DEF TakeValue
  <2> QED BY <1>2, <1>3, <2>1, <2>2 DEF Promise!Deliver, Sleeping
<1>6. ASSUME NoneReady(arms[t]), deadline[t] # None, now >= deadline[t], UNCHANGED q
      PROVE  Promise!Expire(t)
  BY <1>2, <1>3, <1>4, <1>6 DEF Promise!Expire, NoneReady, Sleeping
<1> QED BY <1>5, <1>6, GoesOnFor DEF Promise!Next

LEMMA PromiseWakes ==
  ASSUME DeliverInv, Wakes
  PROVE  Hidden \/ Promise!Next
<1>0. now \in Nat
  BY DEF DeliverInv, SleepInv, KnownInv, WakeInv, FrameInv, TypeInv, TypeOK
<1>1. /\ Sleeping' = Sleeping /\ Completed' = Completed
      /\ UNCHANGED <<arms, deadline, q, closed>> /\ now' \in Nat /\ now' >= now
  BY <1>0, SameSets DEF Wakes
<1>2. CASE now' = now
  BY <1>1, <1>2 DEF Hidden
<1>3. CASE now' > now
  <2>1. Promise!Tick
    BY <1>1, <1>3 DEF Promise!Tick, Sleeping, Completed
  <2> QED BY <2>1 DEF Promise!Next
<1> QED BY <1>0, <1>1, <1>2, <1>3

\* The destruction of a sleeper is seen; that of another task is its end.
LEMMA PromiseDrops ==
  ASSUME DeliverInv, NEW f \in Tasks, Drops(f)
  PROVE  Promise!Next
<1>1. /\ MayReassign /\ ~StaysParked(f) /\ Complete(f)'
      /\ \A u \in Tasks \ {f} : (StaysParked(u) <=> Parked(u)) /\ (Complete(u)' <=> Complete(u))
      /\ UNCHANGED <<arms, deadline, q, closed, now>>
  BY DEF Drops
<1>2. Sleeping' = Sleeping \ {f} /\ Completed' = Completed \cup {f}
  BY <1>1 DEF Sleeping, Completed, Parked, StaysParked
<1>3. CASE f \in Sleeping
  <2>1. Promise!Destroy(f)
    BY <1>1, <1>2, <1>3 DEF Promise!Destroy, Sleeping, Completed
  <2> QED BY <2>1 DEF Promise!Next
<1>4. CASE f \notin Sleeping
  <2>1. Promise!End(f)
    BY <1>1, <1>2, <1>4 DEF Promise!End, Sleeping, Completed
  <2> QED BY <2>1 DEF Promise!Next
<1> QED BY <1>3, <1>4

LEMMA PromiseStep == DeliverInv /\ [Next]_vars => [Promise!Next]_(Promise!vars)
<1> SUFFICES ASSUME DeliverInv, [Next]_vars PROVE Hidden \/ Promise!Next
  BY DEF Hidden, Sleeping, Completed, Promise!vars
<1>1. CASE Next
  BY <1>1, StepKinds, PromiseTake, PromiseSend, PromiseSleep, PromiseEnd, PromiseGoesOn,
     PromiseWakes, PromiseDrops DEF DeliverInv, SleepInv
<1>2. CASE UNCHANGED vars
  BY <1>2 DEF vars, Hidden, Sleeping, Completed, Parked, Complete
<1> QED BY <1>1, <1>2

\* Every run of the runtime is a run of CoopChannels: a parked task goes on only
\* with the value of its first ready arm or once its timeout has expired, and no
\* value is lost, made up or taken twice on the way through wake-ups and pumps.
\* ImplementsPromise adds the fairness of CoopChannels, which TLC checks.
THEOREM KeepsThePromise ==
  ASSUME OneConsumer
  PROVE  Spec => KeepsPromise
<1>1. Spec => []DeliverInv
  BY DeliverInvInit, DeliverInvStep, PTL DEF Spec
<1> QED BY <1>1, PromiseInit, PromiseStep, PTL DEF Spec, KeepsPromise, Promise!Spec

=============================================================================
