--------------------------- MODULE WakeUps_proofs ---------------------------
(***************************************************************************)
(* No coroutine of AsyncRuntime is resumed that is not suspended, no Waiter *)
(* outlives its suspension, and no suspended task is lost by the run-time   *)
(* system, for every set of tasks and channels and every program that      *)
(* assigns no future over another: ResumeOnce and WaiterCoherent are       *)
(* inductive only beside each other and FrameInv.  A program that does     *)
(* assign one over another may leave the handle of the frame it destroys   *)
(* in a queue, and nothing worse: QueueInv and WaitersInv allow for that,  *)
(* and are what the first part is about.                                   *)
(***************************************************************************)
EXTENDS Frames_proofs

\* The frame of t was destroyed, perhaps while it was suspended.
Dropped(t) == MayReassign /\ pc[t] = "gone"

\* The tasks the run-loop may hold.
Due(t) == Dropped(t) \/ pc[t] = "fresh" \/ (Parked(t) /\ fired[t])

\* ResumeOnce, but for frames that were dropped.
QueueInv ==
  /\ \A i, j \in DOMAIN ready : ready[i] = ready[j] => Dropped(ready[i]) \/ i = j
  /\ \A i \in DOMAIN ready : Due(ready[i])

\* The tasks channel c may hold a Waiter of.
Waits(t, c) == (Parked(t) \/ Dropped(t)) /\ c \in ChansOf(arms[t])

\* WaiterCoherent, but for the same.  The slot of a live future is no exception:
\* a frame that holds such a future is not destroyed.
WaitersInv ==
  /\ \A c \in Chans :
       /\ IsInjective(waiters[c])
       /\ \A i \in DOMAIN waiters[c] : Waits(waiters[c][i], c)
  /\ \A f \in Tasks : slot[f] # None /\ ~Complete(f) =>
       pc[slot[f]] = "sel" /\ f \in TasksOf(arms[slot[f]])
  /\ \A t \in Tasks : fired[t] \/ deadline[t] # None => Parked(t) \/ Dropped(t)

WakeInv == FrameInv /\ QueueInv /\ WaitersInv

LEMMA NoneDropped ==
  ASSUME WakeInv, ~MayReassign
  PROVE  ResumeOnce /\ WaiterCoherent
BY DEF WakeInv, QueueInv, WaitersInv, ResumeOnce, WaiterCoherent, Dropped, Due, Waits, IsInjective

\* A step leaves every task outside S that has not begun or is parked where it
\* is, and revives nothing.
Calm(S) ==
  \A u \in Tasks :
    /\ u \notin S /\ (pc[u] = "fresh" \/ Parked(u)) => pc'[u] = pc[u]
    /\ Complete(u) => Complete(u)'
    /\ pc[u] = "gone" => pc'[u] = "gone"

\* No task of S is scheduled or parked.
Away(S) == \A u \in S : pc[u] # "fresh" /\ ~Parked(u)

\* The same of task t after the step (t itself is read before it).
StaysParked(t) == pc'[t] \in {"recv", "sel"}
StaysDropped(t) == MayReassign /\ pc'[t] = "gone"
StaysDue(t) == StaysDropped(t) \/ pc'[t] = "fresh" \/ (StaysParked(t) /\ fired'[t])
StaysWaiting(t, c) == (StaysParked(t) \/ StaysDropped(t)) /\ c \in ChansOf(arms'[t])

LEMMA AfterStep ==
  /\ (\A i, j \in DOMAIN ready' : ready'[i] = ready'[j] => StaysDropped(ready'[i]) \/ i = j)
     /\ (\A i \in DOMAIN ready' : StaysDue(ready'[i])) => QueueInv'
  /\ /\ \A c \in Chans :
          IsInjective(waiters'[c]) /\ \A i \in DOMAIN waiters'[c] : StaysWaiting(waiters'[c][i], c)
     /\ \A f \in Tasks : slot'[f] # None /\ ~Complete(f)' =>
          pc'[slot'[f]] = "sel" /\ f \in TasksOf(arms'[slot'[f]])
     /\ \A t \in Tasks : fired'[t] \/ deadline'[t] # None => StaysParked(t) \/ StaysDropped(t)
     => WaitersInv'
BY DEF QueueInv, WaitersInv, Due, StaysDue, Waits, StaysWaiting, Dropped, StaysDropped,
       Parked, StaysParked, ChansOf, TasksOf

-----------------------------------------------------------------------------
\* What a calm step keeps

LEMMA StillDue ==
  ASSUME NEW S, Calm(S), Away(S), NEW u \in Tasks, Due(u), fired[u] => fired'[u]
  PROVE  StaysDue(u)
<1>1. CASE Dropped(u)
  BY <1>1 DEF Calm, Dropped, StaysDropped, StaysDue
<1>2. CASE pc[u] = "fresh" \/ (Parked(u) /\ fired[u])
  <2>1. pc'[u] = pc[u]
    BY <1>2 DEF Calm, Away
  <2> QED BY <1>2, <2>1 DEF StaysDue, Parked, StaysParked
<1> QED BY <1>1, <1>2 DEF Due

LEMMA KeepReady ==
  ASSUME WakeInv, NEW S, Calm(S), Away(S),
         UNCHANGED <<ready, fired>>
  PROVE  QueueInv'
<1>1. \A i \in DOMAIN ready : ready[i] \in Tasks
  BY DEF WakeInv, FrameInv, TypeInv, TypeOK
<1>2. \A i \in DOMAIN ready : StaysDue(ready[i])
  BY <1>1, StillDue DEF WakeInv, QueueInv
<1>3. \A i \in DOMAIN ready : Dropped(ready[i]) => StaysDropped(ready[i])
  BY <1>1 DEF Calm, Dropped, StaysDropped
<1> QED BY <1>2, <1>3, AfterStep DEF WakeInv, QueueInv

LEMMA KeepWaiters ==
  ASSUME WakeInv, NEW S, Calm(S), \A u \in S : ~Parked(u),
         UNCHANGED <<waiters, arms, deadline, slot>>,
         \A u \in Tasks : fired'[u] => fired[u] \/ Parked(u) \/ Dropped(u)
  PROVE  WaitersInv'
<1>1. \A u \in Tasks : Parked(u) => StaysParked(u) /\ pc'[u] = pc[u]
  BY DEF Calm, Parked, StaysParked
<1>2. \A u \in Tasks : Dropped(u) => StaysDropped(u)
  BY DEF Calm, Dropped, StaysDropped
<1>3. /\ \A c \in Chans : \A i \in DOMAIN waiters[c] : waiters[c][i] \in Tasks
      /\ \A f \in Tasks : slot[f] \in Tasks \cup {None}
  BY DEF WakeInv, FrameInv, TypeInv, TypeOK
<1>4. \A c \in Chans :
        IsInjective(waiters[c]) /\ \A i \in DOMAIN waiters[c] : StaysWaiting(waiters[c][i], c)
  BY <1>1, <1>2, <1>3 DEF WakeInv, WaitersInv, Waits, StaysWaiting
<1>5. ASSUME NEW f \in Tasks, slot[f] # None, ~Complete(f)'
      PROVE  pc'[slot[f]] = "sel" /\ f \in TasksOf(arms[slot[f]])
  <2>1. pc[slot[f]] = "sel" /\ f \in TasksOf(arms[slot[f]])
    BY <1>5 DEF Calm, WakeInv, WaitersInv
  <2> QED BY <1>1, <1>3, <1>5, <2>1 DEF Parked, StaysParked
<1>6. \A u \in Tasks : fired'[u] \/ deadline[u] # None => StaysParked(u) \/ StaysDropped(u)
  BY <1>1, <1>2 DEF WakeInv, WaitersInv
<1> QED BY <1>4, <1>5, <1>6, AfterStep

LEMMA KeepAll ==
  ASSUME WakeInv, NEW S, Calm(S), Away(S),
         UNCHANGED <<ready, waiters, arms, fired, deadline, slot>>
  PROVE  QueueInv' /\ WaitersInv'
BY KeepReady, KeepWaiters DEF Away

LEMMA AppendEnd ==
  ASSUME NEW S, NEW s \in Seq(S), NEW x \in S
  PROVE  \A i \in DOMAIN Append(s, x) :
           \/ i \in DOMAIN s /\ Append(s, x)[i] = s[i]
           \/ i = Len(s) + 1 /\ Append(s, x)[i] = x
<1>1. /\ DOMAIN Append(s, x) = 1 .. Len(s) + 1 /\ DOMAIN s = 1 .. Len(s) /\ Len(s) \in Nat
      /\ Append(s, x)[Len(s) + 1] = x /\ \A i \in 1 .. Len(s) : Append(s, x)[i] = s[i]
  BY AppendProperties, LenProperties
<1> QED BY <1>1

\* A handle joins the queue: that of a task which is due now and was not, or has
\* been dropped.
LEMMA JoinQueue ==
  ASSUME WakeInv, NEW w \in Tasks, ready' = Append(ready, w),
         Due(w) => Dropped(w), StaysDue(w),
         \A u \in Tasks : (Due(u) => StaysDue(u)) /\ (Dropped(u) => StaysDropped(u))
  PROVE  QueueInv'
<1>1. ready \in Seq(Tasks) /\ \A i \in DOMAIN ready : ready[i] \in Tasks
  BY DEF WakeInv, FrameInv, TypeInv, TypeOK
<1>2. \A i \in DOMAIN ready : Due(ready[i]) /\ StaysDue(ready[i])
  BY <1>1 DEF WakeInv, QueueInv
<1>3. \A i \in DOMAIN ready' :
        \/ i \in DOMAIN ready /\ ready'[i] = ready[i]
        \/ i = Len(ready) + 1 /\ ready'[i] = w
  BY <1>1, AppendEnd
<1>4. \A i \in DOMAIN ready' : StaysDue(ready'[i])
  BY <1>2, <1>3
<1>5. ASSUME NEW i \in DOMAIN ready', NEW j \in DOMAIN ready', ready'[i] = ready'[j], i # j
      PROVE  StaysDropped(ready'[i])
  <2>1. ready'[i] \in Tasks
    BY <1>1, <1>3
  <2>2. CASE i \in DOMAIN ready /\ j \in DOMAIN ready /\ ready'[i] = ready[i] /\ ready'[j] = ready[j]
    BY <1>5, <2>1, <2>2 DEF WakeInv, QueueInv
  <2>3. CASE ready'[i] = w /\ \E k \in DOMAIN ready : ready[k] = w
    BY <1>2, <2>3
  <2> QED BY <1>3, <1>5, <2>2, <2>3
<1> QED BY <1>4, <1>5, AfterStep

LEMMA JoinReady ==
  ASSUME WakeInv, NEW S, Calm(S), Away(S),
         NEW w \in Tasks, ready' = Append(ready, w),
         Due(w) => Dropped(w), StaysDue(w),
         \A u \in Tasks : fired[u] => fired'[u]
  PROVE  QueueInv'
<1>1. \A u \in Tasks : Due(u) => StaysDue(u)
  BY StillDue
<1>2. \A u \in Tasks : Dropped(u) => StaysDropped(u)
  BY DEF Calm, Dropped, StaysDropped
<1> QED BY <1>1, <1>2, JoinQueue

-----------------------------------------------------------------------------
\* Which steps are calm

LEMMA RunCalm ==
  ASSUME WakeInv, NEW t \in Tasks, ~Complete(t),
         pc' = [pc EXCEPT ![t] = "run"]
  PROVE  Calm({t})
BY DEF WakeInv, FrameInv, TypeInv, TypeOK, Calm, Parked, Complete

LEMMA ForceCalm ==
  ASSUME WakeInv, NEW t \in Tasks, ~Complete(t),
         NEW f \in Tasks, NEW st, ForceFuture(t, f, st)
  PROVE  Calm({t}) /\ pc'[t] = "run"
<1>1. CASE Complete(f)
  <2>1. pc' = [pc EXCEPT ![t] = "run", ![f] = "gone"] /\ t # f
    BY <1>1 DEF ForceFuture
  <2> QED BY <1>1, <2>1 DEF WakeInv, FrameInv, TypeInv, TypeOK, Calm, Parked, Complete
<1>2. CASE ~Complete(f)
  <2>1. pc' = [pc EXCEPT ![t] = "run"]
    BY <1>2 DEF ForceFuture
  <2> QED BY <2>1, RunCalm DEF WakeInv, FrameInv, TypeInv, TypeOK
<1> QED BY <1>1, <1>2

LEMMA TakeArmCalm ==
  ASSUME WakeInv, NEW t \in Tasks, ~Complete(t),
         NEW s, NEW st, TakeArm(t, s, st)
  PROVE  Calm({t}) /\ pc'[t] = "run"
<1>1. CASE pc' = [pc EXCEPT ![t] = "run"]
  BY <1>1, RunCalm DEF WakeInv, FrameInv, TypeInv, TypeOK
<1>2. CASE s \in Tasks /\ ForceFuture(t, s, st)
  BY <1>2, ForceCalm
<1> QED BY <1>1, <1>2 DEF TakeArm

\* A running task is in no queue.
LEMMA RunningAway ==
  ASSUME WakeInv, NEW t \in Tasks, pc[t] = "run"
  PROVE  /\ Away({t}) /\ \A u \in {t} : ~Parked(u)
         /\ ~Parked(t) /\ ~Complete(t)
         /\ \A c \in Chans : ~Contains(waiters[c], t)
         /\ \A f \in Tasks : ~Complete(f) => slot[f] # t
         /\ ~fired[t] /\ deadline[t] = None
         /\ \A i \in DOMAIN ready : ready[i] # t
<1>1. ~Parked(t) /\ ~Complete(t) /\ ~Dropped(t)
  BY DEF Parked, Complete, Dropped
<1>2. ASSUME NEW c \in Chans PROVE ~Contains(waiters[c], t)
  <2>1. waiters[c] \in Seq(Tasks)
    BY DEF WakeInv, FrameInv, TypeInv, TypeOK
  <2>2. \A i \in DOMAIN waiters[c] : waiters[c][i] # t
    BY <1>1 DEF WakeInv, WaitersInv, Waits
  <2> QED BY <2>1, <2>2, LenProperties DEF Contains
<1>3. t # None
  BY NamesAssumption
<1>4. \A f \in Tasks : ~Complete(f) => slot[f] # t
  BY <1>3 DEF WakeInv, WaitersInv
<1>5. ~fired[t] /\ deadline[t] = None
  BY <1>1 DEF WakeInv, WaitersInv
<1>6. \A i \in DOMAIN ready : ready[i] # t
  BY <1>1 DEF WakeInv, QueueInv, Due
<1>7. Away({t}) /\ \A u \in {t} : ~Parked(u)
  BY <1>1 DEF Away
<1> QED BY <1>1, <1>2, <1>4, <1>5, <1>6, <1>7

\* A running task parks: it joins the queue of each channel it waits on.
LEMMA ParkWaits ==
  ASSUME WakeInv, NEW t \in Tasks, pc[t] = "run",
         NEW as \in Seq(Sources), NEW where \in {"recv", "sel"}, Park(t, as, where),
         UNCHANGED <<ready, fired>>,
         TasksOf(as) = {} \/ where = "sel",
         slot' = [f \in Tasks |-> IF f \in TasksOf(as) THEN t ELSE slot[f]],
         \A u \in Tasks : u # t => deadline'[u] = deadline[u]
  PROVE  QueueInv' /\ WaitersInv'
<1>1. /\ pc' = [pc EXCEPT ![t] = where]
      /\ arms' = [arms EXCEPT ![t] = as]
      /\ waiters' = [c \in Chans |-> IF c \in ChansOf(as) THEN Append(waiters[c], t)
                                                           ELSE waiters[c]]
  BY DEF Park
<1>2. /\ pc \in [Tasks -> Where] /\ arms \in [Tasks -> Seq(Sources)]
      /\ waiters \in [Chans -> Seq(Tasks)]
      /\ slot \in [Tasks -> Tasks \cup {None}]
  BY DEF WakeInv, FrameInv, TypeInv, TypeOK
<1>3. Calm({t})
  BY <1>1, <1>2 DEF Calm, Parked, Complete
<1>4. StaysParked(t) /\ pc'[t] = where /\ arms'[t] = as
  BY <1>1, <1>2 DEF Parked, StaysParked
<1>5. QueueInv'
  BY <1>3, KeepReady, RunningAway
<1>6. \A u \in Tasks : u # t =>
         /\ arms'[u] = arms[u] /\ pc'[u] = pc[u]
         /\ Parked(u) => StaysParked(u)
         /\ Dropped(u) => StaysDropped(u)
  BY <1>1, <1>2 DEF Parked, StaysParked, Dropped, StaysDropped
<1>7. ASSUME NEW c \in Chans
      PROVE  /\ IsInjective(waiters'[c])
             /\ \A i \in DOMAIN waiters'[c] : StaysWaiting(waiters'[c][i], c)
  <2>1. /\ IsInjective(waiters[c])
        /\ \A i \in DOMAIN waiters[c] :
             Waits(waiters[c][i], c) /\ waiters[c][i] \in Tasks /\ waiters[c][i] # t
    <3>1. waiters[c] \in Seq(Tasks)
      BY <1>2
    <3>2. \A i \in DOMAIN waiters[c] : waiters[c][i] \in Tasks
      BY <3>1
    <3>3. ~Waits(t, c)
      BY RunningAway DEF Waits, Dropped, Complete
    <3> QED BY <3>2, <3>3 DEF WakeInv, WaitersInv
  <2>2. \A i \in DOMAIN waiters[c] : StaysWaiting(waiters[c][i], c)
    BY <2>1, <1>6 DEF Waits, StaysWaiting
  <2>3. CASE c \notin ChansOf(as)
    BY <1>1, <2>1, <2>2, <2>3
  <2>4. CASE c \in ChansOf(as)
    <3>1. waiters'[c] = Append(waiters[c], t) /\ ~Contains(waiters[c], t)
      BY <1>1, <2>4, RunningAway
    <3>2. /\ IsInjective(waiters'[c])
          /\ \A i \in DOMAIN waiters'[c] :
               waiters'[c][i] = t \/ \E j \in DOMAIN waiters[c] : waiters'[c][i] = waiters[c][j]
      <4>1. waiters[c] \in Seq(Tasks)
        BY <1>2
      <4> QED BY <2>1, <3>1, <4>1, AppendNew
    <3>3. StaysWaiting(t, c)
      BY <1>4, <2>4 DEF StaysWaiting
    <3> QED BY <2>2, <3>2, <3>3
  <2> QED BY <2>3, <2>4
<1>8. ASSUME NEW f \in Tasks, slot'[f] # None, ~Complete(f)'
      PROVE  pc'[slot'[f]] = "sel" /\ f \in TasksOf(arms'[slot'[f]])
  <2>1. CASE f \in TasksOf(as)
    BY <1>4, <2>1
  <2>2. CASE f \notin TasksOf(as)
    <3>1. slot'[f] = slot[f] /\ ~Complete(f) /\ slot[f] \in Tasks
      BY <1>2, <1>3, <1>8, <2>2 DEF Calm
    <3>2. pc[slot[f]] = "sel" /\ f \in TasksOf(arms[slot[f]])
      BY <1>8, <3>1 DEF WakeInv, WaitersInv
    <3> QED BY <1>6, <3>1, <3>2, RunningAway DEF Parked, StaysParked
  <2> QED BY <2>1, <2>2
<1>9. ASSUME NEW u \in Tasks, fired'[u] \/ deadline'[u] # None
       PROVE  StaysParked(u) \/ StaysDropped(u)
  <2>1. CASE u = t
    BY <1>4, <2>1
  <2>2. CASE u # t
    <3>1. fired[u] \/ deadline[u] # None
      BY <1>9, <2>2
    <3>2. Parked(u) \/ Dropped(u)
      BY <3>1 DEF WakeInv, WaitersInv
    <3> QED BY <1>6, <2>2, <3>2
  <2> QED BY <2>1, <2>2
<1>10. WaitersInv'
  BY <1>7, <1>8, <1>9, AfterStep
<1> QED BY <1>5, <1>10

-----------------------------------------------------------------------------
\* The operations of a task

\* Assigning a future over another drops a frame, and the queues may hold it
\* still; but no live future is left that would wake it.
LEMMA WakeInvReassign ==
  ASSUME WakeInv, NEW t \in Tasks, NEW f \in Tasks, NEW u \in Tasks, Reassign(t, f, u)
  PROVE  QueueInv' /\ WaitersInv'
<1>1. /\ MayReassign /\ pc[u] = "unborn" /\ ready' = Append(ready, u)
      /\ \A g \in Owned(f) : Complete(g)
      /\ UNCHANGED <<waiters, arms, fired, deadline, slot>>
  BY DEF Reassign, chanVars, waitVars
<1>2. \A v \in Tasks : pc'[v] = CASE v = u -> "fresh"
                                  [] v \in Owned(f) \cup {f} -> "gone"
                                  [] OTHER -> pc[v]
  BY DEF Reassign
<1>3. u # f /\ u \notin Owned(f)
  BY <1>1 DEF Reassign, Complete
<1>4. StaysDropped(f) /\ \A v \in Tasks : Dropped(v) => StaysDropped(v)
  <2>1. pc'[f] = "gone" /\ \A v \in Tasks : pc[v] = "gone" => pc'[v] = "gone"
    BY <1>1, <1>2, <1>3
  <2> QED BY <1>1, <2>1 DEF Dropped, StaysDropped
<1>5. \A v \in Tasks : pc[v] = "fresh" \/ Parked(v) => v = f \/ pc'[v] = pc[v]
  BY <1>1, <1>2 DEF Parked, Complete
<1>6. \A v \in Tasks : Due(v) => StaysDue(v)
  BY <1>1, <1>4, <1>5 DEF Due, StaysDue, Parked, StaysParked
<1>7. StaysDue(u) /\ ~Due(u)
  <2>1. pc'[u] = "fresh"
    BY <1>2, <1>3
  <2> QED BY <1>1, <2>1 DEF Due, StaysDue, Parked, Dropped
<1>8. QueueInv'
  BY <1>1, <1>4, <1>6, <1>7, JoinQueue
<1>9. /\ \A c \in Chans : \A i \in DOMAIN waiters[c] : waiters[c][i] \in Tasks
      /\ \A g \in Tasks : slot[g] \in Tasks \cup {None}
  BY DEF WakeInv, FrameInv, TypeInv, TypeOK
<1>10. \A c \in Chans :
         IsInjective(waiters[c]) /\ \A i \in DOMAIN waiters[c] : StaysWaiting(waiters[c][i], c)
  BY <1>1, <1>4, <1>5, <1>9 DEF WakeInv, WaitersInv, Waits, StaysWaiting, Parked, StaysParked
<1>11. ASSUME NEW g \in Tasks, slot[g] # None, ~Complete(g)'
       PROVE  pc'[slot[g]] = "sel" /\ g \in TasksOf(arms[slot[g]])
  <2>1. ~Complete(g)
    BY <1>1, <1>2, <1>11 DEF Complete
  <2>2. slot[g] \in Tasks /\ pc[slot[g]] = "sel" /\ g \in TasksOf(arms[slot[g]])
    BY <1>9, <1>11, <2>1 DEF WakeInv, WaitersInv
  <2>3. g \in Owned(slot[g])
    BY <2>2 DEF WakeInv, FrameInv, OwnersInv, Parked
  <2>4. slot[g] # f
    BY <1>1, <2>1, <2>3
  <2> QED BY <1>5, <2>2, <2>4 DEF Parked
<1>12. \A v \in Tasks : fired[v] \/ deadline[v] # None => StaysParked(v) \/ StaysDropped(v)
  BY <1>4, <1>5 DEF WakeInv, WaitersInv, Parked, StaysParked
<1>13. WaitersInv'
  BY <1>1, <1>10, <1>11, <1>12, AfterStep
<1> QED BY <1>8, <1>13

LEMMA WakeInvOperation ==
  ASSUME WakeInv, NEW t \in Tasks, Operation(t)
  PROVE  QueueInv' /\ WaitersInv'
<1>0. pc \in [Tasks -> Where] /\ fired \in [Tasks -> BOOLEAN]
  BY DEF WakeInv, FrameInv, TypeInv, TypeOK
<1>1. ASSUME NEW u \in Tasks, Spawn(t, u)
      PROVE  QueueInv' /\ WaitersInv'
  <2>1. pc[t] = "run" /\ pc[u] = "unborn" /\ pc' = [pc EXCEPT ![u] = "fresh"]
    BY <1>1 DEF Spawn, Step
  <2>2. Calm({t})
    BY <1>0, <2>1 DEF Calm, Parked, Complete
  <2>3. /\ UNCHANGED <<waiters, arms, fired, deadline, slot>>
        /\ ready' = Append(ready, u)
    BY <1>1 DEF Spawn, chanVars, waitVars
  <2>4. StaysDue(u) /\ ~Due(u)
    BY <1>0, <2>1 DEF Due, StaysDue, Parked, Dropped
  <2>5. QueueInv'
    BY <2>1, <2>2, <2>3, <2>4, JoinReady, RunningAway
  <2>6. WaitersInv'
    BY <2>1, <2>2, <2>3, KeepWaiters, RunningAway
  <2> QED BY <2>5, <2>6
<1>2. ASSUME NEW u \in Tasks, Call(t, u)
      PROVE  QueueInv' /\ WaitersInv'
  <2>1. /\ pc[t] = "run" /\ pc[u] = "unborn"
        /\ pc' = [pc EXCEPT ![t] = "call", ![u] = "run"]
    BY <1>2 DEF Call, Step
  <2>2. Calm({t})
    BY <1>0, <2>1 DEF Calm, Parked, Complete
  <2>3. UNCHANGED <<ready, waiters, arms, fired, deadline, slot>>
    BY <1>2 DEF Call, chanVars, waitVars
  <2> QED BY <2>1, <2>2, <2>3, KeepAll, RunningAway
<1>3. ASSUME NEW f \in Tasks, AwaitFuture(t, f)
      PROVE  QueueInv' /\ WaitersInv'
  <2>1. pc[t] = "run" /\ ForceFuture(t, f, stack)
    BY <1>3 DEF AwaitFuture, Step
  <2>2. UNCHANGED <<ready, waiters, arms, fired, deadline, slot>>
    BY <1>3 DEF AwaitFuture, frameVars, chanVars, waitVars
  <2> QED BY <2>1, <2>2, RunningAway, ForceCalm, KeepAll
<1>4. ASSUME NEW f \in Tasks, NEW u \in Tasks, Reassign(t, f, u)
      PROVE  QueueInv' /\ WaitersInv'
  BY <1>4, WakeInvReassign
<1>5. ASSUME pc[t] = "run",
             UNCHANGED <<pc, ready, waiters, arms, fired, deadline, slot>>
      PROVE  QueueInv' /\ WaitersInv'
  <2>1. Calm({t})
    BY <1>5 DEF Calm, Complete
  <2> QED BY <1>5, <2>1, RunningAway, KeepAll
<1>6. ASSUME NEW c \in Chans, Send(t, c) \/ Close(t, c) \/ Poll(t, c)
      PROVE  QueueInv' /\ WaitersInv'
  <2>1. CASE Send(t, c)
    BY <1>5, <2>1 DEF Send, Step, frameVars, waitVars
  <2>2. CASE Close(t, c)
    BY <1>5, <2>2 DEF Close, Step, frameVars, waitVars
  <2>3. CASE Poll(t, c)
    BY <1>5, <2>3 DEF Poll, Step, frameVars, waitVars
  <2> QED BY <1>6, <2>1, <2>2, <2>3
<1>7. ASSUME NEW c \in Chans, Receive(t, c)
      PROVE  QueueInv' /\ WaitersInv'
  <2>1. pc[t] = "run" /\ UNCHANGED <<ready, fired, deadline, slot>>
    BY <1>7 DEF Receive, Step, frameVars
  <2>2. CASE ChanReady(c)
    BY <1>5, <1>7, <2>1, <2>2 DEF Receive
  <2>3. CASE ~ChanReady(c)
    <3>1. Park(t, <<c>>, "recv")
      BY <1>7, <2>3 DEF Receive
    <3>2. <<c>> \in Seq(Sources)
      BY DEF Sources
    <3>3. TasksOf(<<c>>) = {}
      BY NamesAssumption DEF TasksOf, ToSet
    <3>4. slot' = [f \in Tasks |-> IF f \in TasksOf(<<c>>) THEN t ELSE slot[f]]
      BY <2>1, <3>3 DEF WakeInv, FrameInv, TypeInv, TypeOK
    <3> QED BY <2>1, <3>1, <3>2, <3>3, <3>4, ParkWaits
  <2> QED BY <2>2, <2>3
<1>8. ASSUME NEW s, TakeArm(t, s, stack), pc[t] = "run",
             UNCHANGED <<ready, waiters, arms, fired, deadline, slot>>
      PROVE  QueueInv' /\ WaitersInv'
  BY <1>8, RunningAway, TakeArmCalm, KeepAll
<1>9. ASSUME NEW as \in ArmLists(t), SelectReady(t, as)
      PROVE  QueueInv' /\ WaitersInv'
  BY <1>8, <1>9 DEF SelectReady, Step, frameVars, waitVars
<1>10. ASSUME NEW as \in ArmLists(t), NEW d \in Delays \cup {None}, NEW lag \in 0 .. MaxLag,
              SelectPark(t, as, d, lag)
       PROVE  QueueInv' /\ WaitersInv'
  <2>1. /\ pc[t] = "run" /\ UNCHANGED <<ready, fired>>
        /\ Park(t, as, "sel")
        /\ slot' = [f \in Tasks |-> IF f \in TasksOf(as) THEN t ELSE slot[f]]
    BY <1>10 DEF SelectPark, Step, frameVars
  <2>2. \A u \in Tasks : u # t => deadline'[u] = deadline[u]
    BY <1>10 DEF SelectPark, WakeInv, FrameInv, TypeInv, TypeOK
  <2>3. as \in Seq(Sources)
    BY ArmListsType
  <2> QED BY <2>1, <2>2, <2>3, ParkWaits
<1>11. ASSUME NEW as \in ArmLists(t), NEW binds \in BOOLEAN, PollSelect(t, as, binds)
       PROVE  QueueInv' /\ WaitersInv'
  BY <1>5, <1>8, <1>11 DEF PollSelect, Step, frameVars, waitVars
<1> QED BY <1>1, <1>2, <1>3, <1>4, <1>6, <1>7, <1>9, <1>10, <1>11 DEF Operation

-----------------------------------------------------------------------------
\* The wake loops

LEMMA WakeInvWake ==
  ASSUME WakeInv, WakeNext \/ WakeEnd
  PROVE  QueueInv' /\ WaitersInv'
<1>1. UNCHANGED <<pc, arms, deadline, slot>>
  BY DEF WakeNext, WakeEnd, frameVars, waitVars
<1>2. Calm({}) /\ Away({})
  BY <1>1 DEF Calm, Away, Complete
<1>3. CASE WakeEnd
  BY <1>1, <1>2, <1>3, KeepAll DEF WakeEnd, waitVars
<1>4. CASE WakeNext
  <2> DEFINE ws == waiters[wake.on]
             w == Head(waiters[wake.on])
  <2>1. /\ wake.on \in Chans /\ ws \in Seq(Tasks) /\ ws # << >>
        /\ waiters \in [Chans -> Seq(Tasks)] /\ fired \in [Tasks -> BOOLEAN]
    BY <1>4 DEF WakeNext, WakeInv, FrameInv, TypeInv, TypeOK
  <2>2. IsInjective(ws)
    BY <2>1 DEF WakeInv, WaitersInv
  <2>3. /\ waiters' = [waiters EXCEPT ![wake.on] = Tail(ws)]
        /\ fired' = [fired EXCEPT ![w] = TRUE]
        /\ ready' = IF fired[w] THEN ready ELSE Append(ready, w)
    BY <1>4 DEF WakeNext
  <2>4. /\ w \in Tasks /\ \E i \in DOMAIN ws : w = ws[i]
        /\ IsInjective(Tail(ws))
        /\ \A i \in DOMAIN Tail(ws) : \E j \in DOMAIN ws : Tail(ws)[i] = ws[j]
    BY <2>1, <2>2, TailRest
  <2>5. Waits(w, wake.on)
    BY <2>1, <2>4 DEF WakeInv, WaitersInv
  <2> HIDE DEF ws, w
  <2>6. \A u \in Tasks : fired'[u] <=> (u = w \/ fired[u])
    BY <2>1, <2>3, <2>4
  <2>7. QueueInv'
    <3>1. CASE fired[w]
      <4>1. UNCHANGED <<ready, fired>>
        BY <2>1, <2>3, <2>4, <3>1
      <4> QED BY <1>2, <4>1, KeepReady
    <3>2. CASE ~fired[w]
      <4>1. ready' = Append(ready, w)
        BY <2>3, <3>2
      <4>2. (Due(w) => Dropped(w)) /\ StaysDue(w)
        BY <1>1, <2>4, <2>5, <2>6, <3>2
           DEF Waits, Due, StaysDue, Dropped, StaysDropped, Parked, StaysParked
      <4> QED BY <1>2, <2>4, <2>6, <4>1, <4>2, JoinReady
    <3> QED BY <3>1, <3>2
  <2>8. ASSUME NEW c \in Chans
        PROVE  /\ IsInjective(waiters'[c])
               /\ \A i \in DOMAIN waiters'[c] : Waits(waiters'[c][i], c)
    <3>1. /\ IsInjective(waiters[c])
          /\ \A i \in DOMAIN waiters[c] : Waits(waiters[c][i], c)
      BY DEF WakeInv, WaitersInv
    <3>2. CASE c = wake.on
      <4>1. waiters'[c] = Tail(ws) /\ waiters[c] = ws
        BY <2>1, <2>3, <3>2 DEF ws
      <4> QED BY <2>4, <3>1, <4>1
    <3>3. CASE c # wake.on
      BY <2>1, <2>3, <3>1, <3>3
    <3> QED BY <3>2, <3>3
  <2>9. Parked(w) \/ Dropped(w)
    BY <2>5 DEF Waits
  <2>10. WaitersInv'
    BY <1>1, <2>6, <2>8, <2>9
       DEF WakeInv, WaitersInv, Waits, Dropped, Parked, Complete, ChansOf, TasksOf
  <2> QED BY <2>7, <2>10
<1> QED BY <1>3, <1>4

-----------------------------------------------------------------------------
\* The end of a task

LEMMA WakeInvEnding ==
  ASSUME WakeInv, NEW t \in Tasks, Ending(t)
  PROVE  QueueInv' /\ WaitersInv'
<1>0. /\ pc \in [Tasks -> Where] /\ fired \in [Tasks -> BOOLEAN]
      /\ cont \in [Tasks -> Tasks \cup {None}] /\ slot \in [Tasks -> Tasks \cup {None}]
  BY DEF WakeInv, FrameInv, TypeInv, TypeOK
<1>1. CASE Return(t)
  <2>1. pc[t] = "run" /\ pc' = [pc EXCEPT ![t] = "exit"]
    BY <1>1 DEF Return
  <2>2. Calm({t})
    BY <1>0, <2>1 DEF Calm, Parked, Complete
  <2>3. UNCHANGED <<ready, waiters, arms, fired, deadline, slot>>
    BY <1>1 DEF Return, frameVars, chanVars, waitVars
  <2> QED BY <2>1, <2>2, <2>3, RunningAway, KeepAll
<1>2. CASE \E f \in Tasks : Unwind(t, f)
  <2>1. UNCHANGED <<pc, ready, waiters, arms, fired, deadline, slot>>
    BY <1>2 DEF Unwind, frameVars, chanVars, waitVars
  <2>2. Calm({}) /\ Away({})
    BY <2>1 DEF Calm, Away, Complete
  <2> QED BY <2>1, <2>2, KeepAll
<1>3. CASE Finish(t)
  <2> DEFINE caller == cont[t]
             w == slot[t]
  <2>1. /\ pc[t] = "exit" /\ t # None
        /\ \A f \in Owned(t) : Complete(f)
        /\ UNCHANGED <<waiters, arms, deadline, slot>>
    BY <1>3, NamesAssumption DEF Finish, frameVars, chanVars
  <2>2. ~Complete(t) /\ ~Parked(t)
    BY <2>1 DEF Complete, Parked
  <2>3. caller # None => caller \in Tasks /\ pc[caller] = "call" /\ caller # t
    BY <1>0, <2>1, <2>2 DEF WakeInv, FrameInv, CallersWait
  <2> HIDE DEF caller
  <2> DEFINE S == {t, caller} \cap Tasks
  <2>4. pc'[t] \in {"done", "gone"}
    BY <1>3, <2>1 DEF Finish
  <2>5. \A u \in Tasks : u \notin S => pc'[u] = pc[u] \/ (Complete(u) /\ pc'[u] = "gone")
    BY <1>3, <2>1 DEF Finish, caller
  <2>6. Calm(S)
    <3>1. ASSUME NEW u \in Tasks, u \notin S, pc[u] = "fresh" \/ Parked(u)
          PROVE  pc'[u] = pc[u]
      BY <2>5, <3>1 DEF Parked, Complete
    <3>2. ASSUME NEW u \in Tasks, Complete(u)
          PROVE  Complete(u)'
      <4>1. u # t /\ u # caller
        BY <2>2, <2>3, <3>2, NamesAssumption DEF Complete
      <4>2. pc'[u] = pc[u] \/ pc'[u] = "gone"
        BY <2>5, <4>1
      <4> QED BY <3>2, <4>2 DEF Complete
    <3>3. ASSUME NEW u \in Tasks, pc[u] = "gone"
          PROVE  pc'[u] = "gone"
      BY <2>2, <2>3, <2>5, <3>3, NamesAssumption DEF S, Complete
    <3> HIDE DEF S
    <3> QED BY <3>1, <3>2, <3>3 DEF Calm
  <2>7. Away(S) /\ \A u \in S : ~Parked(u)
    BY <2>1, <2>2, <2>3, NamesAssumption DEF Away, Parked
  <2> HIDE DEF S
  <2>8. CASE UNCHANGED <<fired, ready>>
    BY <2>1, <2>6, <2>7, <2>8, KeepReady, KeepWaiters
  <2>9. CASE /\ w # None /\ ~fired[w]
              /\ fired' = [fired EXCEPT ![w] = TRUE] /\ ready' = Append(ready, w)
    <3>1. w \in Tasks /\ pc[w] = "sel"
      BY <1>0, <2>2, <2>9 DEF WakeInv, WaitersInv
    <3>2. Parked(w) /\ pc[w] # "fresh"
      BY <3>1 DEF Parked
    <3>3. pc'[w] = pc[w]
      BY <2>6, <2>7, <3>1, <3>2 DEF Calm
    <3> HIDE DEF w
    <3>4. StaysParked(w) /\ \A u \in Tasks : fired'[u] <=> (u = w \/ fired[u])
      BY <1>0, <2>9, <3>1, <3>3 DEF StaysParked
    <3>5. ~Due(w) /\ StaysDue(w)
      BY <2>9, <3>1, <3>4 DEF Due, StaysDue, Dropped
    <3>6. QueueInv'
      BY <2>6, <2>7, <2>9, <3>1, <3>4, <3>5, JoinReady
    <3>7. WaitersInv'
      BY <2>1, <2>6, <2>7, <3>2, <3>4, KeepWaiters
    <3> QED BY <3>6, <3>7
  <2> QED BY <1>3, <2>8, <2>9 DEF Finish
<1> QED BY <1>1, <1>2, <1>3 DEF Ending

-----------------------------------------------------------------------------
\* Scheduler::run

\* The task at the head of the queue leaves it: the others in it are others.
LEMMA HeadLeaves ==
  ASSUME WakeInv, NEW t \in Tasks, ready # << >>, t = Head(ready), ~Complete(t),
         ready' = Tail(ready), Calm({t}),
         \A u \in Tasks : u # t /\ fired[u] => fired'[u]
  PROVE  QueueInv'
<1>1. ready \in Seq(Tasks) /\ (\A i \in DOMAIN ready : ready[i] \in Tasks) /\ ~Dropped(t)
  BY DEF WakeInv, FrameInv, TypeInv, TypeOK, Dropped, Complete
<1>2. \A i \in DOMAIN Tail(ready) :
        i + 1 \in DOMAIN ready /\ Tail(ready)[i] = ready[i + 1] /\ i + 1 # 1
  BY <1>1, HeadTailProperties, LenProperties
<1>3. 1 \in DOMAIN ready /\ ready[1] = t
  BY <1>1, HeadTailProperties, LenProperties
<1>4. \A u \in Tasks : Dropped(u) => StaysDropped(u)
  BY DEF Calm, Dropped, StaysDropped
<1>5. ASSUME NEW i \in DOMAIN Tail(ready), NEW u, u = Tail(ready)[i]
      PROVE  StaysDue(u)
  <2>1. u \in Tasks /\ Due(u) /\ u # t
    BY <1>1, <1>2, <1>3, <1>5 DEF WakeInv, QueueInv
  <2>2. CASE Dropped(u)
    BY <1>4, <2>1, <2>2 DEF StaysDue
  <2>3. CASE ~Dropped(u)
    <3>1. pc'[u] = pc[u]
      BY <2>1, <2>3 DEF Due, Calm
    <3> QED BY <2>1, <2>3, <3>1 DEF Due, StaysDue, Parked, StaysParked
  <2> QED BY <2>2, <2>3
<1>6. ASSUME NEW i \in DOMAIN Tail(ready), NEW j \in DOMAIN Tail(ready),
             Tail(ready)[i] = Tail(ready)[j], i # j
      PROVE  StaysDropped(Tail(ready)[i])
  <2>1. i + 1 # j + 1
    <3>1. i \in Nat /\ j \in Nat
      BY <1>1, HeadTailProperties, LenProperties
    <3> QED BY <1>6, <3>1
  <2> QED BY <1>1, <1>2, <1>4, <1>6, <2>1 DEF WakeInv, QueueInv
<1> QED BY <1>5, <1>6, AfterStep

\* Of the Waiters of a task that is disarmed none is left.
LEMMA DisarmRest ==
  ASSUME WakeInv, NEW t \in Tasks, Parked(t), Disarm(t)
  PROVE  /\ \A c \in Chans :
              /\ IsInjective(waiters'[c])
              /\ \A i \in DOMAIN waiters'[c] :
                   /\ waiters'[c][i] \in Tasks \ {t}
                   /\ \E j \in DOMAIN waiters[c] : waiters'[c][i] = waiters[c][j]
         /\ \A f \in Tasks : ~Complete(f) /\ slot'[f] # None =>
              slot'[f] \in Tasks \ {t} /\ slot'[f] = slot[f]
<1>1. waiters \in [Chans -> Seq(Tasks)] /\ slot \in [Tasks -> Tasks \cup {None}]
  BY DEF WakeInv, FrameInv, TypeInv, TypeOK
<1>2. ASSUME NEW c \in Chans
      PROVE  /\ IsInjective(waiters'[c])
             /\ \A i \in DOMAIN waiters'[c] :
                  /\ waiters'[c][i] \in Tasks \ {t}
                  /\ \E j \in DOMAIN waiters[c] : waiters'[c][i] = waiters[c][j]
  <2>1. waiters[c] \in Seq(Tasks) /\ IsInjective(waiters[c])
    BY <1>1 DEF WakeInv, WaitersInv
  <2>2. \A i \in DOMAIN waiters[c] :
          waiters[c][i] \in Tasks /\ (waiters[c][i] = t => c \in ChansOf(arms[t]))
    <3>1. \A i \in DOMAIN waiters[c] : waiters[c][i] \in Tasks
      BY <2>1
    <3>2. ~Dropped(t)
      BY DEF Dropped, Parked
    <3> QED BY <3>1, <3>2 DEF WakeInv, WaitersInv, Waits
  <2>3. CASE c \in ChansOf(arms[t])
    <3>1. waiters'[c] = Unpark(waiters[c], t)
      BY <2>3 DEF Disarm
    <3>2. /\ IsInjective(waiters'[c])
          /\ \A i \in DOMAIN waiters'[c] :
               waiters'[c][i] # t /\ \E j \in DOMAIN waiters[c] : waiters'[c][i] = waiters[c][j]
      BY <2>1, <3>1, UnparkRest
    <3> QED BY <2>2, <3>2
  <2>4. CASE c \notin ChansOf(arms[t])
    <3>1. waiters'[c] = waiters[c]
      BY <2>4 DEF Disarm
    <3> QED BY <2>1, <2>2, <2>4, <3>1
  <2> QED BY <2>3, <2>4
<1>3. ASSUME NEW f \in Tasks, ~Complete(f), slot'[f] # None
      PROVE  slot'[f] \in Tasks \ {t} /\ slot'[f] = slot[f]
  <2>1. slot'[f] = IF f \in TasksOf(arms[t]) /\ ~Complete(f) THEN None ELSE slot[f]
    BY DEF Disarm
  <2>2. f \notin TasksOf(arms[t]) /\ slot'[f] = slot[f] /\ slot[f] \in Tasks
    BY <1>1, <1>3, <2>1
  <2>3. f \in TasksOf(arms[slot[f]])
    BY <1>3, <2>2 DEF WakeInv, WaitersInv
  <2> QED BY <2>2, <2>3
<1> QED BY <1>2, <1>3

LEMMA WakeInvResume ==
  ASSUME WakeInv, NEW t \in Tasks, Resume(t)
  PROVE  QueueInv' /\ WaitersInv'
<1>1. /\ Parked(t) /\ ~Complete(t)
      /\ ready # << >> /\ t = Head(ready) /\ ready' = Tail(ready)
      /\ Disarm(t)
  BY DEF Resume, Parked, Complete
<1>2. /\ arms' = [arms EXCEPT ![t] = << >>]
      /\ fired' = [fired EXCEPT ![t] = FALSE]
      /\ deadline' = [deadline EXCEPT ![t] = None]
  BY DEF Resume
<1>3. /\ arms \in [Tasks -> Seq(Sources)] /\ fired \in [Tasks -> BOOLEAN]
      /\ deadline \in [Tasks -> Nat \cup {None}] /\ pc \in [Tasks -> Where]
  BY DEF WakeInv, FrameInv, TypeInv, TypeOK
<1>4. Calm({t}) /\ pc'[t] = "run"
  <2>1. CASE \E s : TakeArm(t, s, InLoop)
    BY <1>1, <2>1, TakeArmCalm
  <2>2. CASE pc' = [pc EXCEPT ![t] = "run"]
    BY <1>1, <1>3, <2>2, RunCalm
  <2> QED BY <2>1, <2>2 DEF Resume
<1>5. \A u \in Tasks : u # t =>
        fired'[u] = fired[u] /\ arms'[u] = arms[u] /\ deadline'[u] = deadline[u]
  BY <1>2, <1>3
<1>6. ~fired'[t] /\ deadline'[t] = None
  BY <1>2, <1>3
<1>7. QueueInv'
  BY <1>1, <1>4, <1>5, HeadLeaves
<1>8. \A u \in Tasks :
        /\ u # t /\ Parked(u) => StaysParked(u) /\ pc'[u] = pc[u]
        /\ Dropped(u) => StaysDropped(u)
  BY <1>4 DEF Calm, Parked, StaysParked, Dropped, StaysDropped
<1>9. ASSUME NEW c \in Chans
       PROVE  /\ IsInjective(waiters'[c])
              /\ \A i \in DOMAIN waiters'[c] : StaysWaiting(waiters'[c][i], c)
  <2>1. \A i \in DOMAIN waiters[c] : Waits(waiters[c][i], c)
    BY DEF WakeInv, WaitersInv
  <2>2. \A u \in Tasks : u # t /\ Waits(u, c) => StaysWaiting(u, c)
    BY <1>5, <1>8 DEF Waits, StaysWaiting
  <2> QED BY <1>1, <2>1, <2>2, DisarmRest
<1>10. ASSUME NEW f \in Tasks, slot'[f] # None, ~Complete(f)'
       PROVE  pc'[slot'[f]] = "sel" /\ f \in TasksOf(arms'[slot'[f]])
  <2>1. ~Complete(f)
    BY <1>4, <1>10 DEF Calm
  <2>2. slot'[f] \in Tasks \ {t} /\ slot'[f] = slot[f]
    BY <1>1, <1>10, <2>1, DisarmRest
  <2>3. pc[slot[f]] = "sel" /\ f \in TasksOf(arms[slot[f]])
    BY <1>10, <2>1, <2>2 DEF WakeInv, WaitersInv
  <2> QED BY <1>5, <1>8, <2>2, <2>3 DEF Parked
<1>11. \A u \in Tasks : fired'[u] \/ deadline'[u] # None => StaysParked(u) \/ StaysDropped(u)
  BY <1>5, <1>6, <1>8 DEF WakeInv, WaitersInv
<1>12. WaitersInv'
  BY <1>9, <1>10, <1>11, AfterStep
<1> QED BY <1>7, <1>12

LEMMA WakeInvRunLoop ==
  ASSUME WakeInv, RunLoop
  PROVE  QueueInv' /\ WaitersInv'
<1>0. pc \in [Tasks -> Where] /\ fired \in [Tasks -> BOOLEAN]
  BY DEF WakeInv, FrameInv, TypeInv, TypeOK
<1>1. ASSUME NEW t \in Tasks, Start(t)
      PROVE  QueueInv' /\ WaitersInv'
  <2>1. /\ pc[t] = "fresh" /\ pc' = [pc EXCEPT ![t] = "run"]
        /\ ready # << >> /\ t = Head(ready) /\ ready' = Tail(ready)
        /\ UNCHANGED <<waiters, arms, fired, deadline, slot>>
    BY <1>1 DEF Start, frameVars, chanVars, waitVars
  <2>2. ~Complete(t) /\ ~Parked(t)
    BY <2>1 DEF Complete, Parked
  <2>3. Calm({t})
    BY <2>1, <2>2, RunCalm
  <2>4. QueueInv'
    BY <2>1, <2>2, <2>3, HeadLeaves
  <2> QED BY <2>1, <2>2, <2>3, <2>4, KeepWaiters
<1>2. ASSUME NEW t \in Tasks, Resume(t)
      PROVE  QueueInv' /\ WaitersInv'
  BY <1>2, WakeInvResume
<1>3. ASSUME NEW t \in Tasks, FireTimer(t)
      PROVE  QueueInv' /\ WaitersInv'
  <2>1. /\ UNCHANGED <<pc, waiters, arms, deadline, slot>>
        /\ fired' = [fired EXCEPT ![t] = TRUE] /\ ready' = << t >>
    BY <1>3 DEF FireTimer, frameVars, chanVars
  <2>2. Parked(t) \/ Dropped(t)
    BY <1>3 DEF FireTimer, Timers, WakeInv, WaitersInv
  <2>3. Calm({}) /\ Away({})
    BY <2>1 DEF Calm, Away, Complete
  <2>4. \A u \in Tasks : fired'[u] <=> (u = t \/ fired[u])
    BY <1>0, <2>1
  <2>5. WaitersInv'
    BY <2>1, <2>2, <2>3, <2>4, KeepWaiters
  <2>6. QueueInv'
    BY <2>1, <2>2, <2>4 DEF QueueInv, Due, Parked, Dropped
  <2> QED BY <2>5, <2>6
<1>4. ASSUME Leave
      PROVE  QueueInv' /\ WaitersInv'
  <2>1. /\ Complete(Top.of) /\ pc' = [pc EXCEPT ![Top.of] = "gone"]
        /\ UNCHANGED <<ready, waiters, arms, fired, deadline, slot>>
    BY <1>4 DEF Leave, frameVars, chanVars, waitVars
  <2>2. Calm({}) /\ Away({})
    BY <1>0, <2>1 DEF Calm, Away, Complete, Parked
  <2> QED BY <2>1, <2>2, KeepAll
<1> QED BY <1>1, <1>2, <1>3, <1>4 DEF RunLoop

-----------------------------------------------------------------------------
\* The invariant, and what it means

LEMMA WakeInvInit == Init => WakeInv
<1> SUFFICES ASSUME Init PROVE WakeInv
  OBVIOUS
<1>1. FrameInv
  BY FrameInvInit
<1>2. QueueInv
  BY DEF Init, QueueInv, IsInjective
<1>3. WaitersInv
  BY DEF Init, WaitersInv, IsInjective
<1> QED BY <1>1, <1>2, <1>3 DEF WakeInv

LEMMA WakeInvStep == WakeInv /\ [Next]_vars => WakeInv'
<1> SUFFICES ASSUME WakeInv, [Next]_vars PROVE WakeInv'
  OBVIOUS
<1>1. FrameInv'
  BY FrameInvStep DEF WakeInv
<1>2. CASE Next
  <2>1. QueueInv' /\ WaitersInv'
    BY <1>2, WakeInvOperation, WakeInvEnding, WakeInvWake, WakeInvRunLoop DEF Next
  <2> QED BY <1>1, <2>1 DEF WakeInv
<1>3. CASE UNCHANGED vars
  <2>1. UNCHANGED <<pc, ready, waiters, arms, fired, deadline, slot>>
    BY <1>3 DEF vars
  <2>2. Calm({}) /\ Away({})
    BY <2>1 DEF Calm, Away, Complete
  <2> QED BY <1>1, <2>1, <2>2, KeepAll DEF WakeInv
<1> QED BY <1>2, <1>3

LEMMA WakeInvariance == Spec => []WakeInv
BY WakeInvInit, WakeInvStep, PTL DEF Spec

\* Whatever a program assigns, the run-loop holds the handles of tasks that have
\* not begun or have been woken, each once, and besides at most those of destroyed
\* frames (Scheduler::run, Future& operator=(Future&&)).
THEOREM OnlyDroppedDangle ==
  Spec => [](/\ \A i, j \in DOMAIN ready :
                  ready[i] = ready[j] /\ pc[ready[i]] # "gone" => i = j
             /\ \A i \in DOMAIN ready :
                  \/ pc[ready[i]] \in {"fresh", "gone"}
                  \/ Parked(ready[i]) /\ fired[ready[i]])
<1>1. WakeInv => /\ \A i, j \in DOMAIN ready :
                      ready[i] = ready[j] /\ pc[ready[i]] # "gone" => i = j
                 /\ \A i \in DOMAIN ready :
                      \/ pc[ready[i]] \in {"fresh", "gone"}
                      \/ Parked(ready[i]) /\ fired[ready[i]]
  BY DEF WakeInv, QueueInv, Due, Dropped
<1> QED BY <1>1, WakeInvariance, PTL

\* No handle is scheduled twice, and none but that of a suspended coroutine is:
\* the guard `fired` is enough whatever wakes a task (Scheduler::run,
\* SelectableState::wake_one, wake_all, FinalAwaiter).
THEOREM HandlesResumedOnce == ASSUME ~MayReassign PROVE Spec => []ResumeOnce
<1>1. WakeInv => ResumeOnce
  BY NoneDropped
<1> QED BY <1>1, WakeInvariance, PTL

\* Nor does the queue hold the handle of a destroyed frame, as long as no future
\* is assigned over another (Future(Future&&), Future::force, ~Future).
THEOREM NoHandleDangles == ASSUME ~MayReassign PROVE Spec => []NoDanglingHandle
<1>1. WakeInv => NoDanglingHandle
  BY NoneDropped DEF ResumeOnce, NoDanglingHandle, Parked
<1> QED BY <1>1, WakeInvariance, PTL

\* The channels, the future slots and the timers know only Waiters of tasks that
\* are parked on them: disarming every arm at resumption leaves none behind
\* (SelectAwaiter::await_resume, SelectableState::unpark, Future::sel_disarm).
THEOREM NoStaleWaiter == ASSUME ~MayReassign PROVE Spec => []WaiterCoherent
<1>1. WakeInv => WaiterCoherent
  BY NoneDropped
<1> QED BY <1>1, WakeInvariance, PTL

-----------------------------------------------------------------------------
(* The converse: no suspended task is lost by the run-time system.  A task  *)
(* that is woken must not have left the queue, which is the part above; and *)
(* the owners of Frames_proofs are needed, for two selects that waited on   *)
(* one future would take its only slot from each other, and one that waited *)
(* on a future another task assigns over would wait for ever.               *)

\* What NeverForgotten says of task t.
Known(t) ==
  /\ pc[t] = "fresh" => Contains(ready, t)
  /\ Parked(t) /\ fired[t] => Contains(ready, t)
  /\ Parked(t) /\ ~fired[t] =>
       /\ \A c \in ChansOf(arms[t]) : Contains(waiters[c], t)
       /\ \A f \in TasksOf(arms[t]) : slot[f] = t

KnownInv == WakeInv /\ NeverForgotten

-----------------------------------------------------------------------------
\* Where a task stands in a queue

LEMMA ContainsAppend ==
  ASSUME NEW S, NEW s \in Seq(S), NEW x \in S
  PROVE  Contains(Append(s, x), x) /\ \A y : Contains(s, y) => Contains(Append(s, x), y)
<1>1. /\ Len(Append(s, x)) = Len(s) + 1 /\ Append(s, x)[Len(s) + 1] = x
      /\ \A i \in 1 .. Len(s) : Append(s, x)[i] = s[i]
  BY AppendProperties
<1>2. Len(s) + 1 \in 1 .. Len(s) + 1 /\ \A i \in 1 .. Len(s) : i \in 1 .. Len(s) + 1
  BY LenProperties
<1> QED BY <1>1, <1>2 DEF Contains

LEMMA ContainsTail ==
  ASSUME NEW S, NEW s \in Seq(S), s # << >>, NEW y, Contains(s, y), y # Head(s)
  PROVE  Contains(Tail(s), y)
<1>1. PICK i \in 1 .. Len(s) : s[i] = y
  BY DEF Contains
<1>2. /\ Len(Tail(s)) = Len(s) - 1 /\ Head(s) = s[1] /\ Len(s) \in Nat
      /\ \A j \in 1 .. Len(Tail(s)) : Tail(s)[j] = s[j + 1]
  BY HeadTailProperties, LenProperties
<1>3. i - 1 \in 1 .. Len(Tail(s)) /\ (i - 1) + 1 = i
  BY <1>1, <1>2
<1>4. Tail(s)[i - 1] = y
  BY <1>1, <1>2, <1>3
<1> QED BY <1>3, <1>4 DEF Contains

\* Unpark drops nobody else.
LEMMA ContainsUnpark ==
  ASSUME NEW S, NEW s \in Seq(S), NEW x, NEW y, Contains(s, y), y # x
  PROVE  Contains(Unpark(s, x), y)
<1>1. CASE ~Contains(s, x)
  BY <1>1 DEF Unpark
<1>2. CASE Contains(s, x)
  <2>1. PICK k \in 1 .. Len(s) : s[k] = x /\ Unpark(s, x) = RemoveAt(s, k)
    <3>1. DOMAIN s = 1 .. Len(s)
      BY LenProperties
    <3> QED BY <1>2, <3>1 DEF Unpark, Contains
  <2>2. PICK i \in 1 .. Len(s) : s[i] = y
    BY DEF Contains
  <2> DEFINE u == RemoveAt(s, k)
  <2>3. /\ Len(u) = Len(s) - 1 /\ Len(s) \in Nat
        /\ \A j \in 1 .. Len(s) - 1 : u[j] = s[IF j < k THEN j ELSE j + 1]
    BY RemoveAtRest, LenProperties
  <2> HIDE DEF u
  <2>4. CASE i < k
    <3>1. i \in 1 .. Len(s) - 1
      BY <2>1, <2>3, <2>4
    <3> QED BY <2>1, <2>2, <2>3, <2>4, <3>1 DEF Contains, u
  <2>5. CASE k < i
    <3>1. i - 1 \in 1 .. Len(s) - 1 /\ ~(i - 1 < k) /\ (i - 1) + 1 = i
      BY <2>1, <2>3, <2>5
    <3>2. u[i - 1] = y
      BY <2>2, <2>3, <3>1
    <3> QED BY <2>1, <2>3, <3>1, <3>2 DEF Contains, u
  <2>6. i # k
    BY <2>1, <2>2
  <2> QED BY <2>4, <2>5, <2>6
<1> QED BY <1>1, <1>2

-----------------------------------------------------------------------------
\* What keeps a task known

LEMMA AllKnown ==
  ASSUME \A t \in Tasks : Known(t)'
  PROVE  NeverForgotten'
BY DEF Known, NeverForgotten

\* A task is known if it was, and what knew it still does.
LEMMA StaysKnown ==
  ASSUME KnownInv, NEW u \in Tasks,
         pc'[u] = "fresh" \/ StaysParked(u) => pc'[u] = pc[u],
         fired'[u] = fired[u], arms'[u] = arms[u],
         Contains(ready, u) => Contains(ready', u),
         \A c \in Chans : Contains(waiters[c], u) => Contains(waiters'[c], u),
         \A f \in TasksOf(arms[u]) : slot[f] = u => slot'[f] = u
  PROVE  Known(u)'
<1>1. Known(u)
  BY DEF KnownInv, NeverForgotten, Known
<1>2. CASE pc'[u] = "fresh"
  <2>1. Contains(ready', u) /\ ~Parked(u)'
    BY <1>1, <1>2 DEF Known, Parked
  <2> QED BY <2>1 DEF Known
<1>3. CASE StaysParked(u)
  <2>1. Parked(u) /\ Parked(u)' /\ pc'[u] # "fresh"
    BY <1>3 DEF Parked, StaysParked
  <2>2. CASE fired[u]
    BY <1>1, <2>1, <2>2 DEF Known
  <2>3. CASE ~fired[u]
    <3>1. \A c \in ChansOf(arms'[u]) : Contains(waiters'[c], u)
      BY <1>1, <2>1, <2>3 DEF Known, ChansOf
    <3>2. \A f \in TasksOf(arms'[u]) : slot'[f] = u
      BY <1>1, <2>1, <2>3 DEF Known
    <3> QED BY <2>1, <2>3, <3>1, <3>2 DEF Known, ChansOf, TasksOf
  <2> QED BY <2>2, <2>3
<1>4. CASE ~(pc'[u] = "fresh") /\ ~StaysParked(u)
  BY <1>4 DEF Known, Parked, StaysParked
<1> QED BY <1>2, <1>3, <1>4

\* A step that parks nobody and touches neither channels nor slots, and drops
\* from the queue only what it resumes.
LEMMA QuietStep ==
  ASSUME KnownInv, UNCHANGED <<fired, arms, waiters, slot>>,
         \A u \in Tasks :
           \/ pc'[u] = "fresh" /\ Contains(ready', u)
           \/ /\ pc'[u] = "fresh" \/ StaysParked(u) => pc'[u] = pc[u]
              /\ Contains(ready, u) => Contains(ready', u)
           \/ pc'[u] # "fresh" /\ ~StaysParked(u)
  PROVE  NeverForgotten'
<1> SUFFICES ASSUME NEW u \in Tasks PROVE Known(u)'
  BY AllKnown
<1>1. CASE pc'[u] = "fresh" /\ Contains(ready', u)
  BY <1>1 DEF Known, Parked
<1>2. CASE /\ pc'[u] = "fresh" \/ StaysParked(u) => pc'[u] = pc[u]
           /\ Contains(ready, u) => Contains(ready', u)
  BY <1>2, StaysKnown
<1>3. CASE pc'[u] # "fresh" /\ ~StaysParked(u)
  BY <1>3 DEF Known, Parked, StaysParked
<1> QED BY <1>1, <1>2, <1>3

\* Forcing a future or taking the value of an arm parks nobody.
LEMMA TakeArmParksNobody ==
  ASSUME KnownInv, NEW t \in Tasks, NEW s, NEW st,
         TakeArm(t, s, st) \/ (s \in Tasks /\ ForceFuture(t, s, st))
  PROVE  /\ pc'[t] # "fresh" /\ ~StaysParked(t)
         /\ \A u \in Tasks : pc'[u] = "fresh" \/ StaysParked(u) => pc'[u] = pc[u]
<1>1. pc \in [Tasks -> Where]
  BY DEF KnownInv, WakeInv, FrameInv, TypeInv, TypeOK
<1>2. CASE s \in Tasks /\ ForceFuture(t, s, st)
  <2>1. pc' = [pc EXCEPT ![t] = "run", ![s] = "gone"] \/ pc' = [pc EXCEPT ![t] = "run"]
    BY <1>2 DEF ForceFuture
  <2> QED BY <1>1, <1>2, <2>1 DEF StaysParked
<1>3. CASE pc' = [pc EXCEPT ![t] = "run"]
  BY <1>1, <1>3 DEF StaysParked
<1> QED BY <1>2, <1>3 DEF TakeArm

\* A task that parks is registered with every one of its arms, and takes the
\* slot of no future another task waits for.
LEMMA ParkKnown ==
  ASSUME KnownInv, NEW t \in Tasks, pc[t] = "run",
         NEW as \in Seq(Sources), NEW where \in {"recv", "sel"}, Park(t, as, where),
         TasksOf(as) \subseteq Owned(t), UNCHANGED <<ready, fired>>,
         slot' = [f \in Tasks |-> IF f \in TasksOf(as) THEN t ELSE slot[f]]
  PROVE  NeverForgotten'
<1>1. /\ pc' = [pc EXCEPT ![t] = where]
      /\ arms' = [arms EXCEPT ![t] = as]
      /\ waiters' = [c \in Chans |-> IF c \in ChansOf(as) THEN Append(waiters[c], t)
                                                           ELSE waiters[c]]
  BY DEF Park
<1>2. /\ pc \in [Tasks -> Where] /\ arms \in [Tasks -> Seq(Sources)]
      /\ waiters \in [Chans -> Seq(Tasks)]
  BY DEF KnownInv, WakeInv, FrameInv, TypeInv, TypeOK
<1>3. \A c \in Chans :
        /\ c \in ChansOf(as) => Contains(waiters'[c], t)
        /\ \A u : Contains(waiters[c], u) => Contains(waiters'[c], u)
  <2> SUFFICES ASSUME NEW c \in Chans
               PROVE  /\ c \in ChansOf(as) => Contains(waiters'[c], t)
                      /\ \A u : Contains(waiters[c], u) => Contains(waiters'[c], u)
    OBVIOUS
  <2>1. waiters[c] \in Seq(Tasks)
    BY <1>2
  <2>2. CASE c \in ChansOf(as)
    BY <1>1, <2>1, <2>2, ContainsAppend
  <2>3. CASE c \notin ChansOf(as)
    BY <1>1, <2>3
  <2> QED BY <2>2, <2>3
<1> SUFFICES ASSUME NEW u \in Tasks PROVE Known(u)'
  BY AllKnown
<1>4. CASE u = t
  <2>1. pc'[t] = where /\ arms'[t] = as /\ ~fired'[t]
    BY <1>1, <1>2, RunningAway DEF KnownInv
  <2>2. \A c \in ChansOf(as) : Contains(waiters'[c], t)
    BY <1>3 DEF ChansOf
  <2>3. \A f \in TasksOf(as) : slot'[f] = t
    BY DEF TasksOf
  <2> QED BY <1>4, <2>1, <2>2, <2>3 DEF Known, Parked, ChansOf, TasksOf
<1>5. CASE u # t
  <2>1. pc'[u] = pc[u] /\ arms'[u] = arms[u]
    BY <1>1, <1>2, <1>5
  <2>2. CASE Parked(u)
    <3>1. \A f \in TasksOf(arms[u]) : f \in Tasks /\ owner[f] = u
      BY <2>2 DEF KnownInv, WakeInv, FrameInv, OwnersInv, Owned
    <3>2. \A f \in TasksOf(arms[u]) : slot[f] = u => slot'[f] = u
      BY <1>5, <3>1 DEF Owned
    <3> QED BY <1>3, <2>1, <3>2, StaysKnown
  <2>3. CASE ~Parked(u)
    <3>1. Known(u)
      BY DEF KnownInv, NeverForgotten, Known
    <3> QED BY <2>1, <2>3, <3>1 DEF Known, Parked
  <2> QED BY <2>2, <2>3
<1> QED BY <1>4, <1>5

-----------------------------------------------------------------------------
\* The actions

LEMMA KnownOperation ==
  ASSUME KnownInv, NEW t \in Tasks, Operation(t)
  PROVE  NeverForgotten'
<1>0. /\ pc \in [Tasks -> Where] /\ ready \in Seq(Tasks)
      /\ slot \in [Tasks -> Tasks \cup {None}]
  BY DEF KnownInv, WakeInv, FrameInv, TypeInv, TypeOK
<1>1. ASSUME NEW u \in Tasks, Spawn(t, u)
      PROVE  NeverForgotten'
  <2>1. /\ pc' = [pc EXCEPT ![u] = "fresh"] /\ ready' = Append(ready, u)
        /\ UNCHANGED <<fired, arms, waiters, slot>>
    BY <1>1 DEF Spawn, chanVars, waitVars
  <2>2. Contains(ready', u) /\ \A v : Contains(ready, v) => Contains(ready', v)
    BY <1>0, <2>1, ContainsAppend
  <2>3. pc'[u] = "fresh" /\ \A v \in Tasks : v # u => pc'[v] = pc[v]
    BY <1>0, <2>1
  <2> QED BY <2>1, <2>2, <2>3, QuietStep
<1>2. ASSUME NEW u \in Tasks, Call(t, u)
      PROVE  NeverForgotten'
  <2>1. /\ pc' = [pc EXCEPT ![t] = "call", ![u] = "run"]
        /\ UNCHANGED <<ready, fired, arms, waiters, slot>>
    BY <1>2 DEF Call, chanVars, waitVars
  <2>2. \A v \in Tasks : pc'[v] = "fresh" \/ StaysParked(v) => pc'[v] = pc[v]
    BY <1>0, <2>1 DEF StaysParked
  <2> QED BY <2>1, <2>2, QuietStep
<1>3. ASSUME NEW s, TakeArm(t, s, stack) \/ (s \in Tasks /\ ForceFuture(t, s, stack)),
             UNCHANGED <<ready, fired, arms, waiters, slot>>
      PROVE  NeverForgotten'
  BY <1>3, TakeArmParksNobody, QuietStep
<1>4. ASSUME NEW f \in Tasks, AwaitFuture(t, f)
      PROVE  NeverForgotten'
  BY <1>3, <1>4 DEF AwaitFuture, chanVars, waitVars
<1>5. ASSUME UNCHANGED <<pc, ready, fired, arms, waiters, slot>>
      PROVE  NeverForgotten'
  BY <1>5, QuietStep
<1>6. ASSUME NEW c \in Chans, Send(t, c) \/ Close(t, c) \/ Poll(t, c)
      PROVE  NeverForgotten'
  BY <1>5, <1>6 DEF Send, Close, Poll, waitVars
<1>7. ASSUME NEW c \in Chans, Receive(t, c)
      PROVE  NeverForgotten'
  <2>1. pc[t] = "run" /\ UNCHANGED <<ready, fired, slot>>
    BY <1>7 DEF Receive, Step
  <2>2. CASE ChanReady(c)
    BY <1>5, <1>7, <2>1, <2>2 DEF Receive
  <2>3. CASE ~ChanReady(c)
    <3>1. Park(t, <<c>>, "recv") /\ <<c>> \in Seq(Sources)
      BY <1>7, <2>3 DEF Receive, Sources
    <3>2. TasksOf(<<c>>) = {}
      BY NamesAssumption DEF TasksOf, ToSet
    <3>3. slot' = [f \in Tasks |-> IF f \in TasksOf(<<c>>) THEN t ELSE slot[f]]
      BY <1>0, <2>1, <3>2
    <3> QED BY <2>1, <3>1, <3>2, <3>3, ParkKnown
  <2> QED BY <2>2, <2>3
<1>8. ASSUME NEW as \in ArmLists(t), SelectReady(t, as)
      PROVE  NeverForgotten'
  BY <1>3, <1>8 DEF SelectReady, waitVars
<1>9. ASSUME NEW as \in ArmLists(t), NEW d, NEW lag, SelectPark(t, as, d, lag)
      PROVE  NeverForgotten'
  <2>1. /\ pc[t] = "run" /\ Park(t, as, "sel") /\ UNCHANGED <<ready, fired>>
        /\ slot' = [f \in Tasks |-> IF f \in TasksOf(as) THEN t ELSE slot[f]]
    BY <1>9 DEF SelectPark, Step
  <2> QED BY <2>1, ArmListsType, ArmsOwned, ParkKnown
<1>10. ASSUME NEW as \in ArmLists(t), NEW binds, PollSelect(t, as, binds)
       PROVE  NeverForgotten'
  BY <1>3, <1>5, <1>10 DEF PollSelect, waitVars
<1>11. ASSUME NEW f \in Tasks, NEW u \in Tasks, Reassign(t, f, u)
       PROVE  NeverForgotten'
  <2>1. /\ ready' = Append(ready, u) /\ UNCHANGED <<fired, arms, waiters, slot>>
        /\ \A v \in Tasks : pc'[v] = CASE v = u -> "fresh"
                                       [] v \in Owned(f) \cup {f} -> "gone"
                                       [] OTHER -> pc[v]
    BY <1>11 DEF Reassign, chanVars, waitVars
  <2>2. Contains(ready', u) /\ \A v : Contains(ready, v) => Contains(ready', v)
    BY <1>0, <2>1, ContainsAppend
  <2>3. pc'[u] = "fresh" /\ \A v \in Tasks : v # u => pc'[v] \in {"gone", pc[v]}
    <3>1. u # f /\ u \notin Owned(f)
      BY <1>11 DEF Reassign, Complete
    <3> QED BY <2>1, <3>1
  <2>4. \A v \in Tasks : v # u /\ (pc'[v] = "fresh" \/ StaysParked(v)) => pc'[v] = pc[v]
    BY <2>3 DEF StaysParked
  <2> QED BY <2>1, <2>2, <2>3, <2>4, QuietStep
<1> QED BY <1>1, <1>2, <1>4, <1>6, <1>7, <1>8, <1>9, <1>10, <1>11 DEF Operation

\* A wake-up moves one task from the queue of a channel to the run-loop's.
LEMMA KnownWake ==
  ASSUME KnownInv, WakeNext \/ WakeEnd
  PROVE  NeverForgotten'
<1>1. UNCHANGED <<pc, arms, slot>>
  BY DEF WakeNext, WakeEnd, waitVars
<1>2. CASE WakeEnd
  <2>1. UNCHANGED <<ready, fired, waiters>>
    BY <1>2 DEF WakeEnd, waitVars
  <2> QED BY <1>1, <2>1, QuietStep
<1>3. CASE WakeNext
  <2> DEFINE ws == waiters[wake.on]
             w == Head(waiters[wake.on])
  <2>1. /\ wake.on \in Chans /\ ws \in Seq(Tasks) /\ ws # << >> /\ w \in Tasks
        /\ waiters \in [Chans -> Seq(Tasks)] /\ fired \in [Tasks -> BOOLEAN]
        /\ ready \in Seq(Tasks)
    BY <1>3, HeadTailProperties DEF WakeNext, KnownInv, WakeInv, FrameInv, TypeInv, TypeOK
  <2>2. /\ waiters' = [waiters EXCEPT ![wake.on] = Tail(ws)]
        /\ fired' = [fired EXCEPT ![w] = TRUE]
        /\ ready' = IF fired[w] THEN ready ELSE Append(ready, w)
    BY <1>3 DEF WakeNext
  <2>3. \A u : Contains(ready, u) => Contains(ready', u)
    BY <2>1, <2>2, ContainsAppend
  <2>4. \A c \in Chans : \A u : u # w /\ Contains(waiters[c], u) => Contains(waiters'[c], u)
    BY <2>1, <2>2, ContainsTail
  <2> SUFFICES ASSUME NEW u \in Tasks PROVE Known(u)'
    BY AllKnown
  <2>5. CASE u = w
    <3>1. Known(w) /\ fired'[w]
      BY <2>1, <2>2 DEF KnownInv, NeverForgotten, Known
    <3>2. pc[w] = "fresh" \/ Parked(w) => Contains(ready', w)
      <4>1. CASE fired[w]
        BY <2>3, <3>1, <4>1 DEF Known
      <4>2. CASE ~fired[w]
        BY <2>1, <2>2, <4>2, ContainsAppend
      <4> QED BY <4>1, <4>2
    <3> QED BY <1>1, <2>5, <3>1, <3>2 DEF Known, Parked
  <2>6. CASE u # w
    <3>1. fired'[u] = fired[u]
      BY <2>1, <2>2, <2>6
    <3> HIDE DEF ws, w
    <3> QED BY <1>1, <2>3, <2>4, <2>6, <3>1, StaysKnown
  <2> QED BY <2>5, <2>6
<1> QED BY <1>2, <1>3

\* The end of a task wakes the select that waits for it, and only that.
LEMMA KnownEnding ==
  ASSUME KnownInv, NEW t \in Tasks, Ending(t)
  PROVE  NeverForgotten'
<1>0. /\ pc \in [Tasks -> Where] /\ fired \in [Tasks -> BOOLEAN] /\ ready \in Seq(Tasks)
      /\ slot \in [Tasks -> Tasks \cup {None}]
  BY DEF KnownInv, WakeInv, FrameInv, TypeInv, TypeOK
<1>1. CASE Return(t)
  <2>1. pc' = [pc EXCEPT ![t] = "exit"] /\ UNCHANGED <<ready, fired, arms, waiters, slot>>
    BY <1>1 DEF Return, chanVars, waitVars
  <2>2. \A u \in Tasks : pc'[u] = "fresh" \/ StaysParked(u) => pc'[u] = pc[u]
    BY <1>0, <2>1 DEF StaysParked
  <2> QED BY <2>1, <2>2, QuietStep
<1>2. CASE \E f \in Tasks : Unwind(t, f)
  <2>1. UNCHANGED <<pc, ready, fired, arms, waiters, slot>>
    BY <1>2 DEF Unwind, chanVars, waitVars
  <2> QED BY <2>1, QuietStep
<1>3. CASE Finish(t)
  <2> DEFINE w == slot[t]
  <2>1. UNCHANGED <<arms, waiters, slot>>
    BY <1>3 DEF Finish, chanVars
  <2>2. \A u \in Tasks : pc'[u] = "fresh" \/ StaysParked(u) => pc'[u] = pc[u]
    BY <1>3 DEF Finish, StaysParked
  <2>3. CASE UNCHANGED <<fired, ready>>
    BY <2>1, <2>2, <2>3, QuietStep
  <2>4. CASE /\ w # None /\ ~fired[w]
             /\ fired' = [fired EXCEPT ![w] = TRUE] /\ ready' = Append(ready, w)
    <3>1. w \in Tasks /\ ~Complete(t)
      BY <1>0, <1>3, <2>4 DEF Finish, Complete
    <3>2. pc[w] = "sel"
      BY <2>4, <3>1 DEF KnownInv, WakeInv, WaitersInv
    <3> HIDE DEF w
    <3>3. Contains(ready', w) /\ \A u : Contains(ready, u) => Contains(ready', u)
      BY <1>0, <2>4, <3>1, ContainsAppend
    <3>4. fired'[w] /\ \A u \in Tasks : u # w => fired'[u] = fired[u]
      BY <1>0, <2>4, <3>1
    <3> SUFFICES ASSUME NEW u \in Tasks PROVE Known(u)'
      BY AllKnown
    <3>5. CASE u = w
      BY <3>3, <3>4, <3>5 DEF Known
    <3>6. CASE u # w
      BY <2>1, <2>2, <3>3, <3>4, <3>6, StaysKnown
    <3> QED BY <3>5, <3>6
  <2> QED BY <1>3, <2>3, <2>4 DEF Finish
<1> QED BY <1>1, <1>2, <1>3 DEF Ending

LEMMA KnownResume ==
  ASSUME KnownInv, NEW t \in Tasks, Resume(t)
  PROVE  NeverForgotten'
<1>0. /\ pc \in [Tasks -> Where] /\ fired \in [Tasks -> BOOLEAN] /\ ready \in Seq(Tasks)
      /\ arms \in [Tasks -> Seq(Sources)] /\ waiters \in [Chans -> Seq(Tasks)]
  BY DEF KnownInv, WakeInv, FrameInv, TypeInv, TypeOK
<1>1. /\ Parked(t) /\ ready # << >> /\ t = Head(ready) /\ ready' = Tail(ready)
      /\ Disarm(t)
      /\ arms' = [arms EXCEPT ![t] = << >>] /\ fired' = [fired EXCEPT ![t] = FALSE]
  BY DEF Resume
<1>2. /\ pc'[t] # "fresh" /\ ~StaysParked(t)
      /\ \A u \in Tasks : pc'[u] = "fresh" \/ StaysParked(u) => pc'[u] = pc[u]
  <2>1. CASE \E s : TakeArm(t, s, InLoop)
    BY <2>1, TakeArmParksNobody
  <2>2. CASE pc' = [pc EXCEPT ![t] = "run"]
    BY <1>0, <2>2 DEF StaysParked
  <2> QED BY <2>1, <2>2 DEF Resume
<1> SUFFICES ASSUME NEW u \in Tasks PROVE Known(u)'
  BY AllKnown
<1>3. CASE u = t
  BY <1>2, <1>3 DEF Known, Parked, StaysParked
<1>4. CASE u # t
  <2>1. fired'[u] = fired[u] /\ arms'[u] = arms[u]
    BY <1>0, <1>1, <1>4
  <2>2. Contains(ready, u) => Contains(ready', u)
    BY <1>0, <1>1, <1>4, ContainsTail
  <2>3. ASSUME NEW c \in Chans, Contains(waiters[c], u)
        PROVE  Contains(waiters'[c], u)
    <3>1. waiters[c] \in Seq(Tasks)
      BY <1>0
    <3>2. Contains(Unpark(waiters[c], t), u)
      BY <1>4, <2>3, <3>1, ContainsUnpark
    <3> QED BY <1>1, <2>3, <3>2 DEF Disarm
  <2>4. \A f \in TasksOf(arms[t]) : owner[f] = t
    BY <1>1 DEF KnownInv, WakeInv, FrameInv, OwnersInv, Owned
  <2>5. CASE Parked(u)
    <3>1. \A f \in TasksOf(arms[u]) : f \in Tasks /\ owner[f] = u
      BY <2>5 DEF KnownInv, WakeInv, FrameInv, OwnersInv, Owned
    <3>2. \A f \in TasksOf(arms[u]) : slot[f] = u => slot'[f] = u
      BY <1>1, <1>4, <2>4, <3>1 DEF Disarm
    <3> QED BY <1>2, <2>1, <2>2, <2>3, <3>2, StaysKnown
  <2>6. CASE ~Parked(u)
    <3>1. Known(u) /\ ~StaysParked(u)
      BY <1>2, <2>6 DEF KnownInv, NeverForgotten, Known, Parked, StaysParked
    <3>2. pc'[u] = "fresh" => Contains(ready', u)
      BY <1>2, <2>2, <3>1 DEF Known
    <3> QED BY <3>1, <3>2 DEF Known, Parked, StaysParked
  <2> QED BY <2>5, <2>6
<1> QED BY <1>3, <1>4

LEMMA KnownRunLoop ==
  ASSUME KnownInv, RunLoop
  PROVE  NeverForgotten'
<1>0. /\ pc \in [Tasks -> Where] /\ fired \in [Tasks -> BOOLEAN] /\ ready \in Seq(Tasks)
  BY DEF KnownInv, WakeInv, FrameInv, TypeInv, TypeOK
<1>1. ASSUME NEW t \in Tasks, Start(t)
      PROVE  NeverForgotten'
  <2>1. /\ pc' = [pc EXCEPT ![t] = "run"] /\ ready # << >> /\ t = Head(ready)
        /\ ready' = Tail(ready) /\ UNCHANGED <<fired, arms, waiters, slot>>
    BY <1>1 DEF Start, chanVars, waitVars
  <2>2. pc'[t] = "run" /\ \A u \in Tasks : u # t => pc'[u] = pc[u]
    BY <1>0, <2>1
  <2>3. \A u \in Tasks : u # t /\ Contains(ready, u) => Contains(ready', u)
    BY <1>0, <2>1, ContainsTail
  <2> QED BY <2>1, <2>2, <2>3, QuietStep DEF StaysParked
<1>2. ASSUME NEW t \in Tasks, FireTimer(t)
      PROVE  NeverForgotten'
  <2>1. /\ ready = << >> /\ ready' = << t >> /\ fired' = [fired EXCEPT ![t] = TRUE]
        /\ UNCHANGED <<pc, arms, waiters, slot>>
    BY <1>2 DEF FireTimer, chanVars
  <2>2. Contains(ready', t) /\ \A u : ~Contains(ready, u)
    BY <2>1 DEF Contains
  <2>3. fired'[t] /\ \A u \in Tasks : u # t => fired'[u] = fired[u]
    BY <1>0, <2>1
  <2> SUFFICES ASSUME NEW u \in Tasks PROVE Known(u)'
    BY AllKnown
  <2>4. CASE u = t
    BY <2>2, <2>3, <2>4 DEF Known
  <2>5. CASE u # t
    BY <2>1, <2>2, <2>3, <2>5, StaysKnown
  <2> QED BY <2>4, <2>5
<1>3. ASSUME Leave
      PROVE  NeverForgotten'
  <2>1. /\ pc' = [pc EXCEPT ![Top.of] = "gone"]
        /\ UNCHANGED <<ready, fired, arms, waiters, slot>>
    BY <1>3 DEF Leave, chanVars, waitVars
  <2>2. \A u \in Tasks : pc'[u] = "fresh" \/ StaysParked(u) => pc'[u] = pc[u]
    BY <1>0, <2>1 DEF StaysParked
  <2> QED BY <2>1, <2>2, QuietStep
<1> QED BY <1>1, <1>2, <1>3, KnownResume DEF RunLoop

-----------------------------------------------------------------------------
\* The invariant

LEMMA KnownInvInit == Init => KnownInv
<1> SUFFICES ASSUME Init PROVE KnownInv
  OBVIOUS
<1>1. \A t \in Tasks : pc[t] \in {"run", "unborn"}
  BY DEF Init
<1>2. NeverForgotten
  BY <1>1 DEF NeverForgotten, Parked
<1> QED BY <1>2, WakeInvInit DEF KnownInv

LEMMA KnownInvStep == KnownInv /\ [Next]_vars => KnownInv'
<1> SUFFICES ASSUME KnownInv, [Next]_vars PROVE KnownInv'
  OBVIOUS
<1>1. WakeInv'
  BY WakeInvStep DEF KnownInv
<1>2. CASE Next
  <2>1. NeverForgotten'
    BY <1>2, KnownOperation, KnownEnding, KnownWake, KnownRunLoop DEF Next
  <2> QED BY <1>1, <2>1 DEF KnownInv
<1>3. CASE UNCHANGED vars
  <2>1. UNCHANGED <<pc, ready, fired, arms, waiters, slot>>
    BY <1>3 DEF vars
  <2>2. NeverForgotten'
    BY <2>1, QuietStep
  <2> QED BY <1>1, <2>2 DEF KnownInv
<1> QED BY <1>2, <1>3

\* A task that has not begun or was woken stays scheduled until it is resumed or
\* destroyed, and one that sleeps stays registered with every arm it sleeps on
\* (SelectableState::wake_one and unpark, Future::sel_arm, FinalAwaiter,
\* Scheduler::run).
THEOREM TasksNeverForgotten == Spec => []NeverForgotten
<1>1. Spec => []KnownInv
  BY KnownInvInit, KnownInvStep, PTL DEF Spec
<1>2. KnownInv => NeverForgotten
  BY DEF KnownInv
<1> QED BY <1>1, <1>2, PTL

-----------------------------------------------------------------------------
\* Sleepers: what they wait for has not happened yet

Sleeps(t) == Parked(t) /\ ~fired[t]

\* After the step u sleeps on what it slept on before ...
SleepsOn(u) == Sleeps(u) /\ arms'[u] = arms[u]

\* ... or has just parked, when nothing it waits for was ready.
FallsAsleep(u) ==
  /\ wake = Quiet /\ NoneReady(arms'[u]) /\ UNCHANGED <<closed, wake>>
  /\ \A f \in Tasks : Complete(f)' => Complete(f)

LEMMA OperationSleepers ==
  ASSUME KnownInv, NEW t \in Tasks, Operation(t), NEW u \in Tasks, Sleeps(u)'
  PROVE  SleepsOn(u) \/ FallsAsleep(u)
<1>0. /\ pc \in [Tasks -> Where] /\ arms \in [Tasks -> Seq(Sources)]
  BY DEF KnownInv, WakeInv, FrameInv, TypeInv, TypeOK
<1>1. ~fired'[u] /\ StaysParked(u)
  BY DEF Sleeps, Parked, StaysParked
<1>2. ASSUME pc'[u] = pc[u], UNCHANGED <<fired, arms>>
      PROVE  SleepsOn(u)
  BY <1>1, <1>2 DEF SleepsOn, Sleeps, Parked, StaysParked
<1>3. ASSUME NEW v \in Tasks, Spawn(t, v) \/ Call(t, v)
      PROVE  SleepsOn(u)
  <2>1. /\ UNCHANGED <<fired, arms>>
        /\ \/ pc' = [pc EXCEPT ![v] = "fresh"]
           \/ pc' = [pc EXCEPT ![t] = "call", ![v] = "run"]
    BY <1>3 DEF Spawn, Call, waitVars
  <2>2. pc'[u] = pc[u]
    BY <1>0, <1>1, <2>1 DEF StaysParked
  <2> QED BY <1>2, <2>1, <2>2
<1>4. ASSUME NEW s, TakeArm(t, s, stack) \/ (s \in Tasks /\ ForceFuture(t, s, stack)),
             UNCHANGED <<fired, arms>>
      PROVE  SleepsOn(u)
  BY <1>1, <1>2, <1>4, TakeArmParksNobody
<1>5. ASSUME NEW f \in Tasks, AwaitFuture(t, f)
      PROVE  SleepsOn(u)
  BY <1>4, <1>5 DEF AwaitFuture, waitVars
<1>6. ASSUME NEW c \in Chans, Send(t, c) \/ Close(t, c) \/ Poll(t, c)
      PROVE  SleepsOn(u)
  BY <1>2, <1>6 DEF Send, Close, Poll, waitVars
<1>7. ASSUME NEW as, NEW where \in {"recv", "sel"}, Park(t, as, where),
             wake = Quiet, NoneReady(as), UNCHANGED <<closed, wake, fired>>
      PROVE  SleepsOn(u) \/ FallsAsleep(u)
  <2>1. pc' = [pc EXCEPT ![t] = where] /\ arms' = [arms EXCEPT ![t] = as]
    BY <1>7 DEF Park
  <2>2. \A f \in Tasks : Complete(f)' => Complete(f)
    BY <1>0, <2>1 DEF Complete
  <2>3. CASE u = t
    BY <1>0, <1>7, <2>1, <2>2, <2>3 DEF FallsAsleep
  <2>4. CASE u # t
    BY <1>0, <1>1, <1>7, <2>1, <2>4 DEF SleepsOn, Sleeps, Parked, StaysParked
  <2> QED BY <2>3, <2>4
<1>8. ASSUME NEW c \in Chans, Receive(t, c)
      PROVE  SleepsOn(u) \/ FallsAsleep(u)
  <2>1. CASE ChanReady(c)
    BY <1>2, <1>8, <2>1 DEF Receive
  <2>2. CASE ~ChanReady(c)
    <3>1. Park(t, <<c>>, "recv") /\ wake = Quiet /\ UNCHANGED <<closed, wake, fired>>
      BY <1>8, <2>2 DEF Receive, Step
    <3>2. NoneReady(<<c>>)
      BY <2>2 DEF NoneReady, SelReady
    <3> QED BY <1>7, <3>1, <3>2
  <2> QED BY <2>1, <2>2
<1>9. ASSUME NEW as \in ArmLists(t), SelectReady(t, as)
      PROVE  SleepsOn(u)
  BY <1>4, <1>9 DEF SelectReady, waitVars
<1>10. ASSUME NEW as \in ArmLists(t), NEW d, NEW lag, SelectPark(t, as, d, lag)
       PROVE  SleepsOn(u) \/ FallsAsleep(u)
  BY <1>7, <1>10 DEF SelectPark, Step
<1>11. ASSUME NEW as \in ArmLists(t), NEW binds, PollSelect(t, as, binds)
       PROVE  SleepsOn(u)
  BY <1>2, <1>4, <1>11 DEF PollSelect, waitVars
<1>12. ASSUME NEW f \in Tasks, NEW v \in Tasks, Reassign(t, f, v)
       PROVE  SleepsOn(u)
  <2>1. pc'[u] \in {"fresh", "gone", pc[u]} /\ UNCHANGED <<fired, arms>>
    BY <1>12 DEF Reassign, waitVars
  <2> QED BY <1>1, <1>2, <2>1 DEF StaysParked
<1> QED BY <1>3, <1>5, <1>6, <1>8, <1>9, <1>10, <1>11, <1>12 DEF Operation

LEMMA Sleepers ==
  ASSUME KnownInv, Next, NEW u \in Tasks, Sleeps(u)'
  PROVE  SleepsOn(u) \/ FallsAsleep(u)
<1>0. /\ pc \in [Tasks -> Where] /\ arms \in [Tasks -> Seq(Sources)]
      /\ fired \in [Tasks -> BOOLEAN]
  BY DEF KnownInv, WakeInv, FrameInv, TypeInv, TypeOK
<1>1. ~fired'[u] /\ StaysParked(u)
  BY DEF Sleeps, Parked, StaysParked
<1>2. ASSUME pc'[u] = pc[u], fired'[u] = fired[u] \/ ~fired[u], arms'[u] = arms[u]
      PROVE  SleepsOn(u)
  BY <1>1, <1>2 DEF SleepsOn, Sleeps, Parked, StaysParked
<1>3. ASSUME NEW t \in Tasks, Ending(t)
      PROVE  SleepsOn(u)
  <2>1. pc'[u] = pc[u]
    <3>1. CASE Return(t)
      BY <1>0, <1>1, <3>1 DEF Return, StaysParked
    <3>2. CASE Finish(t)
      BY <1>1, <3>2 DEF Finish, StaysParked
    <3> QED BY <1>3, <3>1, <3>2 DEF Ending, Unwind
  <2>2. UNCHANGED arms /\ (UNCHANGED fired \/ \E w : fired' = [fired EXCEPT ![w] = TRUE])
    BY <1>3 DEF Ending, Return, Unwind, Finish, waitVars
  <2>3. fired'[u] = fired[u] \/ ~fired[u]
    BY <1>0, <1>1, <2>2
  <2> QED BY <1>2, <2>1, <2>2, <2>3
<1>4. ASSUME WakeNext \/ WakeEnd
      PROVE  SleepsOn(u)
  <2>1. UNCHANGED <<pc, arms>> /\ (UNCHANGED fired \/ \E w : fired' = [fired EXCEPT ![w] = TRUE])
    BY <1>4 DEF WakeNext, WakeEnd, waitVars
  <2>2. fired'[u] = fired[u] \/ ~fired[u]
    BY <1>0, <1>1, <2>1
  <2> QED BY <1>2, <2>1, <2>2
<1>5. ASSUME NEW t \in Tasks, Start(t)
      PROVE  SleepsOn(u)
  <2>1. pc' = [pc EXCEPT ![t] = "run"] /\ UNCHANGED <<fired, arms>>
    BY <1>5 DEF Start, waitVars
  <2>2. pc'[u] = pc[u]
    BY <1>0, <1>1, <2>1 DEF StaysParked
  <2> QED BY <1>2, <2>1, <2>2
<1>6. ASSUME NEW t \in Tasks, Resume(t)
      PROVE  SleepsOn(u)
  <2>1. /\ arms' = [arms EXCEPT ![t] = << >>] /\ fired' = [fired EXCEPT ![t] = FALSE]
        /\ (\E s : TakeArm(t, s, InLoop)) \/ pc' = [pc EXCEPT ![t] = "run"]
    BY <1>6 DEF Resume
  <2>2. u # t /\ pc'[u] = pc[u]
    BY <1>0, <1>1, <2>1, TakeArmParksNobody DEF StaysParked
  <2> QED BY <1>0, <1>2, <2>1, <2>2
<1>7. ASSUME NEW t \in Tasks, FireTimer(t)
      PROVE  SleepsOn(u)
  <2>1. UNCHANGED <<pc, arms>> /\ fired' = [fired EXCEPT ![t] = TRUE]
    BY <1>7 DEF FireTimer
  <2>2. fired'[u] = fired[u] \/ ~fired[u]
    BY <1>0, <1>1, <2>1
  <2> QED BY <1>2, <2>1, <2>2
<1>8. ASSUME Leave
      PROVE  SleepsOn(u)
  <2>1. pc' = [pc EXCEPT ![Top.of] = "gone"] /\ UNCHANGED <<fired, arms>>
    BY <1>8 DEF Leave, waitVars
  <2>2. pc'[u] = pc[u]
    BY <1>0, <1>1, <2>1 DEF StaysParked
  <2> QED BY <1>2, <2>1, <2>2
<1> QED BY <1>3, <1>4, <1>5, <1>6, <1>7, <1>8, OperationSleepers DEF Next, RunLoop

\* A task completes nowhere but in its own FinalAwaiter, unless its owner assigns
\* another future over it.
LEMMA Completions ==
  ASSUME KnownInv, Next, NEW f \in Tasks, Complete(f)', ~Complete(f)
  PROVE  Finish(f) \/ \E t, u \in Tasks : Reassign(t, f, u)
<1>0. pc \in [Tasks -> Where]
  BY DEF KnownInv, WakeInv, FrameInv, TypeInv, TypeOK
<1>1. ASSUME NEW t \in Tasks, NEW s, NEW st,
             TakeArm(t, s, st) \/ (s \in Tasks /\ ForceFuture(t, s, st))
      PROVE  FALSE
  <2>1. \/ pc' = [pc EXCEPT ![t] = "run"]
        \/ s \in Tasks /\ Complete(s) /\ pc' = [pc EXCEPT ![t] = "run", ![s] = "gone"]
    BY <1>1 DEF TakeArm, ForceFuture
  <2> QED BY <1>0, <2>1 DEF Complete
<1>2. ASSUME UNCHANGED pc
      PROVE  FALSE
  BY <1>2 DEF Complete
<1>3. ASSUME NEW t \in Tasks, NEW x, x \notin {"done", "gone"}, pc' = [pc EXCEPT ![t] = x]
      PROVE  FALSE
  BY <1>0, <1>3 DEF Complete
<1>4. ASSUME NEW t \in Tasks, Operation(t), ~\E u \in Tasks : Reassign(t, f, u)
      PROVE  FALSE
  <2>1. ASSUME NEW u \in Tasks, Spawn(t, u) \/ Call(t, u)
        PROVE  FALSE
    <3>1. \/ pc' = [pc EXCEPT ![u] = "fresh"]
          \/ pc' = [pc EXCEPT ![t] = "call", ![u] = "run"]
      BY <2>1 DEF Spawn, Call
    <3> QED BY <1>0, <3>1 DEF Complete
  <2>2. ASSUME NEW g \in Tasks, AwaitFuture(t, g)
        PROVE  FALSE
    BY <1>1, <2>2 DEF AwaitFuture
  <2>3. ASSUME NEW g \in Tasks, NEW u \in Tasks, Reassign(t, g, u)
        PROVE  FALSE
    <3>1. f # g
      BY <1>4, <2>3
    <3>2. f \in Owned(g) => Complete(f)
      BY <2>3 DEF Reassign
    <3>3. pc'[f] \in {"fresh", pc[f]}
      BY <2>3, <3>1, <3>2 DEF Reassign
    <3> QED BY <3>3 DEF Complete
  <2>4. ASSUME NEW c \in Chans, Send(t, c) \/ Close(t, c) \/ Poll(t, c) \/ Receive(t, c)
        PROVE  FALSE
    BY <1>2, <1>3, <2>4 DEF Send, Close, Poll, Receive, Park
  <2>5. ASSUME NEW as \in ArmLists(t), SelectReady(t, as)
        PROVE  FALSE
    BY <1>1, <2>5 DEF SelectReady
  <2>6. ASSUME NEW as \in ArmLists(t), NEW d, NEW lag, SelectPark(t, as, d, lag)
        PROVE  FALSE
    BY <1>3, <2>6 DEF SelectPark, Park
  <2>7. ASSUME NEW as \in ArmLists(t), NEW binds, PollSelect(t, as, binds)
        PROVE  FALSE
    BY <1>1, <1>2, <2>7 DEF PollSelect
  <2> QED BY <1>4, <2>1, <2>2, <2>3, <2>4, <2>5, <2>6, <2>7 DEF Operation
<1>5. ASSUME NEW t \in Tasks, Return(t) \/ (\E g \in Tasks : Unwind(t, g))
      PROVE  FALSE
  BY <1>2, <1>3, <1>5 DEF Return, Unwind
<1>6. ASSUME NEW t \in Tasks, Finish(t), t # f
      PROVE  FALSE
  BY <1>6 DEF Finish, Complete
<1>7. ASSUME WakeNext \/ WakeEnd
      PROVE  FALSE
  BY <1>2, <1>7 DEF WakeNext, WakeEnd
<1>8. ASSUME RunLoop
      PROVE  FALSE
  <2>1. ASSUME NEW t \in Tasks, Start(t) \/ FireTimer(t)
        PROVE  FALSE
    BY <1>2, <1>3, <2>1 DEF Start, FireTimer
  <2>2. ASSUME NEW t \in Tasks, Resume(t)
        PROVE  FALSE
    BY <1>1, <1>3, <2>2 DEF Resume
  <2>3. ASSUME Leave
        PROVE  FALSE
    BY <1>0, <2>3 DEF Leave, Complete
  <2> QED BY <1>8, <2>1, <2>2, <2>3 DEF RunLoop
<1> QED BY <1>4, <1>5, <1>6, <1>7, <1>8 DEF Next, Ending

\* What a step does to the wake loop in progress and to the closed channels.
LEMMA WakeLoops ==
  ASSUME KnownInv, Next
  PROVE  \/ UNCHANGED <<closed, wake>>
         \/ /\ wake = Quiet
            /\ \/ UNCHANGED closed
               \/ \E c \in Chans : /\ closed' = [closed EXCEPT ![c] = TRUE]
                                  /\ wake' = [on |-> c, all |-> TRUE]
         \/ WakeNext \/ WakeEnd
<1>1. ASSUME NEW t \in Tasks, Operation(t)
      PROVE  \/ UNCHANGED <<closed, wake>>
             \/ /\ wake = Quiet
                /\ \/ UNCHANGED closed
                   \/ \E c \in Chans : /\ closed' = [closed EXCEPT ![c] = TRUE]
                                      /\ wake' = [on |-> c, all |-> TRUE]
  <2>1. ASSUME NEW c \in Chans, Send(t, c)
        PROVE  wake = Quiet /\ UNCHANGED closed
    BY <2>1 DEF Send, Step
  <2>2. ASSUME NEW c \in Chans, Close(t, c)
        PROVE  /\ wake = Quiet /\ closed' = [closed EXCEPT ![c] = TRUE]
               /\ wake' = [on |-> c, all |-> TRUE]
    BY <2>2 DEF Close, Step
  <2>3. ASSUME NEW c \in Chans, Poll(t, c) \/ Receive(t, c)
        PROVE  UNCHANGED <<closed, wake>>
    BY <2>3 DEF Poll, Receive
  <2>4. ASSUME NEW u \in Tasks, Spawn(t, u) \/ Call(t, u) \/ AwaitFuture(t, u)
        PROVE  UNCHANGED <<closed, wake>>
    BY <2>4 DEF Spawn, Call, AwaitFuture, chanVars
  <2>5. ASSUME NEW f \in Tasks, NEW u \in Tasks, Reassign(t, f, u)
        PROVE  UNCHANGED <<closed, wake>>
    BY <2>5 DEF Reassign, chanVars
  <2>6. ASSUME NEW as, SelectReady(t, as) \/ (\E d, lag : SelectPark(t, as, d, lag))
                       \/ (\E binds : PollSelect(t, as, binds))
        PROVE  UNCHANGED <<closed, wake>>
    BY <2>6 DEF SelectReady, SelectPark, PollSelect
  <2> QED BY <1>1, <2>1, <2>2, <2>3, <2>4, <2>5, <2>6 DEF Operation
<1>2. ASSUME NEW t \in Tasks, Ending(t)
      PROVE  UNCHANGED <<closed, wake>>
  BY <1>2 DEF Ending, Return, Unwind, Finish, chanVars
<1>3. ASSUME RunLoop
      PROVE  UNCHANGED <<closed, wake>>
  BY <1>3 DEF RunLoop, Start, Resume, FireTimer, Leave, chanVars
<1> QED BY <1>1, <1>2, <1>3 DEF Next

SleepInv == KnownInv /\ FutureArmNotMissed /\ CloseReachesAll

LEMMA FutureArmsStep ==
  ASSUME SleepInv, Next
  PROVE  FutureArmNotMissed'
<1> SUFFICES ASSUME NEW u \in Tasks, Sleeps(u)', NEW f \in TasksOf(arms'[u])
             PROVE  ~Complete(f)'
  BY DEF FutureArmNotMissed, Sleeps, TasksOf
<1>0. f \in Tasks
  BY DEF TasksOf
<1>1. CASE FallsAsleep(u)
  <2>1. \E i \in DOMAIN arms'[u] : arms'[u][i] = f
    BY DEF TasksOf, ToSet
  <2>2. ~SelReady(f) /\ f \notin Chans
    BY <1>0, <1>1, <2>1, NamesAssumption DEF FallsAsleep, NoneReady
  <2> QED BY <1>0, <1>1, <2>2 DEF FallsAsleep, SelReady
<1>2. CASE SleepsOn(u)
  <2>1. ~Complete(f) /\ slot[f] = u
    BY <1>2 DEF SleepsOn, Sleeps, SleepInv, KnownInv, FutureArmNotMissed, NeverForgotten
  <2>2. ASSUME Complete(f)'
        PROVE  FALSE
    <3>1. Finish(f)
      <4>1. f \in Owned(u) /\ pc[u] # "run"
        BY <1>0, <1>2 DEF SleepsOn, Sleeps, SleepInv, KnownInv, WakeInv, FrameInv, OwnersInv, Parked
      <4>2. ~\E t, v \in Tasks : Reassign(t, f, v)
        BY <4>1 DEF Reassign, Step, Owned
      <4> QED BY <1>0, <2>1, <2>2, <4>2, Completions DEF SleepInv
    <3>2. fired' = [fired EXCEPT ![u] = TRUE]
      BY <1>2, <2>1, <3>1, NamesAssumption DEF Finish, SleepsOn, Sleeps
    <3>3. fired'[u]
      BY <3>2 DEF SleepInv, KnownInv, WakeInv, FrameInv, TypeInv, TypeOK
    <3> QED BY <3>3 DEF Sleeps
  <2> QED BY <2>2
<1> QED BY <1>1, <1>2, Sleepers DEF SleepInv

LEMMA CloseStep ==
  ASSUME SleepInv, Next
  PROVE  CloseReachesAll'
<1> SUFFICES ASSUME NEW u \in Tasks, Sleeps(u)', NEW c \in ChansOf(arms'[u]), closed'[c]
             PROVE  wake' = [on |-> c, all |-> TRUE]
  BY DEF CloseReachesAll, Sleeps, ChansOf
<1>0. c \in Chans /\ closed \in [Chans -> BOOLEAN] /\ waiters \in [Chans -> Seq(Tasks)]
  BY DEF ChansOf, SleepInv, KnownInv, WakeInv, FrameInv, TypeInv, TypeOK
<1>1. CASE FallsAsleep(u)
  <2>1. \E i \in DOMAIN arms'[u] : arms'[u][i] = c
    BY DEF ChansOf, ToSet
  <2>2. ~SelReady(c)
    BY <1>1, <2>1 DEF FallsAsleep, NoneReady
  <2> QED BY <1>0, <1>1, <2>2 DEF FallsAsleep, SelReady, ChanReady
<1>2. CASE SleepsOn(u) /\ closed[c]
  <2>1. wake = [on |-> c, all |-> TRUE] /\ Contains(waiters[c], u)
    BY <1>2 DEF SleepsOn, Sleeps, SleepInv, KnownInv, CloseReachesAll, NeverForgotten
  <2>2. wake # Quiet /\ wake.on = c /\ wake.all
    BY <1>0, <2>1, NamesAssumption DEF Quiet
  <2>3. ~WakeEnd
    BY <1>0, <2>1, <2>2, EmptySeq DEF WakeEnd, Contains
  <2>4. CASE WakeNext
    BY <2>1, <2>2, <2>4 DEF WakeNext
  <2> QED BY <2>1, <2>2, <2>3, <2>4, WakeLoops DEF SleepInv
<1>3. CASE SleepsOn(u) /\ ~closed[c]
  <2>1. ~(UNCHANGED closed)
    BY <1>3
  <2>2. PICK d \in Chans : closed' = [closed EXCEPT ![d] = TRUE]
                         /\ wake' = [on |-> d, all |-> TRUE]
    BY <2>1, WakeLoops DEF SleepInv, WakeNext, WakeEnd
  <2>3. d = c
    BY <1>0, <1>3, <2>2
  <2> QED BY <2>2, <2>3
<1> QED BY <1>1, <1>2, <1>3, Sleepers DEF SleepInv

LEMMA SleepInvInit == Init => SleepInv
<1> SUFFICES ASSUME Init PROVE SleepInv
  OBVIOUS
<1>1. KnownInv
  BY KnownInvInit
<1>2. \A t \in Tasks : ~Parked(t)
  BY DEF Init, Parked
<1> QED BY <1>1, <1>2 DEF SleepInv, FutureArmNotMissed, CloseReachesAll

LEMMA SleepInvStep == SleepInv /\ [Next]_vars => SleepInv'
<1> SUFFICES ASSUME SleepInv, [Next]_vars PROVE SleepInv'
  OBVIOUS
<1>1. KnownInv'
  BY KnownInvStep DEF SleepInv
<1>2. CASE Next
  BY <1>1, <1>2, FutureArmsStep, CloseStep DEF SleepInv
<1>3. CASE UNCHANGED vars
  <2>1. FutureArmNotMissed' /\ CloseReachesAll'
    BY <1>3 DEF vars, SleepInv, FutureArmNotMissed, CloseReachesAll, Parked, Complete,
                ChansOf, TasksOf
  <2> QED BY <1>1, <2>1 DEF SleepInv
<1> QED BY <1>2, <1>3

\* A select does not sleep through the completion of a future it waits for
\* (SelectAwaiter::await_suspend, Future::sel_arm, FinalAwaiter::await_suspend).
THEOREM CompletionsWake == Spec => []FutureArmNotMissed
<1>1. Spec => []SleepInv
  BY SleepInvInit, SleepInvStep, PTL DEF Spec
<1>2. SleepInv => FutureArmNotMissed
  BY DEF SleepInv
<1> QED BY <1>1, <1>2, PTL

\* Nobody sleeps on a closed channel once its wake_all is over (Channel::close,
\* SelectableState::wake_all, SelectAwaiter::await_ready).
THEOREM CloseWakesAll == Spec => []CloseReachesAll
<1>1. Spec => []SleepInv
  BY SleepInvInit, SleepInvStep, PTL DEF Spec
<1>2. SleepInv => CloseReachesAll
  BY DEF SleepInv
<1> QED BY <1>1, <1>2, PTL

=============================================================================
