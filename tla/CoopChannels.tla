---------------------------- MODULE CoopChannels ----------------------------
(***************************************************************************)
(* What the runtime promises about channels, futures and select, with the  *)
(* run-loop, the Waiters and the wake-ups abstracted away: a parked task   *)
(* goes on exactly when one of its arms is ready, taking from the first    *)
(* such arm, or when its timeout has expired with no arm ready; values are *)
(* neither lost nor made up; and a task whose arm stays ready goes on.  In *)
(* a program that assigns a future over another, a sleeper may also be     *)
(* destroyed.                                                              *)
(***************************************************************************)
EXTENDS Integers, Sequences

CONSTANTS
  Tasks,
  Chans,
  None,        \* no alarm
  MayReassign  \* TRUE: the program assigns futures over one another

VARIABLES
  parked,    \* the tasks that sleep
  arms,      \* what each of them sleeps on, in source order
  alarm,     \* when its timeout expires
  q,         \* number of values queued in each channel
  closed,    \* the channels that are closed
  complete,  \* the tasks that have completed
  now        \* the clock

vars == <<parked, arms, alarm, q, closed, complete, now>>

Ready(s) == IF s \in Chans THEN q[s] > 0 \/ closed[s] ELSE s \in complete

Winner(as, i) ==
  /\ i \in DOMAIN as
  /\ Ready(as[i])
  /\ \A j \in 1 .. i - 1 : ~Ready(as[j])

Init ==
  /\ parked = {}
  /\ arms = [t \in Tasks |-> << >>]
  /\ alarm = [t \in Tasks |-> None]
  /\ q = [c \in Chans |-> 0]
  /\ closed = [c \in Chans |-> FALSE]
  /\ complete = {}
  /\ now = 0

Put(c) ==
  /\ q' = [q EXCEPT ![c] = @ + 1]
  /\ UNCHANGED <<parked, arms, alarm, closed, complete, now>>

Shut(c) ==
  /\ closed' = [closed EXCEPT ![c] = TRUE]
  /\ UNCHANGED <<parked, arms, alarm, q, complete, now>>

\* A task that is awake takes a value.
Take(c) ==
  /\ q[c] > 0
  /\ q' = [q EXCEPT ![c] = @ - 1]
  /\ UNCHANGED <<parked, arms, alarm, closed, complete, now>>

\* A task goes to sleep, with or without an alarm: only when no arm is ready.
Sleep(t) ==
  /\ t \notin parked \cup complete
  /\ parked' = parked \cup {t}
  /\ arms'[t] \in Seq(Chans \cup Tasks)
  /\ \A i \in DOMAIN arms'[t] : ~Ready(arms'[t][i])
  /\ arms' = [arms EXCEPT ![t] = arms'[t]]
  /\ now' \in Nat /\ now' >= now
  /\ alarm'[t] = None \/ (alarm'[t] \in Nat /\ alarm'[t] >= now')
  /\ alarm' = [alarm EXCEPT ![t] = alarm'[t]]
  /\ UNCHANGED <<q, closed, complete>>

WakeUp(t) ==
  /\ parked' = parked \ {t}
  /\ arms' = [arms EXCEPT ![t] = << >>]
  /\ alarm' = [alarm EXCEPT ![t] = None]
  /\ UNCHANGED <<closed, complete, now>>

\* A sleeper receives from its first ready arm; nil if that is a closed and
\* drained channel.
Deliver(t) ==
  /\ t \in parked
  /\ \E i \in DOMAIN arms[t] :
       /\ Winner(arms[t], i)
       /\ q' = IF arms[t][i] \in Chans /\ q[arms[t][i]] > 0
               THEN [q EXCEPT ![arms[t][i]] = @ - 1]
               ELSE q
  /\ WakeUp(t)

Expire(t) ==
  /\ t \in parked
  /\ alarm[t] # None /\ now >= alarm[t]
  /\ \A i \in DOMAIN arms[t] : ~Ready(arms[t][i])
  /\ WakeUp(t)
  /\ UNCHANGED q

End(t) ==
  /\ t \notin parked
  /\ complete' = complete \cup {t}
  /\ UNCHANGED <<parked, arms, alarm, q, closed, now>>

\* The owner of a sleeper assigns over its future: the sleeper takes nothing.
Destroy(t) ==
  /\ MayReassign
  /\ t \in parked
  /\ parked' = parked \ {t}
  /\ complete' = complete \cup {t}
  /\ UNCHANGED <<arms, alarm, q, closed, now>>

Tick ==
  /\ now' \in Nat /\ now' > now
  /\ UNCHANGED <<parked, arms, alarm, q, closed, complete>>

Next ==
  \/ \E c \in Chans : Put(c) \/ Shut(c) \/ Take(c)
  \/ \E t \in Tasks : Sleep(t) \/ Deliver(t) \/ Expire(t) \/ End(t) \/ Destroy(t)
  \/ Tick

Spec == Init /\ [][Next]_vars

\* A sleeper whose arms stay ready is served; one whose alarm rang goes on.
FairSpec ==
  Spec /\ \A t \in Tasks : WF_vars(Deliver(t)) /\ WF_vars(Expire(t))
=============================================================================
