---------------------------- MODULE AsyncRuntime ----------------------------
(***************************************************************************)
(* The run-time system the emitter writes in front of every translated     *)
(* program: coroutine Tasks, the Futures `spawn` yields, the cooperative   *)
(* run-loop, channels, and the blocking and polling forms of `select`.     *)
(*                                                                         *)
(* The whole runtime is one thread.  `Future::force`, the destructor of a  *)
(* Future and `Task::get` do not suspend their caller: each pumps          *)
(* Scheduler::run() on top of the caller's own stack frame.  `stack` holds *)
(* those pumps, oldest first, and `cur` the coroutine on top of the stack. *)
(*                                                                         *)
(* A task's program is left open: whenever it runs it takes any operation  *)
(* the language has, at most MaxOps of them, and then returns.  A blocking *)
(* select is emitted as a nested coroutine the task awaits at once; only   *)
(* its task can see it, so the two are one here.  Likewise a Waiter is     *)
(* named by the task that made it: WaiterCoherent shows that none outlives *)
(* the suspension it was made for.                                         *)
(***************************************************************************)
EXTENDS Integers, SequencesExt

CONSTANTS
  Tasks,        \* coroutine frames; a frame is never used twice
  Root,         \* the task a C++ caller drives with .get()
  Chans,        \* channels, each shared through copies of its handle
  Main,         \* the C++ caller of Root, which is no coroutine
  None,         \* no task, no channel, a null handle
  Readers,      \* the tasks that ever receive from each channel
  MayReassign,  \* TRUE: programs also assign a new future over an old one
  Delays,       \* delays a timeout arm may state
  MaxLag,       \* bound: clock ticks between two readings of the clock
  MaxOps,       \* bound: operations a task performs before it returns
  MaxArms       \* bound: arms of one select

ASSUME NamesAssumption ==
  /\ Root \in Tasks
  /\ Tasks \cap Chans = {}
  /\ Main \notin Tasks \cup Chans
  /\ None \notin Tasks \cup Chans \cup Nat \cup {Main}
ASSUME ProgramAssumption ==
  /\ Readers \in [Chans -> SUBSET Tasks]
  /\ MayReassign \in BOOLEAN
  /\ Delays \subseteq Nat
ASSUME BoundsAssumption == MaxLag \in Nat /\ MaxOps \in Nat /\ MaxArms \in Nat

VARIABLES
  pc,        \* where each task is: see Where
  ops,       \* operations each task may still perform
  owner,     \* the task whose frame holds the Future of a spawned task
  cont,      \* promise_type::continuation, the awaiting caller of a task
  arms,      \* what a parked task waits on, in source order
  fired,     \* Waiter::fired of the Waiter a parked task made
  deadline,  \* the deadline of the timer tied to that Waiter
  slot,      \* promise_type::select_waiter, as the task that parked it
  ready,     \* Scheduler::ready
  stack,     \* pumps: [by |-> caller, of |-> awaited task, loop |-> in run()]
  cur,       \* the running coroutine, None inside run(), Main once get() is over
  q,         \* number of values queued in each channel
  closed,    \* SelectableState::closed
  waiters,   \* SelectableState::waiters, each Waiter as the task that made it
  wake,      \* the wake_one or wake_all loop in progress
  now        \* the latest reading of the steady clock

vars == <<pc, ops, owner, cont, arms, fired, deadline, slot, ready, stack, cur,
          q, closed, waiters, wake, now>>
chanVars == <<q, closed, waiters, wake>>
waitVars == <<arms, fired, deadline, slot, now>>
frameVars == <<owner, cont>>

\* unborn: no frame yet.  fresh: suspended at initial_suspend, scheduled.
\* run: its code is on the stack.  recv, sel: parked in receive or select.
\* call: suspended awaiting the task it called.  exit: past co_return, its
\* locals being destroyed.  done: at final_suspend.  gone: frame destroyed.
Where == {"unborn", "fresh", "run", "recv", "sel", "call", "exit", "done", "gone"}

Sources == Chans \cup Tasks
Pump == [by: Tasks \cup {Main}, of: Tasks, loop: BOOLEAN]
Quiet == [on |-> None, all |-> FALSE]

-----------------------------------------------------------------------------
\* Readiness, and the shapes of a select

Parked(t) == pc[t] \in {"recv", "sel"}
Complete(t) == pc[t] \in {"done", "gone"}

\* SelectableState::ready: a value is queued, or the channel is closed.
ChanReady(c) == q[c] > 0 \/ closed[c]

\* Selectable::sel_ready of a channel or of a future.
SelReady(s) == IF s \in Chans THEN ChanReady(s) ELSE Complete(s)

\* Slip: any ready arm wins, not the first.
AnyReady(as, i) == i \in DOMAIN as /\ SelReady(as[i])

\* SelectAwaiter::first_ready: arm i is ready and no earlier one is.
FirstReady(as, i) ==
  /\ i \in DOMAIN as
  /\ SelReady(as[i])
  /\ \A j \in 1 .. i - 1 : ~SelReady(as[j])

NoneReady(as) == \A i \in DOMAIN as : ~SelReady(as[i])

\* The futures that are locals of t's frame.
Owned(t) == {f \in Tasks : owner[f] = t}

\* The arms a select of task t may state, none twice: channels and t's futures.
ArmLists(t) ==
  {as \in UNION {[1 .. n -> {c \in Chans : t \in Readers[c]} \cup Owned(t)]
                   : n \in 0 .. MaxArms} :
     IsInjective(as)}

ChansOf(as) == ToSet(as) \cap Chans
TasksOf(as) == ToSet(as) \cap Tasks

\* Task t's code is running, no wake loop is unfinished, and t performs one
\* more operation.
Step(t) ==
  /\ cur = t /\ pc[t] = "run" /\ wake = Quiet
  /\ ops[t] > 0
  /\ ops' = [ops EXCEPT ![t] = @ - 1]

\* Unfired timers; the run-loop drops the others before it looks at any.
Timers == {t \in Tasks : deadline[t] # None /\ ~fired[t]}

Top == stack[Len(stack)]

\* run() is on top of the stack and will not return to a finished pump.
Pumping == cur = None /\ (Top.loop \/ ~Complete(Top.of))
InLoop == [stack EXCEPT ![Len(stack)].loop = TRUE]

-----------------------------------------------------------------------------
\* Init: get() on Root resumes it at once, outside run().

Init ==
  /\ pc = [t \in Tasks |-> IF t = Root THEN "run" ELSE "unborn"]
  /\ ops = [t \in Tasks |-> MaxOps]
  /\ owner = [t \in Tasks |-> None]
  /\ cont = [t \in Tasks |-> None]
  /\ arms = [t \in Tasks |-> << >>]
  /\ fired = [t \in Tasks |-> FALSE]
  /\ deadline = [t \in Tasks |-> None]
  /\ slot = [t \in Tasks |-> None]
  /\ ready = << >>
  /\ stack = << [by |-> Main, of |-> Root, loop |-> FALSE] >>
  /\ cur = Root
  /\ q = [c \in Chans |-> 0]
  /\ closed = [c \in Chans |-> FALSE]
  /\ waiters = [c \in Chans |-> << >>]
  /\ wake = Quiet
  /\ now = 0

-----------------------------------------------------------------------------
\* Tasks and futures

\* `spawn u()`: a new frame, held by a Future in t's frame, put on the run-loop.
Spawn(t, u) ==
  /\ Step(t)
  /\ pc[u] = "unborn"
  /\ pc' = [pc EXCEPT ![u] = "fresh"]
  /\ owner' = [owner EXCEPT ![u] = t]
  /\ ready' = Append(ready, u)
  /\ UNCHANGED <<cont, stack, cur, chanVars, waitVars>>

\* `f = spawn u()`: u is spawned, then move assignment destroys f's old frame
\* wherever it is suspended.  Modelled for frames that hold no live future.
Reassign(t, f, u) ==
  /\ MayReassign
  /\ Step(t)
  /\ owner[f] = t
  /\ pc[f] \in {"fresh", "recv", "sel", "done", "gone"}
  /\ \A g \in Owned(f) : Complete(g)
  /\ pc[u] = "unborn"
  /\ pc' = [v \in Tasks |-> CASE v = u -> "fresh"
                              [] v \in Owned(f) \cup {f} -> "gone"
                              [] OTHER -> pc[v]]
  /\ owner' = [owner EXCEPT ![u] = t, ![f] = None]
  /\ ready' = Append(ready, u)
  /\ UNCHANGED <<cont, stack, cur, chanVars, waitVars>>

\* Slip: the caller is not suspended, it shares the thread with its callee.
CallBeside(t, u) ==
  /\ Step(t)
  /\ pc[u] = "unborn"
  /\ pc' = [pc EXCEPT ![u] = "run"]
  /\ cont' = [cont EXCEPT ![u] = t]
  /\ cur' = u
  /\ UNCHANGED <<owner, ready, stack, chanVars, waitVars>>

\* `await u()` of a Task: symmetric transfer into u, t its continuation.
Call(t, u) ==
  /\ Step(t)
  /\ pc[u] = "unborn"
  /\ pc' = [pc EXCEPT ![t] = "call", ![u] = "run"]
  /\ cont' = [cont EXCEPT ![u] = t]
  /\ cur' = u
  /\ UNCHANGED <<owner, ready, stack, chanVars, waitVars>>

\* Future::force called by t, whose code runs above the pumps st: a finished
\* task's value is moved out and its frame dropped, another is pumped for.
ForceFuture(t, f, st) ==
  IF Complete(f)
  THEN /\ pc' = [pc EXCEPT ![t] = "run", ![f] = "gone"]
       /\ cur' = t
       /\ stack' = st
  ELSE /\ pc' = [pc EXCEPT ![t] = "run"]
       /\ cur' = None
       /\ stack' = Append(st, [by |-> t, of |-> f, loop |-> TRUE])

\* Slip: the copy constructor of Future is not deleted, two tasks hold one.
AwaitCopied(t, f) ==
  /\ Step(t)
  /\ owner[f] # None
  /\ ForceFuture(t, f, stack)
  /\ UNCHANGED <<frameVars, ready, chanVars, waitVars>>

\* `await f` of a future, or the destructor of one in an inner scope.
AwaitFuture(t, f) ==
  /\ Step(t)
  /\ owner[f] = t
  /\ ForceFuture(t, f, stack)
  /\ UNCHANGED <<frameVars, ready, chanVars, waitVars>>

-----------------------------------------------------------------------------
\* Channels

\* Slip: send forgets wake_one.
SendSilently(t, c) ==
  /\ Step(t)
  /\ q' = [q EXCEPT ![c] = @ + 1]
  /\ UNCHANGED <<pc, frameVars, ready, stack, cur, closed, waiters, wake, waitVars>>

\* Channel::send: queue the value, then wake_one.
Send(t, c) ==
  /\ Step(t)
  /\ q' = [q EXCEPT ![c] = @ + 1]
  /\ wake' = [on |-> c, all |-> FALSE]
  /\ UNCHANGED <<pc, frameVars, ready, stack, cur, closed, waiters, waitVars>>

\* Slip: close wakes one receiver.
CloseWakesOne(t, c) ==
  /\ Step(t)
  /\ closed' = [closed EXCEPT ![c] = TRUE]
  /\ wake' = [on |-> c, all |-> FALSE]
  /\ UNCHANGED <<pc, frameVars, ready, stack, cur, q, waiters, waitVars>>

\* Channel::close: mark it, then wake_all.
Close(t, c) ==
  /\ Step(t)
  /\ closed' = [closed EXCEPT ![c] = TRUE]
  /\ wake' = [on |-> c, all |-> TRUE]
  /\ UNCHANGED <<pc, frameVars, ready, stack, cur, q, waiters, waitVars>>

\* Slip: `fired` is not looked at.
WakeAgain ==
  /\ wake # Quiet
  /\ waiters[wake.on] # << >>
  /\ LET w == Head(waiters[wake.on])
     IN /\ waiters' = [waiters EXCEPT ![wake.on] = Tail(@)]
        /\ fired' = [fired EXCEPT ![w] = TRUE]
        /\ ready' = Append(ready, w)
        /\ wake' = IF wake.all THEN wake ELSE Quiet
  /\ UNCHANGED <<pc, ops, frameVars, arms, deadline, slot, stack, cur, q, closed, now>>

\* One turn of wake_one's or wake_all's loop: pop the oldest Waiter, and unless
\* another source has fired it, fire it and schedule its task.
WakeNext ==
  /\ wake # Quiet
  /\ waiters[wake.on] # << >>
  /\ LET w == Head(waiters[wake.on])
     IN /\ waiters' = [waiters EXCEPT ![wake.on] = Tail(@)]
        /\ fired' = [fired EXCEPT ![w] = TRUE]
        /\ ready' = IF fired[w] THEN ready ELSE Append(ready, w)
        /\ wake' = IF fired[w] \/ wake.all THEN wake ELSE Quiet
  /\ UNCHANGED <<pc, ops, frameVars, arms, deadline, slot, stack, cur, q, closed, now>>

\* ... which ends when nobody is parked.
WakeEnd ==
  /\ wake # Quiet
  /\ waiters[wake.on] = << >>
  /\ wake' = Quiet
  /\ UNCHANGED <<pc, ops, frameVars, waitVars, ready, stack, cur, q, closed, waiters>>

\* Slip: the front of an empty queue is popped.
TakeUnchecked(c) == q' = [q EXCEPT ![c] = @ - 1]

\* Pop the front value of c, or observe nil.
TakeValue(c) == q' = IF q[c] > 0 THEN [q EXCEPT ![c] = @ - 1] ELSE q

\* Channel::recv, the poll.  A nil changes nothing.
Poll(t, c) ==
  /\ Step(t)
  /\ t \in Readers[c]
  /\ TakeValue(c)
  /\ UNCHANGED <<pc, frameVars, ready, stack, cur, closed, waiters, wake, waitVars>>

\* await_suspend of a receive or a select: arm one unfired Waiter on each arm
\* and return control to whoever resumed t.
Park(t, as, where) ==
  /\ pc' = [pc EXCEPT ![t] = where]
  /\ arms' = [arms EXCEPT ![t] = as]
  /\ waiters' = [c \in Chans |-> IF c \in ChansOf(as) THEN Append(waiters[c], t)
                                                      ELSE waiters[c]]
  /\ cur' = None

\* `await c.receive()`: take at once from a ready channel, or park.
Receive(t, c) ==
  /\ Step(t)
  /\ t \in Readers[c]
  /\ IF ChanReady(c)
     THEN TakeValue(c) /\ UNCHANGED <<pc, arms, waiters, cur>>
     ELSE Park(t, <<c>>, "recv") /\ UNCHANGED q
  /\ UNCHANGED <<frameVars, ready, stack, closed, wake, fired, deadline, slot, now>>

-----------------------------------------------------------------------------
\* Select

\* The generated dispatch takes the value of the winning arm s, sel_take() of a
\* channel or get() of a future, with the pumps st below t.
TakeArm(t, s, st) ==
  \/ /\ s \in Chans
     /\ TakeValue(s)
     /\ pc' = [pc EXCEPT ![t] = "run"]
     /\ cur' = t
     /\ stack' = st
  \/ /\ s \in Tasks
     /\ ForceFuture(t, s, st)
     /\ UNCHANGED q

\* A select without default, with a channel arm or a timeout, is a SelectAwaiter.
\* await_ready finds a ready arm ...
SelectReady(t, as) ==
  /\ Step(t)
  /\ ChansOf(as) # {}
  /\ \E i \in DOMAIN as : FirstReady(as, i) /\ TakeArm(t, as[i], stack)
  /\ UNCHANGED <<frameVars, ready, closed, waiters, wake, waitVars>>

\* ... or await_suspend parks on all of them; a timeout d, which only a select
\* over channels may have, is counted from the clock as it then reads.
SelectPark(t, as, d, lag) ==
  /\ Step(t)
  /\ NoneReady(as)
  /\ IF d = None THEN ChansOf(as) # {} /\ lag = 0 ELSE TasksOf(as) = {}
  /\ Park(t, as, "sel")
  /\ slot' = [f \in Tasks |-> IF f \in TasksOf(as) THEN t ELSE slot[f]]
  /\ now' = now + lag
  /\ deadline' = [deadline EXCEPT ![t] = IF d = None THEN None ELSE now + lag + d]
  /\ UNCHANGED <<frameVars, fired, ready, stack, q, closed, wake>>

\* The poll lowering, of a select with a default or over futures alone.  A
\* future's await_ready is always true.  An arm takes a value only to bind it.
PollArm(as, i) ==
  /\ i \in DOMAIN as
  /\ as[i] \in Chans => ChanReady(as[i])
  /\ \A j \in 1 .. i - 1 : as[j] \in Chans /\ ~ChanReady(as[j])

PollSelect(t, as, binds) ==
  /\ Step(t)
  /\ as # << >>
  /\ \/ binds /\ \E i \in DOMAIN as : PollArm(as, i) /\ TakeArm(t, as[i], stack)
     \/ /\ ~binds \/ \A i \in DOMAIN as : ~PollArm(as, i)
        /\ UNCHANGED <<pc, cur, stack, q>>
  /\ UNCHANGED <<frameVars, ready, closed, waiters, wake, waitVars>>

-----------------------------------------------------------------------------
\* Scheduler::run

\* The next handle is a task that has not begun.
Start(t) ==
  /\ Pumping
  /\ ready # << >> /\ t = Head(ready) /\ pc[t] = "fresh"
  /\ ready' = Tail(ready)
  /\ pc' = [pc EXCEPT ![t] = "run"]
  /\ cur' = t
  /\ stack' = InLoop
  /\ UNCHANGED <<ops, frameVars, chanVars, waitVars>>

\* SelectableState::unpark: erase t's Waiter if the channel still holds it.
Unpark(ws, t) ==
  IF Contains(ws, t)
  THEN RemoveAt(ws, CHOOSE i \in DOMAIN ws : ws[i] = t)
  ELSE ws

\* Slip: unpark drops every Waiter of the channel.
DisarmEveryone(t) ==
  /\ waiters' = [c \in Chans |-> IF c \in ChansOf(arms[t]) THEN << >> ELSE waiters[c]]
  /\ slot' = [f \in Tasks |-> IF f \in TasksOf(arms[t]) /\ ~Complete(f) THEN None
                                                                      ELSE slot[f]]

\* Slip: nothing is disarmed.
DisarmNothing(t) == UNCHANGED <<waiters, slot>>

\* Selectable::sel_disarm on every arm: unpark from the channels, and clear the
\* slot of each future still running.
Disarm(t) ==
  /\ waiters' = [c \in Chans |-> IF c \in ChansOf(arms[t]) THEN Unpark(waiters[c], t)
                                                           ELSE waiters[c]]
  /\ slot' = [f \in Tasks |-> IF f \in TasksOf(arms[t]) /\ ~Complete(f) THEN None
                                                                      ELSE slot[f]]

\* The next handle is a parked task: await_resume disarms its Waiter and looks
\* at the arms again.  When none is ready a select takes timeout_index, which
\* is 0, the first arm, if it has no timeout; a receive yields nil.
Resume(t) ==
  /\ Pumping
  /\ ready # << >> /\ t = Head(ready) /\ Parked(t)
  /\ ready' = Tail(ready)
  /\ Disarm(t)
  /\ \/ \E i \in DOMAIN arms[t] : FirstReady(arms[t], i) /\ TakeArm(t, arms[t][i], InLoop)
     \/ NoneReady(arms[t]) /\ deadline[t] = None /\ TakeArm(t, arms[t][1], InLoop)
     \/ /\ NoneReady(arms[t]) /\ deadline[t] # None
        /\ pc' = [pc EXCEPT ![t] = "run"]
        /\ cur' = t
        /\ stack' = InLoop
        /\ UNCHANGED q
  /\ arms' = [arms EXCEPT ![t] = << >>]
  /\ fired' = [fired EXCEPT ![t] = FALSE]
  /\ deadline' = [deadline EXCEPT ![t] = None]
  /\ UNCHANGED <<ops, frameVars, closed, wake, now>>

\* Slip: run() does not sleep.
FireAtOnce(t) ==
  /\ Pumping
  /\ ready = << >>
  /\ t \in Timers /\ \A u \in Timers : deadline[t] <= deadline[u]
  /\ fired' = [fired EXCEPT ![t] = TRUE]
  /\ ready' = << t >>
  /\ stack' = InLoop
  /\ UNCHANGED <<pc, ops, frameVars, arms, deadline, slot, now, cur, chanVars>>

\* Slip: the Waiter is fired, its task not scheduled.
FireUnscheduled(t) ==
  /\ Pumping
  /\ ready = << >>
  /\ t \in Timers /\ \A u \in Timers : deadline[t] <= deadline[u]
  /\ now' = IF deadline[t] > now THEN deadline[t] ELSE now
  /\ fired' = [fired EXCEPT ![t] = TRUE]
  /\ stack' = InLoop
  /\ UNCHANGED <<pc, ops, frameVars, arms, deadline, slot, ready, cur, chanVars>>

\* Nothing is ready: sleep to the earliest deadline and fire its Waiter.
FireTimer(t) ==
  /\ Pumping
  /\ ready = << >>
  /\ t \in Timers /\ \A u \in Timers : deadline[t] <= deadline[u]
  /\ now' = IF deadline[t] > now THEN deadline[t] ELSE now
  /\ fired' = [fired EXCEPT ![t] = TRUE]
  /\ ready' = << t >>
  /\ stack' = InLoop
  /\ UNCHANGED <<pc, ops, frameVars, arms, deadline, slot, cur, chanVars>>

\* run() has returned, or was never entered, and the pump's task is complete:
\* the caller takes the value and goes on.
Leave ==
  /\ cur = None
  /\ Complete(Top.of)
  /\ Top.loop => ready = << >> /\ Timers = {}
  /\ pc' = [pc EXCEPT ![Top.of] = "gone"]
  /\ cur' = Top.by
  /\ stack' = Front(stack)
  /\ UNCHANGED <<ops, frameVars, ready, chanVars, waitVars>>

-----------------------------------------------------------------------------
\* The end of a task

\* co_return
Return(t) ==
  /\ cur = t /\ pc[t] = "run" /\ wake = Quiet
  /\ pc' = [pc EXCEPT ![t] = "exit"]
  /\ UNCHANGED <<ops, frameVars, ready, stack, cur, chanVars, waitVars>>

\* ~Future of a local whose task is not complete pumps until it is.
Unwind(t, f) ==
  /\ cur = t /\ pc[t] = "exit"
  /\ owner[f] = t /\ ~Complete(f)
  /\ stack' = Append(stack, [by |-> t, of |-> f, loop |-> TRUE])
  /\ cur' = None
  /\ UNCHANGED <<pc, ops, frameVars, ready, chanVars, waitVars>>

\* Slip: completion does not fire the select's Waiter.
FinishSilently(t) ==
  /\ cur = t /\ pc[t] = "exit"
  /\ \A f \in Owned(t) : Complete(f)
  /\ pc' = [u \in Tasks |->
             CASE u = t -> IF cont[t] = None THEN "done" ELSE "gone"
               [] u # t /\ u = cont[t] -> "run"
               [] u # t /\ u # cont[t] /\ u \in Owned(t) -> "gone"
               [] OTHER -> pc[u]]
  /\ cur' = cont[t]
  /\ UNCHANGED <<ops, frameVars, ready, waitVars, stack, chanVars>>

\* FinalAwaiter::await_suspend: the locals are gone; fire the Waiter of the
\* select that waits for t, then transfer to the caller that awaits t, if any,
\* which takes the value and drops the frame.
Finish(t) ==
  /\ cur = t /\ pc[t] = "exit"
  /\ \A f \in Owned(t) : Complete(f)
  /\ IF slot[t] # None /\ ~fired[slot[t]]
     THEN /\ fired' = [fired EXCEPT ![slot[t]] = TRUE]
          /\ ready' = Append(ready, slot[t])
     ELSE UNCHANGED <<fired, ready>>
  /\ pc' = [u \in Tasks |->
             CASE u = t -> IF cont[t] = None THEN "done" ELSE "gone"
               [] u # t /\ u = cont[t] -> "run"
               [] u # t /\ u # cont[t] /\ u \in Owned(t) -> "gone"
               [] OTHER -> pc[u]]
  /\ cur' = cont[t]
  /\ UNCHANGED <<ops, frameVars, arms, deadline, slot, now, stack, chanVars>>

-----------------------------------------------------------------------------
Operation(t) ==
  \/ \E u \in Tasks : Spawn(t, u) \/ Call(t, u) \/ AwaitFuture(t, u)
  \/ \E f, u \in Tasks : Reassign(t, f, u)
  \/ \E c \in Chans : Send(t, c) \/ Close(t, c) \/ Poll(t, c) \/ Receive(t, c)
  \/ \E as \in ArmLists(t) : SelectReady(t, as)
  \/ \E as \in ArmLists(t), d \in Delays \cup {None}, lag \in 0 .. MaxLag :
       SelectPark(t, as, d, lag)
  \/ \E as \in ArmLists(t), binds \in BOOLEAN : PollSelect(t, as, binds)

Ending(t) == Return(t) \/ (\E f \in Tasks : Unwind(t, f)) \/ Finish(t)

RunLoop == (\E t \in Tasks : Start(t) \/ Resume(t) \/ FireTimer(t)) \/ Leave

Next ==
  \/ \E t \in Tasks : Operation(t) \/ Ending(t)
  \/ WakeNext \/ WakeEnd
  \/ RunLoop

Spec == Init /\ [][Next]_vars

\* One thread executes the program, and it does not stop on its own.
FairSpec == Spec /\ WF_vars(Next)

-----------------------------------------------------------------------------
\* Safety

TypeOK ==
  /\ pc \in [Tasks -> Where]
  /\ ops \in [Tasks -> 0 .. MaxOps]
  /\ owner \in [Tasks -> Tasks \cup {None}]
  /\ cont \in [Tasks -> Tasks \cup {None}]
  /\ arms \in [Tasks -> Seq(Sources)]
  /\ fired \in [Tasks -> BOOLEAN]
  /\ deadline \in [Tasks -> Nat \cup {None}]
  /\ slot \in [Tasks -> Tasks \cup {None}]
  /\ ready \in Seq(Tasks)
  /\ stack \in Seq(Pump)
  /\ cur \in Tasks \cup {None, Main}
  /\ q \in [Chans -> Nat]
  /\ closed \in [Chans -> BOOLEAN]
  /\ waiters \in [Chans -> Seq(Tasks)]
  /\ wake \in {Quiet} \cup [on: Chans, all: BOOLEAN]
  /\ now \in Nat

\* A handle is never scheduled twice, and every scheduled handle is that of a
\* suspended coroutine that has not begun or has been woken: run() never
\* resumes one that is running, finished or destroyed, whatever mixture of
\* sends, closes, completions and timers reaches it (Waiter::fired).
ResumeOnce ==
  /\ IsInjective(ready)
  /\ \A i \in DOMAIN ready :
       \/ pc[ready[i]] = "fresh"
       \/ Parked(ready[i]) /\ fired[ready[i]]

\* run() never finds the handle of a destroyed frame in its queue.
NoDanglingHandle == \A i \in DOMAIN ready : pc[ready[i]] # "gone"

\* A continuation is resumed once: while an awaited callee lives its caller stays
\* suspended on it, and on no other callee.
CallersWait ==
  /\ \A t \in Tasks : pc[t] = "unborn" => cont[t] = None
  /\ \A t \in Tasks : cont[t] # None /\ ~Complete(t) => pc[cont[t]] = "call"
  /\ \A t, u \in Tasks :
       cont[t] # None /\ cont[t] = cont[u] /\ ~Complete(t) /\ ~Complete(u) => t = u

\* Every suspended task can still be reached: one that has not begun or was
\* woken is scheduled, one not yet woken is registered with each of its arms.
NeverForgotten ==
  \A t \in Tasks :
    /\ pc[t] = "fresh" => Contains(ready, t)
    /\ Parked(t) /\ fired[t] => Contains(ready, t)
    /\ Parked(t) /\ ~fired[t] =>
         /\ \A c \in ChansOf(arms[t]) : Contains(waiters[c], t)
         /\ \A f \in TasksOf(arms[t]) : slot[f] = t

\* No Waiter outlives the suspension it was made for: the channels, the slots
\* of live futures and the timers hold only tasks parked on them now, so a
\* wake-up never reaches a task that has moved on to something else.
WaiterCoherent ==
  /\ \A c \in Chans :
       /\ IsInjective(waiters[c])
       /\ \A i \in DOMAIN waiters[c] :
            Parked(waiters[c][i]) /\ c \in ChansOf(arms[waiters[c][i]])
  /\ \A f \in Tasks : slot[f] # None /\ ~Complete(f) =>
       pc[slot[f]] = "sel" /\ f \in TasksOf(arms[slot[f]])
  /\ \A t \in Tasks : fired[t] \/ deadline[t] # None => Parked(t)

\* A coroutine whose C++ frame is buried under a pump (it is forcing a future
\* or destroying one) is never entered again before that pump is gone, and no
\* two pumps belong to one caller or wait for one task.
NoReentry ==
  /\ \A i \in DOMAIN stack :
       /\ stack[i].by # cur
       /\ stack[i].by = Main \/ pc[stack[i].by] \in {"run", "exit"}
       /\ \A j \in DOMAIN stack :
            stack[i].by = stack[j].by \/ stack[i].of = stack[j].of => i = j
  /\ \A t \in Tasks : pc[t] \in {"run", "exit"} =>
       t = cur \/ \E i \in DOMAIN stack : stack[i].by = t

\* Closing a channel reaches everyone parked on it: once its wake_all is over no
\* task sleeps on a closed channel unwoken.
CloseReachesAll ==
  \A t \in Tasks : Parked(t) /\ ~fired[t] =>
    \A c \in ChansOf(arms[t]) : closed[c] => wake = [on |-> c, all |-> TRUE]

\* A select never sleeps through the completion of one of its future arms.
FutureArmNotMissed ==
  \A t \in Tasks : Parked(t) /\ ~fired[t] =>
    \A f \in TasksOf(arms[t]) : ~Complete(f)

\* When the run-loop has nothing left to resume, nobody sleeps on a channel that
\* holds a value or is closed: `send` woke a receiver for it.
QuiescentNoReady ==
  cur = None /\ ready = << >> =>
    \A t \in Tasks : Parked(t) /\ ~fired[t] => NoneReady(arms[t])

\* The run-loop spins: nothing is scheduled, no timer is pending, and the task
\* the top pump waits for is not complete.
Spinning == cur = None /\ ready = << >> /\ Timers = {} /\ ~Complete(Top.of)

\* It never does so on top of a caller whose own task is complete: a forced
\* future that completes returns its value.
NoBuriedCompletion == Spinning => \A i \in DOMAIN stack : ~Complete(stack[i].of)

-----------------------------------------------------------------------------
\* What a step may never do

\* A parked task goes on (and is not destroyed) only for a cause: an arm of it is
\* ready, or the deadline of its timeout is reached.  In particular a receive
\* yields nil only from a closed and drained channel, and a timeout arm is never
\* taken early.
NoSpuriousResume ==
  [][\A t \in Tasks : Parked(t) /\ ~Parked(t)' /\ ~Complete(t)' =>
       \/ \E i \in DOMAIN arms[t] : SelReady(arms[t][i])
       \/ deadline[t] # None /\ now >= deadline[t]]_vars

-----------------------------------------------------------------------------
\* Liveness

\* A select with a timeout always goes on, whatever its channels do and whoever
\* pumps the run-loop.
TimeoutServed == \A t \in Tasks : (Parked(t) /\ deadline[t] # None) ~> ~Parked(t)

-----------------------------------------------------------------------------
\* Refinement

\* The runtime keeps the promise of CoopChannels when each channel has one
\* consumer: wake-ups, the run-loop and its pumps are invisible, and a task
\* whose arm is ready is served.
Promise == INSTANCE CoopChannels WITH
  parked <- {t \in Tasks : Parked(t)},
  alarm <- deadline,
  complete <- {t \in Tasks : Complete(t)}

ImplementsPromise == Promise!FairSpec

\* No more than it promises: the same without the fairness, which a program that
\* comes upon the handle of a destroyed frame cannot keep.
KeepsPromise == Promise!Spec

=============================================================================
