--------------------------- MODULE MCAsyncRuntime ---------------------------
(***************************************************************************)
(* Instances of AsyncRuntime for TLC.  `root` is the task main() drives;   *)
(* the others are interchangeable until it spawns or calls them.           *)
(***************************************************************************)
EXTENDS AsyncRuntime, TLC

CONSTANTS root, w1, w2, a, b, main, none

Everyone == [c \in Chans |-> Tasks]

\* One consumer for each channel: root reads a, w1 reads b.
OneEach == [c \in Chans |-> IF c = a THEN {root} ELSE {w1}]

\* w1, a task that may be destroyed, alone reads every channel.
OneWorker == [c \in Chans |-> {w1}]

WorkerSymmetry == Permutations(Tasks \ {Root})
=============================================================================
