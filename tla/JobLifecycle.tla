---------------------------- MODULE JobLifecycle ----------------------------
(***************************************************************************)
(* What a jobs.Queue promises about one message, whatever carries it: the  *)
(* contract of Enqueue / RunWorker / Close seen from the handler's side.   *)
(*                                                                         *)
(*   new      Enqueue has not put the message into the queue               *)
(*   ready    the message is in the queue and no worker owns it            *)
(*   running  exactly one worker owns it and has called its handler        *)
(*   done     a handler call returned nil                                  *)
(*   dead     no worker will ever see the message again                    *)
(*                                                                         *)
(* A handler that fails may put the message back (SQLBackend.retry) or     *)
(* drop it (InMemoryQueue).  A message that was handled never runs again,  *)
(* and no message runs twice at the same time; only where a restart goes   *)
(* back to messages that nobody has kept track of, they return.            *)
(***************************************************************************)

CONSTANT Jobs       \* the messages

VARIABLES
    phase,          \* phase[j]: where message j is
    kept,           \* the messages a restart does not return to
    lives           \* restarts of the process that consumes the queue

Phases == {"new", "ready", "running", "done", "dead"}

Init == phase = [j \in Jobs |-> "new"]

Submit(j) == /\ phase[j] = "new"
             /\ phase' = [phase EXCEPT ![j] = "ready"]

Start(j) == /\ phase[j] = "ready"
            /\ phase' = [phase EXCEPT ![j] = "running"]

Fail(j) == /\ phase[j] = "running"
           /\ phase' = [phase EXCEPT ![j] = "ready"]

Succeed(j) == /\ phase[j] = "running"
              /\ phase' = [phase EXCEPT ![j] = "done"]

\* A crash takes every message the process owned with it, so several go at once.
Lose == \E S \in SUBSET {j \in Jobs : phase[j] \in {"ready", "running"}} :
           /\ S # {}
           /\ phase' = [j \in Jobs |-> IF j \in S THEN "dead" ELSE phase[j]]

\* After a restart, messages that were not kept are there again, and those that the
\* process owned are lost or there again.
Return(j) ==
    IF phase[j] \in {"done", "dead"} /\ j \notin kept THEN {phase[j], "ready"}
    ELSE IF phase[j] \in {"ready", "running"} THEN {"ready", "dead"}
    ELSE {phase[j]}

Restart == /\ lives' # lives
           /\ phase' \in [Jobs -> Phases]
           /\ \A j \in Jobs : phase'[j] \in Return(j)

Next == \/ \E j \in Jobs : Submit(j) \/ Start(j) \/ Fail(j) \/ Succeed(j)
        \/ Lose
        \/ Restart

Spec == Init /\ [][Next]_phase

=============================================================================
