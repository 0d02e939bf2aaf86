---------------------------- MODULE ExclusiveRuns ----------------------------
(***************************************************************************)
(* What run.lock promises the rest of kaizen-loop: on one project at most  *)
(* one process at a time is between a successful acquire and the end of    *)
(* its work, be that end a release or a crash.                             *)
(***************************************************************************)
CONSTANT Proc        \* the processes that run kaizen on the project

VARIABLE running     \* the processes that work under the lock

Init == running = {}

Enter(p) == /\ running = {}
            /\ running' = {p}

Leave(p) == /\ running = {p}
            /\ running' = {}

Next == \E p \in Proc : Enter(p) \/ Leave(p)

Spec == Init /\ [][Next]_running
=============================================================================
