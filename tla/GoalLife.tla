------------------------------ MODULE GoalLife ------------------------------
(***************************************************************************)
(* What a goal promises to whoever reads its file: it goes through at most *)
(* MaxIterations iterations, one after the other; the history only grows,  *)
(* and an iteration in it gets its outcome once; and a goal that has ended *)
(* stays as it ended.                                                      *)
(***************************************************************************)
EXTENDS Naturals, Sequences

CONSTANT MaxIterations

VARIABLES status, outcomes

End == {"succeeded", "blocked", "failed", "stopped"}
Outcome == {"processed", "succeeded", "blocked", "failed"}

Init == status = "active" /\ outcomes = <<>>

Begin ==
    /\ status = "active" /\ Len(outcomes) < MaxIterations
    /\ outcomes' = Append(outcomes, "planned")
    /\ UNCHANGED status

\* The iteration under way comes to its outcome; a failure of the goal may come with it.
Conclude ==
    /\ status = "active"
    /\ outcomes # <<>> /\ outcomes[Len(outcomes)] = "planned"
    /\ \E o \in Outcome :
         /\ outcomes' = [outcomes EXCEPT ![Len(outcomes)] = o]
         /\ \/ UNCHANGED status
            \/ o = "failed" /\ status' = "failed"

Finish ==
    /\ status = "active"
    /\ status' \in End
    /\ UNCHANGED outcomes

Next == Begin \/ Conclude \/ Finish

Spec == Init /\ [][Next]_<<status, outcomes>>
=============================================================================
