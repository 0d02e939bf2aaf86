----------------------------- MODULE MCRunBatch -----------------------------
(* Two issues.  A run reads of the workspace only whether it may use it, and *)
(* what becomes of the issues never changes the workspace: so one of the two *)
(* is as at first wherever the other one is not.                             *)
EXTENDS RunBatch

Untouched == saved = {} /\ \A i \in Issue : issue[i] = [open |-> TRUE, label |-> "none", pr |-> "none"]

Quiet == dir \in {"absent", "private"} /\ ~marker /\ tainted = "no" /\ doctor = "idle"

OneAtATime == Untouched \/ Quiet
=============================================================================
