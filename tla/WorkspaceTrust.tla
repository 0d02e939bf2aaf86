--------------------------- MODULE WorkspaceTrust ---------------------------
(***************************************************************************)
(* The workspace directory of a project and the marker that says its       *)
(* contents may have been written by others (utils/privateDirectory.ts,    *)
(* utils/workspaceTrust.ts).  A run secures the directory before it uses   *)
(* it, and rebuilds contents that were exposed; doctor looks at it too,    *)
(* with the run lock when it repairs and without when it does not.         *)
(*                                                                         *)
(* Each access to the file system is a step, and the process may die after *)
(* each.  Operators change the modes, at any time but between the last     *)
(* check of a fresh clone and the call after it, which takes the marker    *)
(* away: what doctor marked between those two would be forgotten.  The     *)
(* state directory, which holds the marker, is taken to be private.        *)
(***************************************************************************)
EXTENDS Naturals

VARIABLES
    dir,      \* the access to the workspace: private is 0700, odd another owner-only mode
    marker,   \* workspace-contents-untrusted is in the state directory
    tainted,  \* history: its contents were marked: not, since the run has begun, before it
    step,     \* what the run is about to do with it
    marked,   \* what the run has read of the marker
    doctor    \* what doctor is about to do: the contents it looked at may be gone by then

trust == <<dir, marker, tainted, step, marked, doctor>>

Access == {"absent", "private", "odd", "exposed", "acl"}
Steps == {"idle", "look", "fresh", "read", "assert", "repair", "mark", "chmod", "ensure",
          "remove", "clone", "clear", "use"}
DoctorSteps == {"idle", "mark", "markgone", "lock", "lockmark", "lockchmod"}

TrustTypeOK == /\ dir \in Access /\ marker \in BOOLEAN /\ tainted \in {"no", "now", "before"}
               /\ step \in Steps /\ marked \in BOOLEAN /\ doctor \in DoctorSteps

TrustInit == /\ dir \in {"absent", "private"} /\ marker = FALSE /\ tainted = "no"
             /\ step = "idle" /\ marked = FALSE /\ doctor = "idle"

Repairing == doctor \in {"lock", "lockmark", "lockchmod"}

(* contentsMayHaveBeenExposed: access of others, by mode or by ACL.         *)
Exposed == dir \in {"exposed", "acl"}

(* What becomes of tainted when the marker is written.                      *)
Marking == IF tainted = "no" /\ dir # "absent" THEN "now" ELSE tainted

Do(s) == step' = s
Leave == Do("idle")

(* rm -r, and what becomes of contents when a clone takes their place.      *)
ContentsGone == /\ tainted' = "no"
                /\ doctor' = IF doctor = "mark" THEN "markgone" ELSE doctor

-----------------------------------------------------------------------------
(* runKaizen has the run lock, which a repairing doctor would hold.         *)
Lock == /\ step = "idle" /\ ~Repairing
        /\ Do("look")
        /\ tainted' = IF tainted = "now" THEN "before" ELSE tainted
        /\ UNCHANGED <<dir, marker, marked, doctor>>

Look == /\ step = "look"
        /\ Do(IF dir = "absent" THEN "fresh" ELSE "read")
        /\ UNCHANGED <<dir, marker, tainted, marked, doctor>>

(* There is no workspace, so what is marked is gone.                        *)
ClearFresh == /\ step = "fresh" /\ Do("use")
              /\ marker' = FALSE
              /\ UNCHANGED <<dir, tainted, marked, doctor>>

ReadMarker == /\ step = "read" /\ Do("assert")
              /\ marked' = marker
              /\ UNCHANGED <<dir, marker, tainted, doctor>>

(* assertPrivateDirectory; a private directory that is marked is rebuilt.   *)
Assert == /\ step = "assert"
          /\ Do(CASE dir # "private" -> "repair" [] marked -> "ensure" [] OTHER -> "use")
          /\ UNCHANGED <<dir, marker, tainted, marked, doctor>>

(* ensurePrivateDirectory: exposed contents are marked before the mode is   *)
(* changed; an owner-only mode is put right.  A directory that is gone is   *)
(* made anew.                                                               *)
Repair == /\ step = "repair"
          /\ IF Exposed
             THEN Do("mark") /\ UNCHANGED dir
             ELSE Do(IF marked THEN "remove" ELSE "use") /\ dir' = "private"
          /\ UNCHANGED <<marker, tainted, marked, doctor>>

MarkExposed == /\ step = "mark" /\ Do("chmod")
               /\ marker' = TRUE
               /\ tainted' = Marking
               /\ UNCHANGED <<dir, marked, doctor>>

(* An ACL is refused, and so is a directory that is not there any more.     *)
Chmod == /\ step = "chmod"
         /\ IF dir \in {"acl", "absent"} THEN Leave /\ UNCHANGED dir ELSE Do("remove") /\ dir' = "private"
         /\ UNCHANGED <<marker, tainted, marked, doctor>>

(* ensurePrivateDirectory once more, without a way to mark.                 *)
Ensure == /\ step = "ensure"
          /\ IF Exposed THEN Leave /\ UNCHANGED dir ELSE Do("remove") /\ dir' = "private"
          /\ UNCHANGED <<marker, tainted, marked, doctor>>

\* Mutant: the marker goes before the contents do.
ClearAndRemove == /\ step = "remove"
                  /\ marker' = FALSE
                  /\ \/ Do("clone") /\ dir' = "absent" /\ ContentsGone
                     \/ Leave /\ UNCHANGED <<dir, tainted, doctor>>
                  /\ UNCHANGED marked

(* The look-up of the remote, and rm, which may leave some of the contents: *)
(* each can fail.                                                           *)
Remove == /\ step = "remove"
          /\ \/ Do("clone") /\ dir' = "absent" /\ ContentsGone
             \/ Leave /\ UNCHANGED <<dir, tainted, doctor>>
          /\ UNCHANGED <<marker, marked>>

(* WorkspaceManager.ensure: a clone into a private directory, which can     *)
(* fail half way.                                                           *)
Clone == /\ step = "clone"
         /\ dir' = "private"
         /\ Do("clear") \/ Leave
         /\ UNCHANGED <<marker, tainted, marked, doctor>>

ClearMarker == /\ step = "clear" /\ Do("use")
               /\ marker' = FALSE
               /\ UNCHANGED <<dir, tainted, marked, doctor>>

Securing == \/ Look \/ ClearFresh \/ ReadMarker \/ Assert \/ Repair \/ MarkExposed
            \/ Chmod \/ Ensure \/ Remove \/ Clone \/ ClearMarker

(* The run dies, or one of its accesses fails.                              *)
Stop == /\ step \notin {"idle", "use"} /\ Leave
        /\ UNCHANGED <<dir, marker, tainted, marked, doctor>>

-----------------------------------------------------------------------------
(* doctor without --repair holds no lock.                                   *)
DoctorLooks == /\ doctor = "idle" /\ Exposed
               /\ doctor' = "mark"
               /\ UNCHANGED <<dir, marker, tainted, step, marked>>

DoctorMarks == /\ doctor \in {"mark", "markgone", "lockmark"}
               /\ marker' = TRUE
               /\ tainted' = IF doctor = "markgone" THEN tainted ELSE Marking
               /\ doctor' = IF doctor = "lockmark" THEN "lockchmod" ELSE "idle"
               /\ UNCHANGED <<dir, step, marked>>

DoctorLocks == /\ doctor = "idle" /\ step = "idle"
               /\ dir \in Access \ {"absent", "private"}
               /\ doctor' = "lock"
               /\ UNCHANGED <<dir, marker, tainted, step, marked>>

DoctorRepairs == /\ doctor = "lock"
                 /\ IF Exposed
                    THEN doctor' = "lockmark" /\ UNCHANGED dir
                    ELSE doctor' = "idle" /\ dir' = "private"
                 /\ UNCHANGED <<marker, tainted, step, marked>>

DoctorChmods == /\ doctor = "lockchmod"
                /\ dir' = IF dir \in {"acl", "absent"} THEN dir ELSE "private"
                /\ doctor' = "idle"
                /\ UNCHANGED <<marker, tainted, step, marked>>

DoctorStops == /\ doctor # "idle" /\ doctor' = "idle"
               /\ UNCHANGED <<dir, marker, tainted, step, marked>>

Doctor == DoctorLooks \/ DoctorMarks \/ DoctorLocks \/ DoctorRepairs \/ DoctorChmods \/ DoctorStops

(* An operator changes the access; others may write while it is exposed.    *)
Operator == /\ step # "clear" /\ dir # "absent"
            /\ dir' \in Access \ {dir, "absent"}
            /\ UNCHANGED <<marker, tainted, step, marked, doctor>>

OperatorRemoves == /\ step # "clear" /\ dir # "absent"
                   /\ dir' = "absent" /\ ContentsGone
                   /\ UNCHANGED <<marker, step, marked>>

-----------------------------------------------------------------------------
(* A run never uses contents that a check has marked as exposed before the  *)
(* run began, whichever process marked them and wherever it died; they are  *)
(* removed first.                                                           *)
TaintRemembered == step = "use" => tainted # "before"
=============================================================================
