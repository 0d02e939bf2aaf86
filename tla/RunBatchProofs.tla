--------------------------- MODULE RunBatchProofs ---------------------------
(***************************************************************************)
(* Proofs about RunBatch, for any number of issues and any limits: that a  *)
(* run never uses contents that were marked before it began, and that what *)
(* it works on is in its worktree, under its lock.                         *)
(***************************************************************************)
EXTENDS RunBatch, TLAPS, FiniteSetTheorems, WellFoundedInduction

(* What the steps of securing the workspace may rely on. *)
Marked == tainted # "no" => marker /\ dir # "absent"
Seen == step \in {"assert", "repair"} /\ tainted = "before" => marked
Gone == step \in {"fresh", "clone"} => dir = "absent"
Fresh == step = "clear" => dir = "private" /\ tainted = "no"
NotLooking == step \in {"clone", "clear"} => doctor \in {"idle", "markgone"}
Excluded == step # "idle" => ~Repairing

TrustInv == TrustTypeOK /\ Marked /\ Seen /\ Gone /\ Fresh /\ NotLooking /\ Excluded /\ TaintRemembered

LEMMA TrustInitInv == TrustInit => TrustInv
BY DEF TrustInit, TrustInv, TrustTypeOK, Access, Steps, DoctorSteps, Marked, Seen, Gone, Fresh,
       NotLooking, Excluded, Repairing, TaintRemembered

(* What is left of a run when it ends or dies. *)
LEMMA LeaveKeeps == ASSUME TrustInv, Leave, UNCHANGED <<dir, marker, tainted, marked, doctor>> PROVE TrustInv'
BY DEF TrustInv, TrustTypeOK, Steps, Leave, Do, Marked, Seen, Gone, Fresh, NotLooking, Excluded, TaintRemembered,
       Repairing

LEMMA LockKeeps == ASSUME TrustInv, Lock PROVE TrustInv'
BY DEF TrustInv, TrustTypeOK, Steps, Lock, Do, Marked, Seen, Gone, Fresh, NotLooking, Excluded, TaintRemembered,
       Repairing

LEMMA SecuringKeeps == ASSUME TrustInv, Securing PROVE TrustInv'
<1> USE DEF TrustInv, TrustTypeOK, Access, Steps, DoctorSteps, Do, Leave, Marked, Seen, Gone, Fresh, NotLooking,
            Excluded, TaintRemembered, Repairing
<1>1. CASE Look
  BY <1>1 DEF Look
<1>2. CASE ClearFresh
  BY <1>2 DEF ClearFresh
<1>3. CASE ReadMarker
  BY <1>3 DEF ReadMarker
<1>4. CASE Assert
  BY <1>4 DEF Assert
<1>5. CASE Repair
  BY <1>5 DEF Repair, Exposed
<1>6. CASE MarkExposed
  BY <1>6 DEF MarkExposed, Marking
<1>7. CASE Chmod
  BY <1>7 DEF Chmod
<1>8. CASE Ensure
  BY <1>8 DEF Ensure, Exposed
<1>9. CASE Remove
  BY <1>9 DEF Remove, ContentsGone
<1>10. CASE Clone
  BY <1>10 DEF Clone
<1>11. CASE ClearMarker
  BY <1>11 DEF ClearMarker
<1> QED
  BY <1>1, <1>2, <1>3, <1>4, <1>5, <1>6, <1>7, <1>8, <1>9, <1>10, <1>11 DEF Securing

(* doctor and operators, who do not know what the run is about to do. *)
LEMMA AroundKeeps == ASSUME TrustInv, step # "use", Doctor \/ Operator \/ OperatorRemoves PROVE TrustInv'
<1> USE DEF TrustInv, TrustTypeOK, Access, Steps, DoctorSteps, Marked, Seen, Gone, Fresh, NotLooking,
            Excluded, TaintRemembered, Repairing
<1>1. CASE DoctorLooks
  BY <1>1 DEF DoctorLooks, Exposed
<1>2. CASE DoctorMarks
  BY <1>2 DEF DoctorMarks, Marking
<1>3. CASE DoctorLocks
  BY <1>3 DEF DoctorLocks
<1>4. CASE DoctorRepairs
  BY <1>4 DEF DoctorRepairs, Exposed
<1>5. CASE DoctorChmods
  BY <1>5 DEF DoctorChmods
<1>6. CASE DoctorStops
  BY <1>6 DEF DoctorStops
<1>7. CASE Operator
  BY <1>7 DEF Operator
<1>8. CASE OperatorRemoves
  BY <1>8 DEF OperatorRemoves, ContentsGone
<1> QED
  BY <1>1, <1>2, <1>3, <1>4, <1>5, <1>6, <1>7, <1>8 DEF Doctor

-----------------------------------------------------------------------------
(* The phases of the run, and its lock. *)
Outcomes == work \in [Issue -> {"none", "working", "done", "threw"}]
Idle == pc # "work" => \A i \in Issue : work[i] # "working"
Uses == pc # "off" => step = "use"
Holds == held = (step # "idle")

BatchInv == TrustInv /\ Outcomes /\ Idle /\ Uses /\ Holds /\ WorkCovered

(* Work on no issue that is not worked on already, in any other phase. *)
LEMMA PhaseKeeps ==
  ASSUME BatchInv, UNCHANGED trust, pc # "off",
         work' \in [Issue -> {"none", "working", "done", "threw"}],
         \A i \in Issue : work'[i] = "working" => work[i] = "working",
         pc' # "work" => \A i \in Issue : work[i] # "working",
         pc = "work" => worktree' = worktree,
         UNCHANGED held
  PROVE  BatchInv'
<1>1. TrustInv' /\ Uses' /\ Holds'
  BY DEF BatchInv, trust, TrustInv, TrustTypeOK, Marked, Seen, Gone, Fresh, NotLooking, Excluded, Repairing,
         TaintRemembered, Uses, Holds
<1>2. Outcomes' /\ Idle'
  BY DEF Outcomes, Idle
<1>3. WorkCovered'
  BY DEF BatchInv, WorkCovered, Idle
<1> QED
  BY <1>1, <1>2, <1>3 DEF BatchInv

LEMMA OverKeeps == ASSUME BatchInv, Over PROVE BatchInv'
<1>1. TrustInv'
  BY LeaveKeeps DEF BatchInv, Over
<1> QED
  BY <1>1 DEF BatchInv, Over, Goto, Leave, Do, Outcomes, Idle, Uses, Holds, WorkCovered

LEMMA OutsideKeeps == ASSUME BatchInv, Acquire \/ Secure \/ Around \/ Enter PROVE BatchInv'
<1>1. CASE Acquire
  <2>1. TrustInv'
    BY <1>1, LockKeeps DEF BatchInv, Acquire
  <2> QED
    BY <1>1, <2>1 DEF Acquire, Lock, Do, BatchInv, Outcomes, Idle, Uses, Holds, WorkCovered
<1>2. CASE Secure
  <2>1. TrustInv'
    BY <1>2, SecuringKeeps, LeaveKeeps DEF BatchInv, Secure, Stop
  <2>2. step # "use"
    BY <1>2 DEF Secure, Securing, Stop, Look, ClearFresh, ReadMarker, Assert, Repair, MarkExposed, Chmod, Ensure,
                Remove, Clone, ClearMarker
  <2> QED
    BY <1>2, <2>1, <2>2 DEF Secure, BatchInv, Outcomes, Idle, Uses, Holds, WorkCovered
<1>3. CASE Around
  <2>1. TrustInv' /\ step' = step
    BY <1>3, AroundKeeps DEF BatchInv, Around, Doctor, DoctorLooks, DoctorMarks, DoctorLocks, DoctorRepairs,
                             DoctorChmods, DoctorStops, Operator, OperatorRemoves
  <2> QED
    BY <1>3, <2>1 DEF Around, batch, BatchInv, Outcomes, Idle, Uses, Holds, WorkCovered
<1>4. CASE Enter
  <2>1. TrustInv'
    BY <1>4 DEF Enter, BatchInv, trust, TrustInv, TrustTypeOK, Marked, Seen, Gone, Fresh, NotLooking, Excluded,
                Repairing, TaintRemembered
  <2> QED
    BY <1>4, <2>1 DEF Enter, Goto, trust, BatchInv, Outcomes, Idle, Uses, Holds, WorkCovered
<1> QED
  BY <1>1, <1>2, <1>3, <1>4

(* The steps before the work and after it. *)
Sequential == \/ List \/ Reconciled \/ Pulls \/ Select \/ Wip \/ Intake \/ Prepare \/ BaseFails \/ WorktreeFails
              \/ Cleaned \/ Throws
              \/ \E i \in Issue : Reconcile(i) \/ CreateWorktree(i) \/ Recover(i) \/ Remove1(i)

LEMMA SequentialKeeps == ASSUME BatchInv, Sequential PROVE BatchInv'
<1>1. /\ pc \notin {"off", "work"} /\ pc' # "work" /\ UNCHANGED <<trust, work, held>>
  BY DEF Sequential, List, Reconciled, Pulls, Select, Wip, Intake, Prepare, BaseFails, WorktreeFails, Cleaned,
         Throws, Reconcile, CreateWorktree, Recover, Remove1, NextUp, Goto
<1>2. Outcomes /\ \A i \in Issue : work[i] # "working"
  BY <1>1 DEF BatchInv, Idle
<1> QED
  BY <1>1, <1>2, PhaseKeeps DEF Outcomes

(* Work begins where there is a worktree. *)
LEMMA WorkKeeps == ASSUME BatchInv, Work PROVE BatchInv'
<1>1. TrustInv' /\ Uses' /\ Holds' /\ step = "use"
  BY DEF Work, Goto, BatchInv, trust, TrustInv, TrustTypeOK, Marked, Seen, Gone, Fresh, NotLooking, Excluded,
         Repairing, TaintRemembered, Uses, Holds
<1>2. Outcomes' /\ Idle'
  BY DEF Work, Goto, Outcomes, Idle
<1>3. WorkCovered'
  BY <1>1 DEF Work, WorkCovered, BatchInv, Holds
<1> QED
  BY <1>1, <1>2, <1>3 DEF BatchInv

LEMMA WorkingKeeps ==
  ASSUME BatchInv,
         \/ Settle
         \/ \E i \in Issue : Claim(i) \/ Delivered(i) \/ Landed(i) \/ Fixed(i) \/ Undelivered(i) \/ Threw(i)
  PROVE  BatchInv'
<1>1. pc = "work" /\ UNCHANGED <<trust, worktree, held>>
  BY DEF Settle, Claim, Delivered, Landed, Fixed, Undelivered, Threw, Working, Outcome
<1>2. CASE Settle
  BY <1>1, <1>2, PhaseKeeps DEF Settle, AllSettled, Goto, BatchInv, Outcomes
<1>3. CASE \E i \in Issue : Claim(i) \/ Delivered(i) \/ Landed(i) \/ Fixed(i) \/ Undelivered(i) \/ Threw(i)
  <2>1. PICK i \in Issue : \/ work' = work
                           \/ work' = [work EXCEPT ![i] = "done"] \/ work' = [work EXCEPT ![i] = "threw"]
    BY <1>3 DEF Claim, Delivered, Landed, Fixed, Undelivered, Threw, Outcome
  <2>2. /\ work' \in [Issue -> {"none", "working", "done", "threw"}]
        /\ \A j \in Issue : work'[j] = "working" => work[j] = "working"
    BY <2>1 DEF BatchInv, Outcomes
  <2>3. pc' = pc
    BY <1>3 DEF Claim, Delivered, Landed, Fixed, Undelivered, Threw, Outcome
  <2> QED
    BY <1>1, <2>2, <2>3, PhaseKeeps
<1> QED
  BY <1>2, <1>3

LEMMA SameBatch == ASSUME BatchInv, UNCHANGED <<trust, pc, worktree, work, held>> PROVE BatchInv'
BY DEF BatchInv, trust, TrustInv, TrustTypeOK, Marked, Seen, Gone, Fresh, NotLooking, Excluded, Repairing,
       TaintRemembered, Outcomes, Idle, Uses, Holds, WorkCovered

LEMMA HumansKeep == ASSUME BatchInv, NEW i \in Issue, Humans(i) PROVE BatchInv'
<1>1. UNCHANGED <<trust, pc, worktree, work, held>>
  BY DEF Humans, HumanMerges, HumanCloses, HumanPromotes, HumanClears, Human
<1> QED
  BY <1>1, SameBatch

LEMMA BatchInitInv == Init => BatchInv
<1> SUFFICES ASSUME Init PROVE BatchInv
  OBVIOUS
<1>1. TrustInv
  BY TrustInitInv DEF Init
<1> QED
  BY <1>1 DEF Init, TrustInit, BatchInv, Outcomes, Idle, Uses, Holds, WorkCovered

LEMMA BatchNextInv == BatchInv /\ [Next]_vars => BatchInv'
<1> SUFFICES ASSUME BatchInv, [Next]_vars PROVE BatchInv'
  OBVIOUS
<1>1. CASE Acquire \/ Secure \/ Around \/ Enter
  BY <1>1, OutsideKeeps
<1>2. CASE Refuse \/ Summary \/ Crash
  BY <1>2, OverKeeps DEF Refuse, Summary, Crash
<1>3. CASE Sequential
  BY <1>3, SequentialKeeps
<1>4. CASE Work
  BY <1>4, WorkKeeps
<1>5. CASE \/ Settle
           \/ \E i \in Issue : Claim(i) \/ Delivered(i) \/ Landed(i) \/ Fixed(i) \/ Undelivered(i) \/ Threw(i)
  BY <1>5, WorkingKeeps
<1>6. CASE \E i \in Issue : Humans(i)
  BY <1>6, HumansKeep
<1>7. CASE UNCHANGED vars
  BY <1>7, SameBatch DEF vars, batch
<1> QED
  BY <1>1, <1>2, <1>3, <1>4, <1>5, <1>6, <1>7 DEF Next, OnIssue, Sequential

(* A run never uses contents that were marked as exposed before it began,   *)
(* for every interleaving with doctor, operators and deaths                 *)
(* (prepareTrustedWorkspace and doctor's repair of the directory).          *)
THEOREM MarkIsHeeded == Spec => []TaintRemembered
<1>1. BatchInv => TaintRemembered
  BY DEF BatchInv, TrustInv
<1> QED
  BY <1>1, BatchInitInv, BatchNextInv, PTL DEF Spec

(* Whatever is worked on is in a worktree of the run that holds the lock,   *)
(* for every number of issues (Promise.allSettled in runKaizen).            *)
THEOREM WorkIsCovered == Spec => []WorkCovered
<1>1. BatchInv => WorkCovered
  BY DEF BatchInv
<1> QED
  BY <1>1, BatchInitInv, BatchNextInv, PTL DEF Spec

-----------------------------------------------------------------------------
LEMMA IssueSets ==
  /\ \A s \in SUBSET Issue : IsFiniteSet(s) /\ Cardinality(s) \in Nat
  /\ \A s \in SUBSET Issue : \A t \in SUBSET s : Cardinality(t) <= Cardinality(s)
<1>1. IsFiniteSet(Issue)
  BY BatchAssumption, FS_Interval DEF Issue
<1>2. \A s \in SUBSET Issue : IsFiniteSet(s)
  BY <1>1, FS_Subset
<1> QED
  BY <1>2, FS_Subset, FS_CardinalityType

(* A set of issues that is not empty has a last one. *)
LEMMA LastIssue ==
  ASSUME NEW s \in SUBSET Issue, s # {}
  PROVE  \E m \in s : \A j \in s : j <= m
<1> DEFINE From(i) == {j \in s : i <= j}
           T == {From(i) : i \in s}
<1>1. T \subseteq FiniteSubsetsOf(Issue) /\ T # {}
  BY IssueSets DEF FiniteSubsetsOf
<1>2. PICK x \in T : \A y \in T : <<y, x>> \notin StrictSubsetOrdering(Issue)
  <2>1. IsWellFoundedOn(StrictSubsetOrdering(Issue), FiniteSubsetsOf(Issue))
    BY FS_StrictSubsetOrderingWellFounded
  <2> HIDE DEF T
  <2> QED
    BY <1>1, <2>1, WFMin
<1>3. PICK m \in s : x = From(m)
  OBVIOUS
<1>4. ASSUME NEW j \in s PROVE j <= m
  <2>1. j \in Nat /\ m \in Nat /\ \A k \in s : k \in Nat
    BY DEF Issue
  <2> SUFFICES ASSUME m < j PROVE FALSE
    BY <2>1
  <2>2. From(j) \subseteq From(m) /\ From(j) # From(m)
    <3>1. \A k \in s : j <= k => m <= k
      BY <2>1
    <3>2. m \in From(m) /\ ~(j <= m)
      BY <2>1
    <3> QED
      BY <3>1, <3>2
  <2>3. <<From(j), x>> \in StrictSubsetOrdering(Issue)
    BY <1>3, <2>2 DEF StrictSubsetOrdering
  <2> QED
    BY <1>2, <2>3
<1> QED
  BY <1>4

(* The first k are at most k. *)
LEMMA FirstBounded ==
  ASSUME NEW s \in SUBSET Issue, NEW k \in Nat
  PROVE  First(k, s) \subseteq s /\ Cardinality(First(k, s)) <= k
<1> DEFINE F == First(k, s)
<1>1. F \subseteq s
  BY DEF First
<1>2. CASE F = {}
  BY <1>2, FS_EmptySet
<1>3. CASE F # {}
  <2>1. PICK m \in F : \A j \in F : j <= m
    BY <1>1, <1>3, LastIssue
  <2> DEFINE before == {j \in s : j < m}
  <2>2. before \in SUBSET Issue /\ Cardinality(before) < k
    BY <2>1 DEF First
  <2>3. F \ {m} \subseteq before
    <3> SUFFICES ASSUME NEW j \in F, j # m PROVE j \in before
      OBVIOUS
    <3>1. j \in s /\ m \in s /\ j <= m
      BY <1>1, <2>1
    <3> HIDE DEF F
    <3>2. j \in Nat /\ m \in Nat
      BY <3>1 DEF Issue
    <3> QED
      BY <3>1, <3>2
  <2>4. Cardinality(F \ {m}) <= Cardinality(before)
    BY <2>2, <2>3, IssueSets
  <2>5. Cardinality(F \ {m}) = Cardinality(F) - 1
    BY <1>1, <2>1, IssueSets, FS_RemoveElement
  <2>6. Cardinality(F) \in Nat /\ Cardinality(before) \in Nat
    BY <1>1, <2>2, IssueSets
  <2> QED
    BY <1>1, <2>2, <2>4, <2>5, <2>6
<1> QED
  BY <1>1, <1>2, <1>3

LEMMA RoomIs ==
  ASSUME NEW resumable, NEW others \in Nat, NEW rest, run.open \ Checkpoints(resumable) = rest, Cardinality(rest) \in Nat
  PROVE  /\ Room(others, resumable) = IF others + Cardinality(rest) < MaxOpen
                                      THEN MaxOpen - (others + Cardinality(rest)) ELSE 0
         /\ Room(others, resumable) \in Nat
<1>1. Room(others, resumable) = IF others + Cardinality(rest) < MaxOpen
                                THEN MaxOpen - (others + Cardinality(rest)) ELSE 0
  BY DEF Room
<1> QED
  BY <1>1, BatchAssumption

(* What a selection within the limit may add to the pull requests that were *)
(* listed: nothing when they have reached it already.                       *)
New(others, sel, resumable) == Within(Room(others, resumable), sel, resumable) \ resumable

LEMMA RoomSuffices ==
  ASSUME NEW sel \in SUBSET Issue, NEW resumable \in SUBSET sel, NEW others \in Nat, NEW pulls \in SUBSET run.open,
         run.open \in SUBSET Issue, run.ready \in SUBSET Issue, sel \cap run.ready = {},
         New(others, sel, resumable) # {}
  PROVE  Cardinality(New(others, sel, resumable) \cup (pulls \ resumable)) <= MaxOpen
<1> DEFINE new == New(others, sel, resumable)
           room == Room(others, resumable)
           rest == run.open \ resumable
           count == others + Cardinality(rest)
<1>1. rest \in SUBSET Issue /\ Cardinality(rest) \in Nat /\ pulls \ resumable \in SUBSET rest
  BY IssueSets
<1>2. run.open \ Checkpoints(resumable) = rest
  BY DEF Checkpoints
<1>3. room = (IF count < MaxOpen THEN MaxOpen - count ELSE 0) /\ room \in Nat
  BY <1>1, <1>2, RoomIs
<1> HIDE DEF room
<1>4. new \in SUBSET sel /\ Cardinality(new) <= room /\ Cardinality(new) \in Nat
  <2>1. CASE Cardinality(sel) <= room
    <3>1. new \in SUBSET sel
      BY <2>1 DEF Within, room, New
    <3> QED
      BY <1>3, <2>1, <3>1, IssueSets
  <2>2. CASE ~(Cardinality(sel) <= room)
    <3>1. new = First(room, sel \ resumable) \ resumable
      BY <2>2 DEF Within, room, New
    <3>2. /\ First(room, sel \ resumable) \in SUBSET (sel \ resumable)
          /\ Cardinality(First(room, sel \ resumable)) <= room
      BY <1>3, FirstBounded
    <3>3. new = First(room, sel \ resumable)
      BY <3>1, <3>2
    <3> QED
      BY <3>2, <3>3, IssueSets
  <2> QED
    BY <2>1, <2>2
<1>5. Cardinality(new) # 0
  BY <1>4, IssueSets, FS_EmptySet
<1>6. Cardinality(new \cup rest) <= Cardinality(new) + Cardinality(rest)
  <2>1. IsFiniteSet(new) /\ IsFiniteSet(rest) /\ new \cap rest \in SUBSET Issue
    BY <1>1, <1>4, IssueSets
  <2>2. Cardinality(new \cap rest) \in Nat
    BY <2>1, IssueSets
  <2>3. Cardinality(new \cup rest) = Cardinality(new) + Cardinality(rest) - Cardinality(new \cap rest)
    BY <2>1, FS_Union
  <2> QED
    BY <1>1, <1>4, <2>2, <2>3
<1>7. /\ Cardinality(new \cup (pulls \ resumable)) <= Cardinality(new \cup rest)
      /\ Cardinality(new \cup (pulls \ resumable)) \in Nat /\ Cardinality(new \cup rest) \in Nat
  <2>1. new \cup rest \in SUBSET Issue /\ new \cup (pulls \ resumable) \in SUBSET (new \cup rest)
    BY <1>1, <1>4
  <2> QED
    BY <2>1, IssueSets
<1> HIDE DEF rest
<1> QED
  BY <1>1, <1>3, <1>4, <1>5, <1>6, <1>7, BatchAssumption

-----------------------------------------------------------------------------
(* What has been selected stays within the limit. *)
Chosen == {"wip", "intake", "verifier", "base", "worktrees", "work"}
Pending == NewWork \cup (HasPull({"draft", "ready"}) \ run.resumed)

Typed == run \in Runs /\ issue \in [Issue -> IssueStates] /\ saved \in SUBSET Issue
Listed == pc = "select" /\ run.auto => HasPull({"draft", "ready"}) \subseteq run.open
Limited == pc \in Chosen /\ run.auto /\ NewWork # {} => Cardinality(Pending) <= MaxOpen
Placed == /\ pc \notin {"worktrees", "work", "cleanup", "summary"} => worktree = {}
          /\ pc \in {"worktrees", "work"} => worktree \subseteq run.sel
          /\ pc = "worktrees" => run.todo \subseteq run.sel

LimitInv == BatchInv /\ Typed /\ Listed /\ Limited /\ Placed

(* The selection shrinks, or nothing is selected any more, and pull         *)
(* requests are opened only for what is selected.                           *)
LEMMA Shrinks ==
  ASSUME Typed, Limited, Typed', pc \in Chosen, run'.auto => run.auto, NewWork' \subseteq NewWork,
         Pending' \subseteq Pending
  PROVE  Limited'
<1> SUFFICES ASSUME run'.auto, NewWork' # {} PROVE Cardinality(Pending)' <= MaxOpen
  BY DEF Limited
<1>1. Cardinality(Pending) <= MaxOpen
  BY DEF Limited
<1>2. Pending \in SUBSET Issue /\ Pending' \in SUBSET Pending
  BY DEF Pending, NewWork, HasPull, Typed, Runs
<1>3. Cardinality(Pending') <= Cardinality(Pending) /\ Cardinality(Pending) \in Nat /\ Cardinality(Pending') \in Nat
  BY <1>2, IssueSets
<1> QED
  BY <1>1, <1>3, BatchAssumption

LEMMA NoRunTyped == NoRun \in Runs /\ NoRun.sel = {} /\ NoRun.resumed = {} /\ NoRun.auto = FALSE
BY DEF NoRun, Runs

(* A run that is given up has nothing selected. *)
LEMMA GivenUp ==
  ASSUME LimitInv, run' = NoRun, UNCHANGED <<issue, saved>>,
         \/ pc' = "off" /\ worktree' = {}
         \/ pc' \in {"cleanup", "summary"}
  PROVE  Typed' /\ Listed' /\ Limited' /\ Placed'
BY NoRunTyped DEF LimitInv, Typed, Listed, Limited, Placed, NewWork, Chosen

LEMMA SameLimit ==
  ASSUME LimitInv, UNCHANGED <<issue, saved, pc, run, worktree>>
  PROVE  Typed' /\ Listed' /\ Limited' /\ Placed'
BY DEF LimitInv, Typed, Listed, Limited, Placed, Pending, NewWork, HasPull

(* Before the selection. *)
LEMMA BeforeKeeps ==
  ASSUME LimitInv, Enter \/ List \/ Reconciled \/ Pulls \/ (\E i \in Issue : Reconcile(i))
  PROVE  Typed' /\ Listed' /\ Limited' /\ Placed'
<1> USE DEF LimitInv, Typed, Runs, Goto
<1>1. CASE Enter
  BY <1>1 DEF Enter, Listed, Limited, Placed, Chosen
<1>2. CASE List
  BY <1>2 DEF List, Listed, Limited, Placed, Chosen
<1>3. CASE Reconciled
  BY <1>3 DEF Reconciled, Listed, Limited, Placed, Chosen
<1>4. CASE Pulls
  <2>1. pc' = "select" /\ worktree' = worktree /\ UNCHANGED <<issue, saved>>
    BY <1>4 DEF Pulls
  <2>2. run' \in Runs /\ run'.auto = run.auto
    <3>1. \/ run' = run
          \/ run' = [run EXCEPT !.open = HasPull({"draft", "ready"}), !.ready = HasPull({"ready"})]
      BY <1>4 DEF Pulls
    <3>2. HasPull({"draft", "ready"}) \in SUBSET Issue /\ HasPull({"ready"}) \in SUBSET Issue
      BY DEF HasPull
    <3> QED
      BY <3>1, <3>2
  <2>3. run.auto => run'.open = HasPull({"draft", "ready"})
    BY <1>4 DEF Pulls
  <2>4. Listed'
    BY <2>1, <2>2, <2>3 DEF Listed, HasPull
  <2> QED
    BY <1>4, <2>1, <2>2, <2>4 DEF Pulls, Limited, Placed, Chosen
<1>5. CASE \E i \in Issue : Reconcile(i)
  <2>1. PICK i \in Issue : Reconcile(i)
    BY <1>5
  <2>2. pc = "reconcile" /\ UNCHANGED <<saved, pc, worktree>>
    BY <2>1 DEF Reconcile
  <2>3. run' \in Runs
    <3>1. \/ run' = [run EXCEPT !.todo = run.todo \ {i}, !.sel = run.sel \ {i}]
          \/ run' = [run EXCEPT !.todo = run.todo \ {i}]
      BY <2>1 DEF Reconcile
    <3>2. run.todo \ {i} \in SUBSET Issue /\ run.sel \ {i} \in SUBSET Issue
      OBVIOUS
    <3> QED
      BY <3>1, <3>2
  <2>4. issue' \in [Issue -> IssueStates]
    <3>1. /\ [issue[i] EXCEPT !.open = FALSE] \in IssueStates
          /\ [issue[i] EXCEPT !.open = FALSE, !.label = "none"] \in IssueStates
      BY DEF IssueStates
    <3>2. \/ issue' = issue
          \/ issue' = [issue EXCEPT ![i] = [issue[i] EXCEPT !.open = FALSE]]
          \/ issue' = [issue EXCEPT ![i] = [issue[i] EXCEPT !.open = FALSE, !.label = "none"]]
      BY <2>1 DEF Reconcile
    <3> QED
      BY <3>1, <3>2
  <2> QED
    BY <2>2, <2>3, <2>4 DEF Listed, Limited, Placed, Chosen
<1> QED
  BY <1>1, <1>2, <1>3, <1>4, <1>5

LEMMA SelectKeeps == ASSUME LimitInv, Select PROVE Typed' /\ Listed' /\ Limited' /\ Placed'
<1>1. pc = "select" /\ pc' = "wip" /\ UNCHANGED <<issue, saved, worktree>>
  BY DEF Select, Goto
<1>2. PICK authorized \in SUBSET run.sel, others \in 0 .. 1 :
        LET sel == IF run.auto THEN First(MaxIssues, authorized \ run.ready) ELSE authorized
            resumable == sel \cap saved
        IN run' = [run EXCEPT !.resumed = resumable,
                              !.sel = IF run.auto THEN Within(Room(others, resumable), sel, resumable) ELSE sel,
                              !.open = {}]
  BY DEF Select, Authorized
<1> DEFINE sel == IF run.auto THEN First(MaxIssues, authorized \ run.ready) ELSE authorized
           resumable == sel \cap saved
           chosen == IF run.auto THEN Within(Room(others, resumable), sel, resumable) ELSE sel
<1>3. sel \in SUBSET Issue /\ (run.auto => sel \cap run.ready = {})
  BY DEF LimitInv, Typed, Runs, First
<1>4. chosen \in SUBSET sel
  <2>1. Within(Room(others, resumable), sel, resumable) \in SUBSET sel
    BY DEF Within, First
  <2> QED
    BY <2>1
<1>5. run' = [run EXCEPT !.resumed = resumable, !.sel = chosen, !.open = {}]
  BY <1>2
<1> HIDE DEF sel, chosen
<1>6. run' \in Runs /\ run'.sel = chosen /\ run'.resumed = resumable /\ run'.auto = run.auto
  <2>1. resumable \in SUBSET Issue /\ chosen \in SUBSET Issue
    BY <1>3, <1>4
  <2> QED
    BY <1>5, <2>1 DEF LimitInv, Typed, Runs
<1>7. Limited'
  <2> SUFFICES ASSUME run.auto, NewWork' # {} PROVE Cardinality(Pending)' <= MaxOpen
    BY <1>6 DEF Limited
  <2> DEFINE new == chosen \ resumable
             pulls == HasPull({"draft", "ready"})
  <2>1. NewWork' = new /\ Pending' = new \cup (pulls \ resumable)
    BY <1>1, <1>6 DEF NewWork, Pending, HasPull
  <2>2. pulls \in SUBSET run.open /\ run.open \in SUBSET Issue /\ run.ready \in SUBSET Issue
    BY <1>1 DEF LimitInv, Listed, Typed, Runs
  <2>3. new = New(others, sel, resumable)
    BY DEF chosen, New
  <2>4. resumable \in SUBSET sel /\ others \in Nat /\ new # {} /\ sel \cap run.ready = {}
    BY <1>3, <2>1
  <2> HIDE DEF resumable, pulls, new
  <2>5. Cardinality(new \cup (pulls \ resumable)) <= MaxOpen
    <3>1. sel \in SUBSET Issue
      BY <1>3
    <3>2. resumable \in SUBSET sel
      BY <2>4
    <3>3. others \in Nat
      BY <2>4
    <3>4. pulls \in SUBSET run.open
      BY <2>2
    <3>5. run.open \in SUBSET Issue
      BY <2>2
    <3>6. run.ready \in SUBSET Issue
      BY <2>2
    <3>7. sel \cap run.ready = {}
      BY <2>4
    <3>8. new # {}
      BY <2>4
    <3> QED
      BY <3>1, <3>2, <3>3, <3>4, <3>5, <3>6, <3>7, <3>8, <2>3, RoomSuffices
  <2> QED
    BY <2>1, <2>5
<1> QED
  BY <1>1, <1>6, <1>7 DEF LimitInv, Typed, Listed, Placed, Chosen

(* A step that changes what is selected by leaving some of it out, and of   *)
(* the issues neither the number nor the pull requests of the rest.         *)
LEMMA Narrows ==
  ASSUME LimitInv, Typed', pc \in Chosen, pc' # "select", run'.auto = run.auto, run'.resumed = run.resumed,
         run'.sel \subseteq run.sel, \A i \in Issue : issue'[i].pr = issue[i].pr
  PROVE  Limited' /\ Listed'
<1>1. NewWork' \subseteq NewWork /\ Pending' \subseteq Pending
  BY DEF NewWork, Pending, HasPull
<1> QED
  BY <1>1, Shrinks DEF LimitInv, Listed

(* Labels only. *)
LEMMA RelabelledType ==
  ASSUME Typed, NEW s \in SUBSET Issue, NEW label \in {"none", "claim", "terminal"},
         issue' = Relabelled(s, label)
  PROVE  /\ issue' \in [Issue -> IssueStates]
         /\ \A i \in Issue : issue'[i].pr = issue[i].pr
<1>1. \A i \in Issue : /\ [issue[i] EXCEPT !.label = label] \in IssueStates
                       /\ [issue[i] EXCEPT !.label = label].pr = issue[i].pr
  BY DEF Typed, IssueStates
<1> QED
  BY <1>1 DEF Relabelled, Typed

LEMMA WipKeeps == ASSUME LimitInv, Wip PROVE Typed' /\ Listed' /\ Limited' /\ Placed'
<1>1. pc = "wip" /\ pc' = "intake" /\ UNCHANGED <<issue, saved, worktree>>
  BY DEF Wip, Goto
<1>2. /\ run' \in Runs /\ run'.auto = run.auto /\ run'.resumed = run.resumed /\ run'.sel \subseteq run.sel
  <2>1. run' = run \/ run' = [run EXCEPT !.sel = run.sel \cap run.resumed]
    BY DEF Wip
  <2> QED
    BY <2>1 DEF LimitInv, Typed, Runs
<1> QED
  BY <1>1, <1>2, Narrows DEF Chosen, LimitInv, Typed, Placed

LEMMA IntakeKeeps == ASSUME LimitInv, Intake PROVE Typed' /\ Listed' /\ Limited' /\ Placed'
<1>1. pc = "intake" /\ UNCHANGED <<saved, worktree>>
  BY DEF Intake
<1>2. PICK refused \in Refusals :
        /\ issue' = Relabelled(refused, "terminal")
        /\ LET sel == run.sel \ (refused \cup run.ready) IN
           \/ /\ Goto(IF sel = {} THEN "summary" ELSE "verifier")
              /\ run' = [run EXCEPT !.sel = sel, !.ready = {}]
           \/ Goto("summary") /\ run' = NoRun
  BY DEF Intake
<1>3. issue' \in [Issue -> IssueStates] /\ \A i \in Issue : issue'[i].pr = issue[i].pr
  <2>1. refused \in SUBSET Issue
    BY DEF Refusals, LimitInv, Typed, Runs
  <2> QED
    BY <1>2, <2>1, RelabelledType DEF LimitInv
<1>4. CASE run' = NoRun /\ pc' = "summary"
  BY <1>1, <1>3, <1>4, NoRunTyped DEF LimitInv, Typed, Listed, Limited, Placed, Chosen
<1>5. CASE pc' \in {"summary", "verifier"} /\ run' = [run EXCEPT !.sel = run.sel \ (refused \cup run.ready), !.ready = {}]
  <2>1. /\ run' \in Runs /\ run'.auto = run.auto /\ run'.resumed = run.resumed /\ run'.sel \subseteq run.sel
    <3>1. run.sel \ (refused \cup run.ready) \in SUBSET Issue
      BY DEF LimitInv, Typed, Runs
    <3> QED
      BY <1>5, <3>1 DEF LimitInv, Typed, Runs
  <2> QED
    BY <1>1, <1>3, <1>5, <2>1, Narrows DEF Chosen, LimitInv, Typed, Placed
<1> QED
  BY <1>2, <1>4, <1>5 DEF Goto

LEMMA PrepareKeeps == ASSUME LimitInv, Prepare PROVE Typed' /\ Listed' /\ Limited' /\ Placed'
<1>1. /\ UNCHANGED <<issue, saved, worktree>>
      /\ \/ pc = "verifier" /\ pc' = "base" /\ run' = run
         \/ pc = "base" /\ pc' = "worktrees" /\ run' = [run EXCEPT !.todo = run.sel]
  BY DEF Prepare, Goto
<1>2. /\ run' \in Runs /\ run'.auto = run.auto /\ run'.resumed = run.resumed /\ run'.sel = run.sel
      /\ pc' = "worktrees" => run'.todo = run.sel
  BY <1>1 DEF LimitInv, Typed, Runs
<1> QED
  BY <1>1, <1>2, Narrows DEF Chosen, LimitInv, Typed, Placed

LEMMA WorktreeKeeps ==
  ASSUME LimitInv, NEW i \in Issue, CreateWorktree(i) \/ Recover(i)
  PROVE  Typed' /\ Listed' /\ Limited' /\ Placed'
<1>1. /\ pc = "worktrees" /\ UNCHANGED <<saved, pc>> /\ run' = [run EXCEPT !.todo = run.todo \ {i}]
      /\ issue' = issue \/ issue' = Relabelled({i}, "terminal")
      /\ worktree' \subseteq worktree \cup {i}
  BY DEF CreateWorktree, Recover, NextUp
<1>2. i \in run.todo
  BY DEF CreateWorktree, Recover, NextUp, First
<1>3. issue' \in [Issue -> IssueStates] /\ \A j \in Issue : issue'[j].pr = issue[j].pr
  BY <1>1, RelabelledType DEF LimitInv, Typed
<1>4. /\ run' \in Runs /\ run'.auto = run.auto /\ run'.resumed = run.resumed /\ run'.sel = run.sel
      /\ run'.todo = run.todo \ {i}
  BY <1>1 DEF LimitInv, Typed, Runs
<1>5. Placed'
  BY <1>1, <1>2, <1>4 DEF LimitInv, Placed
<1> QED
  BY <1>1, <1>3, <1>4, <1>5, Narrows DEF Chosen, LimitInv, Typed

LEMMA StartKeeps == ASSUME LimitInv, Work PROVE Typed' /\ Listed' /\ Limited' /\ Placed'
<1>1. pc = "worktrees" /\ pc' = "work" /\ UNCHANGED <<issue, saved, run, worktree>>
  BY DEF Work, Goto
<1> QED
  BY <1>1, Narrows DEF Chosen, LimitInv, Typed, Placed

(* What the work on an issue opens is within what was selected. *)
LEMMA OutcomeKeeps ==
  ASSUME LimitInv, NEW i \in Issue, work[i] = "working", pc = "work", UNCHANGED <<pc, run, worktree>>,
         NEW new \in IssueStates, issue' = [issue EXCEPT ![i] = new], saved' \in {saved, saved \cup {i}, saved \ {i}}
  PROVE  Typed' /\ Listed' /\ Limited' /\ Placed'
<1>1. i \in run.sel
  BY DEF LimitInv, BatchInv, WorkCovered, Placed
<1>2. Typed'
  BY DEF LimitInv, Typed
<1>3. \A j \in Issue \ {i} : issue'[j] = issue[j]
  BY DEF LimitInv, Typed
<1>4. NewWork' = NewWork /\ Pending' \subseteq Pending
  BY <1>1, <1>3 DEF NewWork, Pending, HasPull
<1>5. Limited'
  BY <1>2, <1>4, Shrinks DEF LimitInv, Chosen
<1> QED
  BY <1>2, <1>5 DEF LimitInv, Listed, Placed

LEMMA WorksKeep ==
  ASSUME LimitInv, NEW i \in Issue,
         Claim(i) \/ Delivered(i) \/ Landed(i) \/ Fixed(i) \/ Undelivered(i) \/ Threw(i)
  PROVE  Typed' /\ Listed' /\ Limited' /\ Placed'
<1>1. issue[i] \in IssueStates
  BY DEF LimitInv, Typed
<1>2. pc = "work" /\ work[i] = "working" /\ UNCHANGED <<pc, run, worktree>>
  BY DEF Claim, Delivered, Landed, Fixed, Undelivered, Threw, Working, Outcome
<1>3. CASE Claim(i)
  <2>1. UNCHANGED saved /\ issue' = Relabelled({i}, "claim")
    BY <1>3 DEF Claim
  <2>2. issue' \in [Issue -> IssueStates] /\ \A j \in Issue : issue'[j].pr = issue[j].pr
    BY <2>1, RelabelledType DEF LimitInv
  <2> QED
    BY <1>2, <2>1, <2>2, Narrows DEF LimitInv, Typed, Placed, Chosen
<1>4. CASE Threw(i)
  BY <1>4, SameLimit DEF Threw
<1>5. CASE Delivered(i) \/ Landed(i) \/ Fixed(i) \/ Undelivered(i)
  <2>1. \E new \in IssueStates, resumable \in BOOLEAN : Outcome(i, new, resumable)
    <3>1. CASE Delivered(i)
      BY <1>1, <3>1 DEF Delivered, IssueStates
    <3>2. CASE Landed(i)
      BY <1>1, <3>2 DEF Landed, IssueStates
    <3>3. CASE Fixed(i)
      BY <1>1, <3>3 DEF Fixed, IssueStates
    <3>4. CASE Undelivered(i)
      <4>1. PICK label \in {"none", "terminal"} :
              \/ Outcome(i, [issue[i] EXCEPT !.label = label,
                                             !.pr = IF issue[i].pr = "ready" THEN issue[i].pr ELSE "draft"], TRUE)
              \/ Outcome(i, [issue[i] EXCEPT !.label = label], TRUE)
        BY <3>4 DEF Undelivered
      <4>2. /\ [issue[i] EXCEPT !.label = label] \in IssueStates
            /\ [issue[i] EXCEPT !.label = label,
                                !.pr = IF issue[i].pr = "ready" THEN issue[i].pr ELSE "draft"] \in IssueStates
        BY <1>1 DEF IssueStates
      <4> QED
        BY <4>1, <4>2
    <3> QED
      BY <1>5, <3>1, <3>2, <3>3, <3>4
  <2>2. PICK new \in IssueStates, resumable \in BOOLEAN : Outcome(i, new, resumable)
    BY <2>1
  <2>3. issue' = [issue EXCEPT ![i] = new] /\ saved' \in {saved, saved \cup {i}, saved \ {i}}
    BY <2>2 DEF Outcome
  <2> QED
    BY <1>2, <2>3, OutcomeKeeps
<1> QED
  BY <1>3, <1>4, <1>5

(* A person closes pull requests, or makes drafts ready. *)
LEMMA PeopleKeep == ASSUME LimitInv, NEW i \in Issue, Humans(i) PROVE Typed' /\ Listed' /\ Limited' /\ Placed'
<1>1. issue[i] \in IssueStates
  BY DEF LimitInv, Typed
<1>2. /\ UNCHANGED <<saved, pc, run, worktree>>
      /\ \E new \in IssueStates : /\ issue' = [issue EXCEPT ![i] = new]
                                  /\ new.pr \in {"draft", "ready"} => issue[i].pr \in {"draft", "ready"}
  <2>1. \E new \in IssueStates : /\ Human(i, new)
                                 /\ new.pr \in {"draft", "ready"} => issue[i].pr \in {"draft", "ready"}
    <3>1. CASE HumanMerges(i)
      <4>1. PICK open \in BOOLEAN : Human(i, [issue[i] EXCEPT !.pr = "merged", !.open = open])
        BY <1>1, <3>1 DEF HumanMerges, IssueStates
      <4>2. /\ [issue[i] EXCEPT !.pr = "merged", !.open = open] \in IssueStates
            /\ [issue[i] EXCEPT !.pr = "merged", !.open = open].pr = "merged"
        BY <1>1 DEF IssueStates
      <4> QED
        BY <4>1, <4>2
    <3>2. CASE HumanCloses(i)
      BY <1>1, <3>2 DEF HumanCloses, IssueStates
    <3>3. CASE HumanPromotes(i)
      BY <1>1, <3>3 DEF HumanPromotes, IssueStates
    <3>4. CASE HumanClears(i)
      BY <1>1, <3>4 DEF HumanClears, IssueStates
    <3> QED
      BY <3>1, <3>2, <3>3, <3>4 DEF Humans
  <2> QED
    BY <2>1 DEF Human
<1>3. Typed'
  BY <1>2 DEF LimitInv, Typed
<1>4. HasPull({"draft", "ready"})' \subseteq HasPull({"draft", "ready"})
  BY <1>2 DEF HasPull, LimitInv, Typed
<1>5. NewWork' = NewWork /\ Pending' \subseteq Pending
  BY <1>2, <1>4 DEF NewWork, Pending
<1>6. Limited'
  <2>1. CASE pc \in Chosen
    BY <1>2, <1>3, <1>5, <2>1, Shrinks DEF LimitInv
  <2>2. CASE pc \notin Chosen
    BY <1>2, <2>2 DEF Limited
  <2> QED
    BY <2>1, <2>2
<1> QED
  BY <1>2, <1>3, <1>4, <1>6 DEF LimitInv, Listed, Placed

LEMMA EndKeeps ==
  ASSUME LimitInv, Refuse \/ BaseFails \/ WorktreeFails \/ Settle \/ Summary \/ Throws \/ Crash
  PROVE  Typed' /\ Listed' /\ Limited' /\ Placed'
<1>1. run' = NoRun /\ UNCHANGED <<issue, saved>> /\ (pc' \in {"cleanup", "summary"} \/ (pc' = "off" /\ worktree' = {}))
  BY DEF Refuse, BaseFails, WorktreeFails, Settle, Summary, Throws, Crash, Over, Goto
<1> QED
  BY <1>1, GivenUp

LEMMA CleanupKeeps ==
  ASSUME LimitInv, Cleaned \/ \E i \in Issue : Remove1(i)
  PROVE  Typed' /\ Listed' /\ Limited' /\ Placed'
<1>1. UNCHANGED <<issue, saved, run>> /\ pc = "cleanup" /\ pc' \in {"cleanup", "summary"}
  BY DEF Cleaned, Remove1, Goto
<1> QED
  BY <1>1 DEF LimitInv, Typed, Listed, Limited, Placed, Chosen

LEMMA LimitInitInv == Init => LimitInv
<1> SUFFICES ASSUME Init PROVE LimitInv
  OBVIOUS
<1>1. BatchInv
  BY BatchInitInv
<1>2. Typed
  BY NoRunTyped DEF Init, Typed, IssueStates
<1> QED
  BY <1>1, <1>2 DEF Init, LimitInv, Listed, Limited, Placed, Chosen

LEMMA LimitNextInv == LimitInv /\ [Next]_vars => LimitInv'
<1> SUFFICES ASSUME LimitInv, [Next]_vars PROVE LimitInv'
  OBVIOUS
<1>1. BatchInv'
  BY BatchNextInv DEF LimitInv
<1>2. CASE Acquire \/ Secure \/ Around \/ UNCHANGED vars
  BY <1>2, SameLimit, <1>1 DEF Acquire, Secure, Around, batch, vars, LimitInv
<1>3. CASE Enter \/ List \/ Reconciled \/ Pulls \/ (\E i \in Issue : Reconcile(i))
  BY <1>1, <1>3, BeforeKeeps DEF LimitInv
<1>4. CASE Select \/ Wip \/ Intake \/ Prepare \/ Work
  BY <1>1, <1>4, SelectKeeps, WipKeeps, IntakeKeeps, PrepareKeeps, StartKeeps DEF LimitInv
<1>5. CASE Refuse \/ BaseFails \/ WorktreeFails \/ Settle \/ Summary \/ Throws \/ Crash
  BY <1>1, <1>5, EndKeeps DEF LimitInv
<1>6. CASE Cleaned \/ \E i \in Issue : Remove1(i)
  BY <1>1, <1>6, CleanupKeeps DEF LimitInv
<1>7. CASE \E i \in Issue : CreateWorktree(i) \/ Recover(i)
  BY <1>1, <1>7, WorktreeKeeps DEF LimitInv
<1>8. CASE \E i \in Issue : Claim(i) \/ Delivered(i) \/ Landed(i) \/ Fixed(i) \/ Undelivered(i) \/ Threw(i)
  BY <1>1, <1>8, WorksKeep DEF LimitInv
<1>9. CASE \E i \in Issue : Humans(i)
  BY <1>1, <1>9, PeopleKeep DEF LimitInv
<1> QED
  BY <1>2, <1>3, <1>4, <1>5, <1>6, <1>7, <1>8, <1>9 DEF Next, OnIssue

(* The work an automatic run takes on and the pull requests that are open   *)
(* when it does it are within the limit, for every limit, every number of   *)
(* issues and whatever people do in between (applyOpenPullRequestLimit).    *)
THEOREM LimitHolds == Spec => []NewWorkWithinLimit
<1>1. LimitInv => NewWorkWithinLimit
  BY DEF LimitInv, Limited, NewWorkWithinLimit, Chosen, Pending
<1> QED
  BY <1>1, LimitInitInv, LimitNextInv, PTL DEF Spec
=============================================================================
