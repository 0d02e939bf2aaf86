------------------------- MODULE IssuePipelineProofs -------------------------
(***************************************************************************)
(* The issue pipeline, proved for every bound, retry budget and attempt    *)
(* limit.  In every behaviour, whatever fails, crashes, or is done by a    *)
(* human meanwhile: the types, and the screening of forbidden paths.  In   *)
(* the behaviours without failing calls and crashes: what becomes of open  *)
(* pull requests, of the claim, of the commits of humans, and of direct    *)
(* commits.  Where nobody reopens the issue's way to another run: the      *)
(* number of its attempts.                                                 *)
(***************************************************************************)
EXTENDS IssuePipeline, TLAPS

(***************************************************************************)
(* Types.  A step that writes one record takes what it writes from         *)
(* others, so that the type invariant is not inductive by itself.  Beside  *)
(* it are needed:                                                          *)
(*   - a run has an outcome from the step on that finishes it, and not     *)
(*     before (Control): the phase saved at the end is defined;            *)
(*   - a run that speaks of its pull request has one (Control);            *)
(*   - the branch exists while the issue is worked on (Branches).          *)
(***************************************************************************)

\* The steps of a run that failed or was blocked, and those of a run without outcome.
Stopping == {"ask", "checkpoint", "look", "savepush", "savecreate", "save"}
Working == {"clear", "claim", "lookup", "build", "commit", "verify", "review", "final",
            "rebase", "land", "check", "push", "ready", "open", "progress"}

\* Where the run is, and what it knows there.
Control ==
    /\ pc \in PC /\ run \in Run
    /\ pc \in Stopping => run.outcome \in {"failed", "blocked", "infra", "recovery"}
    /\ pc \in Working => run.outcome = "none"
    /\ pc \in {"ready", "progress", "guard"} \/ run.outcome = "pr-created" => run.pr \in Pr

IssueType == [open : BOOLEAN, labels : SUBSET Label,
              counted : 0 .. MaxCount, streak : 0 .. MaxAttempts,
              results : SUBSET Pr, progress : SUBSET Pr]

\* The thread and its labels, the pull requests, the saved state, the bounds.
Records ==
    /\ issue \in IssueType
    /\ pulls \in [Pr -> PrState]
    /\ saved \in [phase : Phase, pr : MaybePr] \cup {NoFile}
    /\ faults \in 0 .. MaxFaults
    /\ crashes \in 0 .. MaxCrashes

\* Between runs nothing is in memory.
LEMMA NoRunTyped == NoRun \in Run /\ NoRun.outcome = "none"
<1>1. MaxRetries \in Nat /\ MaxAttempts \in Nat /\ MaxCount + 1 \in Nat
  BY PipelineAssumption DEF PipelineAssumption, MaxCount
<1> QED
  BY <1>1 DEF NoRun, Run, MaybePr, NoPr, Outcome, Disposition

\* The finish functions set an outcome.
LEMMA FinishTyped ==
    ASSUME Control, NEW o \in {"failed", "blocked", "infra"}, NEW d \in Disposition, Finish(o, d)
    PROVE  Control'
BY DEF Finish, Control, Run, PC, Stopping, Working, Outcome, Disposition, MaybePr, NoPr

\* finishFailed, of an issue exhausted or not.
LEMMA FailTyped == Control /\ Fail => Control'
BY FinishTyped DEF Fail, FailedDisposition, Disposition

\* The catch of processIssue, and an exception that passes it.
LEMMA ThrowTyped ==
    ASSUME Control, NEW p \in MaybePr, ThrowWith(p)
    PROVE  Control'
<1>1. CASE run.caught
  BY <1>1, NoRunTyped DEF ThrowWith, EndRun, Goto, Control, PC, Stopping, Working
<1>2. CASE ~run.caught
  <2>1. FailedDisposition \in Disposition
    BY DEF FailedDisposition, Disposition
  <2>2. /\ pc' = "checkpoint"
        /\ run' = [run EXCEPT !.caught = TRUE, !.outcome = "failed", !.pr = p,
                              !.disposition = FailedDisposition, !.lost = "no"]
    BY <1>2 DEF ThrowWith
  <2>3. run' \in Run /\ run'.outcome = "failed"
    BY <2>1, <2>2 DEF Control, Run, Outcome
  <2> QED
    BY <2>2, <2>3 DEF Control, PC, Stopping, Working
<1> QED
  BY <1>1, <1>2

\* A step to l that leaves the memory of the run alone.
LEMMA GotoTyped ==
    ASSUME Control, NEW l \in PC, Goto(l),
           l \in Stopping => run.outcome \in {"failed", "blocked", "infra", "recovery"},
           l \in Working => run.outcome = "none",
           l \in {"ready", "progress", "guard"} => run.pr \in Pr
    PROVE  Control'
BY NoRunTyped DEF Goto, Control, Stopping, Working

\* A call to GitHub: it goes on to the next step, or throws.
LEMMA CallTyped ==
    ASSUME Control, NEW l \in PC, NEW next \in PC, pc = l,
           Goto(next) \/ Throw,
           next \in Stopping => run.outcome \in {"failed", "blocked", "infra", "recovery"},
           next \in Working => run.outcome = "none",
           next \in {"ready", "progress", "guard"} => run.pr \in Pr
    PROVE  Control'
BY GotoTyped, ThrowTyped DEF Throw, MaybePr

\* Every step leaves the run at a place whose facts hold.
LEMMA StepControl ==
    ASSUME Records, Control, [Next]_vars
    PROVE  Control'
<1> USE PipelineAssumption DEF PipelineAssumption, Quiet
<1>1. CASE UNCHANGED vars
  BY <1>1 DEF vars, Control
<1>2. ASSUME NEW s \in BOOLEAN, Begin(s) \/ BeginRecovery(s) PROVE Control'
  <2>1. saved.pr \in MaybePr
    BY DEF Records, NoFile, MaybePr
  <2>2. issue.counted \in 0 .. MaxCount /\ issue.streak \in 0 .. MaxAttempts
    BY DEF Records, IssueType
  <2>3. issue.counted + 1 \in 0 .. MaxCount + 1
    BY <2>2 DEF MaxCount
  <2>4. NoPr \in MaybePr /\ {q \in Pr : IsReady(q)} \in SUBSET Pr
    BY DEF MaybePr
  <2>5. Started \in Run /\ Started.outcome = "none"
    BY <2>1, <2>2, <2>3, <2>4, NoRunTyped DEF Started, Run
  <2>6. CASE Begin(s)
    BY <2>5, <2>6 DEF Begin, Control, PC, Stopping, Working
  <2>7. CASE BeginRecovery(s)
    BY <2>5, <2>7 DEF BeginRecovery, Control, PC, Stopping, Working, Run, Disposition, Outcome
  <2> QED
    BY <1>2, <2>6, <2>7
<1>3. CASE Clear \/ Claim
  BY <1>3, CallTyped DEF Clear, Claim, Call, PC, Stopping, Working, Control
<1>4. CASE HandOff
  <2>1. run.prevPr \in Pr
    BY <1>4 DEF HandOff, Control, Run, MaybePr, NoPr
  <2> QED
    BY <1>4, <2>1 DEF HandOff, Control, PC, Stopping, Working, Run, MaybePr, Outcome
<1>5. CASE Implement
  BY <1>5, GotoTyped, FailTyped DEF Implement, Control, PC, Stopping, Working
<1>6. ASSUME Retry \/ GiveUp, pc \in Working PROVE Control'
  BY <1>6, FailTyped DEF Retry, GiveUp, Control, PC, Stopping, Working, Run
<1>7. CASE SkipBuilder \/ BuilderFixed \/ SetupFails \/ BuilderFails
  BY <1>7, <1>6, GotoTyped, FailTyped
     DEF SkipBuilder, BuilderFixed, SetupFails, BuilderFails, Control, PC, Stopping, Working
<1>8. CASE BuilderBlocked
  BY <1>8, FinishTyped DEF BuilderBlocked, BlockedDisposition, Disposition
<1>9. CASE CommitAttempt
  BY <1>9, GotoTyped, FailTyped DEF CommitAttempt, Control, PC, Stopping, Working
<1>10. CASE VerifyPasses \/ VerifyFails
  BY <1>10, <1>6, GotoTyped, FailTyped
     DEF VerifyPasses, VerifyFails, Accept, Control, PC, Stopping, Working
<1>11. CASE AlreadyFixed
  BY <1>11 DEF AlreadyFixed, Control, PC, Stopping, Working, Run, Outcome
<1>12. CASE VerifyChanges
  BY <1>12, GotoTyped, FailTyped DEF VerifyChanges, Control, PC, Stopping, Working
<1>13. CASE VerifierAccepts \/ VerifierRejects \/ VerifierErrs
  BY <1>13, <1>6, GotoTyped, FinishTyped
     DEF VerifierAccepts, VerifierRejects, VerifierErrs, Accept, Control, PC, Stopping, Working, Disposition
<1>14. CASE Publish \/ Rebase \/ RebaseFails \/ LandFails
  BY <1>14, GotoTyped, FailTyped
     DEF Publish, Rebase, RebaseFails, LandFails, Control, PC, Stopping, Working
<1>15. CASE Land
  BY <1>15 DEF Land, Control, PC, Stopping, Working, Run, Outcome
<1>16. CASE Check
  BY <1>16, ThrowTyped DEF Check, Throw, Control, PC, Stopping, Working, Run, MaybePr, Records, NoFile
<1>17. CASE Push
  BY <1>17, GotoTyped, ThrowTyped DEF Push, Throw, Control, PC, Stopping, Working, Run, MaybePr
<1>18. CASE Ready \/ ReadyFails
  BY <1>18, CallTyped, ThrowTyped
     DEF Ready, ReadyFails, Call, Throw, Control, PC, Stopping, Working, MaybePr
<1>19. CASE OpenReady
  BY <1>19, ThrowTyped DEF OpenReady, Throw, Control, PC, Stopping, Working, MaybePr, Run
<1>20. CASE Progress
  BY <1>20, CallTyped DEF Progress, Call, Control, PC, Stopping, Working
<1>21. CASE Guard
  <2>1. CASE Throw
    BY <2>1, ThrowTyped DEF Throw, MaybePr
  <2>2. ASSUME NEW d \in {"none", "blocked"}, pc' = "comment",
               run' = [run EXCEPT !.outcome = "pr-created", !.disposition = d]
        PROVE  Control'
    BY <1>21, <2>2 DEF Guard, Control, PC, Stopping, Working, Run, Outcome, Disposition
  <2> QED
    BY <1>21, <2>1, <2>2 DEF Guard
<1>22. CASE Ask
  <2>1. CASE pc = "ask" /\ pc' = "checkpoint" /\ run' = [run EXCEPT !.disposition = "blocked"]
    BY <2>1 DEF Control, PC, Stopping, Working, Run, Disposition
  <2> QED
    BY <1>22, <2>1, CallTyped DEF Ask, Call, Control, PC, Stopping, Working
<1>23. CASE Discard \/ Checkpoint
  BY <1>23, GotoTyped DEF Discard, Checkpoint, Control, PC, Stopping, Working, Run
<1>24. CASE Look
  BY <1>24, GotoTyped DEF Look, Control, PC, Stopping, Working, Run, MaybePr
<1>25. CASE SavePush \/ SaveCreate
  BY <1>25, GotoTyped DEF SavePush, SaveCreate, Control, PC, Stopping, Working, Run, MaybePr
<1>26. CASE Save
  BY <1>26, GotoTyped DEF Save, Control, PC, Stopping, Working
<1>27. CASE Comment \/ LabelOutcome \/ Unclaim \/ Close \/ Release \/ ClearOutcome
  BY <1>27, CallTyped
     DEF Comment, LabelOutcome, Unclaim, Close, Release, ClearOutcome, Call, PC, Stopping, Working
<1>28. CASE Complete \/ Crash \/ Terminate
  BY <1>28, GotoTyped DEF Complete, Crash, Terminate, EndRun, PC, Stopping, Working
<1>29. CASE HumanStep
  BY <1>29 DEF HumanStep, HumanPromotes, HumanCloses, HumanMerges, HumanPushes, HumanClears,
               OperatorUnclaims, WorkspaceRebuilt, Acts, Control
<1> QED
  BY <1>1, <1>2, <1>3, <1>4, <1>5, <1>7, <1>8, <1>9, <1>10, <1>11, <1>12, <1>13, <1>14, <1>15,
     <1>16, <1>17, <1>18, <1>19, <1>20, <1>21, <1>22, <1>23, <1>24, <1>25, <1>26, <1>27, <1>28,
     <1>29 DEF Next, RunStep, Implementation, Publication, Finishing

-----------------------------------------------------------------------------
\* Labels are added and taken away within Label.
LEMMA RelabelTyped ==
    ASSUME Records, NEW labels \in SUBSET Label, Relabel(labels)
    PROVE  issue' \in IssueType /\ UNCHANGED <<pulls, git, saved>>
BY DEF Relabel, Records, IssueType

\* applyIssueDisposition changes labels only.
LEMMA DispositionTyped ==
    ASSUME Records, NEW d \in Disposition, ApplyDisposition(d)
    PROVE  issue' \in IssueType /\ UNCHANGED <<pulls, git, saved>>
<1>1. CASE d = "keep"
  BY <1>1 DEF ApplyDisposition, Records, IssueType, world
<1>2. CASE d = "none"
  <2>1. issue.labels \ {"retryable", "blocked", "exhausted"} \in SUBSET Label
    BY DEF Records, IssueType
  <2> QED
    BY <1>2, <2>1, RelabelTyped DEF ApplyDisposition
<1>3. CASE d \notin {"keep", "none"}
  <2>1. (issue.labels \ {"retryable", "blocked", "exhausted"}) \cup {d} \in SUBSET Label
    BY <1>3 DEF Records, IssueType, Label, Disposition
  <2> QED
    BY <1>3, <2>1, RelabelTyped DEF ApplyDisposition
<1> QED
  BY <1>1, <1>2, <1>3

\* Committing whatever a worktree may hold gives a branch.
LEMMA CommitTyped ==
    ASSUME NEW c \in Content, NEW d \in Dirty
    PROVE  Commit(c, d) \in Content
BY DEF Commit, Content, Tag, Dirty

\* commitLeftovers touches the workspace, not its copy of GitHub's branch.
LEMMA LeftoversTyped ==
    ASSUME local \in Content, dirty \in Dirty, ahead \in BOOLEAN, CommitLeftovers
    PROVE  /\ local' \in Content /\ dirty' \in Dirty /\ ahead' \in BOOLEAN
           /\ UNCHANGED <<remote, tracking, behind, landed>>
BY CommitTyped DEF CommitLeftovers, Dirty

\* A result comment: the counts stay in bounds, and a pull request it names exists.
LEMMA PostedTyped ==
    ASSUME Records, Control, pc = "comment", NEW e
    PROVE  Posted(e) \in IssueType
<1>1. issue.results \cup {run.pr} \in SUBSET Pr \/ run.outcome # "pr-created"
  BY DEF Records, IssueType, Control
<1>2. /\ issue.counted \in 0 .. MaxCount /\ issue.streak \in 0 .. MaxAttempts
      /\ MaxCount \in Nat /\ MaxAttempts \in Nat
  BY PipelineAssumption DEF Records, IssueType, MaxCount, PipelineAssumption
<1>3. Posted(e).counted \in 0 .. MaxCount
  BY <1>2 DEF Records, IssueType, Posted
<1>4. Posted(e).streak \in 0 .. MaxAttempts
  BY <1>2 DEF Records, IssueType, Posted
<1>5. Posted(e).results \in SUBSET Pr
  BY <1>1 DEF Records, IssueType, Posted
<1>6. Posted(e) = [issue EXCEPT !.counted = Posted(e).counted, !.streak = Posted(e).streak,
                                !.results = Posted(e).results]
  BY DEF Records, IssueType, Posted
<1> QED
  BY <1>3, <1>4, <1>5, <1>6 DEF Records, IssueType

-----------------------------------------------------------------------------
\* A run that found its branch lost, and only says so.
Recovering == /\ run.outcome = "recovery" /\ run.caught
              /\ pc \in {"save", "comment", "label", "unclaim"}

\* The branch in its three copies, and the worktree.
Branches ==
    /\ remote \in Content \cup {NoBranch}
    /\ tracking \in Content \cup {NoBranch}
    /\ local \in Content \cup {NoBranch}
    /\ dirty \in Dirty
    /\ ahead \in BOOLEAN /\ behind \in BOOLEAN
    /\ landed \in Content
    /\ behind => tracking # NoBranch
    /\ local \in Content \/ pc = "idle" \/ Recovering

\* An absent branch is not a branch with an empty diff.
LEMMA NoBranchApart == NoBranch \notin Content /\ {} \in Content
BY DEF NoBranch, Content, Tag

\* A fetch comes back without the branch only if it never saw one.
LEMMA FetchedTyped ==
    ASSUME Branches
    PROVE  /\ Fetched \in Content \cup {NoBranch}
           /\ Fetched = NoBranch => remote = NoBranch /\ tracking = NoBranch
           /\ Moved => Fetched # NoBranch
BY DEF Branches, Fetched, Moved

\* Between runs, and from there into one.
LEMMA BeginBranches ==
    ASSUME Branches, NEW s \in BOOLEAN, Begin(s) \/ BeginRecovery(s)
    PROVE  Branches'
<1> USE NoBranchApart
<1>1. CASE Begin(s) /\ FreshBranch
  BY <1>1, FetchedTyped DEF Begin, FreshBranch, Branches, Dirty
<1>2. CASE Begin(s) /\ ResumedBranch
  <2>1. local' \in Content
    BY <1>2, FetchedTyped DEF ResumedBranch, Branches, Fetched
  <2> QED
    BY <1>2, <2>1, FetchedTyped DEF Begin, ResumedBranch, Branches, Dirty
<1>3. CASE BeginRecovery(s)
  <2>1. Recovering'
    BY <1>3 DEF BeginRecovery, Started, NoRun, Recovering
  <2> QED
    BY <1>3, <2>1, FetchedTyped DEF BeginRecovery, Branches, Dirty
<1> QED
  BY <1>1, <1>2, <1>3 DEF Begin

\* Where the steps of a run are taken.
LEMMA RunPlaces ==
    ASSUME RunStep
    PROVE  /\ pc # "idle"
           /\ Recovering => Save \/ Comment \/ LabelOutcome \/ Unclaim
BY DEF Recovering, RunStep, Implementation, Publication, Finishing, Clear, Claim, HandOff,
       Implement, SkipBuilder, BuilderFixed, SetupFails, BuilderFails, BuilderBlocked,
       CommitAttempt, VerifyPasses, VerifyFails, AlreadyFixed, VerifyChanges, VerifierAccepts,
       VerifierRejects, VerifierErrs, Publish, Rebase, RebaseFails, Land, LandFails, Check, Push,
       Ready, ReadyFails, OpenReady, Progress, Guard, Ask, Discard, Checkpoint, Look, SavePush,
       SaveCreate, Save, Comment, LabelOutcome, Unclaim, Close, Release, ClearOutcome, Complete, Call

\* A run that records a lost branch does nothing else.
LEMMA RecoveryBranches ==
    ASSUME Branches, Recovering, RunStep \/ Crash \/ Terminate
    PROVE  Branches'
<1>1. Save \/ Comment \/ LabelOutcome \/ Unclaim \/ Crash
  BY RunPlaces DEF Terminate, Recovering
<1>2. UNCHANGED git
  BY <1>1 DEF Save, Comment, LabelOutcome, Unclaim, Crash, Call, ApplyDisposition, Relabel, world
<1>3. pc' = "idle" \/ Recovering'
  BY <1>1 DEF Recovering, Save, Comment, LabelOutcome, Unclaim, Crash, Call, Throw, ThrowWith, EndRun, Goto
<1> QED
  BY <1>2, <1>3 DEF git, Branches

\* With a branch at hand, every step of a run leaves one.
LEMMA WorkBranches ==
    ASSUME Branches, local \in Content, RunStep \/ Crash \/ Terminate
    PROVE  Branches'
<1> USE NoBranchApart DEF git, world
<1>1. ASSUME UNCHANGED git PROVE Branches'
  BY <1>1 DEF Branches
<1>2. ASSUME UNCHANGED <<remote, tracking, behind, landed>>,
             local' \in Content, dirty' \in Dirty, ahead' \in BOOLEAN
      PROVE  Branches'
  BY <1>2 DEF Branches
<1>3. ASSUME CommitLeftovers PROVE Branches'
  BY <1>2, <1>3, LeftoversTyped DEF Branches
<1>4. ASSUME PushBranch PROVE Branches'
  BY <1>4 DEF PushBranch, Branches
<1>5. Residue \subseteq Dirty
  BY DEF Residue, Dirty
<1>6. CASE Clear \/ Claim \/ HandOff \/ Implement
  BY <1>1, <1>6 DEF Clear, Claim, HandOff, Implement, Call, ApplyDisposition, Relabel
<1>7. CASE SkipBuilder \/ BuilderFixed \/ SetupFails \/ BuilderFails \/ BuilderBlocked
  BY <1>1, <1>2, <1>7
     DEF SkipBuilder, BuilderFixed, SetupFails, BuilderFails, BuilderBlocked, BuilderEdits, Branches, Dirty
<1>8. CASE CommitAttempt \/ Publish \/ LandFails
  BY <1>3, <1>8 DEF CommitAttempt, Publish, LandFails
<1>9. local \cup {"reviewed"} \in Content
  BY DEF Content, Tag
<1>10. CASE VerifyPasses \/ VerifyFails \/ AlreadyFixed
  BY <1>1, <1>2, <1>5, <1>9, <1>10 DEF VerifyPasses, VerifyFails, AlreadyFixed, Accept, Branches
<1>11. CASE VerifyChanges
  <2>1. PICK d \in Residue : local' \in {Commit(local, d), Commit(local, d) \cup {"reviewed"}}
    BY <1>11 DEF VerifyChanges
  <2>2. local' \in Content
    BY <2>1, <1>5, CommitTyped DEF Content, Tag
  <2> QED
    BY <1>2, <1>11, <2>2 DEF VerifyChanges, Branches
<1>12. CASE VerifierAccepts \/ VerifierRejects \/ VerifierErrs
  BY <1>1, <1>2, <1>9, <1>12 DEF VerifierAccepts, VerifierRejects, VerifierErrs, Accept, Branches
<1>13. CASE Rebase \/ RebaseFails
  BY <1>5, <1>13, FetchedTyped DEF Rebase, RebaseFails, Branches
<1>14. CASE Land
  <2>1. landed \cup Commit(local, dirty) \in Content
    BY CommitTyped DEF Branches, Content
  <2> QED
    BY <1>14, <2>1 DEF Land, Branches, Dirty
<1>15. CASE Check \/ Ready \/ ReadyFails \/ OpenReady \/ Progress \/ Guard
  BY <1>1, <1>15 DEF Check, Ready, ReadyFails, OpenReady, Progress, Guard, Call, SetPull
<1>16. CASE Push \/ SavePush
  BY <1>1, <1>4, <1>16 DEF Push, SavePush
<1>17. CASE Discard
  BY <1>2, <1>17 DEF Discard, Branches, Dirty
<1>18. CASE Checkpoint
  BY <1>1, <1>3, <1>18 DEF Checkpoint
<1>19. CASE Ask \/ Look \/ SaveCreate \/ Save
  BY <1>1, <1>19 DEF Ask, Look, SaveCreate, Save, Call, Relabel
<1>20. CASE Comment \/ LabelOutcome \/ Unclaim
  BY <1>1, <1>20 DEF Comment, LabelOutcome, Unclaim, Call, ApplyDisposition, Relabel
<1>21. CASE Close \/ Release \/ ClearOutcome \/ Complete \/ Crash \/ Terminate
  BY <1>1, <1>21 DEF Close, Release, ClearOutcome, Complete, Crash, Terminate, Call, ApplyDisposition, Relabel
<1> QED
  BY <1>6, <1>7, <1>8, <1>10, <1>11, <1>12, <1>13, <1>14, <1>15, <1>16, <1>17, <1>18, <1>19, <1>20, <1>21
     DEF RunStep, Implementation, Publication, Finishing

\* Every step, of a run or of a human, leaves the branch within its types.
LEMMA StepBranches ==
    ASSUME Branches, Control, [Next]_vars
    PROVE  Branches'
<1>1. CASE UNCHANGED vars
  BY <1>1 DEF vars, world, git, Branches, Recovering
<1>2. CASE HumanStep
  <2>1. ASSUME NEW p \in Pr, HumanPushes(p) PROVE Branches'
    BY <2>1 DEF HumanPushes, Acts, Branches, Recovering, Content, Tag, NoBranch
  <2>2. CASE WorkspaceRebuilt
    BY <2>2 DEF WorkspaceRebuilt, Acts, Branches, Dirty
  <2>3. CASE UNCHANGED <<git, pc, run>>
    BY <2>3 DEF git, Branches, Recovering
  <2> QED
    BY <1>2, <2>1, <2>2, <2>3 DEF HumanStep, HumanPromotes, HumanCloses, HumanMerges, HumanClears,
       OperatorUnclaims, Acts, SetPull, Relabel
<1>3. CASE RunStep \/ Crash \/ Terminate
  <2>1. pc # "idle"
    BY <1>3, RunPlaces DEF Crash, Terminate
  <2> QED
    BY <1>3, <2>1, WorkBranches, RecoveryBranches DEF Branches
<1> QED
  BY <1>1, <1>2, <1>3, BeginBranches DEF Next

-----------------------------------------------------------------------------
\* Comments, labels, pull requests and the saved state keep their types.
LEMMA StepRecords ==
    ASSUME Records, Control, [Next]_vars
    PROVE  Records'
<1> USE PipelineAssumption DEF PipelineAssumption, Quiet, world
<1>1. CASE UNCHANGED vars
  BY <1>1 DEF vars, Records
<1>2. ASSUME UNCHANGED <<issue, pulls, saved>>, Quiet \/ (UNCHANGED crashes /\ (Fault \/ UNCHANGED faults))
      PROVE  Records'
  BY <1>2 DEF Records, Fault
<1>3. ASSUME saved' \in [phase : Phase, pr : MaybePr], UNCHANGED <<issue, pulls, crashes>>,
             Fault \/ UNCHANGED faults
      PROVE  Records'
  BY <1>3 DEF Records, Fault
<1>4. ASSUME issue' \in IssueType, UNCHANGED <<pulls, saved, crashes>>, Fault \/ UNCHANGED faults
      PROVE  Records'
  BY <1>4 DEF Records, Fault
<1>5. ASSUME NEW p \in Pr, NEW s \in PrState, SetPull(p, s), UNCHANGED crashes, Fault \/ UNCHANGED faults
      PROVE  Records'
  BY <1>5 DEF Records, Fault, SetPull
<1>6. ASSUME NEW f \in Phase, NEW p \in MaybePr, SaveState(f, p)
      PROVE  saved' \in [phase : Phase, pr : MaybePr]
  BY <1>6 DEF SaveState
<1>7. run.prevPr \in MaybePr /\ run.pr \in MaybePr /\ run.disposition \in Disposition
  BY DEF Control, Run
<1>8. saved.pr \in MaybePr
  BY DEF Records, NoFile, MaybePr
<1>9. ASSUME NEW d \in Disposition, ApplyDisposition(d)
      PROVE  issue' \in IssueType /\ UNCHANGED <<pulls, saved>>
  BY <1>9, DispositionTyped DEF Records
<1>10. ASSUME NEW l \in SUBSET Label, Relabel(l)
      PROVE  issue' \in IssueType /\ UNCHANGED <<pulls, saved>>
  BY <1>10, RelabelTyped DEF Records
<1>11. ASSUME NEW s \in BOOLEAN, Begin(s) \/ BeginRecovery(s) PROVE Records'
  BY <1>11, <1>2 DEF Begin, BeginRecovery
<1>12. CASE Clear
  BY <1>12, <1>2, <1>4, <1>9 DEF Clear, Call, Disposition
<1>13. CASE Claim \/ Release \/ Unclaim
  <2>1. issue.labels \cup {"in-progress"} \in SUBSET Label /\ issue.labels \ {"in-progress"} \in SUBSET Label
    BY DEF Records, IssueType, Label
  <2> QED
    BY <1>13, <2>1, <1>2, <1>4, <1>10 DEF Claim, Release, Unclaim, Call
<1>14. CASE HandOff \/ SkipBuilder \/ BuilderFixed \/ SetupFails \/ BuilderFails \/ BuilderBlocked
  BY <1>14, <1>2 DEF HandOff, SkipBuilder, BuilderFixed, SetupFails, BuilderFails, BuilderBlocked, BuilderEdits
<1>15. CASE Implement
  BY <1>15, <1>3, <1>6, <1>7 DEF Implement, Phase
<1>16. CASE CommitAttempt \/ Publish
  BY <1>16, <1>2, <1>3, <1>6, <1>7 DEF CommitAttempt, Publish, Phase
<1>17. CASE VerifyPasses \/ VerifyFails \/ AlreadyFixed \/ VerifyChanges
            \/ VerifierAccepts \/ VerifierRejects \/ VerifierErrs
  BY <1>17, <1>2 DEF VerifyPasses, VerifyFails, AlreadyFixed, VerifyChanges,
                     VerifierAccepts, VerifierRejects, VerifierErrs
<1>18. CASE Rebase \/ RebaseFails \/ Land \/ LandFails
  BY <1>18, <1>2 DEF Rebase, RebaseFails, Land, LandFails
<1>19. CASE Check \/ Push \/ ReadyFails \/ SavePush
  BY <1>19, <1>2 DEF Check, Push, ReadyFails, SavePush, PushBranch
<1>20. CASE Ready
  <2>1. run.pr \in Pr
    BY <1>20 DEF Ready, Call, Control
  <2> QED
    BY <1>20, <2>1, <1>2, <1>5 DEF Ready, Call, PrState
<1>21. CASE OpenReady
  <2>1. ASSUME NEW p \in Pr, Create(p, "ready") PROVE pulls' \in [Pr -> PrState]
    BY <2>1 DEF Create, Records, PrState
  <2>2. ASSUME NEW p \in Pr PROVE [issue EXCEPT !.progress = @ \cup {p}] \in IssueType
    BY DEF Records, IssueType
  <2>3. ASSUME NEW p \in Pr, SaveState("publishing", p) PROVE saved' \in [phase : Phase, pr : MaybePr]
    BY <2>3, <1>6 DEF Phase, MaybePr
  <2>4. (Fault \/ UNCHANGED faults) /\ UNCHANGED crashes
    BY <1>21 DEF OpenReady
  <2>5. UNCHANGED pulls \/ \E p \in Pr : Create(p, "ready")
    BY <1>21 DEF OpenReady
  <2>6. issue' \in IssueType
    BY <1>21, <2>2 DEF OpenReady, Records
  <2>7. saved' \in [phase : Phase, pr : MaybePr] \cup {NoFile}
    BY <1>21, <2>3 DEF OpenReady, Records
  <2> QED
    BY <2>1, <2>4, <2>5, <2>6, <2>7 DEF Records, Fault
<1>22. CASE Progress
  <2>1. [issue EXCEPT !.progress = @ \cup {run.pr}] \in IssueType
    BY <1>22 DEF Progress, Call, Control, Records, IssueType
  <2> QED
    BY <1>22, <2>1, <1>2, <1>4 DEF Progress, Call
<1>23. CASE Guard
  BY <1>23, <1>2, <1>3, <1>6, <1>7 DEF Guard, Phase
<1>24. CASE Ask
  <2>1. (issue.labels \ {"retryable", "blocked", "exhausted"}) \cup {"needs-human"} \in SUBSET Label
    BY DEF Records, IssueType, Label
  <2> QED
    BY <1>24, <2>1, <1>2, <1>4, <1>10 DEF Ask, Call
<1>25. CASE Discard \/ Checkpoint \/ Look
  BY <1>25, <1>2 DEF Discard, Checkpoint, Look, Existing
<1>26. CASE SaveCreate
  <2>1. pulls' \in [Pr -> PrState]
    BY <1>26 DEF SaveCreate, Create, Records, PrState
  <2>2. (Fault \/ UNCHANGED faults) /\ UNCHANGED <<crashes, issue, saved>>
    BY <1>26 DEF SaveCreate
  <2> QED
    BY <2>1, <2>2 DEF Records, Fault
<1>27. CASE Save
  <2>1. PhaseOf(run.outcome) \in Phase
    BY <1>27 DEF Save, Control, Stopping, PhaseOf, Phase
  <2> QED
    BY <1>27, <2>1, <1>3, <1>6, <1>7, <1>8 DEF Save, Phase
<1>28. CASE Comment
  BY <1>28, <1>2, <1>4, PostedTyped DEF Comment, Call, Records
<1>29. CASE LabelOutcome
  BY <1>29, <1>2, <1>4, <1>7, <1>9 DEF LabelOutcome, Call, Disposition
<1>30. CASE Close
  <2>1. [issue EXCEPT !.open = FALSE] \in IssueType
    BY DEF Records, IssueType
  <2> QED
    BY <1>30, <2>1, <1>2, <1>4 DEF Close, Call
<1>31. CASE ClearOutcome
  BY <1>31, <1>2, <1>4, <1>9 DEF ClearOutcome, Call, Disposition
<1>32. CASE Complete
  BY <1>32, <1>3, <1>6 DEF Complete, Phase, MaybePr
<1>33. CASE Crash \/ Terminate
  <2>1. crashes' \in 0 .. MaxCrashes /\ UNCHANGED <<issue, pulls, faults>>
    BY <1>33 DEF Crash, Terminate, Records
  <2>2. saved' \in [phase : Phase, pr : MaybePr] \cup {NoFile}
    BY <1>33, <1>6, <1>8 DEF Crash, Terminate, Records, Phase
  <2> QED
    BY <2>1, <2>2 DEF Records
<1>34. CASE HumanStep
  <2>1. ASSUME NEW p \in Pr, HumanPromotes(p) \/ HumanCloses(p) PROVE Records'
    BY <2>1, <1>5 DEF HumanPromotes, HumanCloses, Acts, PrState
  <2>2. ASSUME NEW p \in Pr, HumanMerges(p) PROVE Records'
    BY <2>2 DEF HumanMerges, Acts, Records, IssueType, PrState
  <2>3. ASSUME NEW p \in Pr, HumanPushes(p) PROVE Records'
    BY <2>3, <1>2 DEF HumanPushes, Acts
  <2>4. CASE WorkspaceRebuilt
    BY <2>4, <1>2 DEF WorkspaceRebuilt, Acts
  <2>5. ASSUME NEW l PROVE issue.labels \ {l} \in SUBSET Label
    BY DEF Records, IssueType
  <2>6. CASE HumanClears \/ OperatorUnclaims
    BY <2>5, <2>6, <1>4, <1>10 DEF HumanClears, OperatorUnclaims, Acts
  <2> QED
    BY <1>34, <2>1, <2>2, <2>3, <2>4, <2>6 DEF HumanStep
<1> QED
  BY <1>1, <1>11, <1>12, <1>13, <1>14, <1>15, <1>16, <1>17, <1>18, <1>19, <1>20, <1>21, <1>22,
     <1>23, <1>24, <1>25, <1>26, <1>27, <1>28, <1>29, <1>30, <1>31, <1>32, <1>33, <1>34
     DEF Next, RunStep, Implementation, Publication, Finishing

\* The inductive invariant of the types.
Typed == Control /\ Branches /\ Records

\* It holds of the first state.
LEMMA InitTyped == Init => Typed
<1> SUFFICES ASSUME Init PROVE Typed
  OBVIOUS
<1> USE PipelineAssumption DEF PipelineAssumption
<1>1. Control
  BY NoRunTyped DEF Init, Control, PC, Stopping, Working
<1>2. Branches
  BY NoBranchApart DEF Init, Branches, Dirty
<1>3. issue \in IssueType
  BY DEF Init, IssueType, MaxCount
<1>4. Records
  BY <1>3 DEF Init, Records, PrState
<1> QED
  BY <1>1, <1>2, <1>4 DEF Typed

\* And every step keeps it.
LEMMA StepTyped == Typed /\ [Next]_vars => Typed'
BY StepControl, StepBranches, StepRecords DEF Typed

\* Every value the pipeline stores, on GitHub, in git, on disk or in memory, is one the
\* code has a meaning for; the state saved at the end of a stopped run has a phase.
THEOREM PipelineTyped == Safety => []TypeOK
<1>1. Typed => TypeOK
  BY DEF Typed, Control, Branches, Records, IssueType, TypeOK
<1> QED
  BY <1>1, InitTyped, StepTyped, PTL DEF Safety

-----------------------------------------------------------------------------
(***************************************************************************)
(* Forbidden paths.  When the verifier is enabled nothing reaches the      *)
(* branch on GitHub but through two pushes, each of them behind a check of *)
(* the diff with no edit of the worktree in between.  The workspace's copy *)
(* of GitHub's branch is clean too: it is what a resumed branch may be     *)
(* fast-forwarded to.                                                      *)
(***************************************************************************)

Checked == {"check", "push", "savepush"}
Direct == {"rebase", "land"}

Screened ==
    /\ "forbidden" \notin remote
    /\ "forbidden" \notin tracking
    /\ pc \in Checked => "forbidden" \notin local
    /\ pc \notin Direct

\* Most steps leave the branch on GitHub alone, and do not come to a push.
LEMMA AwayFromPush ==
    ASSUME Screened, UNCHANGED <<remote, tracking>>, pc' \notin Checked, pc' \notin Direct
    PROVE  Screened'
BY DEF Screened

\* Where the failure paths lead.
LEMMA FailurePaths ==
    /\ \A o, d : Finish(o, d) => pc' \notin Checked \cup Direct
    /\ Fail => pc' \notin Checked \cup Direct
    /\ Throw => pc' \notin Checked \cup Direct
    /\ \A p : ThrowWith(p) => pc' \notin Checked \cup Direct
    /\ Retry => pc' \notin Checked \cup Direct
    /\ GiveUp => pc' \notin Checked \cup Direct
    /\ EndRun => pc' \notin Checked \cup Direct
BY DEF Finish, Fail, Throw, ThrowWith, Retry, GiveUp, EndRun, Goto, Checked, Direct

\* Screened is inductive when the verifier is enabled.
LEMMA StepScreened ==
    ASSUME VerifierOn, Screened, [Next]_vars
    PROVE  Screened'
<1> USE DEF Goto, Quiet, world, git
<1>1. CASE UNCHANGED vars
  BY <1>1 DEF vars, Screened
<1>2. ASSUME NEW s \in BOOLEAN, Begin(s) \/ BeginRecovery(s) PROVE Screened'
  BY <1>2 DEF Begin, BeginRecovery, FreshBranch, ResumedBranch, Fetched, Screened, Checked, Direct
<1>3. CASE Clear \/ Claim \/ HandOff \/ Implement
  BY <1>3, FailurePaths, AwayFromPush DEF Clear, Claim, HandOff, Implement, Call, ApplyDisposition, Relabel, Checked, Direct
<1>4. CASE SkipBuilder \/ BuilderFixed \/ SetupFails \/ BuilderFails \/ BuilderBlocked
  BY <1>4, FailurePaths, AwayFromPush DEF SkipBuilder, BuilderFixed, SetupFails, BuilderFails, BuilderBlocked, BuilderEdits, Checked, Direct
<1>5. CASE CommitAttempt
  BY <1>5, FailurePaths, AwayFromPush DEF CommitAttempt, CommitLeftovers, Checked, Direct
<1>6. CASE VerifyPasses \/ VerifyFails \/ AlreadyFixed \/ VerifyChanges
  BY <1>6, FailurePaths, AwayFromPush DEF VerifyPasses, VerifyFails, AlreadyFixed, VerifyChanges, Accept, Checked, Direct
<1>7. CASE VerifierAccepts \/ VerifierRejects \/ VerifierErrs
  BY <1>7, FailurePaths, AwayFromPush DEF VerifierAccepts, VerifierRejects, VerifierErrs, Accept, Checked, Direct
<1>8. CASE Publish
  <2>1. CASE Publishable(local') /\ Goto("check")
    BY <1>8, <2>1 DEF Publish, CommitLeftovers, Publishable, Screened, Checked, Direct
  <2>2. CASE Fail
    BY <1>8, <2>2, FailurePaths, AwayFromPush DEF Publish, CommitLeftovers
  <2> QED
    BY <1>8, <2>1, <2>2 DEF Publish, DirectAllowed
<1>9. CASE Rebase \/ RebaseFails \/ Land \/ LandFails
  BY <1>9 DEF Rebase, RebaseFails, Land, LandFails, Screened, Direct
<1>10. CASE Check
  <2>1. CASE Throw
    BY <1>10, <2>1, FailurePaths, AwayFromPush DEF Check
  <2> QED
    BY <1>10, <2>1 DEF Check, Screened, Checked, Direct
<1>11. CASE Push
  <2>1. CASE Throw
    BY <1>11, <2>1, FailurePaths, AwayFromPush DEF Push, PushBranch, Screened, Checked
  <2> QED
    BY <1>11, <2>1 DEF Push, PushBranch, Screened, Checked, Direct
<1>12. CASE Ready \/ ReadyFails
  BY <1>12, FailurePaths, AwayFromPush DEF Ready, ReadyFails, Call, SetPull, Checked, Direct
<1>13. CASE OpenReady
  BY <1>13, FailurePaths, AwayFromPush DEF OpenReady, Checked, Direct
<1>14. CASE Progress \/ Guard
  BY <1>14, FailurePaths, AwayFromPush DEF Progress, Guard, Call, Checked, Direct
<1>15. CASE Ask
  BY <1>15, FailurePaths, AwayFromPush DEF Ask, Call, Relabel, Checked, Direct
<1>16. CASE Discard \/ Checkpoint
  BY <1>16, AwayFromPush DEF Discard, Checkpoint, CommitLeftovers, Checked, Direct
<1>17. CASE Look
  BY <1>17 DEF Look, ForbiddenChanges, Screened, Checked, Direct
<1>18. CASE SavePush
  BY <1>18 DEF SavePush, PushBranch, Screened, Checked, Direct
<1>19. CASE SaveCreate \/ Save
  BY <1>19, AwayFromPush DEF SaveCreate, Save, Checked, Direct
<1>20. CASE Comment \/ LabelOutcome \/ Unclaim
  BY <1>20, FailurePaths, AwayFromPush DEF Comment, LabelOutcome, Unclaim, Call, ApplyDisposition, Relabel, Checked, Direct
<1>21. CASE Close \/ Release \/ ClearOutcome \/ Complete
  BY <1>21, FailurePaths, AwayFromPush DEF Close, Release, ClearOutcome, Complete, Call, ApplyDisposition, Relabel, Checked, Direct
<1>22. CASE Crash \/ Terminate
  BY <1>22, FailurePaths, AwayFromPush DEF Crash, Terminate
<1>23. CASE HumanStep
  BY <1>23 DEF HumanStep, HumanPromotes, HumanCloses, HumanMerges, HumanPushes, HumanClears,
               OperatorUnclaims, WorkspaceRebuilt, Acts, SetPull, Relabel, Screened, Checked, Direct
<1> QED
  BY <1>1, <1>2, <1>3, <1>4, <1>5, <1>6, <1>7, <1>8, <1>9, <1>10, <1>11, <1>12, <1>13,
     <1>14, <1>15, <1>16, <1>17, <1>18, <1>19, <1>20, <1>21, <1>22, <1>23
     DEF Next, RunStep, Implementation, Publication, Finishing

\* With the verifier enabled, no forbidden path reaches the issue's branch on GitHub,
\* through whatever sequence of failing calls, crashes, resumed branches and human
\* actions.
THEOREM ForbiddenStaysHome ==
    ASSUME VerifierOn
    PROVE  Safety => []NoForbiddenPublished
<1>1. Init => Screened
  BY DEF Init, Screened, Checked, Direct, NoBranch
<1>2. Screened /\ [Next]_vars => Screened'
  BY StepScreened
<1>3. Screened => NoForbiddenPublished
  BY DEF Screened, NoForbiddenPublished
<1> QED
  BY <1>1, <1>2, <1>3, PTL DEF Safety

-----------------------------------------------------------------------------
(***************************************************************************)
(* Runs in which no call fails and no process dies.  What they promise of  *)
(* pull requests, labels and the commits of humans rests on what each step *)
(* knows of the open pull request: which one it is, where it is recorded,  *)
(* and that it is not ready for review while the branch may be pushed to.  *)
(***************************************************************************)

Early == {"clear", "claim", "lookup"}
Attempting == {"build", "commit", "verify", "review", "final"}
Publishing == {"check", "push", "ready", "open"}
Halted == {"ask", "checkpoint", "look", "savepush", "savecreate"}

\* From the start of the implementation to the last push.
Middle == Attempting \cup Direct \cup Publishing \cup Halted

NoneOpen == \A p \in Pr : ~Open(p)
OnlyOpen(q) == \A p \in Pr : Open(p) => p = q

\* An open pull request is in the saved state that the next run resumes, or named by a
\* result comment.
OnRecord == \A p \in Pr : Open(p) => \/ saved.pr = p /\ saved.phase \in Resumable
                                     \/ p \in issue.results

\* Which pull request the run holds, and how its end will be.
Holding ==
    /\ pc \in {"ask", "checkpoint", "look", "savecreate"} => run.pr = NoPr
    /\ pc \in {"push", "savepush"} => run.pr \in {NoPr, saved.pr}
    /\ pc = "ready" => run.pr = saved.pr
    /\ pc = "comment" => run.outcome # "none"
    /\ pc \in {"label", "unclaim"} => run.outcome \notin {"none", "direct", "already-fixed"}
    /\ pc \in Working => ~run.caught

\* Where the open pull request is known from.
Traced ==
    /\ pc = "idle" /\ issue.open => OnRecord
    /\ pc \in Early \cup Attempting => OnlyOpen(run.prevPr) /\ OnlyOpen(saved.pr)
    /\ pc \in Direct => NoneOpen
    /\ pc \in Publishing \cup Halted => OnlyOpen(saved.pr)
    /\ pc = "save" => OnlyOpen(IF run.pr # NoPr THEN run.pr ELSE saved.pr)
    /\ pc \in {"progress", "guard"} => OnlyOpen(run.pr)
    /\ pc = "comment" /\ run.outcome = "pr-created" => OnlyOpen(run.pr)
    /\ pc = "comment" /\ run.outcome \in {"failed", "blocked", "infra", "recovery"} => OnRecord
    /\ pc \in {"label", "unclaim"} => OnRecord
    /\ pc \in {"release", "relabel", "complete"} => ~issue.open
    /\ run.lost = "all" => /\ pc \in {"save", "comment", "label", "unclaim"} /\ NoneOpen
                           /\ run.outcome \in {"failed", "blocked", "infra", "recovery"}

\* An open pull request has its branch, on GitHub and in the workspace.
Present ==
    /\ ~NoneOpen => remote # NoBranch
    /\ pc # "idle" /\ ~NoneOpen => tracking # NoBranch
    /\ pc \in {"ready", "open", "savecreate"} => remote # NoBranch /\ tracking # NoBranch

\* The claim is not there at the start and at the end.
Unclaimed == pc \in {"idle", "clear", "relabel", "complete"} => "in-progress" \notin issue.labels

\* Nothing is ready for review while the run may push, and what was ready when it
\* started has been handed over, or is not open any more.
Drafts == pc \in Middle => \A p \in Pr : pulls[p] # "ready"
Handed ==
    /\ pc \in Early => \A p \in run.wasReady : Open(p) => IsReady(p)
    /\ pc \in Middle => \A p \in run.wasReady : ~Open(p)

\* What the review passed stays reviewed until it is on GitHub: after it only
\* verification commands have touched the worktree.
Examined ==
    /\ ReadyIsReviewed
    /\ pc \in {"final", "check", "push"} \cup Direct => "reviewed" \in local
    /\ pc \in {"ready", "open"} => "reviewed" \in remote
    /\ pc \in {"verify", "rebase"} => dirty = "clean"
    /\ pc \in {"review", "final", "land"} => dirty \in {"clean", "residue", "badresidue"}

\* A human's commit is in the workspace's branch unless that is known to be behind; it
\* is not while a run works for an open pull request.
Carried ==
    /\ local # NoBranch /\ ~behind /\ "human" \in tracking => "human" \in local
    /\ pc \in Early \cup Attempting \cup Publishing \cup Halted /\ ~NoneOpen => ~behind
    /\ pc = "land" /\ ~behind => tracking = NoBranch

Orderly == /\ Holding /\ Traced /\ Present /\ Unclaimed
           /\ Drafts /\ Handed /\ Examined /\ Carried

\* No call fails and nothing dies in this step either.
Steady == faults = 0 /\ crashes = 0 /\ faults' = 0 /\ crashes' = 0

\* What has failed stays failed.
LEMMA CalmBefore ==
    ASSUME Typed, [Next]_vars, Calm'
    PROVE  Steady
<1>1. faults \in Nat /\ crashes \in Nat /\ faults' = 0 /\ crashes' = 0
  BY PipelineAssumption DEF PipelineAssumption, Typed, Records, Calm
<1>2. faults' \in {faults, faults + 1} /\ crashes' \in {crashes, crashes + 1}
  BY DEF Next, RunStep, Implementation, Publication, Finishing, HumanStep, Acts, Quiet, Fault, vars, Call,
         Begin, BeginRecovery, Clear, Claim, HandOff, Implement, SkipBuilder, BuilderFixed,
         SetupFails, BuilderFails, BuilderBlocked, CommitAttempt, VerifyPasses, VerifyFails,
         AlreadyFixed, VerifyChanges, VerifierAccepts, VerifierRejects, VerifierErrs, Publish, Rebase,
         RebaseFails, Land, LandFails, Check, Push, Ready, ReadyFails, OpenReady, Progress, Guard, Ask,
         Discard, Checkpoint, Look, Existing, SavePush, SaveCreate, Save, Comment, LabelOutcome, Unclaim,
         Close, Release, ClearOutcome, Complete, Crash, Terminate, HumanPromotes, HumanCloses,
         HumanMerges, HumanPushes, HumanClears, OperatorUnclaims, WorkspaceRebuilt
<1> QED
  BY <1>1, <1>2 DEF Steady

\* A call has its effect and the run goes on.
LEMMA SteadyFault == Steady => ~Fault
BY DEF Steady, Fault

\* The steps of an attempt: they work in the workspace, and stay with the pull request
\* the run started from.
LEMMA Attempted ==
    ASSUME Typed, Steady, pc \in Attempting, RunStep
    PROVE  /\ pc' \in Attempting \cup Direct \cup {"check", "comment", "ask", "checkpoint"}
           /\ pc' \in Direct => run.prevPr = NoPr
           /\ pc' = "comment" => run'.outcome = "already-fixed"
           /\ pc' \in {"ask", "checkpoint"} => run'.pr = NoPr
           /\ run'.prevPr = run.prevPr /\ run'.wasReady = run.wasReady
           /\ run'.caught = run.caught /\ run'.lost \in {run.lost, "no"}
           /\ saved' = saved \/ saved'.pr = run.prevPr
           /\ UNCHANGED <<issue, pulls, remote, tracking, behind>>
<1> USE DEF Attempting, Direct, world, git, Quiet, Goto
<1>1. run \in Run
  BY DEF Typed, Control
<1>2. ASSUME Fail \/ \E o, d : Finish(o, d)
      PROVE  /\ pc' \in {"ask", "checkpoint"} /\ run'.pr = NoPr /\ run'.lost = "no"
             /\ run'.prevPr = run.prevPr /\ run'.wasReady = run.wasReady /\ run'.caught = run.caught
  BY <1>1, <1>2 DEF Fail, Finish, Run
<1>3. ASSUME Retry \/ GiveUp
      PROVE  /\ pc' \in {"build", "ask", "checkpoint"} /\ run'.lost \in {run.lost, "no"}
             /\ pc' \in {"ask", "checkpoint"} => run'.pr = NoPr
             /\ run'.prevPr = run.prevPr /\ run'.wasReady = run.wasReady /\ run'.caught = run.caught
  BY <1>1, <1>2, <1>3 DEF Retry, GiveUp, Run
<1>4. CASE SkipBuilder \/ BuilderFixed \/ SetupFails \/ BuilderFails \/ BuilderBlocked
  BY <1>2, <1>3, <1>4 DEF SkipBuilder, BuilderFixed, SetupFails, BuilderFails, BuilderBlocked, BuilderEdits
<1>5. CASE CommitAttempt
  BY <1>2, <1>5 DEF CommitAttempt, CommitLeftovers, SaveState
<1>6. CASE VerifyPasses \/ VerifyFails \/ VerifyChanges
  BY <1>2, <1>3, <1>6 DEF VerifyPasses, VerifyFails, VerifyChanges, Accept
<1>7. CASE AlreadyFixed
  BY <1>1, <1>7 DEF AlreadyFixed, Run
<1>8. CASE VerifierAccepts \/ VerifierRejects \/ VerifierErrs
  BY <1>2, <1>3, <1>8 DEF VerifierAccepts, VerifierRejects, VerifierErrs, Accept
<1>9. CASE Publish
  BY <1>2, <1>9 DEF Publish, CommitLeftovers, SaveState, DirectAllowed
<1>10. ~(Clear \/ Claim \/ HandOff \/ Implement \/ Publication \/ Finishing)
  BY DEF Clear, Claim, HandOff, Implement, Publication, Finishing, Call, Rebase, RebaseFails, Land, LandFails,
         Check, Push, Ready, ReadyFails, OpenReady, Progress, Guard, Ask, Discard, Checkpoint, Look,
         SavePush, SaveCreate, Save, Comment, LabelOutcome, Unclaim, Close, Release, ClearOutcome, Complete
<1> QED
  BY <1>4, <1>5, <1>6, <1>7, <1>8, <1>9, <1>10 DEF RunStep, Implementation

\* The way to the default branch, and back from it.
LEMMA Directed ==
    ASSUME Typed, pc \in Direct, RunStep
    PROVE  /\ pc' \in Direct \cup {"check", "comment"}
           /\ pc' = "comment" => Land /\ run' = [run EXCEPT !.outcome = "direct"]
           /\ pc' # "comment" => run' = run
           /\ Land \/ UNCHANGED landed
           /\ UNCHANGED <<issue, pulls, remote, saved>>
           /\ tracking' # NoBranch \/ tracking' = tracking
<1>1. ~(Clear \/ Claim \/ Implementation \/ Finishing)
  BY DEF Direct, Clear, Claim, Implementation, Finishing, Call, HandOff, Implement, SkipBuilder, BuilderFixed,
         SetupFails, BuilderFails, BuilderBlocked, CommitAttempt, VerifyPasses, VerifyFails, AlreadyFixed,
         VerifyChanges, VerifierAccepts, VerifierRejects, VerifierErrs, Publish, Ask, Discard,
         Checkpoint, Look, SavePush, SaveCreate, Save, Comment, LabelOutcome, Unclaim, Close, Release,
         ClearOutcome, Complete
<1>2. ~(Check \/ Push \/ Ready \/ ReadyFails \/ OpenReady \/ Progress \/ Guard)
  BY DEF Direct, Check, Push, Ready, ReadyFails, OpenReady, Progress, Guard, Call
<1>3. CASE Rebase \/ RebaseFails \/ LandFails
  BY <1>3 DEF Rebase, RebaseFails, LandFails, CommitLeftovers, Goto, Quiet, Direct, Fetched, Land
<1>4. CASE Land
  BY <1>4 DEF Land, Quiet
<1> QED
  BY <1>1, <1>2, <1>3, <1>4 DEF RunStep, Publication

\* The calls to GitHub, when none fails: the run goes on.
LEMMA CallsMove ==
    ASSUME Steady
    PROVE  /\ Clear => pc = "clear" /\ pc' = "claim" /\ run' = run
           /\ Claim => pc = "claim" /\ pc' = "lookup" /\ run' = run
           /\ Ready => pc = "ready" /\ pc' = "progress" /\ run' = run
           /\ Progress => pc = "progress" /\ pc' = "guard" /\ run' = run
           /\ Ask => /\ pc = "ask" /\ pc' = "checkpoint"
                     /\ run' \in {run, [run EXCEPT !.disposition = "blocked"]}
           /\ Comment => /\ pc = "comment" /\ run' = run
                         /\ pc' = IF run.outcome \in {"direct", "already-fixed"} THEN "close" ELSE "label"
           /\ LabelOutcome => pc = "label" /\ pc' = "unclaim" /\ run' = run
           /\ Unclaim => pc = "unclaim" /\ pc' = "idle" /\ run' = NoRun
           /\ Close => pc = "close" /\ pc' = "release" /\ run' = run
           /\ Release => pc = "release" /\ pc' = "relabel" /\ run' = run
           /\ ClearOutcome => pc = "relabel" /\ pc' = "complete" /\ run' = run
BY SteadyFault
   DEF Call, Goto, Clear, Claim, Ready, Progress, Ask, Comment, LabelOutcome, Unclaim, Close, Release, ClearOutcome

\* And has had its effect.
LEMMA CallsAct ==
    ASSUME Steady
    PROVE  /\ Clear => ApplyDisposition("none")
           /\ Claim => Relabel(issue.labels \cup {"in-progress"})
           /\ Ready => Open(run.pr) /\ SetPull(run.pr, "ready")
           /\ Progress => /\ issue' = [issue EXCEPT !.progress = @ \cup {run.pr}]
                          /\ UNCHANGED <<pulls, git, saved>>
           /\ Ask => UNCHANGED world \/ \E labels : Relabel(labels)
           /\ Comment => (\E evidence : issue' = Posted(evidence)) /\ UNCHANGED <<pulls, git, saved>>
           /\ LabelOutcome => \E d : ApplyDisposition(d)
           /\ Unclaim => Relabel(issue.labels \ {"in-progress"})
           /\ Close => issue' = [issue EXCEPT !.open = FALSE] /\ UNCHANGED <<pulls, git, saved>>
           /\ Release => Relabel(issue.labels \ {"in-progress"})
           /\ ClearOutcome => ApplyDisposition("none")
BY SteadyFault
   DEF Call, Clear, Claim, Ready, Progress, Ask, Comment, LabelOutcome, Unclaim, Close, Release, ClearOutcome

\* What humans do to the records of a run.
LEMMA Humanly ==
    ASSUME Typed, HumanStep
    PROVE  /\ UNCHANGED <<pc, run, saved, landed>>
           /\ \A p \in Pr : \/ pulls'[p] = pulls[p]
                            \/ pulls[p] = "draft" /\ pulls'[p] = "promoted"
                            \/ pulls'[p] \in {"closed", "merged"}
           /\ issue'.open => issue.open
           /\ issue'.results = issue.results
           /\ issue'.labels \subseteq issue.labels
           /\ remote' = remote \/ (remote # NoBranch /\ remote' = remote \cup {"human", "work"})
           /\ UNCHANGED <<tracking, local, dirty, behind>> \/ WorkspaceRebuilt
<1>1. pulls \in [Pr -> PrState] /\ issue \in IssueType
  BY DEF Typed, Records
<1>2. ASSUME NEW p \in Pr, HumanPromotes(p) \/ HumanCloses(p) \/ HumanMerges(p) \/ HumanPushes(p)
      PROVE  /\ UNCHANGED <<pc, run, saved, landed, tracking, local, dirty, behind>>
             /\ \A q \in Pr : \/ pulls'[q] = pulls[q]
                              \/ pulls[q] = "draft" /\ pulls'[q] = "promoted"
                              \/ pulls'[q] \in {"closed", "merged"}
             /\ issue' = issue \/ issue' = [issue EXCEPT !.open = FALSE]
             /\ remote' = remote \/ (remote # NoBranch /\ remote' = remote \cup {"human", "work"})
  BY <1>1, <1>2 DEF HumanPromotes, HumanCloses, HumanMerges, HumanPushes, Acts, SetPull, git
<1>3. CASE HumanClears \/ OperatorUnclaims
  BY <1>1, <1>3 DEF HumanClears, OperatorUnclaims, Acts, Relabel, git, IssueType
<1>4. CASE WorkspaceRebuilt
  BY <1>4 DEF WorkspaceRebuilt, Acts
<1> QED
  BY <1>1, <1>2, <1>3, <1>4 DEF HumanStep, IssueType

\* Humans open no pull request and call none ready that is closed.
LEMMA HumansOpenNone ==
    ASSUME Typed, HumanStep
    PROVE  /\ \A p \in Pr : Open(p)' => Open(p)
           /\ \A p \in Pr : pulls'[p] = "ready" => pulls[p] = "ready"
           /\ NoneOpen => NoneOpen'
           /\ \A q : OnlyOpen(q) => \A p \in Pr : Open(p)' => p = q
           /\ OnRecord => OnRecord'
<1>1. \A p \in Pr : Open(p)' => Open(p)
  BY Humanly DEF Open, IsReady
<1>2. \A p \in Pr : pulls'[p] = "ready" => pulls[p] = "ready"
  BY Humanly
<1> QED
  BY <1>1, <1>2, Humanly DEF NoneOpen, OnlyOpen, OnRecord

\* Labels say nothing of pull requests.
LEMMA LabelsOnly ==
    ASSUME Typed,
           \/ \E labels : Relabel(labels)
           \/ \E d : ApplyDisposition(d)
    PROVE  /\ issue'.open = issue.open /\ issue'.results = issue.results
           /\ UNCHANGED <<pulls, saved, remote, tracking, local, dirty, behind, landed>>
<1>1. issue \in IssueType
  BY DEF Typed, Records
<1> QED
  BY <1>1 DEF Relabel, ApplyDisposition, IssueType, world, git

\* Where an exception leads in a run that had none before.
LEMMA ThrownOnce ==
    ASSUME Typed, ~run.caught, Throw
    PROVE  /\ pc' = "checkpoint" /\ run'.pr = NoPr /\ run'.lost = "no" /\ run'.outcome = "failed"
           /\ run'.prevPr = run.prevPr /\ run'.wasReady = run.wasReady
BY DEF Throw, ThrowWith, Typed, Control, Run

\* Every step leaves the run with the pull request that its place calls for.
LEMMA StepHolding ==
    ASSUME Typed, Steady, Holding, [Next]_vars
    PROVE  Holding'
<1> USE SteadyFault DEF Quiet, Goto, world
<1>1. run \in Run /\ run' \in Run /\ Control /\ Control'
  BY StepTyped DEF Typed, Control
<1>2. CASE UNCHANGED vars
  BY <1>2 DEF vars, Holding
<1>3. ASSUME NEW s \in BOOLEAN, Begin(s) \/ BeginRecovery(s) PROVE Holding'
  BY <1>3 DEF Begin, BeginRecovery, Started, NoRun, Holding, Working
<1>4. CASE Clear \/ Claim \/ Progress \/ Comment \/ LabelOutcome \/ Unclaim \/ Close \/ Release \/ ClearOutcome
  BY <1>1, <1>4, CallsMove DEF Holding, Control, Working, NoRun
<1>5. CASE HandOff
  BY <1>5 DEF HandOff, Holding, Working
<1>6. CASE Implement
  <2>1. CASE Fail
    BY <1>1, <1>6, <2>1 DEF Implement, Fail, Finish, Holding, Working, Run
  <2> QED
    BY <1>6, <2>1 DEF Implement, Holding, Working
<1>7. CASE pc \in Attempting /\ RunStep
  BY <1>1, <1>7, Attempted DEF Holding, Attempting, Direct, Working
<1>8. CASE pc \in Direct /\ RunStep
  BY <1>1, <1>8, Directed DEF Holding, Attempting, Direct, Working, Run
<1>9. CASE Check \/ Push
  <2>1. CASE Throw
    BY <1>9, <2>1, ThrownOnce DEF Check, Push, Holding, Working
  <2> QED
    BY <1>1, <1>9, <2>1 DEF Check, Push, PushBranch, Holding, Working, Run
<1>10. CASE Ready \/ ReadyFails \/ OpenReady
  <2>1. CASE Throw
    BY <1>10, <2>1, ThrownOnce DEF Ready, ReadyFails, OpenReady, Call, Holding, Working
  <2> QED
    BY <1>1, <1>10, <2>1, CallsMove DEF ReadyFails, OpenReady, Holding, Working, Run
<1>11. CASE Guard
  BY <1>1, <1>11 DEF Guard, Holding, Working, Run
<1>12. CASE Ask
  BY <1>1, <1>12, CallsMove DEF Holding, Working, Run
<1>13. CASE Discard \/ Checkpoint \/ Look
  BY <1>1, <1>13 DEF Discard, Checkpoint, Look, Existing, Holding, Working, Run
<1>14. CASE SavePush \/ SaveCreate
  BY <1>1, <1>14 DEF SavePush, SaveCreate, Holding, Working, Run, PushBranch
<1>15. CASE Save
  BY <1>1, <1>15 DEF Save, Holding, Working, Control, Stopping
<1>16. CASE Complete
  BY <1>16 DEF Complete, EndRun, Holding, Working, NoRun
<1>17. CASE Crash \/ Terminate
  BY <1>17 DEF Steady, Crash, Terminate
<1>18. CASE HumanStep
  BY <1>18, Humanly DEF Holding
<1> QED
  BY <1>2, <1>3, <1>4, <1>5, <1>6, <1>7, <1>8, <1>9, <1>10, <1>11, <1>12, <1>13, <1>14, <1>15, <1>16, <1>17, <1>18
     DEF Next, RunStep, Implementation, Publication, Finishing, Attempting, Direct,
         SkipBuilder, BuilderFixed, SetupFails, BuilderFails, BuilderBlocked, CommitAttempt, VerifyPasses,
         VerifyFails, AlreadyFixed, VerifyChanges, VerifierAccepts, VerifierRejects, VerifierErrs, Publish,
         Rebase, RebaseFails, Land, LandFails

\* Only two steps open a pull request.
LEMMA OpensNone ==
    ASSUME Typed, [Next]_vars, ~OpenReady, ~SaveCreate
    PROVE  /\ \A p \in Pr : Open(p)' => Open(p)
           /\ \A p \in Pr : pulls'[p] = "ready" => pulls[p] = "ready" \/ pc = "ready"
           /\ \A p \in Pr : pulls'[p] = pulls[p] \/ pulls[p] = "draft" \/ ~Open(p)' \/ pc = "ready"
<1>1. CASE UNCHANGED pulls
  BY <1>1 DEF Open, IsReady
<1>2. CASE HumanStep
  BY <1>2, Humanly DEF Open, IsReady
<1>3. CASE Ready
  <2>1. run.pr \in Pr /\ pc = "ready" /\ pulls \in [Pr -> PrState]
    BY <1>3 DEF Ready, Call, Typed, Control, Records
  <2>2. UNCHANGED pulls \/ (Open(run.pr) /\ pulls' = [pulls EXCEPT ![run.pr] = "ready"])
    BY <1>3 DEF Ready, Call, SetPull, world
  <2> QED
    BY <1>1, <2>1, <2>2 DEF Open, IsReady
<1>4. CASE RunStep /\ ~Ready
  <2>1. ASSUME Clear \/ Claim \/ Ask \/ LabelOutcome \/ Unclaim \/ Release \/ ClearOutcome \/ Comment \/ Close \/ Progress
        PROVE  UNCHANGED pulls
    BY <2>1 DEF Clear, Claim, Ask, LabelOutcome, Unclaim, Release, ClearOutcome, Comment, Close, Progress, Call,
                ApplyDisposition, Relabel, world
  <2>2. ASSUME HandOff \/ Implement \/ CommitAttempt \/ Publish \/ Guard \/ Discard \/ Checkpoint \/ Look \/ Save \/ Complete
        PROVE  UNCHANGED pulls
    BY <2>2 DEF HandOff, Implement, CommitAttempt, Publish, Guard, Discard, Checkpoint, Look, Save, Complete, world
  <2>3. ASSUME SkipBuilder \/ BuilderFixed \/ SetupFails \/ BuilderFails \/ BuilderBlocked \/ VerifyPasses
               \/ VerifyFails \/ AlreadyFixed \/ VerifyChanges \/ VerifierAccepts \/ VerifierRejects \/ VerifierErrs
        PROVE  UNCHANGED pulls
    BY <2>3 DEF SkipBuilder, BuilderFixed, SetupFails, BuilderFails, BuilderBlocked, BuilderEdits, VerifyPasses,
                VerifyFails, AlreadyFixed, VerifyChanges, VerifierAccepts, VerifierRejects, VerifierErrs, world
  <2>4. ASSUME Rebase \/ RebaseFails \/ Land \/ LandFails \/ Check \/ Push \/ ReadyFails \/ SavePush
        PROVE  UNCHANGED pulls
    BY <2>4 DEF Rebase, RebaseFails, Land, LandFails, Check, Push, ReadyFails, SavePush, PushBranch, world
  <2> QED
    BY <1>1, <1>4, <2>1, <2>2, <2>3, <2>4 DEF RunStep, Implementation, Publication, Finishing
<1> QED
  BY <1>1, <1>2, <1>3, <1>4 DEF Next, Begin, BeginRecovery, Crash, Terminate, vars, world

\* What is closed stays so.
LEMMA StaysClosed ==
    ASSUME Typed, [Next]_vars, ~OpenReady, ~SaveCreate
    PROVE  /\ NoneOpen => NoneOpen'
           /\ \A q : OnlyOpen(q) => \A p \in Pr : Open(p)' => p = q
BY OpensNone DEF NoneOpen, OnlyOpen

\* A run has its branch, unless it found it lost.
LEMMA BranchAtHand ==
    ASSUME Typed, pc \notin {"idle", "save", "comment", "label", "unclaim"}
    PROVE  local \in Content /\ local # NoBranch
BY NoBranchApart DEF Typed, Branches, Recovering

\* GitHub's branch changes in two pushes and by a human's.
LEMMA RemoteSteps ==
    ASSUME Typed, [Next]_vars
    PROVE  \/ UNCHANGED remote
           \/ pc = "push" /\ Push /\ PushBranch
           \/ pc = "savepush" /\ SavePush /\ PushBranch
           \/ HumanStep
<1>1. ASSUME RunStep, ~Push, ~SavePush PROVE UNCHANGED remote
  <2>1. ASSUME Clear \/ Claim \/ Ask \/ LabelOutcome \/ Unclaim \/ Release \/ ClearOutcome \/ Comment \/ Close
               \/ Progress \/ Ready
        PROVE  UNCHANGED remote
    BY <2>1 DEF Clear, Claim, Ask, LabelOutcome, Unclaim, Release, ClearOutcome, Comment, Close, Progress, Ready,
                Call, ApplyDisposition, Relabel, SetPull, world, git
  <2>2. ASSUME HandOff \/ Implement \/ CommitAttempt \/ Publish \/ Guard \/ Discard \/ Checkpoint \/ Look \/ Save \/ Complete
        PROVE  UNCHANGED remote
    BY <2>2 DEF HandOff, Implement, CommitAttempt, CommitLeftovers, Publish, Guard, Discard, Checkpoint, Look, Save,
                Complete, world, git
  <2>3. ASSUME SkipBuilder \/ BuilderFixed \/ SetupFails \/ BuilderFails \/ BuilderBlocked \/ VerifyPasses
               \/ VerifyFails \/ AlreadyFixed \/ VerifyChanges \/ VerifierAccepts \/ VerifierRejects \/ VerifierErrs
        PROVE  UNCHANGED remote
    BY <2>3 DEF SkipBuilder, BuilderFixed, SetupFails, BuilderFails, BuilderBlocked, BuilderEdits, VerifyPasses,
                VerifyFails, AlreadyFixed, VerifyChanges, VerifierAccepts, VerifierRejects, VerifierErrs, world, git
  <2>4. ASSUME Rebase \/ RebaseFails \/ Land \/ LandFails \/ Check \/ ReadyFails \/ OpenReady \/ SaveCreate
        PROVE  UNCHANGED remote
    BY <2>4 DEF Rebase, RebaseFails, Land, LandFails, CommitLeftovers, Check, ReadyFails, OpenReady, SaveCreate, world, git
  <2> QED
    BY <1>1, <2>1, <2>2, <2>3, <2>4 DEF RunStep, Implementation, Publication, Finishing
<1>2. CASE Push
  BY <1>2 DEF Push, world, git
<1>3. CASE SavePush
  BY <1>3 DEF SavePush, world, git
<1> QED
  BY <1>1, <1>2, <1>3 DEF Next, Begin, BeginRecovery, Crash, Terminate, vars, world, git

\* The workspace's copy of it changes in the pushes, in fetches, and when the workspace
\* is cloned anew.
LEMMA TrackingSteps ==
    ASSUME Typed, [Next]_vars
    PROVE  \/ UNCHANGED tracking
           \/ pc \in {"push", "savepush"} /\ PushBranch
           \/ tracking' = Fetched
           \/ pc = "idle" /\ pc' = "idle" /\ tracking' = remote
<1>1. ASSUME RunStep
      PROVE  UNCHANGED tracking \/ (pc \in {"push", "savepush"} /\ PushBranch) \/ tracking' = Fetched
  <2>1. ASSUME Clear \/ Claim \/ Ask \/ LabelOutcome \/ Unclaim \/ Release \/ ClearOutcome \/ Comment \/ Close
               \/ Progress \/ Ready
        PROVE  UNCHANGED tracking
    BY <2>1 DEF Clear, Claim, Ask, LabelOutcome, Unclaim, Release, ClearOutcome, Comment, Close, Progress, Ready,
                Call, ApplyDisposition, Relabel, SetPull, world, git
  <2>2. ASSUME HandOff \/ Implement \/ CommitAttempt \/ Publish \/ Guard \/ Discard \/ Checkpoint \/ Look \/ Save \/ Complete
        PROVE  UNCHANGED tracking
    BY <2>2 DEF HandOff, Implement, CommitAttempt, CommitLeftovers, Publish, Guard, Discard, Checkpoint, Look, Save,
                Complete, world, git
  <2>3. ASSUME SkipBuilder \/ BuilderFixed \/ SetupFails \/ BuilderFails \/ BuilderBlocked \/ VerifyPasses
               \/ VerifyFails \/ AlreadyFixed \/ VerifyChanges \/ VerifierAccepts \/ VerifierRejects \/ VerifierErrs
        PROVE  UNCHANGED tracking
    BY <2>3 DEF SkipBuilder, BuilderFixed, SetupFails, BuilderFails, BuilderBlocked, BuilderEdits, VerifyPasses,
                VerifyFails, AlreadyFixed, VerifyChanges, VerifierAccepts, VerifierRejects, VerifierErrs, world, git
  <2>4. ASSUME Rebase \/ RebaseFails \/ Land \/ LandFails \/ Check \/ ReadyFails \/ OpenReady \/ SaveCreate
               \/ Push \/ SavePush
        PROVE  UNCHANGED tracking \/ (pc \in {"push", "savepush"} /\ PushBranch) \/ tracking' = Fetched
    BY <2>4 DEF Rebase, RebaseFails, Land, LandFails, CommitLeftovers, Check, ReadyFails, OpenReady, SaveCreate,
                Push, SavePush, world, git
  <2> QED
    BY <1>1, <2>1, <2>2, <2>3, <2>4 DEF RunStep, Implementation, Publication, Finishing
<1>2. CASE HumanStep
  BY <1>2, Humanly DEF WorkspaceRebuilt, Acts
<1> QED
  BY <1>1, <1>2 DEF Next, Begin, BeginRecovery, Crash, Terminate, vars, world, git

\* A run starts with a fetch.
LEMMA FromIdle ==
    ASSUME Typed, [Next]_vars, pc = "idle", pc' # "idle"
    PROVE  /\ \E s \in BOOLEAN : Begin(s) \/ BeginRecovery(s)
           /\ tracking' = Fetched
<1>1. ~HumanStep /\ ~(UNCHANGED vars)
  BY Humanly DEF vars
<1> QED
  BY <1>1, RunPlaces DEF Next, Begin, BeginRecovery, Crash, Terminate

\* A pull request is opened or called ready after a push.
LEMMA ComesToOpen ==
    ASSUME Typed, [Next]_vars, pc' \in {"ready", "open", "savecreate"}
    PROVE  pc \in {"ready", "open", "savecreate"} \/ Push \/ SavePush
<1>1. CASE UNCHANGED vars \/ HumanStep
  BY <1>1, Humanly DEF vars
<1>2. ASSUME Clear \/ Claim \/ Ask \/ LabelOutcome \/ Unclaim \/ Release \/ ClearOutcome \/ Comment \/ Close
             \/ Progress
      PROVE  FALSE
  BY <1>2 DEF Clear, Claim, Ask, LabelOutcome, Unclaim, Release, ClearOutcome, Comment, Close, Progress, Call,
         Throw, ThrowWith, EndRun, Goto
<1>3. ASSUME HandOff \/ Implement \/ Guard \/ Discard \/ Checkpoint \/ Look \/ SaveCreate \/ Save \/ Complete \/ Check
      PROVE  FALSE
  BY <1>3 DEF HandOff, Implement, Guard, Discard, Checkpoint, Look, SaveCreate, Save, Complete, Check, Fail, Finish,
         Throw, ThrowWith, EndRun, Goto
<1>4. ASSUME SkipBuilder \/ BuilderFixed \/ SetupFails \/ BuilderFails \/ BuilderBlocked \/ CommitAttempt
             \/ VerifyPasses \/ VerifyFails \/ AlreadyFixed \/ VerifyChanges \/ VerifierAccepts
             \/ VerifierRejects \/ VerifierErrs \/ Publish
      PROVE  FALSE
  BY <1>4 DEF SkipBuilder, BuilderFixed, SetupFails, BuilderFails, BuilderBlocked, CommitAttempt, VerifyPasses,
         VerifyFails, AlreadyFixed, VerifyChanges, VerifierAccepts, VerifierRejects, VerifierErrs, Publish, Accept,
         Retry, GiveUp, Fail, Finish, Goto
<1>5. ASSUME Rebase \/ RebaseFails \/ Land \/ LandFails PROVE FALSE
  BY <1>5 DEF Rebase, RebaseFails, Land, LandFails, Goto
<1> QED
  BY <1>1, <1>2, <1>3, <1>4, <1>5
     DEF Next, RunStep, Implementation, Publication, Finishing, Begin, BeginRecovery, Started,
         Crash, Terminate, EndRun, Goto, Ready, ReadyFails, OpenReady, Call

\* An open pull request keeps its branch.
LEMMA StepPresent ==
    ASSUME Typed, Steady, Present, [Next]_vars
    PROVE  Present'
<1>1. ASSUME remote # NoBranch PROVE remote' # NoBranch
  <2>1. CASE PushBranch /\ pc \in {"push", "savepush"}
    BY <2>1, BranchAtHand DEF PushBranch
  <2>2. CASE HumanStep
    BY <1>1, <2>2, Humanly DEF NoBranch
  <2> QED
    BY <1>1, <2>1, <2>2, RemoteSteps
<1>2. ASSUME tracking # NoBranch, pc # "idle" PROVE tracking' # NoBranch
  <2>1. CASE PushBranch /\ pc \in {"push", "savepush"}
    BY <2>1, BranchAtHand DEF PushBranch
  <2> QED
    BY <1>2, <2>1, TrackingSteps DEF Fetched
<1>3. CASE OpenReady \/ SaveCreate
  <2>1. remote' # NoBranch /\ tracking' # NoBranch
    BY <1>1, <1>2, <1>3 DEF Present, OpenReady, SaveCreate
  <2> QED
    BY <2>1 DEF Present
<1>4. CASE ~OpenReady /\ ~SaveCreate
  <2>1. NoneOpen => NoneOpen'
    BY <1>4, StaysClosed
  <2>2. pc' \in {"ready", "open", "savecreate"} => remote' # NoBranch /\ tracking' # NoBranch
    <3>1. CASE pc \in {"ready", "open", "savecreate"}
      BY <1>1, <1>2, <3>1 DEF Present
    <3>2. CASE Push \/ SavePush
      BY <3>2, SteadyFault, BranchAtHand DEF Push, SavePush, PushBranch, Throw, ThrowWith, EndRun, Goto, world, git
    <3> QED
      BY <3>1, <3>2, ComesToOpen
  <2>3. pc = "idle" /\ pc' # "idle" /\ remote # NoBranch => tracking' # NoBranch
    BY FromIdle DEF Fetched
  <2> QED
    BY <1>1, <1>2, <2>1, <2>2, <2>3 DEF Present
<1> QED
  BY <1>3, <1>4

\* A run without failures starts with the claim at hand, and ends by giving it back.
LEMMA ComesToEnd ==
    ASSUME Typed, Steady, Holding, [Next]_vars, pc' \in {"idle", "clear", "relabel", "complete"}
    PROVE  \/ pc' = pc /\ (HumanStep \/ UNCHANGED issue)
           \/ \E s \in BOOLEAN : Begin(s)
           \/ Unclaim \/ Release \/ ClearOutcome \/ Complete
<1> USE SteadyFault
<1>1. CASE UNCHANGED vars \/ HumanStep
  BY <1>1, Humanly DEF vars, world
<1>2. ASSUME Clear \/ Claim \/ Ask \/ LabelOutcome \/ Comment \/ Close \/ Progress
      PROVE  FALSE
  BY <1>2, CallsMove
<1>3. ASSUME HandOff \/ Implement \/ Guard \/ Discard \/ Checkpoint \/ Look \/ SavePush \/ SaveCreate \/ Save
      PROVE  FALSE
  BY <1>3 DEF HandOff, Implement, Guard, Discard, Checkpoint, Look, SavePush, SaveCreate, Save, Fail, Finish, Goto
<1>4. ASSUME Check \/ Push \/ Ready \/ ReadyFails \/ OpenReady PROVE FALSE
  <2>1. ~run.caught
    BY <1>4, CallsMove DEF Holding, Working, Check, Push, ReadyFails, OpenReady
  <2> QED
    BY <1>4, <2>1, CallsMove, ThrownOnce DEF Check, Push, ReadyFails, OpenReady, Goto
<1>5. ASSUME SkipBuilder \/ BuilderFixed \/ SetupFails \/ BuilderFails \/ BuilderBlocked \/ CommitAttempt
             \/ VerifyPasses \/ VerifyFails \/ AlreadyFixed \/ VerifyChanges \/ VerifierAccepts
             \/ VerifierRejects \/ VerifierErrs \/ Publish
      PROVE  FALSE
  BY <1>5 DEF SkipBuilder, BuilderFixed, SetupFails, BuilderFails, BuilderBlocked, CommitAttempt, VerifyPasses,
         VerifyFails, AlreadyFixed, VerifyChanges, VerifierAccepts, VerifierRejects, VerifierErrs, Publish, Accept,
         Retry, GiveUp, Fail, Finish, Goto
<1>6. ASSUME Rebase \/ RebaseFails \/ Land \/ LandFails PROVE FALSE
  BY <1>6 DEF Rebase, RebaseFails, Land, LandFails, Goto
<1>7. CASE Crash \/ Terminate
  BY <1>7 DEF Crash, Terminate, Steady
<1> QED
  BY <1>1, <1>2, <1>3, <1>4, <1>5, <1>6, <1>7
     DEF Next, RunStep, Implementation, Publication, Finishing, BeginRecovery

\* The claim is put on an issue that has none, and taken away again.
LEMMA StepUnclaimed ==
    ASSUME Typed, Steady, Holding, Unclaimed, [Next]_vars
    PROVE  Unclaimed'
<1> SUFFICES ASSUME pc' \in {"idle", "clear", "relabel", "complete"}
             PROVE  "in-progress" \notin issue'.labels
  BY DEF Unclaimed
<1>1. issue \in IssueType
  BY DEF Typed, Records
<1>2. CASE pc' = pc /\ (HumanStep \/ UNCHANGED issue)
  BY <1>2, Humanly DEF Unclaimed
<1>3. ASSUME NEW s \in BOOLEAN, Begin(s) PROVE "in-progress" \notin issue'.labels
  BY <1>3 DEF Begin, Selected
<1>4. CASE Unclaim \/ Release
  BY <1>1, <1>4, CallsAct DEF Relabel, IssueType
<1>5. CASE ClearOutcome
  BY <1>1, <1>5, CallsAct, CallsMove DEF ApplyDisposition, Relabel, IssueType, Unclaimed
<1>6. CASE Complete
  BY <1>6 DEF Complete, Unclaimed
<1> QED
  BY <1>2, <1>3, <1>4, <1>5, <1>6, ComesToEnd

\* What a run does at "ready".
LEMMA FromReady ==
    ASSUME [Next]_vars, pc = "ready", Steady
    PROVE  Ready \/ ReadyFails \/ HumanStep \/ UNCHANGED vars
BY DEF Steady, Next, RunStep, Implementation, Publication, Finishing, Begin, BeginRecovery, Clear, Claim, HandOff,
       Implement, SkipBuilder, BuilderFixed, SetupFails, BuilderFails, BuilderBlocked,
       CommitAttempt, VerifyPasses, VerifyFails, AlreadyFixed, VerifyChanges, VerifierAccepts,
       VerifierRejects, VerifierErrs, Publish, Rebase, RebaseFails, Land, LandFails, Check, Push,
       OpenReady, Progress, Guard, Ask, Discard, Checkpoint, Look, SavePush, Crash, Terminate,
       SaveCreate, Save, Comment, LabelOutcome, Unclaim, Close, Release, ClearOutcome, Complete, Call

\* Its implementation starts after the look for a pull request that is ready.
LEMMA ComesToMiddle ==
    ASSUME Typed, Steady, [Next]_vars, pc' \in Middle, pc \notin Middle
    PROVE  Implement
<1> USE SteadyFault DEF Middle, Attempting, Direct, Publishing, Halted
<1>1. ~(UNCHANGED vars) /\ ~HumanStep
  BY Humanly DEF vars
<1>2. ASSUME NEW s \in BOOLEAN PROVE ~Begin(s) /\ ~BeginRecovery(s)
  BY DEF Begin, BeginRecovery
<1>3. ~(Clear \/ Claim \/ Progress \/ Comment \/ LabelOutcome \/ Unclaim \/ Close \/ Release \/ ClearOutcome
        \/ Ready \/ Ask)
  BY CallsMove
<1>4. ~(Crash \/ Terminate)
  BY DEF Crash, Terminate, Steady
<1>5. ~(HandOff \/ Guard \/ Save \/ Complete)
  BY DEF HandOff, Guard, Save, Complete, Goto, EndRun
<1> QED
  BY <1>1, <1>2, <1>3, <1>4, <1>5
     DEF Next, RunStep, Implementation, Publication, Finishing, SkipBuilder, BuilderFixed, SetupFails, BuilderFails,
         BuilderBlocked, CommitAttempt, VerifyPasses, VerifyFails, AlreadyFixed, VerifyChanges, VerifierAccepts,
         VerifierRejects, VerifierErrs, Publish, Rebase, RebaseFails, Land, LandFails, Check, Push,
         ReadyFails, OpenReady, Discard, Checkpoint, Look, SavePush, SaveCreate

\* What a run was started with stays the same.
LEMMA SameWasReady ==
    ASSUME Typed, Steady, [Next]_vars, pc \in Middle, pc' \in Middle
    PROVE  run'.wasReady = run.wasReady
<1> USE SteadyFault
<1>1. run \in Run
  BY DEF Typed, Control
<1>2. CASE pc \in Attempting /\ RunStep
  BY <1>2, Attempted
<1>3. CASE pc \in Direct /\ RunStep
  BY <1>1, <1>3, Directed DEF Run
<1>4. CASE UNCHANGED vars \/ HumanStep
  BY <1>4, Humanly DEF vars
<1>5. CASE Check \/ Push \/ ReadyFails \/ OpenReady
  <2>1. CASE Throw
    BY <1>1, <2>1 DEF Throw, ThrowWith, EndRun, Goto, Middle, Attempting, Direct, Publishing, Halted, Run
  <2> QED
    BY <1>1, <1>5, <2>1 DEF Check, Push, ReadyFails, OpenReady, Goto, Run
<1>6. CASE Ready \/ Ask
  BY <1>1, <1>6, CallsMove DEF Run
<1>7. CASE Discard \/ Checkpoint \/ Look \/ SavePush \/ SaveCreate
  BY <1>1, <1>7 DEF Discard, Checkpoint, Look, SavePush, SaveCreate, Goto, Run
<1>8. CASE Crash \/ Terminate
  BY <1>8 DEF Crash, Terminate, Steady
<1>9. ASSUME NEW s \in BOOLEAN PROVE ~Begin(s) /\ ~BeginRecovery(s)
  BY DEF Begin, BeginRecovery, Middle, Attempting, Direct, Publishing, Halted
<1>10. ~(Clear \/ Claim \/ HandOff \/ Implement \/ Progress \/ Guard \/ Save \/ Comment \/ LabelOutcome \/ Unclaim
         \/ Close \/ Release \/ ClearOutcome \/ Complete)
  BY DEF Clear, Claim, HandOff, Implement, Progress, Guard, Save, Comment, LabelOutcome, Unclaim, Close, Release,
         ClearOutcome, Complete, Call, Middle, Attempting, Direct, Publishing, Halted
<1>11. pc \in Attempting \/ pc \in Direct \/
       ~(SkipBuilder \/ BuilderFixed \/ SetupFails \/ BuilderFails \/ BuilderBlocked \/ CommitAttempt
         \/ VerifyPasses \/ VerifyFails \/ AlreadyFixed \/ VerifyChanges \/ VerifierAccepts
         \/ VerifierRejects \/ VerifierErrs \/ Publish \/ Rebase \/ RebaseFails \/ Land \/ LandFails)
  BY DEF SkipBuilder, BuilderFixed, SetupFails, BuilderFails, BuilderBlocked, CommitAttempt, VerifyPasses,
         VerifyFails, AlreadyFixed, VerifyChanges, VerifierAccepts, VerifierRejects, VerifierErrs, Publish,
         Rebase, RebaseFails, Land, LandFails, Attempting, Direct
<1> QED
  BY <1>2, <1>3, <1>4, <1>5, <1>6, <1>7, <1>8, <1>9, <1>10, <1>11
     DEF Next, RunStep, Implementation, Publication, Finishing

\* The first steps of a run change labels and nothing else.
LEMMA ComesToEarly ==
    ASSUME Typed, Steady, [Next]_vars, pc' \in Early
    PROVE  \/ \E s \in BOOLEAN : Begin(s)
           \/ /\ run' = run /\ pc \in Early /\ UNCHANGED <<saved, tracking, local, behind>>
              /\ UNCHANGED <<pulls, remote>> \/ HumanStep
<1> USE SteadyFault DEF Early
<1>1. CASE UNCHANGED vars \/ HumanStep
  BY <1>1, Humanly DEF vars, world, git, WorkspaceRebuilt
<1>2. CASE Clear \/ Claim
  BY <1>2, CallsMove, CallsAct, LabelsOnly
<1>3. CASE Crash \/ Terminate
  BY <1>3 DEF Crash, Terminate, Steady
<1>4. ASSUME Progress \/ Comment \/ LabelOutcome \/ Unclaim \/ Close \/ Release \/ ClearOutcome \/ Ready \/ Ask
      PROVE  FALSE
  BY <1>4, CallsMove
<1>5. ASSUME HandOff \/ Implement \/ Guard \/ Discard \/ Checkpoint \/ Look \/ SavePush \/ SaveCreate \/ Save \/ Complete
      PROVE  FALSE
  BY <1>5 DEF HandOff, Implement, Guard, Discard, Checkpoint, Look, SavePush, SaveCreate, Save, Complete, Fail, Finish,
              Goto, EndRun, Throw, ThrowWith
<1>6. ASSUME SkipBuilder \/ BuilderFixed \/ SetupFails \/ BuilderFails \/ BuilderBlocked \/ CommitAttempt
             \/ VerifyPasses \/ VerifyFails \/ AlreadyFixed \/ VerifyChanges \/ VerifierAccepts
             \/ VerifierRejects \/ VerifierErrs \/ Publish
      PROVE  FALSE
  BY <1>6 DEF SkipBuilder, BuilderFixed, SetupFails, BuilderFails, BuilderBlocked, CommitAttempt, VerifyPasses,
         VerifyFails, AlreadyFixed, VerifyChanges, VerifierAccepts, VerifierRejects, VerifierErrs, Publish, Accept,
         Retry, GiveUp, Fail, Finish, Goto
<1>7. ASSUME Rebase \/ RebaseFails \/ Land \/ LandFails \/ Check \/ Push \/ ReadyFails \/ OpenReady PROVE FALSE
  BY <1>7 DEF Rebase, RebaseFails, Land, LandFails, Check, Push, ReadyFails, OpenReady, Goto, Throw, ThrowWith, EndRun
<1> QED
  BY <1>1, <1>2, <1>3, <1>4, <1>5, <1>6, <1>7
     DEF Next, RunStep, Implementation, Publication, Finishing, BeginRecovery

\* While the run may push, nothing is ready for review.
LEMMA StepDrafts ==
    ASSUME Typed, Steady, Holding, Traced, Drafts, [Next]_vars
    PROVE  Drafts'
<1> SUFFICES ASSUME pc' \in Middle
             PROVE  \A p \in Pr : pulls'[p] # "ready"
  BY DEF Drafts
<1>1. (~OpenReady /\ ~SaveCreate) \/ pulls' = pulls
  BY SteadyFault DEF OpenReady, SaveCreate, Middle, Attempting, Direct, Publishing, Halted
<1>2. CASE pc \in Middle /\ pc # "ready"
  BY <1>1, <1>2, OpensNone DEF Drafts
<1>3. CASE pc = "ready"
  <2>1. ~Ready
    BY CallsMove DEF Middle, Attempting, Direct, Publishing, Halted
  <2>2. CASE ReadyFails
    BY <1>3, <2>2 DEF ReadyFails, world, Drafts, Middle, Publishing
  <2>3. CASE HumanStep \/ UNCHANGED vars
    BY <1>3, <2>3, HumansOpenNone DEF vars, world, Drafts, Middle, Publishing
  <2> QED
    BY <1>3, <2>1, <2>2, <2>3, FromReady
<1>4. CASE pc \notin Middle
  <2>1. Implement
    BY <1>4, ComesToMiddle
  <2>2. OnlyOpen(run.prevPr) /\ ~(run.prevPr # NoPr /\ IsReady(run.prevPr))
    BY <2>1, SteadyFault DEF Implement, Traced, Early
  <2>3. \A p \in Pr : ~IsReady(p)
    BY <2>2 DEF OnlyOpen, Open, Pr, NoPr
  <2> QED
    BY <2>1, <2>3 DEF Implement, IsReady
<1> QED
  BY <1>2, <1>3, <1>4

\* What was ready at the start of the run is so until it is handed over.
LEMMA StepHanded ==
    ASSUME Typed, Steady, Holding, Traced, Handed, [Next]_vars
    PROVE  Handed'
<1>1. run \in Run /\ pulls \in [Pr -> PrState] /\ pulls' \in [Pr -> PrState]
  BY StepTyped DEF Typed, Control, Records
<1>2. ASSUME pc' \in Early, NEW p \in run'.wasReady, Open(p)' PROVE IsReady(p)'
  <2>1. CASE \E s \in BOOLEAN : Begin(s)
    BY <1>2, <2>1 DEF Begin, Started, NoRun, IsReady
  <2>2. CASE run' = run /\ pc \in Early /\ (UNCHANGED pulls \/ HumanStep)
    BY <1>1, <1>2, <2>2, Humanly, HumansOpenNone DEF Handed, Open, IsReady, Run
  <2> QED
    BY <1>2, <2>1, <2>2, ComesToEarly
<1>3. ASSUME pc' \in Middle, NEW p \in run'.wasReady PROVE ~Open(p)'
  <2>1. CASE pc \in Middle
    <3>1. run'.wasReady = run.wasReady /\ run.wasReady \subseteq Pr
      BY <1>1, <1>3, <2>1, SameWasReady DEF Run
    <3>2. \A q \in Pr : Open(q)' => Open(q)
      BY <1>3, OpensNone, SteadyFault DEF OpenReady, SaveCreate, Middle, Attempting, Direct, Publishing, Halted, Open, IsReady
    <3> QED
      BY <1>3, <2>1, <3>1, <3>2 DEF Handed
  <2>2. CASE pc \notin Middle
    <3>1. Implement
      BY <1>3, <2>2, ComesToMiddle
    <3>2. run'.wasReady = run.wasReady /\ run.wasReady \subseteq Pr /\ UNCHANGED pulls
      BY <1>1, <3>1 DEF Implement, Goto, Fail, Finish, Run
    <3>3. OnlyOpen(run.prevPr) /\ ~(run.prevPr # NoPr /\ IsReady(run.prevPr)) /\ pc \in Early
      BY <3>1, SteadyFault DEF Implement, Traced, Early
    <3> QED
      BY <1>3, <3>2, <3>3 DEF Handed, OnlyOpen, Open, IsReady, Pr, NoPr
  <2> QED
    BY <2>1, <2>2
<1> QED
  BY <1>2, <1>3 DEF Handed

\* A commit of what the builder or verification left keeps a human's commits, and one of
\* what verification left keeps the review.
LEMMA CommitKeeps ==
    ASSUME NEW c, NEW d \in Dirty
    PROVE  /\ "human" \in c => "human" \in Commit(c, d)
           /\ "reviewed" \in c /\ d \in {"clean", "residue", "badresidue"} => "reviewed" \in Commit(c, d)
BY DEF Commit, Dirty

\* The steps that lead to the review and on from it, when none fails.
LEMMA ComesToReview ==
    ASSUME Typed, Steady, [Next]_vars,
           pc' \in {"verify", "review", "final", "check", "push", "ready", "open"} \cup Direct
    PROVE  \/ pc' = pc /\ (HumanStep \/ UNCHANGED vars)
           \/ CommitAttempt \/ VerifyPasses \/ VerifyChanges \/ VerifierAccepts \/ Publish
           \/ Rebase \/ RebaseFails \/ LandFails \/ Check \/ Push
<1> USE SteadyFault DEF Direct
<1>1. CASE UNCHANGED vars \/ HumanStep
  BY <1>1, Humanly DEF vars
<1>2. CASE Crash \/ Terminate
  BY <1>2 DEF Crash, Terminate, Steady
<1>3. ASSUME Clear \/ Claim \/ Progress \/ Comment \/ LabelOutcome \/ Unclaim \/ Close \/ Release \/ ClearOutcome \/ Ready \/ Ask
      PROVE  FALSE
  BY <1>3, CallsMove
<1>4. ASSUME HandOff \/ Implement \/ Guard \/ Discard \/ Checkpoint \/ Look \/ SavePush \/ SaveCreate \/ Save \/ Complete
             \/ ReadyFails \/ OpenReady \/ Land
      PROVE  FALSE
  BY <1>4 DEF HandOff, Implement, Guard, Discard, Checkpoint, Look, SavePush, SaveCreate, Save, Complete, Fail, Finish,
              Goto, EndRun, Throw, ThrowWith, ReadyFails, OpenReady, Land
<1>5. ASSUME SkipBuilder \/ BuilderFixed \/ SetupFails \/ BuilderFails \/ BuilderBlocked
             \/ VerifyFails \/ AlreadyFixed \/ VerifierRejects \/ VerifierErrs
      PROVE  FALSE
  BY <1>5 DEF SkipBuilder, BuilderFixed, SetupFails, BuilderFails, BuilderBlocked,
         VerifyFails, AlreadyFixed, VerifierRejects, VerifierErrs, Retry, GiveUp, Fail, Finish, Goto
<1>6. ASSUME NEW s \in BOOLEAN PROVE ~Begin(s) /\ ~BeginRecovery(s)
  BY DEF Begin, BeginRecovery
<1> QED
  BY <1>1, <1>2, <1>3, <1>4, <1>5, <1>6 DEF Next, RunStep, Implementation, Publication, Finishing

\* What is ready for review shows what was examined.
LEMMA StepReadyIsReviewed ==
    ASSUME Typed, Steady, Drafts, Examined, [Next]_vars
    PROVE  ReadyIsReviewed'
<1> SUFFICES ASSUME NEW p \in Pr, pulls'[p] = "ready" PROVE "reviewed" \in remote'
  BY DEF ReadyIsReviewed
<1>1. CASE PushBranch /\ pc \in {"push", "savepush"}
  BY <1>1 DEF PushBranch, Drafts, Middle, Publishing, Halted
<1>2. CASE UNCHANGED remote \/ HumanStep
  <2>1. "reviewed" \in remote => "reviewed" \in remote'
    BY <1>2, Humanly
  <2>2. CASE pc \in {"ready", "open"}
    BY <2>1, <2>2 DEF Examined
  <2>3. CASE pc \notin {"ready", "open"} /\ SaveCreate
    <3>1. pulls'[p] = pulls[p] \/ pulls'[p] = "draft"
      BY <2>3 DEF SaveCreate, Create, Typed, Records
    <3> QED
      BY <2>1, <3>1 DEF Examined, ReadyIsReviewed
  <2>4. CASE pc \notin {"ready", "open"} /\ ~SaveCreate
    <3>1. pulls[p] = "ready"
      BY <2>4, OpensNone DEF OpenReady
    <3> QED
      BY <2>1, <3>1 DEF Examined, ReadyIsReviewed
  <2> QED
    BY <2>2, <2>3, <2>4
<1> QED
  BY <1>1, <1>2, RemoteSteps

\* From the review to the push nothing but residue of verification is added.
LEMMA StepExamined ==
    ASSUME Typed, Steady, Drafts, Examined, [Next]_vars
    PROVE  Examined'
<1> DEFINE Rest == /\ pc' \in {"final", "check", "push"} \cup Direct => "reviewed" \in local'
                   /\ pc' \in {"ready", "open"} => "reviewed" \in remote'
                   /\ pc' \in {"verify", "rebase"} => dirty' = "clean"
                   /\ pc' \in {"review", "final", "land"} => dirty' \in {"clean", "residue", "badresidue"}
<1> SUFFICES Rest
  BY StepReadyIsReviewed DEF Examined, Direct
<1>1. Residue \subseteq {"clean", "residue", "badresidue"}
  BY DEF Residue
<1>2. dirty \in Dirty
  BY DEF Typed, Branches
<1>3. CASE pc' = pc /\ (HumanStep \/ UNCHANGED vars)
  <2>1. pc = "idle" \/ UNCHANGED <<local, dirty>>
    BY <1>3, Humanly DEF vars, world, git, WorkspaceRebuilt
  <2>2. "reviewed" \in remote => "reviewed" \in remote'
    BY <1>3, Humanly DEF vars, world, git
  <2> QED
    BY <1>3, <2>1, <2>2 DEF Examined, Direct
<1>4. CASE CommitAttempt
  BY <1>4 DEF CommitAttempt, CommitLeftovers, Goto, Fail, Finish, Direct
<1>5. CASE VerifyPasses \/ VerifyChanges \/ VerifierAccepts
  <2>1. pc \in {"verify", "review"}
    BY <1>5 DEF VerifyPasses, VerifyChanges, VerifierAccepts
  <2> QED
    BY <1>1, <1>5, <2>1 DEF VerifyPasses, VerifyChanges, VerifierAccepts, Accept, Goto, Fail, Finish, Direct, Examined
<1>6. CASE Publish
  <2>1. "reviewed" \in local'
    BY <1>2, <1>6, CommitKeeps DEF Publish, CommitLeftovers, Examined
  <2>2. pc' \in {"check", "rebase", "ask", "checkpoint"} /\ dirty' = "clean"
    BY <1>6 DEF Publish, CommitLeftovers, Goto, Fail, Finish
  <2> QED
    BY <2>1, <2>2 DEF Direct
<1>7. CASE Rebase \/ RebaseFails
  BY <1>1, <1>7 DEF Rebase, RebaseFails, Goto, Direct, Examined
<1>8. CASE LandFails
  BY <1>2, <1>8, CommitKeeps DEF LandFails, CommitLeftovers, Goto, Direct, Examined
<1>9. CASE Check
  BY <1>9, SteadyFault DEF Check, Throw, ThrowWith, EndRun, Goto, Direct, Examined, world, git
<1>10. CASE Push
  BY <1>10, SteadyFault DEF Push, PushBranch, Throw, ThrowWith, EndRun, Goto, Direct, Examined, world, git
<1> QED
  BY <1>3, <1>4, <1>5, <1>6, <1>7, <1>8, <1>9, <1>10, ComesToReview DEF Direct

\* A run is not started beside a pull request that a result names; another open one is
\* in the state that the run resumes.
LEMMA BeginTraced ==
    ASSUME Traced, pc = "idle", NEW s \in BOOLEAN, Selected(s)
    PROVE  \A p \in Pr : Open(p) => saved.pr = p /\ Resumes
<1>1. issue.open /\ OnRecord
  BY DEF Selected, Traced
<1>2. \A p \in issue.results : ~Open(p)
  BY DEF Selected, Marked
<1> QED
  BY <1>1, <1>2 DEF OnRecord, Resumes

\* Up to its last push a run opens no pull request.
LEMMA OpensNoneYet ==
    ASSUME Typed, Steady, [Next]_vars, pc' \in Early \cup Middle
    PROVE  /\ \A p \in Pr : Open(p)' => Open(p)
           /\ NoneOpen => NoneOpen'
           /\ \A q : OnlyOpen(q) => \A p \in Pr : Open(p)' => p = q
<1>1. (~OpenReady /\ ~SaveCreate) \/ UNCHANGED pulls
  BY SteadyFault DEF OpenReady, SaveCreate, Early, Middle, Attempting, Direct, Publishing, Halted
<1>2. \A p \in Pr : Open(p)' => Open(p)
  BY <1>1, OpensNone DEF Open, IsReady
<1> QED
  BY <1>2 DEF NoneOpen, OnlyOpen

\* When the workspace's branch may fall behind.
LEMMA BehindSteps ==
    ASSUME Typed, [Next]_vars
    PROVE  \/ behind' = behind
           \/ behind' = FALSE /\ (PushBranch \/ Discard \/ WorkspaceRebuilt)
           \/ \E s \in BOOLEAN : Begin(s) \/ BeginRecovery(s)
           \/ Rebase \/ RebaseFails
<1>1. ASSUME RunStep, ~Rebase, ~RebaseFails
      PROVE  behind' = behind \/ (behind' = FALSE /\ (PushBranch \/ Discard))
  <2>1. ASSUME Clear \/ Claim \/ Ask \/ LabelOutcome \/ Unclaim \/ Release \/ ClearOutcome \/ Comment \/ Close
               \/ Progress \/ Ready
        PROVE  UNCHANGED behind
    BY <2>1 DEF Clear, Claim, Ask, LabelOutcome, Unclaim, Release, ClearOutcome, Comment, Close, Progress, Ready,
                Call, ApplyDisposition, Relabel, SetPull, world, git
  <2>2. ASSUME HandOff \/ Implement \/ CommitAttempt \/ Publish \/ Guard \/ Checkpoint \/ Look \/ Save \/ Complete
        PROVE  UNCHANGED behind
    BY <2>2 DEF HandOff, Implement, CommitAttempt, CommitLeftovers, Publish, Guard, Checkpoint, Look, Save,
                Complete, world, git
  <2>3. ASSUME SkipBuilder \/ BuilderFixed \/ SetupFails \/ BuilderFails \/ BuilderBlocked \/ VerifyPasses
               \/ VerifyFails \/ AlreadyFixed \/ VerifyChanges \/ VerifierAccepts \/ VerifierRejects \/ VerifierErrs
        PROVE  UNCHANGED behind
    BY <2>3 DEF SkipBuilder, BuilderFixed, SetupFails, BuilderFails, BuilderBlocked, BuilderEdits, VerifyPasses,
                VerifyFails, AlreadyFixed, VerifyChanges, VerifierAccepts, VerifierRejects, VerifierErrs, world, git
  <2>4. ASSUME Land \/ LandFails \/ Check \/ ReadyFails \/ OpenReady \/ SaveCreate \/ Push \/ SavePush \/ Discard
        PROVE  behind' = behind \/ (behind' = FALSE /\ (PushBranch \/ Discard))
    BY <2>4 DEF Land, LandFails, CommitLeftovers, Check, ReadyFails, OpenReady, SaveCreate,
                Push, SavePush, PushBranch, Discard, world, git
  <2> QED
    BY <1>1, <2>1, <2>2, <2>3, <2>4 DEF RunStep, Implementation, Publication, Finishing
<1>2. CASE HumanStep
  BY <1>2, Humanly DEF WorkspaceRebuilt
<1> QED
  BY <1>1, <1>2 DEF Next, Begin, BeginRecovery, Crash, Terminate, vars, world, git

\* The workspace's branch is behind only what no open pull request is about.
LEMMA StepBehind ==
    ASSUME Typed, Steady, Traced, Carried, [Next]_vars,
           pc' \in Early \cup Attempting \cup Publishing \cup Halted, ~NoneOpen'
    PROVE  ~behind'
<1>1. pc' \in Early \cup Middle /\ ~NoneOpen
  BY OpensNoneYet DEF Middle
<1>2. ASSUME NEW s \in BOOLEAN, Begin(s) PROVE ~behind'
  <2>1. ~FreshBranch
    BY <1>1, <1>2, BeginTraced DEF Begin, NoneOpen, FreshBranch
  <2> QED
    BY <1>2, <2>1 DEF Begin, ResumedBranch
<1>3. ASSUME NEW s \in BOOLEAN, BeginRecovery(s) PROVE FALSE
  BY <1>1, <1>3 DEF BeginRecovery, Early, Middle, Attempting, Direct, Publishing, Halted
<1>4. pc \notin Direct
  BY <1>1 DEF Traced
<1>5. CASE behind' = behind /\ ~(\E s \in BOOLEAN : Begin(s))
  <2>1. pc \in Early \cup Middle
    <3>1. CASE pc' \in Early
      BY <1>5, <3>1, ComesToEarly
    <3>2. CASE pc' \in Middle /\ pc \notin Middle
      BY <3>2, ComesToMiddle DEF Implement, Early
    <3> QED
      BY <1>1, <3>1, <3>2
  <2> QED
    BY <1>1, <1>4, <1>5, <2>1 DEF Middle, Carried
<1>6. ~Rebase /\ ~RebaseFails
  BY <1>4 DEF Rebase, RebaseFails, Direct
<1> QED
  BY <1>2, <1>3, <1>5, <1>6, BehindSteps

\* A human's commits are carried along.
LEMMA StepHumanCommits ==
    ASSUME Typed, Steady, Carried, [Next]_vars,
           local' # NoBranch, ~behind', "human" \in tracking'
    PROVE  "human" \in local'
<1> USE SteadyFault
<1>1. /\ dirty \in Dirty /\ behind \in BOOLEAN /\ ahead \in BOOLEAN
      /\ "human" \notin NoBranch /\ {} # NoBranch
  BY DEF Typed, Branches, NoBranch
<1>2. ASSUME UNCHANGED <<tracking, behind>>,
             local' = local \/ (local # NoBranch /\ (local \subseteq local' \/ CommitLeftovers))
      PROVE  "human" \in local'
  <2>1. ~behind /\ "human" \in tracking
    BY <1>2
  <2>2. local # NoBranch => "human" \in local
    BY <2>1 DEF Carried
  <2>3. CASE CommitLeftovers /\ local # NoBranch
    BY <1>1, <2>2, <2>3, CommitKeeps DEF CommitLeftovers
  <2> QED
    BY <1>1, <1>2, <2>2, <2>3
<1>3. ASSUME NEW s \in BOOLEAN, Begin(s) \/ BeginRecovery(s) PROVE "human" \in local'
  <2>1. tracking' = Fetched
    BY <1>3 DEF Begin, BeginRecovery
  <2>2. CASE FreshBranch
    BY <1>1, <2>1, <2>2 DEF FreshBranch
  <2>3. CASE ResumedBranch
    <3>1. CASE local = NoBranch \/ behind \/ Moved
      BY <2>1, <2>3, <3>1 DEF ResumedBranch
    <3>2. CASE local # NoBranch /\ ~behind /\ ~Moved
      BY <2>1, <2>3, <3>2 DEF ResumedBranch, Moved, Carried
    <3> QED
      BY <1>1, <3>1, <3>2
  <2>4. CASE BeginRecovery(s)
    BY <2>1, <2>4 DEF BeginRecovery, Moved, Carried
  <2> QED
    BY <1>3, <2>2, <2>3, <2>4 DEF Begin
<1>4. CASE HumanStep
  <2>1. CASE WorkspaceRebuilt
    BY <2>1 DEF WorkspaceRebuilt
  <2> QED
    BY <1>2, <1>4, <2>1, Humanly
<1>5. ASSUME Clear \/ Claim \/ Ask \/ LabelOutcome \/ Unclaim \/ Release \/ ClearOutcome \/ Comment \/ Close
             \/ Progress \/ Ready
      PROVE  "human" \in local'
  BY <1>2, <1>5, CallsAct, LabelsOnly DEF SetPull, world, git
<1>6. ASSUME HandOff \/ Implement \/ Guard \/ Look \/ Save \/ Complete \/ Check \/ ReadyFails \/ OpenReady \/ SaveCreate
      PROVE  "human" \in local'
  BY <1>2, <1>6 DEF HandOff, Implement, Guard, Look, Save, Complete, Check, ReadyFails, OpenReady, SaveCreate, world, git
<1>7. ASSUME CommitAttempt \/ Publish \/ LandFails \/ Checkpoint
      PROVE  "human" \in local'
  <2>1. pc \notin {"idle", "save", "comment", "label", "unclaim"}
    BY <1>7 DEF CommitAttempt, Publish, LandFails, Checkpoint
  <2>2. local # NoBranch /\ CommitLeftovers /\ UNCHANGED <<tracking, behind>>
    BY <1>7, <2>1, BranchAtHand DEF CommitAttempt, Publish, LandFails, Checkpoint, CommitLeftovers
  <2> QED
    BY <1>2, <2>2
<1>8. ASSUME SkipBuilder \/ BuilderFixed \/ SetupFails \/ BuilderFails \/ BuilderBlocked \/ VerifyFails \/ AlreadyFixed
             \/ VerifierRejects \/ VerifierErrs
      PROVE  "human" \in local'
  BY <1>2, <1>8 DEF SkipBuilder, BuilderFixed, SetupFails, BuilderFails, BuilderBlocked, BuilderEdits, VerifyFails,
                    AlreadyFixed, VerifierRejects, VerifierErrs, world, git
<1>9. ASSUME VerifyPasses \/ VerifyChanges \/ VerifierAccepts PROVE "human" \in local'
  <2>1. pc \notin {"idle", "save", "comment", "label", "unclaim"} /\ UNCHANGED <<tracking, behind>>
    BY <1>9 DEF VerifyPasses, VerifyChanges, VerifierAccepts, Accept
  <2>2. local # NoBranch
    BY <2>1, BranchAtHand
  <2>3. CASE VerifyChanges
    <3>1. PICK d \in Residue : local' \in {Commit(local, d), Commit(local, d) \cup {"reviewed"}}
      BY <2>3 DEF VerifyChanges
    <3>2. "human" \in local => "human" \in Commit(local, d)
      BY CommitKeeps DEF Residue, Dirty
    <3> QED
      BY <2>1, <2>2, <3>1, <3>2 DEF Carried
  <2> QED
    BY <1>2, <1>9, <2>1, <2>2, <2>3 DEF VerifyPasses, VerifierAccepts, Accept
<1>10. ASSUME Rebase \/ RebaseFails PROVE "human" \in local'
  <2>1. tracking' = Fetched /\ local' = local
    BY <1>10 DEF Rebase, RebaseFails
  <2>2. CASE Rebase
    BY <1>1, <2>1, <2>2 DEF Rebase
  <2>3. CASE RebaseFails
    BY <2>1, <2>3 DEF RebaseFails, Moved, Carried
  <2> QED
    BY <1>10, <2>2, <2>3
<1>11. ASSUME Land PROVE FALSE
  BY <1>1, <1>11 DEF Land, Carried
<1>12. ASSUME Push \/ SavePush PROVE "human" \in local'
  <2>1. CASE PushBranch
    BY <2>1 DEF PushBranch
  <2>2. CASE UNCHANGED world
    BY <1>2, <2>2 DEF world, git
  <2> QED
    BY <1>12, <2>1, <2>2 DEF Push, SavePush
<1>13. CASE Discard
  BY <1>1, <1>13 DEF Discard
<1>14. CASE Crash \/ Terminate
  BY <1>14 DEF Crash, Terminate, Steady
<1>15. CASE UNCHANGED vars
  BY <1>2, <1>15 DEF vars, world, git
<1> QED
  BY <1>3, <1>4, <1>5, <1>6, <1>7, <1>8, <1>9, <1>10, <1>11, <1>12, <1>13, <1>14, <1>15
     DEF Next, RunStep, Implementation, Publication, Finishing

\* So a push does not take them away.
LEMMA StepCarried ==
    ASSUME Typed, Steady, Traced, Carried, [Next]_vars
    PROVE  Carried'
<1>1. ASSUME pc' = "land", ~behind' PROVE tracking' = NoBranch
  <2>1. CASE Rebase
    BY <1>1, <2>1 DEF Rebase
  <2>2. CASE pc' = pc /\ (HumanStep \/ UNCHANGED vars)
    <3>1. UNCHANGED <<tracking, behind>>
      BY <1>1, <2>2, Humanly DEF vars, world, git, WorkspaceRebuilt
    <3> QED
      BY <1>1, <2>2, <3>1 DEF Carried
  <2> QED
    BY <1>1, <2>1, <2>2, ComesToReview, SteadyFault
       DEF Direct, CommitAttempt, VerifyPasses, VerifyChanges, VerifierAccepts, Accept, Publish, RebaseFails,
           LandFails, Check, Push, Throw, ThrowWith, EndRun, Goto, Fail, Finish
<1> QED
  BY <1>1, StepBehind, StepHumanCommits DEF Carried

\* From the start to the last push: the state, or the run, names what may be open.
LEMMA WorkTraced ==
    ASSUME Typed, Steady, Holding, Traced, [Next]_vars,
           (pc \in Attempting \cup Direct /\ RunStep) \/ HandOff \/ Implement \/ Clear \/ Claim
    PROVE  Traced'
<1> USE SteadyFault DEF Early, Attempting, Direct, Publishing, Halted
<1>1. run \in Run /\ run' \in Run /\ Control /\ Control'
  BY StepTyped DEF Typed, Control
<1>2. CASE Clear \/ Claim
  BY <1>1, <1>2, CallsMove, CallsAct, LabelsOnly DEF Traced, OnlyOpen, NoneOpen, Open, IsReady
<1>3. CASE HandOff
  BY <1>1, <1>3 DEF HandOff, Traced, OnlyOpen, Open, IsReady, Run, world
<1>4. CASE Implement
  <2>1. UNCHANGED pulls /\ saved'.pr = run.prevPr /\ run'.prevPr = run.prevPr /\ run'.lost \in {run.lost, "no"}
    BY <1>1, <1>4 DEF Implement, SaveState, Goto, Fail, Finish, Run
  <2>2. pc' \in {"build", "ask", "checkpoint"} /\ pc = "lookup"
    BY <1>4 DEF Implement, Goto, Fail, Finish
  <2> QED
    BY <2>1, <2>2 DEF Traced, OnlyOpen, Open, IsReady
<1>5. CASE pc \in Attempting /\ RunStep
  <2>1. UNCHANGED pulls /\ (saved' = saved \/ saved'.pr = run.prevPr) /\ run'.prevPr = run.prevPr
    BY <1>5, Attempted
  <2>2. run'.lost # "all"
    BY <1>5, Attempted DEF Traced
  <2>3. OnlyOpen(run.prevPr) /\ OnlyOpen(saved.pr)
    BY <1>5 DEF Traced
  <2>4. OnlyOpen(run.prevPr)' /\ OnlyOpen(saved.pr)'
    BY <2>1, <2>3 DEF OnlyOpen, Open, IsReady
  <2>5. ASSUME pc' \in Direct PROVE NoneOpen'
    BY <1>5, <2>1, <2>4, <2>5, Attempted DEF NoneOpen, OnlyOpen, Pr, NoPr
  <2>6. pc' \in Attempting \cup Direct \cup {"check", "comment", "ask", "checkpoint"}
        /\ (pc' = "comment" => run'.outcome = "already-fixed")
    BY <1>5, Attempted
  <2> QED
    BY <2>2, <2>4, <2>5, <2>6 DEF Traced
<1>6. CASE pc \in Direct /\ RunStep
  <2>1. NoneOpen /\ run.lost # "all" /\ UNCHANGED <<pulls, saved>>
    BY <1>6, Directed DEF Traced
  <2>2. NoneOpen' /\ OnlyOpen(saved.pr)'
    BY <2>1 DEF NoneOpen, OnlyOpen, Open, IsReady
  <2>3. /\ pc' \in Direct \cup {"check", "comment"}
        /\ pc' = "comment" => run'.outcome = "direct"
        /\ run'.lost = run.lost
    BY <1>1, <1>6, Directed DEF Run
  <2> QED
    BY <2>1, <2>2, <2>3 DEF Traced
<1> QED
  BY <1>2, <1>3, <1>4, <1>5, <1>6

\* The publication: the pull request that is opened or called ready is the only one.
LEMMA PublicationTraced ==
    ASSUME Typed, Steady, Holding, Traced, [Next]_vars,
           Check \/ Push \/ Ready \/ ReadyFails \/ OpenReady \/ Progress \/ Guard
    PROVE  Traced'
<1> USE SteadyFault DEF Early, Attempting, Direct, Publishing, Halted
<1>1. run \in Run /\ Control /\ pulls \in [Pr -> PrState]
  BY DEF Typed, Control, Records
<1>2. ASSUME pc \in {"check", "push", "ready", "open"}, Throw, UNCHANGED <<pulls, saved>>
      PROVE  Traced'
  <2>1. pc' = "checkpoint" /\ run'.lost = "no" /\ OnlyOpen(saved.pr)
    BY <1>2, ThrownOnce DEF Holding, Working, Traced
  <2> QED
    BY <1>2, <2>1 DEF Traced, OnlyOpen, Open, IsReady
<1>3. CASE Check
  BY <1>1, <1>2, <1>3 DEF Check, world, Traced, OnlyOpen, Open, IsReady, Run
<1>4. CASE Push
  BY <1>1, <1>2, <1>4 DEF Push, PushBranch, world, Goto, Traced, OnlyOpen, Open, IsReady
<1>5. CASE Ready
  <2>1. pc = "ready" /\ pc' = "progress" /\ run' = run /\ Open(run.pr) /\ SetPull(run.pr, "ready") /\ run.pr \in Pr
    BY <1>1, <1>5, CallsMove, CallsAct DEF Control
  <2>2. OnlyOpen(run.pr) /\ run.lost # "all"
    BY <2>1 DEF Traced, Holding
  <2>3. \A p \in Pr : Open(p)' => Open(p)
    BY <1>1, <2>1 DEF SetPull, Open, IsReady
  <2> QED
    BY <2>1, <2>2, <2>3 DEF Traced, OnlyOpen
<1>6. CASE ReadyFails
  BY <1>2, <1>6 DEF ReadyFails, world
<1>7. CASE OpenReady
  <2>1. CASE Throw /\ UNCHANGED <<pulls, saved>>
    BY <1>2, <1>7, <2>1 DEF OpenReady
  <2>2. CASE \E p \in Pr : Create(p, "ready") /\ pc' = "progress" /\ run' = [run EXCEPT !.pr = p]
    <3>1. PICK p \in Pr : Create(p, "ready") /\ pc' = "progress" /\ run' = [run EXCEPT !.pr = p]
      BY <2>2
    <3>2. run'.pr = p /\ run'.lost = run.lost /\ run.lost # "all"
      BY <1>1, <1>7, <3>1 DEF Run, OpenReady, Traced
    <3>3. OnlyOpen(run.pr)'
      BY <1>1, <3>1, <3>2 DEF Create, Refused, OnlyOpen, Open, IsReady
    <3> QED
      BY <3>1, <3>2, <3>3 DEF Traced
  <2> QED
    BY <1>7, <2>1, <2>2 DEF OpenReady
<1>8. CASE Progress
  <2>1. pc = "progress" /\ pc' = "guard" /\ run' = run /\ UNCHANGED pulls
    BY <1>8, CallsMove, CallsAct
  <2> QED
    BY <2>1 DEF Traced, OnlyOpen, Open, IsReady
<1>9. CASE Guard
  <2>1. pc = "guard" /\ pc' = "comment" /\ UNCHANGED pulls /\ run'.pr = run.pr
        /\ run'.lost = run.lost /\ run'.outcome = "pr-created"
    BY <1>1, <1>9 DEF Guard, Run
  <2> QED
    BY <2>1 DEF Traced, OnlyOpen, Open, IsReady
<1> QED
  BY <1>3, <1>4, <1>5, <1>6, <1>7, <1>8, <1>9

\* The end of a stopped run: the draft it finds or opens is the one it saves.
LEMMA CheckpointTraced ==
    ASSUME Typed, Steady, Holding, Traced, Present, [Next]_vars,
           Ask \/ Discard \/ Checkpoint \/ Look \/ SavePush \/ SaveCreate \/ Save
    PROVE  Traced'
<1> USE SteadyFault DEF Early, Attempting, Direct, Publishing, Halted
<1>1. run \in Run /\ Control /\ pulls \in [Pr -> PrState]
  BY DEF Typed, Control, Records
<1>2. CASE Ask
  <2>1. pc = "ask" /\ pc' = "checkpoint" /\ run'.lost = run.lost /\ UNCHANGED <<pulls, saved>>
    BY <1>1, <1>2, CallsMove, CallsAct DEF Relabel, world, Run
  <2> QED
    BY <2>1 DEF Traced, OnlyOpen, Open, IsReady
<1>3. CASE Discard
  <2>1. /\ pc = "checkpoint" /\ pc' = "save" /\ UNCHANGED <<pulls, saved>> /\ run'.pr = run.pr
        /\ run'.outcome = run.outcome
        /\ run'.lost = "all" => tracking = NoBranch
    BY <1>1, <1>3 DEF Discard, Run
  <2>2. run.pr = NoPr /\ OnlyOpen(saved.pr) /\ (tracking = NoBranch => NoneOpen)
    BY <2>1 DEF Holding, Traced, Present
  <2>3. OnlyOpen(saved.pr)' /\ (tracking = NoBranch => NoneOpen')
    BY <2>1, <2>2 DEF OnlyOpen, NoneOpen, Open, IsReady
  <2>4. run.outcome \in {"failed", "blocked", "infra", "recovery"}
    BY <1>1, <2>1 DEF Control, Stopping
  <2> QED
    BY <2>1, <2>2, <2>3, <2>4 DEF Traced
<1>4. CASE Checkpoint
  <2>1. pc = "checkpoint" /\ pc' \in {"look", "save"} /\ run' = run /\ UNCHANGED <<pulls, saved>>
    BY <1>4 DEF Checkpoint, Goto
  <2>2. run.pr = NoPr /\ OnlyOpen(saved.pr) /\ run.lost # "all"
    BY <2>1 DEF Holding, Traced
  <2> QED
    BY <2>1, <2>2 DEF Traced, OnlyOpen, Open, IsReady
<1>5. CASE Look
  <2>1. /\ pc = "look" /\ pc' \in {"save", "savepush"} /\ run'.pr \in {NoPr, saved.pr}
        /\ run'.lost = run.lost /\ UNCHANGED <<pulls, saved>>
    BY <1>1, <1>5 DEF Look, Existing, Goto, world, Holding, Run
  <2>2. OnlyOpen(saved.pr) /\ run.lost # "all"
    BY <2>1 DEF Traced
  <2> QED
    BY <2>1, <2>2 DEF Traced, OnlyOpen, Open, IsReady
<1>6. CASE SavePush
  <2>1. /\ pc = "savepush" /\ pc' \in {"save", "savecreate"} /\ run'.pr \in {NoPr, saved.pr}
        /\ run'.lost = run.lost /\ UNCHANGED <<pulls, saved>>
    BY <1>1, <1>6 DEF SavePush, PushBranch, Goto, world, Holding, Run
  <2>2. OnlyOpen(saved.pr) /\ run.lost # "all"
    BY <2>1 DEF Traced
  <2> QED
    BY <2>1, <2>2 DEF Traced, OnlyOpen, Open, IsReady
<1>7. CASE SaveCreate
  <2>1. pc = "savecreate" /\ pc' = "save" /\ run'.lost = run.lost /\ UNCHANGED saved /\ run.lost # "all"
        /\ OnlyOpen(saved.pr) /\ run.pr = NoPr
    BY <1>1, <1>7 DEF SaveCreate, Run, Traced, Holding
  <2>2. CASE UNCHANGED <<run, pulls>>
    BY <2>1, <2>2 DEF Traced, OnlyOpen, Open, IsReady
  <2>3. CASE \E p \in Pr : Create(p, "draft") /\ run' = [run EXCEPT !.pr = p]
    <3>1. PICK p \in Pr : Create(p, "draft") /\ run' = [run EXCEPT !.pr = p]
      BY <2>3
    <3>2. run'.pr = p /\ p # NoPr
      BY <1>1, <3>1 DEF Run, Pr, NoPr
    <3>3. OnlyOpen(run.pr)'
      BY <1>1, <3>1, <3>2 DEF Create, Refused, OnlyOpen, Open, IsReady
    <3> QED
      BY <2>1, <3>2, <3>3 DEF Traced, OnlyOpen
  <2> QED
    BY <1>7, <2>2, <2>3 DEF SaveCreate
<1>8. CASE Save
  <2>1. /\ pc = "save" /\ pc' = "comment" /\ run' = run /\ UNCHANGED pulls
        /\ saved'.pr = IF run.pr # NoPr THEN run.pr ELSE saved.pr
        /\ saved'.phase = IF run.lost = "all" THEN "discarded" ELSE PhaseOf(run.outcome)
    BY <1>8 DEF Save, SaveState, Goto
  <2>2. run.outcome \in {"failed", "blocked", "infra", "recovery"}
    BY <1>1, <2>1 DEF Control, Stopping
  <2>3. OnlyOpen(saved'.pr) /\ (run.lost = "all" => NoneOpen)
    BY <2>1 DEF Traced
  <2>4. run.lost # "all" => saved'.phase \in Resumable
    BY <2>1, <2>2 DEF PhaseOf, Resumable
  <2>5. NoneOpen => NoneOpen'
    BY <2>1 DEF NoneOpen, Open, IsReady
  <2>6. OnRecord'
    BY <2>1, <2>3, <2>4 DEF OnRecord, OnlyOpen, NoneOpen, Open, IsReady
  <2> QED
    BY <2>1, <2>2, <2>3, <2>5, <2>6 DEF Traced
<1> QED
  BY <1>2, <1>3, <1>4, <1>5, <1>6, <1>7, <1>8

\* The end of a run: its comment names the pull request, or the state does.
LEMMA EndTraced ==
    ASSUME Typed, Steady, Holding, Traced, [Next]_vars,
           Comment \/ LabelOutcome \/ Unclaim \/ Close \/ Release \/ ClearOutcome \/ Complete
    PROVE  Traced'
<1> USE SteadyFault DEF Early, Attempting, Direct, Publishing, Halted
<1>1. run \in Run /\ Control /\ issue \in IssueType
  BY DEF Typed, Control, Records
<1>2. CASE Comment
  <2>1. /\ pc = "comment" /\ run' = run /\ UNCHANGED <<pulls, saved>>
        /\ pc' = IF run.outcome \in {"direct", "already-fixed"} THEN "close" ELSE "label"
    BY <1>2, CallsMove, CallsAct
  <2>2. issue'.results = IF run.outcome = "pr-created" THEN issue.results \cup {run.pr} ELSE issue.results
    BY <1>1, <1>2, CallsAct DEF Posted, IssueType
  <2>3. ASSUME pc' = "label" PROVE OnRecord'
    <3>1. CASE run.outcome = "pr-created"
      BY <2>1, <2>2, <3>1 DEF Traced, OnlyOpen, OnRecord, Open, IsReady
    <3>2. CASE run.outcome \in {"failed", "blocked", "infra", "recovery"}
      BY <2>1, <2>2, <3>2 DEF Traced, OnRecord, Open, IsReady
    <3> QED
      BY <1>1, <2>1, <2>3, <3>1, <3>2 DEF Holding, Run, Outcome
  <2>4. NoneOpen => NoneOpen'
    BY <2>1 DEF NoneOpen, Open, IsReady
  <2> QED
    BY <2>1, <2>3, <2>4 DEF Traced
<1>3. CASE LabelOutcome \/ Unclaim \/ Release \/ ClearOutcome
  <2>1. issue'.open = issue.open /\ issue'.results = issue.results /\ UNCHANGED <<pulls, saved>>
    BY <1>3, CallsAct, LabelsOnly
  <2>2. \/ pc = "label" /\ pc' = "unclaim" /\ run' = run
        \/ pc = "unclaim" /\ pc' = "idle" /\ run' = NoRun
        \/ pc = "release" /\ pc' = "relabel" /\ run' = run
        \/ pc = "relabel" /\ pc' = "complete" /\ run' = run
    BY <1>3, CallsMove
  <2>3. OnRecord => OnRecord'
    BY <2>1 DEF OnRecord, Open, IsReady
  <2>4. NoneOpen => NoneOpen'
    BY <2>1 DEF NoneOpen, Open, IsReady
  <2> QED
    BY <2>1, <2>2, <2>3, <2>4 DEF Traced, NoRun
<1>4. CASE Close
  BY <1>1, <1>4, CallsMove, CallsAct DEF Traced, IssueType
<1>5. CASE Complete
  BY <1>5 DEF Complete, EndRun, Goto, Traced, NoRun
<1> QED
  BY <1>2, <1>3, <1>4, <1>5

\* An open pull request stays traceable in every step.
LEMMA StepTraced ==
    ASSUME Typed, Steady, Holding, Traced, Present, [Next]_vars
    PROVE  Traced'
<1>1. CASE UNCHANGED vars
  BY <1>1 DEF vars, world, Traced, OnRecord, OnlyOpen, NoneOpen, Open, IsReady
<1>2. CASE HumanStep
  <2>1. UNCHANGED <<pc, run, saved>> /\ (issue'.open => issue.open)
    BY <1>2, Humanly
  <2>2. /\ OnRecord => OnRecord'
        /\ NoneOpen => NoneOpen'
        /\ OnlyOpen(saved.pr) => OnlyOpen(saved.pr)'
        /\ OnlyOpen(run.pr) => OnlyOpen(run.pr)'
        /\ OnlyOpen(run.prevPr) => OnlyOpen(run.prevPr)'
    BY <1>2, <2>1, HumansOpenNone DEF OnlyOpen
  <2> QED
    BY <2>1, <2>2 DEF Traced
<1>3. ASSUME NEW s \in BOOLEAN, Begin(s) \/ BeginRecovery(s) PROVE Traced'
  <2>1. \A p \in Pr : Open(p) => saved.pr = p /\ Resumes
    BY <1>3, BeginTraced DEF Begin, BeginRecovery
  <2>2. UNCHANGED <<pulls, saved>> /\ run'.lost = "no" /\ run'.pr = NoPr
        /\ run'.prevPr = (IF Resumes THEN saved.pr ELSE NoPr)
    BY <1>3 DEF Begin, BeginRecovery, Started, NoRun
  <2>3. OnlyOpen(saved.pr)' /\ OnlyOpen(run.prevPr)'
    BY <2>1, <2>2 DEF OnlyOpen, Open, IsReady
  <2> QED
    BY <1>3, <2>2, <2>3 DEF Begin, BeginRecovery, Traced, Early, Attempting, Direct, Publishing, Halted
<1>4. CASE Crash \/ Terminate
  BY <1>4 DEF Crash, Terminate, Steady
<1>5. CASE RunStep
  <2>1. CASE pc \in Attempting \cup Direct
    BY <1>5, <2>1, WorkTraced
  <2>2. ASSUME pc \notin Attempting \cup Direct
        PROVE  ~(SkipBuilder \/ BuilderFixed \/ SetupFails \/ BuilderFails \/ BuilderBlocked \/ CommitAttempt
                 \/ VerifyPasses \/ VerifyFails \/ AlreadyFixed \/ VerifyChanges \/ VerifierAccepts
                 \/ VerifierRejects \/ VerifierErrs \/ Publish \/ Rebase \/ RebaseFails \/ Land \/ LandFails)
    BY <2>2 DEF SkipBuilder, BuilderFixed, SetupFails, BuilderFails, BuilderBlocked, CommitAttempt,
         VerifyPasses, VerifyFails, AlreadyFixed, VerifyChanges, VerifierAccepts,
         VerifierRejects, VerifierErrs, Publish, Rebase, RebaseFails, Land, LandFails, Attempting, Direct
  <2> QED
    BY <1>5, <2>1, <2>2, WorkTraced, PublicationTraced, CheckpointTraced, EndTraced
       DEF RunStep, Implementation, Publication, Finishing
<1> QED
  BY <1>1, <1>2, <1>3, <1>4, <1>5 DEF Next

\* At the start there is nothing to know.
LEMMA InitOrderly == Init => Orderly
<1> SUFFICES ASSUME Init PROVE Orderly
  OBVIOUS
<1>1. NoneOpen /\ \A p \in Pr : pulls[p] = "unused"
  BY DEF Init, NoneOpen, Open, IsReady
<1>2. Holding /\ Unclaimed /\ Drafts /\ Handed
  BY DEF Init, Holding, Unclaimed, Drafts, Handed, Working, Early, Middle, Attempting, Direct, Publishing, Halted
<1>3. Traced /\ Present
  BY <1>1 DEF Init, Traced, Present, NoneOpen, OnRecord, Early, Attempting, Direct, Publishing, Halted, NoRun
<1>4. Examined /\ Carried
  BY <1>1 DEF Init, Examined, ReadyIsReviewed, Carried, Direct, Early, Attempting, Publishing, Halted
<1> QED
  BY <1>2, <1>3, <1>4 DEF Orderly

\* And no step forgets it as long as no call fails and nothing dies.
LEMMA StepOrderly ==
    ASSUME Typed, Calm => Orderly, [Next]_vars, Calm'
    PROVE  Steady /\ Orderly /\ Orderly'
<1>1. Steady
  BY CalmBefore
<1>2. Orderly
  BY <1>1 DEF Steady, Calm
<1> QED
  BY <1>1, <1>2, StepHolding, StepTraced, StepPresent, StepUnclaimed, StepDrafts, StepHanded, StepExamined, StepCarried
     DEF Orderly

\* What a run knows, in every state that a calm behaviour reaches.
LEMMA OrderlyInvariant == Safety => [](Typed /\ (Calm => Orderly))
<1>1. Init => Typed /\ (Calm => Orderly)
  BY InitTyped, InitOrderly
<1>2. (Typed /\ (Calm => Orderly)) /\ [Next]_vars => (Typed /\ (Calm => Orderly))'
  <2> SUFFICES ASSUME Typed, Calm => Orderly, [Next]_vars
               PROVE  Typed' /\ (Calm' => Orderly')
    BY DEF Calm
  <2> QED
    BY StepTyped, StepOrderly
<1> QED
  BY <1>1, <1>2, PTL DEF Safety

\* As long as no call fails and nothing dies, a pull request that kaizen called ready for
\* review shows what verification and the verifier passed, whatever humans do to it and
\* to the branch in between, and whichever runs follow.
THEOREM ReadyStaysReviewed == Safety => [](Calm => ReadyIsReviewed)
<1>1. Typed /\ (Calm => Orderly) => (Calm => ReadyIsReviewed)
  BY DEF Orderly, Examined
<1> QED
  BY <1>1, OrderlyInvariant, PTL

\* Between runs every open pull request of an open issue is on record, where the next
\* run finds it: in the saved state it resumes, or in the comments that keep it away.
THEOREM NoPullRequestForgotten == Safety => []PullRequestRecorded
<1>1. Typed /\ (Calm => Orderly) => PullRequestRecorded
  BY DEF Orderly, Traced, OnRecord, PullRequestRecorded
<1> QED
  BY <1>1, OrderlyInvariant, PTL

\* Whichever outcome a run has, the claim it put on the issue is gone when it is over.
THEOREM ClaimGivenBack == Safety => []ClaimReleased
<1>1. Typed /\ (Calm => Orderly) => ClaimReleased
  BY DEF Orderly, Unclaimed, ClaimReleased
<1> QED
  BY <1>1, OrderlyInvariant, PTL

\* The default branch changes when a run lands.
LEMMA LandedByLand ==
    ASSUME Typed, [Next]_vars, landed' # landed
    PROVE  Land
<1>1. ASSUME RunStep, ~Land PROVE UNCHANGED landed
  <2>1. ASSUME Clear \/ Claim \/ Ask \/ LabelOutcome \/ Unclaim \/ Release \/ ClearOutcome \/ Comment \/ Close
               \/ Progress \/ Ready
        PROVE  UNCHANGED landed
    BY <2>1 DEF Clear, Claim, Ask, LabelOutcome, Unclaim, Release, ClearOutcome, Comment, Close, Progress, Ready,
                Call, ApplyDisposition, Relabel, SetPull, world, git
  <2>2. ASSUME HandOff \/ Implement \/ CommitAttempt \/ Publish \/ Guard \/ Discard \/ Checkpoint \/ Look \/ Save \/ Complete
        PROVE  UNCHANGED landed
    BY <2>2 DEF HandOff, Implement, CommitAttempt, CommitLeftovers, Publish, Guard, Discard, Checkpoint, Look, Save,
                Complete, world, git
  <2>3. ASSUME SkipBuilder \/ BuilderFixed \/ SetupFails \/ BuilderFails \/ BuilderBlocked \/ VerifyPasses
               \/ VerifyFails \/ AlreadyFixed \/ VerifyChanges \/ VerifierAccepts \/ VerifierRejects \/ VerifierErrs
        PROVE  UNCHANGED landed
    BY <2>3 DEF SkipBuilder, BuilderFixed, SetupFails, BuilderFails, BuilderBlocked, BuilderEdits, VerifyPasses,
                VerifyFails, AlreadyFixed, VerifyChanges, VerifierAccepts, VerifierRejects, VerifierErrs, world, git
  <2>4. ASSUME Rebase \/ RebaseFails \/ LandFails \/ Check \/ ReadyFails \/ OpenReady \/ SaveCreate \/ Push \/ SavePush
        PROVE  UNCHANGED landed
    BY <2>4 DEF Rebase, RebaseFails, LandFails, CommitLeftovers, Check, ReadyFails, OpenReady, SaveCreate,
                Push, SavePush, PushBranch, world, git
  <2> QED
    BY <1>1, <2>1, <2>2, <2>3, <2>4 DEF RunStep, Implementation, Publication, Finishing
<1>2. CASE HumanStep
  BY <1>2, Humanly
<1> QED
  BY <1>1, <1>2 DEF Next, Begin, BeginRecovery, Crash, Terminate, vars, world, git

\* A direct commit is a reviewed one, and no pull request with the same change is open.
THEOREM LandsReviewedAndAlone == Safety => LandedAlone
<1>1. Typed /\ (Calm => Orderly) /\ [Next]_vars
      => [Calm /\ landed' # landed => "reviewed" \in landed' /\ \A p \in Pr : ~Open(p)]_vars
  <2> SUFFICES ASSUME Typed, Orderly, [Next]_vars, landed' # landed
               PROVE  "reviewed" \in landed' /\ \A p \in Pr : ~Open(p)
    OBVIOUS
  <2>1. Land
    BY LandedByLand
  <2>2. dirty \in Dirty
    BY DEF Typed, Branches
  <2> QED
    BY <2>1, <2>2, CommitKeeps DEF Land, Orderly, Traced, NoneOpen, Examined, Direct
<1> QED
  BY <1>1, OrderlyInvariant, PTL DEF Safety, LandedAlone

\* Without failing calls and crashes every behaviour is calm.
LEMMA AlwaysSteady ==
    ASSUME MaxFaults = 0, MaxCrashes = 0, Typed, [Next]_vars
    PROVE  Calm /\ Steady
BY StepTyped DEF Typed, Records, Calm, Steady

\* Where no call fails and nothing dies, a pull request that is ready when a run starts
\* is handed to the guardian by that run, which does not push to its branch.
THEOREM ReadyIsHandedOver ==
    ASSUME MaxFaults = 0, MaxCrashes = 0
    PROVE  Safety => ReadyPrUntouched
<1>1. Typed /\ (Calm => Orderly) /\ [Next]_vars
      => [RunMoves /\ (\E p \in run.wasReady : Open(p)) => UNCHANGED remote]_vars
  <2> SUFFICES ASSUME Typed, Calm => Orderly, [Next]_vars, RunMoves, NEW p \in run.wasReady, Open(p)
               PROVE  UNCHANGED remote
    BY DEF RunMoves
  <2>1. Handed
    BY AlwaysSteady DEF Orderly
  <2>2. pc \notin {"push", "savepush"}
    BY <2>1 DEF Handed, Middle, Publishing, Halted
  <2> QED
    BY <2>2, RemoteSteps, Humanly DEF RunMoves
<1> QED
  BY <1>1, OrderlyInvariant, PTL DEF Safety, ReadyPrUntouched

\* Where no call fails and nothing dies, a run takes no commit of a human off the branch
\* of an open pull request: its leases are on what it has merged, not on what it has
\* only fetched.
THEOREM HumanCommitsStay ==
    ASSUME MaxFaults = 0, MaxCrashes = 0
    PROVE  Safety => HumanCommitsKept
<1>1. Typed /\ (Calm => Orderly) /\ [Next]_vars
      => [RunMoves /\ "human" \in remote /\ (\E p \in Pr : Open(p)) => "human" \in remote']_vars
  <2> SUFFICES ASSUME Typed, Calm => Orderly, [Next]_vars, RunMoves, "human" \in remote, ~NoneOpen
               PROVE  "human" \in remote'
    BY DEF NoneOpen
  <2>1. Carried /\ Steady
    BY AlwaysSteady DEF Orderly
  <2>2. CASE pc \in {"push", "savepush"} /\ (Push \/ SavePush) /\ PushBranch
    <3>1. LeaseHolds \/ UNCHANGED world
      BY <2>1, <2>2, SteadyFault DEF Push, SavePush
    <3>2. CASE LeaseHolds
      BY <2>1, <2>2, <3>2, BranchAtHand DEF LeaseHolds, PushBranch, Carried, Publishing, Halted
    <3>3. CASE UNCHANGED world
      BY <3>3 DEF world, git
    <3> QED
      BY <3>1, <3>2, <3>3
  <2> QED
    BY <2>2, RemoteSteps, Humanly DEF RunMoves
<1> QED
  BY <1>1, OrderlyInvariant, PTL DEF Safety, HumanCommitsKept

-----------------------------------------------------------------------------
(***************************************************************************)
(* The attempts.  A result that counts either leaves the count below the   *)
(* bound or gives the issue a reason not to be selected again, and a       *)
(* failing call or a crash raises the bound by as much as it may add to    *)
(* the count.                                                              *)
(***************************************************************************)
\* What the thread may count, and what it may count in this run.
Budget == MaxAttempts + faults + crashes
Spent == run.attempt + faults + crashes

\* The run has not written its result yet.
Unwritten == Working \cup Stopping \cup {"guard", "comment"}

\* No run takes the issue.
Stuck == \/ ~issue.open
         \/ issue.labels \cap Terminal # {}
         \/ \E p \in issue.results : Open(p)

\* The disposition that goes with an outcome.
Disposed ==
    pc \in Stopping \cup {"comment", "label", "unclaim"} =>
        /\ run.outcome # "none"
        /\ run.outcome = "failed" => \/ run.disposition = "exhausted"
                                     \/ run.disposition = "keep" /\ run.attempt < MaxAttempts
        /\ run.outcome = "blocked" =>
               \/ run.disposition \in {"retryable", "exhausted", "blocked"}
               \/ run.disposition = "needs-human" /\ (pc # "ask" => "needs-human" \in issue.labels)
        /\ pc = "ask" => run.outcome = "blocked"
        /\ run.outcome = "infra" => run.disposition = "keep"
        /\ run.outcome = "recovery" => run.disposition = "blocked"

\* A pull request that is handed over is open, or its merge has closed the issue.
Published ==
    pc \in {"progress", "guard"} \/ (pc \in {"comment", "label"} /\ run.outcome = "pr-created")
        => Open(run.pr) \/ ~issue.open

Counted ==
    /\ pc = "idle" => issue.counted <= Budget /\ (issue.counted < Budget \/ Stuck)
    /\ pc \in Unwritten => issue.counted < Budget /\ issue.counted < Spent
    /\ pc \notin Unwritten \cup {"idle"} => issue.counted <= Budget /\ issue.counted <= Spent
    /\ pc = "label" => \/ issue.counted < Budget
                       \/ run.disposition \in {"exhausted", "blocked"}
                       \/ run.disposition = "needs-human" /\ "needs-human" \in issue.labels
                       \/ run.outcome = "pr-created" /\ run.pr \in issue.results
    /\ pc = "unclaim" => issue.counted < Budget \/ Stuck
    /\ pc \in {"release", "relabel", "complete"} => ~issue.open

Frugal == Disposed /\ Published /\ Counted

\* The numbers that are compared.
LEMMA CountTyped ==
    ASSUME Typed
    PROVE  /\ MaxAttempts \in Nat /\ issue.counted \in Nat /\ run.attempt \in Nat
           /\ faults \in Nat /\ crashes \in Nat
<1>1. MaxCount \in Nat /\ MaxAttempts \in Nat /\ MaxFaults \in Nat /\ MaxCrashes \in Nat
  BY PipelineAssumption DEF PipelineAssumption, MaxCount
<1>2. issue.counted \in 0 .. MaxCount /\ run.attempt \in 0 .. MaxCount + 1
  BY DEF Typed, Control, Records, IssueType, Run
<1> QED
  BY <1>1, <1>2 DEF Typed, Records

\* Where failures lead in a run, and that it remembers its attempt.
LEMMA FailureKeepsAttempt ==
    ASSUME Typed
    PROVE  /\ \A o, d : Finish(o, d) => pc' \in Unwritten /\ run'.attempt = run.attempt
           /\ Fail => pc' \in Unwritten /\ run'.attempt = run.attempt
           /\ Retry \/ GiveUp => pc' \in Unwritten /\ run'.attempt = run.attempt
           /\ \A p : ThrowWith(p) => pc' = "idle" \/ (pc' \in Unwritten /\ run'.attempt = run.attempt)
           /\ Throw => pc' = "idle" \/ (pc' \in Unwritten /\ run'.attempt = run.attempt)
BY DEF Typed, Control, Run, Finish, Fail, Retry, GiveUp, Throw, ThrowWith, EndRun, Goto, Unwritten, Working, Stopping

\* Before the result is written nothing is counted.
LEMMA KeepsCount ==
    ASSUME Typed, RunStep, pc \in Unwritten, pc # "comment"
    PROVE  /\ issue'.counted = issue.counted
           /\ faults' \in {faults, faults + 1} /\ crashes' = crashes
           /\ pc' = "idle" \/ (pc' \in Unwritten /\ run'.attempt = run.attempt)
<1> USE DEF Goto, Quiet, world, git, Fault
<1>1. run \in Run /\ issue \in IssueType
  BY DEF Typed, Control, Records
<1>2. CASE Clear \/ Claim \/ Ready \/ Progress \/ Ask
  <2>1. /\ faults' \in {faults, faults + 1} /\ crashes' = crashes
        /\ issue'.counted = issue.counted
    BY <1>1, <1>2 DEF Clear, Claim, Ready, Progress, Ask, Call, SetPull, ApplyDisposition, Relabel, IssueType
  <2>2. pc' = "idle" \/ (pc' \in Unwritten /\ run'.attempt = run.attempt)
    BY <1>1, <1>2, FailureKeepsAttempt
       DEF Clear, Claim, Ready, Progress, Ask, Call, Run, Unwritten, Working, Stopping
  <2> QED
    BY <2>1, <2>2
<1>3. CASE HandOff \/ Implement \/ CommitAttempt \/ Publish \/ Guard
  <2>1. UNCHANGED <<issue, crashes>> /\ faults' \in {faults, faults + 1}
    BY <1>3 DEF HandOff, Implement, CommitAttempt, Publish, Guard
  <2>2. pc' = "idle" \/ (pc' \in Unwritten /\ run'.attempt = run.attempt)
    BY <1>1, <1>3, FailureKeepsAttempt
       DEF HandOff, Implement, CommitAttempt, Publish, Guard, Run, Unwritten, Working, Stopping
  <2> QED
    BY <2>1, <2>2
<1>4. CASE SkipBuilder \/ BuilderFixed \/ SetupFails \/ BuilderFails \/ BuilderBlocked
  BY <1>1, <1>4, FailureKeepsAttempt
     DEF SkipBuilder, BuilderFixed, SetupFails, BuilderFails, BuilderBlocked, BuilderEdits, Unwritten, Working
<1>5. CASE VerifyPasses \/ VerifyFails \/ AlreadyFixed \/ VerifyChanges
  BY <1>1, <1>5, FailureKeepsAttempt
     DEF VerifyPasses, VerifyFails, AlreadyFixed, VerifyChanges, Accept, Run, Unwritten, Working
<1>6. CASE VerifierAccepts \/ VerifierRejects \/ VerifierErrs
  BY <1>1, <1>6, FailureKeepsAttempt
     DEF VerifierAccepts, VerifierRejects, VerifierErrs, Accept, Unwritten, Working
<1>7. CASE Rebase \/ RebaseFails \/ Land \/ LandFails
  BY <1>1, <1>7 DEF Rebase, RebaseFails, Land, LandFails, CommitLeftovers, Run, Unwritten, Working
<1>8. CASE Check \/ Push \/ ReadyFails
  <2>1. CASE Throw
    BY <1>8, <2>1, FailureKeepsAttempt DEF Check, Push, ReadyFails, PushBranch
  <2> QED
    BY <1>1, <1>8, <2>1 DEF Check, Push, PushBranch, ReadyFails, Run, Unwritten, Working
<1>9. CASE OpenReady
  <2>1. issue'.counted = issue.counted /\ faults' \in {faults, faults + 1} /\ crashes' = crashes
    BY <1>1, <1>9 DEF OpenReady, IssueType
  <2>2. pc' = "idle" \/ (pc' \in Unwritten /\ run'.attempt = run.attempt)
    BY <1>1, <1>9, FailureKeepsAttempt DEF OpenReady, Run, Unwritten, Working
  <2> QED
    BY <2>1, <2>2
<1>10. CASE Discard \/ Checkpoint \/ Look
  BY <1>1, <1>10 DEF Discard, Checkpoint, Look, Existing, Run, Unwritten, Stopping
<1>11. CASE SavePush \/ SaveCreate \/ Save
  BY <1>1, <1>11 DEF SavePush, PushBranch, SaveCreate, Save, Run, Unwritten, Stopping
<1>12. ~(Comment \/ LabelOutcome \/ Unclaim \/ Close \/ Release \/ ClearOutcome \/ Complete)
  BY DEF Comment, LabelOutcome, Unclaim, Close, Release, ClearOutcome, Complete, Call, Unwritten, Working, Stopping
<1> QED
  BY <1>2, <1>3, <1>4, <1>5, <1>6, <1>7, <1>8, <1>9, <1>10, <1>11, <1>12
     DEF RunStep, Implementation, Publication, Finishing

\* finishFailed and its like give the disposition of their outcome.
LEMMA FinishDisposed ==
    ASSUME Typed
    PROVE  /\ Fail => Disposed'
           /\ \A d \in {"retryable", "needs-human", "blocked"} :
                  Finish("blocked", BlockedDisposition(d)) => Disposed'
           /\ Finish("infra", "keep") => Disposed'
           /\ Retry \/ GiveUp => Disposed'
           /\ \A p : ThrowWith(p) => Disposed'
           /\ Throw => Disposed'
<1>1. run \in Run /\ run.attempt \in Nat /\ MaxAttempts \in Nat
  BY CountTyped DEF Typed, Control
<1>2. ~(run.attempt >= MaxAttempts) => run.attempt < MaxAttempts
  BY <1>1
<1>3. Fail => Disposed'
  BY <1>1, <1>2 DEF Fail, Finish, FailedDisposition, Run, Disposed
<1>4. ASSUME NEW d \in {"retryable", "needs-human", "blocked"}, Finish("blocked", BlockedDisposition(d))
      PROVE  Disposed'
  BY <1>1, <1>4 DEF Finish, BlockedDisposition, Run, Disposed
<1>5. Finish("infra", "keep") => Disposed'
  BY <1>1 DEF Finish, Run, Disposed
<1>6. Retry \/ GiveUp => Disposed'
  BY <1>1, <1>3 DEF Retry, GiveUp, Disposed, Stopping
<1>7. \A p : ThrowWith(p) => Disposed'
  BY <1>1, <1>2 DEF ThrowWith, EndRun, Goto, FailedDisposition, Run, Disposed, Stopping
<1> QED
  BY <1>3, <1>4, <1>5, <1>6, <1>7 DEF Throw

\* Humans who take no terminal label away and close no pull request leave what keeps
\* the issue from being selected.
LEMMA HumansFrugal ==
    ASSUME Typed, HumanStep, "clear" \notin Human, "close" \notin Human
    PROVE  /\ UNCHANGED <<pc, run, faults, crashes>>
           /\ issue'.counted = issue.counted /\ issue'.results = issue.results
           /\ issue'.open => issue.open
           /\ \A l \in Terminal : l \in issue.labels => l \in issue'.labels
           /\ \A p \in Pr : Open(p) => Open(p)' \/ ~issue'.open
           /\ Stuck => Stuck'
<1>1. issue \in IssueType /\ pulls \in [Pr -> PrState] /\ issue.results \subseteq Pr
  BY DEF Typed, Records, IssueType
<1>2. ASSUME NEW p \in Pr, HumanPromotes(p) \/ HumanMerges(p) \/ HumanPushes(p)
      PROVE  /\ issue' = issue \/ issue' = [issue EXCEPT !.open = FALSE]
             /\ \A q \in Pr : Open(q) => Open(q)' \/ ~issue'.open
  BY <1>1, <1>2 DEF HumanPromotes, HumanMerges, HumanPushes, SetPull, Open, IsReady, IssueType
<1>3. ASSUME OperatorUnclaims
      PROVE  /\ issue'.counted = issue.counted /\ issue'.results = issue.results /\ issue'.open = issue.open
             /\ \A l \in Terminal : l \in issue.labels => l \in issue'.labels
             /\ UNCHANGED pulls
  BY <1>1, <1>3 DEF OperatorUnclaims, Relabel, Terminal, IssueType
<1>4. CASE WorkspaceRebuilt
  BY <1>4 DEF WorkspaceRebuilt, Acts, Quiet, Open, IsReady, Stuck
<1>5. ASSUME NEW p \in Pr PROVE ~HumanCloses(p) /\ ~HumanClears
  BY DEF HumanCloses, HumanClears, Acts
<1>6. UNCHANGED <<pc, run, faults, crashes>>
  BY DEF HumanStep, HumanPromotes, HumanCloses, HumanMerges, HumanPushes, HumanClears, OperatorUnclaims,
         WorkspaceRebuilt, Acts, Quiet
<1>7. ASSUME ~WorkspaceRebuilt
      PROVE  /\ issue'.counted = issue.counted /\ issue'.results = issue.results
             /\ issue'.open => issue.open
             /\ \A l \in Terminal : l \in issue.labels => l \in issue'.labels
             /\ \A p \in Pr : Open(p) => Open(p)' \/ ~issue'.open
  BY <1>1, <1>2, <1>3, <1>5, <1>7 DEF HumanStep, IssueType, Open, IsReady, HumanClears, Acts
<1>8. Stuck => Stuck'
  BY <1>1, <1>4, <1>7 DEF Stuck, Terminal
<1> QED
  BY <1>4, <1>6, <1>7, <1>8 DEF WorkspaceRebuilt, Open, IsReady

\* What starts a run, or ends it outside of its steps, owes nothing.
LEMMA BeginDisposed ==
    ASSUME NEW s \in BOOLEAN, Begin(s) \/ BeginRecovery(s)
    PROVE  Disposed' /\ Published'
BY DEF Begin, BeginRecovery, Started, NoRun, Disposed, Published, Stopping

\* The disposition that is applied is that of the outcome.
LEMMA StepDisposed ==
    ASSUME Typed, Disposed, [Next]_vars, "clear" \notin Human, "close" \notin Human
    PROVE  Disposed'
<1> USE DEF Goto, Quiet, world, git, Fault
<1>1. run \in Run /\ issue \in IssueType /\ Control
  BY DEF Typed, Control, Records
<1>2. ASSUME pc' \notin Stopping \cup {"comment", "label", "unclaim"} PROVE Disposed'
  BY <1>2 DEF Disposed
<1>3. CASE UNCHANGED vars
  BY <1>3 DEF vars, Disposed
<1>4. CASE HumanStep
  BY <1>4, HumansFrugal DEF Disposed, Terminal
<1>5. ASSUME NEW s \in BOOLEAN, Begin(s) \/ BeginRecovery(s) PROVE Disposed'
  BY <1>5, BeginDisposed
<1>6. CASE Crash \/ Terminate
  BY <1>2, <1>6 DEF Crash, Terminate, EndRun, Stopping
<1>7. CASE Clear \/ Claim \/ Ready \/ Progress \/ Close \/ Release \/ ClearOutcome \/ Complete
  BY <1>2, <1>7, FinishDisposed DEF Clear, Claim, Ready, Progress, Close, Release, ClearOutcome, Complete, Call, EndRun, Stopping
<1>8. CASE HandOff \/ Implement \/ CommitAttempt \/ Publish
  BY <1>2, <1>8, FinishDisposed DEF HandOff, Implement, CommitAttempt, Publish, Stopping
<1>9. CASE Guard
  <2>1. CASE Throw
    BY <2>1, FinishDisposed
  <2> QED
    BY <1>1, <1>9, <2>1 DEF Guard, Run, Disposed
<1>10. CASE SkipBuilder \/ BuilderFixed \/ SetupFails \/ BuilderFails \/ BuilderBlocked
  BY <1>2, <1>10, FinishDisposed DEF SkipBuilder, BuilderFixed, SetupFails, BuilderFails, BuilderBlocked, Stopping
<1>11. CASE VerifyPasses \/ VerifyFails \/ VerifyChanges
  BY <1>2, <1>11, FinishDisposed DEF VerifyPasses, VerifyFails, VerifyChanges, Accept, Stopping
<1>12. CASE AlreadyFixed \/ Land
  BY <1>1, <1>12 DEF AlreadyFixed, Land, Run, Disposed
<1>13. CASE VerifierAccepts \/ VerifierRejects \/ VerifierErrs
  BY <1>2, <1>13, FinishDisposed DEF VerifierAccepts, VerifierRejects, VerifierErrs, Accept, Stopping
<1>14. CASE Rebase \/ RebaseFails \/ LandFails
  BY <1>2, <1>14 DEF Rebase, RebaseFails, LandFails, Stopping
<1>15. CASE Check \/ Push \/ ReadyFails
  <2>1. CASE Throw
    BY <2>1, FinishDisposed
  <2> QED
    BY <1>2, <1>15, <2>1 DEF Check, Push, ReadyFails, Stopping
<1>16. CASE OpenReady
  <2>1. (\E p \in Pr : ThrowWith(p)) \/ Throw \/ pc' = "progress"
    BY <1>16 DEF OpenReady
  <2> QED
    BY <1>2, <2>1, FinishDisposed DEF Stopping
<1>17. CASE Ask
  <2>1. CASE Throw
    BY <2>1, FinishDisposed
  <2>2. CASE run' = run /\ Relabel((issue.labels \ {"retryable", "blocked", "exhausted"}) \cup {"needs-human"})
    BY <1>1, <1>17, <2>2 DEF Ask, Call, Disposed, Relabel, IssueType, Stopping
  <2>3. CASE run' = [run EXCEPT !.disposition = "blocked"] /\ pc = "ask"
    BY <1>1, <1>17, <2>3 DEF Ask, Call, Disposed, Run, Stopping
  <2> QED
    BY <1>17, <2>1, <2>2, <2>3 DEF Ask, Call
<1>18. CASE Discard \/ Checkpoint \/ Look \/ SavePush \/ SaveCreate \/ Save
  <2>1. UNCHANGED issue /\ run'.outcome = run.outcome /\ run'.disposition = run.disposition
        /\ run'.attempt = run.attempt /\ pc \in Stopping \ {"ask"} /\ pc' # "ask"
    BY <1>1, <1>18 DEF Discard, Checkpoint, Look, SavePush, PushBranch, SaveCreate, Save, Run, Stopping
  <2> QED
    BY <2>1 DEF Disposed
<1>19. CASE Comment \/ LabelOutcome
  <2>1. CASE Throw
    BY <2>1, FinishDisposed
  <2>2. CASE run' = run /\ (\E e \in Evidence : issue' = Posted(e)) /\ pc = "comment" /\ pc' # "ask"
    BY <1>1, <2>2 DEF Disposed, Posted, IssueType
  <2>3. CASE run' = run /\ pc = "label" /\ pc' # "ask"
             /\ ApplyDisposition(IF run.disposition = "needs-human" THEN "keep" ELSE run.disposition)
    BY <1>1, <2>3 DEF Disposed, ApplyDisposition
  <2> QED
    BY <1>19, <2>1, <2>2, <2>3 DEF Comment, LabelOutcome, Call
<1>20. CASE Unclaim
  <2>1. CASE Throw
    BY <2>1, FinishDisposed
  <2> QED
    BY <1>2, <1>20, <2>1 DEF Unclaim, Call, Stopping
<1> QED
  BY <1>3, <1>4, <1>5, <1>6, <1>7, <1>8, <1>9, <1>10, <1>11, <1>12, <1>13, <1>14, <1>15, <1>16, <1>17, <1>18,
     <1>19, <1>20 DEF Next, RunStep, Implementation, Publication, Finishing

\* A pull request is open when it is handed over.
LEMMA StepPublished ==
    ASSUME Typed, Published, [Next]_vars, "clear" \notin Human, "close" \notin Human
    PROVE  Published'
<1> USE DEF Goto, Quiet, world, git, Fault
<1>1. run \in Run /\ issue \in IssueType /\ Control /\ pulls \in [Pr -> PrState]
  BY DEF Typed, Control, Records
<1>2. ASSUME pc' \notin {"progress", "guard", "comment", "label"} PROVE Published'
  BY <1>2 DEF Published
<1>3. CASE UNCHANGED vars
  BY <1>3 DEF vars, Published, Open, IsReady
<1>4. CASE HumanStep
  <2>1. Control' /\ UNCHANGED <<pc, run>>
    BY <1>4, StepTyped, HumansFrugal DEF Typed
  <2>2. Published => Published'
    BY <1>1, <1>4, <2>1, HumansFrugal DEF Published, Control
  <2> QED
    BY <2>2
<1>5. ASSUME NEW s \in BOOLEAN, Begin(s) \/ BeginRecovery(s) PROVE Published'
  BY <1>5, BeginDisposed
<1>6. CASE Crash \/ Terminate
  BY <1>2, <1>6 DEF Crash, Terminate, EndRun
<1>7. ASSUME Throw \/ Fail \/ Retry \/ GiveUp \/ (\E p \in Pr : ThrowWith(p)) \/ (\E o, d : Finish(o, d))
      PROVE  Published'
  BY <1>2, <1>7 DEF Throw, Fail, Retry, GiveUp, ThrowWith, Finish, EndRun
<1>8. CASE Clear \/ Claim \/ Ask \/ Unclaim \/ Close \/ Release \/ ClearOutcome \/ Complete
  BY <1>2, <1>7, <1>8 DEF Clear, Claim, Ask, Unclaim, Close, Release, ClearOutcome, Complete, Call, EndRun
<1>9. CASE Ready
  <2>1. CASE SetPull(run.pr, "ready") /\ run' = run /\ pc = "ready"
    BY <1>1, <2>1 DEF SetPull, Published, Open, IsReady, Control
  <2> QED
    BY <1>7, <1>9, <2>1 DEF Ready, Call
<1>10. CASE OpenReady
  <2>1. ASSUME NEW p \in Pr, Create(p, "ready"), run' = [run EXCEPT !.pr = p] PROVE Published'
    BY <1>1, <2>1 DEF Create, Published, Open, IsReady, Run
  <2> QED
    BY <1>7, <1>10, <2>1 DEF OpenReady
<1>11. CASE Progress
  <2>1. CASE pc = "progress" /\ run' = run /\ UNCHANGED pulls /\ issue'.open = issue.open
    BY <2>1 DEF Published, Open, IsReady
  <2> QED
    BY <1>1, <1>7, <1>11, <2>1 DEF Progress, Call, IssueType
<1>12. CASE HandOff
  BY <1>1, <1>12 DEF HandOff, Published, Open, IsReady, Run
<1>13. CASE Guard
  <2>1. CASE UNCHANGED <<issue, pulls>> /\ pc = "guard" /\ run'.pr = run.pr
    BY <2>1 DEF Published, Open, IsReady
  <2> QED
    BY <1>1, <1>7, <1>13, <2>1 DEF Guard, Run
<1>14. CASE Implement \/ CommitAttempt \/ Publish
  BY <1>2, <1>7, <1>14 DEF Implement, CommitAttempt, Publish
<1>15. CASE SkipBuilder \/ BuilderFixed \/ SetupFails \/ BuilderFails \/ BuilderBlocked
  BY <1>2, <1>7, <1>15 DEF SkipBuilder, BuilderFixed, SetupFails, BuilderFails, BuilderBlocked
<1>16. CASE VerifyPasses \/ VerifyFails \/ VerifyChanges
  BY <1>2, <1>7, <1>16 DEF VerifyPasses, VerifyFails, VerifyChanges, Accept
<1>17. CASE AlreadyFixed \/ Land
  BY <1>1, <1>17 DEF AlreadyFixed, Land, Run, Published
<1>18. CASE VerifierAccepts \/ VerifierRejects \/ VerifierErrs
  BY <1>2, <1>7, <1>18 DEF VerifierAccepts, VerifierRejects, VerifierErrs, Accept
<1>19. CASE Rebase \/ RebaseFails \/ LandFails
  BY <1>2, <1>19 DEF Rebase, RebaseFails, LandFails
<1>20. CASE Check \/ Push \/ ReadyFails
  <2>1. CASE Throw
    BY <1>7, <2>1
  <2> QED
    BY <1>2, <1>20, <2>1 DEF Check, Push, ReadyFails
<1>21. CASE Discard \/ Checkpoint \/ Look \/ SavePush \/ SaveCreate
  BY <1>2, <1>21 DEF Discard, Checkpoint, Look, SavePush, SaveCreate
<1>22. CASE Save
  BY <1>1, <1>22 DEF Save, Published, Control, Stopping
<1>23. CASE Comment
  <2>1. CASE pc = "comment" /\ run' = run /\ UNCHANGED pulls /\ issue'.open = issue.open
             /\ pc' = IF run.outcome \in {"direct", "already-fixed"} THEN "close" ELSE "label"
    BY <2>1 DEF Published, Open, IsReady
  <2> QED
    BY <1>1, <1>7, <1>23, <2>1 DEF Comment, Call, Posted, IssueType
<1>24. CASE LabelOutcome
  BY <1>2, <1>7, <1>24 DEF LabelOutcome, Call
<1> QED
  BY <1>3, <1>4, <1>5, <1>6, <1>8, <1>9, <1>10, <1>11, <1>12, <1>13, <1>14, <1>15, <1>16, <1>17, <1>18,
     <1>19, <1>20, <1>21, <1>22, <1>23, <1>24 DEF Next, RunStep, Implementation, Publication, Finishing

\* An exception on the way ends the run, or is followed by another result that the
\* failing call pays for.
LEMMA ThrownCounts ==
    ASSUME Typed, Throw, faults' = faults + 1, crashes' = crashes,
           issue'.counted <= Budget, issue'.counted <= Spent, issue'.counted \in Nat
    PROVE  Counted'
<1>1. pc' = "idle" \/ (pc' \in Unwritten /\ run'.attempt = run.attempt)
  BY FailureKeepsAttempt
<1>2. issue'.counted < Budget' /\ issue'.counted < run.attempt + faults' + crashes'
  BY CountTyped DEF Budget, Spent
<1>3. CASE pc' = "idle"
  BY <1>2, <1>3, CountTyped DEF Counted, Budget, Unwritten, Working, Stopping
<1>4. CASE pc' \in Unwritten /\ run'.attempt = run.attempt
  <2>1. issue'.counted < Spent'
    BY <1>2, <1>4 DEF Spent
  <2>2. pc' \notin {"idle", "label", "unclaim", "release", "relabel", "complete"}
    BY <1>4 DEF Unwritten, Working, Stopping
  <2> QED
    BY <1>2, <1>4, <2>1, <2>2 DEF Counted
<1> QED
  BY <1>1, <1>3, <1>4

\* The result is written: it counts, or it does not.
LEMMA CommentCounts ==
    ASSUME Typed, Disposed, Counted, Comment
    PROVE  Counted'
<1>1. run \in Run /\ issue \in IssueType /\ pc = "comment" /\ MaxCount \in Nat
  BY PipelineAssumption DEF Typed, Control, Records, Comment, Call, PipelineAssumption, MaxCount
<1>2. issue.counted < Budget /\ issue.counted < Spent /\ Budget \in Nat /\ Spent \in Nat /\ issue.counted \in Nat
  BY <1>1, CountTyped DEF Counted, Unwritten, Budget, Spent
<1>3. ASSUME NEW e \in Evidence, issue' = Posted(e)
      PROVE  /\ issue'.counted \in {issue.counted, issue.counted + 1}
             /\ issue'.labels = issue.labels
             /\ run.outcome = "infra" \/ (run.outcome = "blocked" /\ run.disposition = "retryable")
                  => issue'.counted = issue.counted
             /\ run.outcome = "pr-created" => run.pr \in issue'.results
  BY <1>1, <1>3 DEF Posted, IssueType, Evidence, Retryable
<1>4. issue'.counted \in {issue.counted, issue.counted + 1}
  BY <1>1, <1>3 DEF Comment, Call, world
<1>5. issue'.counted <= Budget /\ issue'.counted <= Spent /\ issue'.counted \in Nat
  BY <1>2, <1>4
<1>6. CASE Throw /\ faults' = faults + 1
  BY <1>5, <1>6, ThrownCounts DEF Comment, Call
<1>7. CASE UNCHANGED <<run, faults>> /\ \E e \in Evidence : issue' = Posted(e)
  <2>1. faults \in Nat /\ ~Fault
    BY <1>7, CountTyped DEF Fault
  <2>2. /\ Budget' = Budget /\ Spent' = Spent /\ run' = run
        /\ pc' = IF run.outcome \in {"direct", "already-fixed"} THEN "close" ELSE "label"
    BY <1>7, <2>1 DEF Comment, Call, Goto, Budget, Spent
  <2>3. CASE run.outcome \in {"direct", "already-fixed"}
    BY <1>5, <2>2, <2>3 DEF Counted, Unwritten, Working, Stopping
  <2>4. CASE run.outcome \in {"failed", "blocked", "infra", "recovery", "pr-created"}
    <3>1. CASE run.outcome = "infra" \/ (run.outcome = "blocked" /\ run.disposition = "retryable")
      BY <1>2, <1>3, <1>5, <1>7, <2>2, <3>1 DEF Counted, Unwritten, Working, Stopping
    <3>2. CASE run.outcome = "pr-created"
      BY <1>3, <1>5, <1>7, <2>2, <3>2 DEF Counted, Unwritten, Working, Stopping
    <3>3. CASE run.outcome \in {"failed", "blocked"} /\ run.disposition \in {"exhausted", "blocked", "needs-human"}
      BY <1>1, <1>3, <1>5, <1>7, <2>2, <3>3 DEF Disposed, Counted, Unwritten, Working, Stopping
    <3>4. CASE run.outcome = "failed" /\ run.disposition = "keep" /\ run.attempt < MaxAttempts
      <4>1. issue'.counted < Budget
        BY <1>5, <3>4, CountTyped DEF Budget, Spent
      <4> QED
        BY <1>5, <2>2, <3>4, <4>1 DEF Counted, Unwritten, Working, Stopping
    <3>5. CASE run.outcome = "recovery"
      BY <1>1, <1>5, <2>2, <3>5 DEF Disposed, Counted, Unwritten, Working, Stopping
    <3> QED
      BY <1>1, <2>4, <3>1, <3>2, <3>3, <3>4, <3>5 DEF Disposed
  <2> QED
    BY <1>1, <2>3, <2>4 DEF Disposed, Run, Outcome
<1> QED
  BY <1>6, <1>7 DEF Comment, Call, Fault, Goto

\* The labels are set, the claim is given back, the issue is closed.
LEMMA FinishCounts ==
    ASSUME Typed, Disposed, Published, Counted,
           LabelOutcome \/ Unclaim \/ Close \/ Release \/ ClearOutcome \/ Complete
    PROVE  Counted'
<1> USE DEF Goto, world, git
<1>1. run \in Run /\ issue \in IssueType /\ Control
  BY DEF Typed, Control, Records
<1>2. pc \in {"label", "unclaim", "close", "release", "relabel", "complete"}
  BY DEF LabelOutcome, Unclaim, Close, Release, ClearOutcome, Complete, Call
<1>3. /\ issue.counted <= Budget /\ issue.counted <= Spent /\ issue.counted \in Nat
      /\ Budget \in Nat /\ Spent \in Nat
  BY <1>2, CountTyped DEF Counted, Unwritten, Working, Stopping, Budget, Spent
<1>4. /\ issue'.counted = issue.counted /\ issue'.results = issue.results /\ UNCHANGED pulls
      /\ issue'.open => issue.open
  BY <1>1 DEF LabelOutcome, Unclaim, Close, Release, ClearOutcome, Complete, Call, ApplyDisposition, Relabel, IssueType
<1>5. CASE Throw /\ faults' = faults + 1 /\ crashes' = crashes
  BY <1>3, <1>4, <1>5, ThrownCounts
<1>6. ASSUME UNCHANGED <<faults, crashes>> PROVE Budget' = Budget
  BY <1>6 DEF Budget
<1>7. ASSUME UNCHANGED <<faults, crashes, run>> PROVE Spent' = Spent
  BY <1>7 DEF Spent
<1>8. CASE LabelOutcome /\ ~(Throw /\ faults' = faults + 1 /\ crashes' = crashes)
  <2>1. /\ pc = "label" /\ pc' = "unclaim" /\ run' = run /\ UNCHANGED <<faults, crashes>>
        /\ ApplyDisposition(IF run.disposition = "needs-human" THEN "keep" ELSE run.disposition)
    BY <1>8 DEF LabelOutcome, Call, Fault
  <2>2. CASE issue.counted < Budget
    BY <1>3, <1>4, <1>6, <1>7, <2>1, <2>2 DEF Counted, Unwritten, Working, Stopping
  <2>3. ASSUME ~(issue.counted < Budget) PROVE Stuck'
    <3>1. CASE run.disposition \in {"exhausted", "blocked"}
      BY <1>1, <2>1, <3>1 DEF ApplyDisposition, Relabel, IssueType, Stuck, Terminal
    <3>2. CASE run.disposition = "needs-human" /\ "needs-human" \in issue.labels
      BY <2>1, <3>2 DEF ApplyDisposition, Stuck, Terminal
    <3>3. CASE run.outcome = "pr-created" /\ run.pr \in issue.results
      BY <1>1, <1>4, <2>1, <3>3 DEF Published, Stuck, Open, IsReady
    <3> QED
      BY <2>1, <2>3, <3>1, <3>2, <3>3 DEF Counted
  <2> QED
    BY <1>3, <1>4, <1>6, <1>7, <2>1, <2>2, <2>3 DEF Counted, Unwritten, Working, Stopping
<1>9. CASE Unclaim /\ ~(Throw /\ faults' = faults + 1 /\ crashes' = crashes)
  <2>1. /\ pc = "unclaim" /\ pc' = "idle" /\ UNCHANGED <<faults, crashes>>
        /\ Relabel(issue.labels \ {"in-progress"})
    BY <1>9 DEF Unclaim, Call, Fault
  <2>2. issue'.labels = issue.labels \ {"in-progress"} /\ issue'.open = issue.open
    BY <1>1, <2>1 DEF Relabel, IssueType
  <2>3. Stuck => Stuck'
    BY <1>4, <2>2 DEF Stuck, Terminal, Open, IsReady
  <2> QED
    BY <1>3, <1>4, <1>6, <2>1, <2>3 DEF Counted, Unwritten, Working, Stopping
<1>10. CASE (Close \/ Release \/ ClearOutcome) /\ ~(Throw /\ faults' = faults + 1 /\ crashes' = crashes)
  <2>1. UNCHANGED <<faults, crashes, run>> /\ pc' \in {"release", "relabel", "complete"}
    BY <1>10 DEF Close, Release, ClearOutcome, Call, Fault
  <2>2. ~issue'.open
    <3>1. CASE Close
      BY <1>1, <1>10, <3>1 DEF Close, Call, Fault, IssueType
    <3>2. CASE Release \/ ClearOutcome
      BY <1>4, <3>2 DEF Release, ClearOutcome, Call, Counted
    <3> QED
      BY <1>10, <3>1, <3>2
  <2> QED
    BY <1>3, <1>4, <1>6, <1>7, <2>1, <2>2 DEF Counted, Unwritten, Working, Stopping
<1>11. CASE Complete
  <2>1. pc' = "idle" /\ UNCHANGED <<faults, crashes>> /\ ~issue'.open
    BY <1>4, <1>11 DEF Complete, EndRun, Quiet, Counted
  <2> QED
    BY <1>3, <1>4, <1>6, <2>1 DEF Counted, Stuck, Unwritten, Working, Stopping
<1> QED
  BY <1>5, <1>8, <1>9, <1>10, <1>11

\* The count stays within its bound in every step.
LEMMA StepCounted ==
    ASSUME Typed, Disposed, Published, Counted, [Next]_vars, "clear" \notin Human, "close" \notin Human
    PROVE  Counted'
<1>1. CASE UNCHANGED vars
  BY <1>1 DEF vars, world, Counted, Budget, Spent, Stuck, Open, IsReady
<1>2. CASE HumanStep
  <2>1. Budget' = Budget /\ Spent' = Spent /\ UNCHANGED <<pc, run>>
    BY <1>2, HumansFrugal DEF Budget, Spent
  <2> QED
    BY <1>2, <2>1, HumansFrugal DEF Counted, Terminal
<1>3. ASSUME NEW s \in BOOLEAN, Begin(s) \/ BeginRecovery(s) PROVE Counted'
  <2>1. pc = "idle" /\ ~Stuck
    BY <1>3 DEF Begin, BeginRecovery, Selected, Marked, Stuck
  <2>2. /\ UNCHANGED <<issue, faults, crashes>> /\ run'.attempt = issue.counted + 1
        /\ pc' \in {"clear", "save"}
    BY <1>3 DEF Begin, BeginRecovery, Started, NoRun, Quiet
  <2>3. issue.counted < Budget /\ Budget' = Budget
    BY <2>1, <2>2 DEF Counted, Budget
  <2>4. issue'.counted < Spent'
    BY <2>2, CountTyped DEF Spent
  <2> QED
    BY <2>2, <2>3, <2>4 DEF Counted, Unwritten, Working, Stopping
<1>4. CASE Crash \/ Terminate
  <2>1. issue.counted <= Budget
    BY CountTyped DEF Counted, Budget
  <2>2. pc' = "idle" /\ UNCHANGED <<issue, faults>> /\ crashes' = crashes + 1
    BY <1>4 DEF Crash, Terminate, EndRun, Goto, world
  <2>3. issue'.counted < Budget' /\ issue'.counted <= Budget'
    BY <2>1, <2>2, CountTyped DEF Budget
  <2> QED
    BY <2>2, <2>3 DEF Counted, Unwritten, Working, Stopping
<1>5. CASE RunStep /\ pc \in Unwritten /\ pc # "comment"
  <2>1. /\ issue'.counted = issue.counted /\ issue'.counted < Budget' /\ issue'.counted <= Budget'
        /\ issue'.counted < run.attempt + faults' + crashes'
    BY <1>5, KeepsCount, CountTyped DEF Counted, Budget, Spent
  <2>2. CASE pc' = "idle"
    BY <2>1, <2>2 DEF Counted, Unwritten, Working, Stopping
  <2>3. CASE pc' \in Unwritten /\ run'.attempt = run.attempt
    <3>1. pc' \notin {"idle", "label", "unclaim", "release", "relabel", "complete"}
      BY <2>3 DEF Unwritten, Working, Stopping
    <3> QED
      BY <2>1, <2>3, <3>1 DEF Counted, Spent
  <2> QED
    BY <1>5, <2>2, <2>3, KeepsCount
<1>6. CASE RunStep /\ pc \notin Unwritten \ {"comment"}
  <2>1. pc \notin Working \cup Stopping \cup {"guard"}
    BY <1>6 DEF Unwritten, Working, Stopping
  <2>2. ~(Clear \/ Claim \/ Implementation \/ Publication)
    BY <2>1 DEF Clear, Claim, Implementation, Publication, Call, HandOff, Implement, SkipBuilder, BuilderFixed,
         SetupFails, BuilderFails, BuilderBlocked, CommitAttempt, VerifyPasses, VerifyFails, AlreadyFixed,
         VerifyChanges, VerifierAccepts, VerifierRejects, VerifierErrs, Publish, Rebase, RebaseFails, Land,
         LandFails, Check, Push, Ready, ReadyFails, OpenReady, Progress, Guard, Working
  <2>3. ~(Ask \/ Discard \/ Checkpoint \/ Look \/ SavePush \/ SaveCreate \/ Save)
    BY <2>1 DEF Ask, Discard, Checkpoint, Look, SavePush, SaveCreate, Save, Call, Stopping
  <2> QED
    BY <1>6, <2>2, <2>3, CommentCounts, FinishCounts DEF RunStep, Finishing
<1> QED
  BY <1>1, <1>2, <1>3, <1>4, <1>5, <1>6 DEF Next

\* An issue whose terminal labels nobody takes away, and whose pull requests nobody
\* closes, is tried at most maxAttemptsPerIssue times, and once more for every call
\* that failed and every run that died, whatever else humans do.
THEOREM AttemptsAreBounded ==
    ASSUME "clear" \notin Human, "close" \notin Human
    PROVE  Safety => []AttemptLimit
<1>1. Init => Typed /\ Frugal
  <2> SUFFICES ASSUME Init PROVE Frugal
    BY InitTyped
  <2> QED
    BY PipelineAssumption DEF PipelineAssumption, Init, Frugal, Disposed, Published, Counted, Budget,
       Unwritten, Working, Stopping
<1>2. (Typed /\ Frugal) /\ [Next]_vars => (Typed /\ Frugal)'
  <2> SUFFICES ASSUME Typed, Frugal, [Next]_vars PROVE Typed' /\ Frugal'
    OBVIOUS
  <2> QED
    BY StepTyped, StepDisposed, StepPublished, StepCounted DEF Frugal
<1>3. Typed /\ Frugal => AttemptLimit
  BY CountTyped DEF Frugal, Counted, Budget, AttemptLimit
<1> QED
  BY <1>1, <1>2, <1>3, PTL DEF Safety
=============================================================================
