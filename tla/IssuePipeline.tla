---------------------------- MODULE IssuePipeline ----------------------------
(***************************************************************************)
(* One issue on its way through the runs of `kaizen run`: processIssue and *)
(* everything it calls (src/src/orchestrator/run.ts), from the selection   *)
(* that picks the issue to the label that releases it.                     *)
(*                                                                         *)
(* A run is sequential, and its calls to GitHub, git and the disk are the  *)
(* steps of this module.  Between two of them a human may act on GitHub,   *)
(* the process may die (Crash) or be told to stop (Terminate), and a call  *)
(* may fail, with or without having taken effect.  What outlives a run is  *)
(* the issue's thread and labels, the pull requests, the branch in its     *)
(* three copies, and the saved implementation state.                       *)
(*                                                                         *)
(* Runs of a project exclude each other (RunLock), so one run at a time is *)
(* modelled.  The content of a branch is the set of the facts about its    *)
(* diff that the pipeline's decisions and properties tell apart.           *)
(***************************************************************************)
EXTENDS Integers, FiniteSets

CONSTANTS
    MaxPr,        \* bound on the pull requests of the issue's branch
    MaxRetries,   \* config.run.maxVerifyRetries
    MaxAttempts,  \* config.run.maxAttemptsPerIssue
    VerifyOn,     \* config.commands.verify is not empty
    VerifierOn,   \* config.verifier.enabled
    MaxFaults,    \* bound on the failing calls of a behaviour
    MaxCrashes,   \* bound on its crashes and terminations
    Human         \* what humans and operators do in it, a subset of HumanActions

HumanActions == {"promote", "push", "close", "merge", "clear", "unclaim", "rebuild"}

ASSUME PipelineAssumption ==
    /\ MaxPr \in Nat \ {0}
    /\ MaxRetries \in Nat
    /\ MaxAttempts \in Nat \ {0}
    /\ VerifyOn \in BOOLEAN
    /\ VerifierOn \in BOOLEAN
    /\ MaxFaults \in Nat
    /\ MaxCrashes \in Nat
    /\ Human \subseteq HumanActions

VARIABLES
    issue,        \* the issue on GitHub: its labels, and what its comments say
    pulls,        \* the pull requests whose head is the issue's branch
    remote,       \* the branch on GitHub
    tracking,     \* refs/remotes/origin/<branch> in the workspace
    local,        \* the branch in the workspace
    dirty,        \* what the issue worktree holds beyond local
    ahead,        \* local has commits that tracking has not
    behind,       \* tracking has commits that local has not
    landed,       \* what the direct commits put on the default branch
    saved,        \* implementations/issue-<n>.json
    pc,           \* the next step of the run, "idle" between runs
    run,          \* what the run keeps in memory
    faults, crashes

git == <<remote, tracking, local, dirty, ahead, behind, landed>>
world == <<issue, pulls, git, saved>>
vars == <<world, pc, run, faults, crashes>>

-----------------------------------------------------------------------------
(* Types *)

\* work: the diff against the default branch is not empty.  forbidden: it touches
\* policy.forbiddenPaths.  reviewed: verification, and the verifier when there is
\* one, passed since the builder's last edit.  human: a human's commit is part of it.
Tag == {"work", "forbidden", "reviewed", "human"}
Content == SUBSET Tag

\* The branch does not exist.
NoBranch == {"no branch"}

\* Uncommitted changes: the builder's, or what verification commands left behind.
Dirty == {"clean", "work", "forbidden", "revert", "residue", "badresidue"}

Label == {"in-progress", "retryable", "blocked", "needs-human", "exhausted"}
Terminal == {"blocked", "needs-human", "exhausted"}

Phase == {"implementing", "verifying", "publishing", "guardian", "blocked", "failed",
          "infrastructure-failure", "discarded", "recovery-needed", "handoff", "complete"}
Resumable == {"implementing", "verifying", "publishing", "blocked", "failed",
              "infrastructure-failure", "recovery-needed"}

Pr == 1 .. MaxPr
NoPr == 0

\* The attempts counted on the issue's thread saturate here.
MaxCount == MaxAttempts + MaxFaults + MaxCrashes + 1

MaybePr == Pr \cup {NoPr}
NoFile == [phase |-> "none", pr |-> NoPr]

\* promoted: marked ready for review by a human.
PrState == {"unused", "draft", "ready", "promoted", "closed", "merged"}
IsReady(p) == pulls[p] \in {"ready", "promoted"}
Open(p) == pulls[p] = "draft" \/ IsReady(p)

PC == {"idle", "clear", "claim", "lookup", "build", "commit", "verify", "review", "final",
       "rebase", "land", "check", "push", "ready", "open", "progress", "guard",
       "ask", "checkpoint", "look", "savepush", "savecreate", "save", "comment",
       "label", "unclaim", "close", "release", "relabel", "complete"}

Outcome == {"none", "failed", "blocked", "infra", "recovery", "pr-created", "direct",
            "already-fixed"}

\* keep: the outcome leaves the disposition labels alone.
Disposition == {"none", "keep", "retryable", "blocked", "needs-human", "exhausted"}

\* attempt, streak: read from the thread when the run starts.  prevPr: the pull
\* request of the resumable state the run started from.  skip: its builder is
\* skipped at retry 0.  pr: the pull request at hand.  caught: the catch of
\* processIssue has run.  lost: what checkpointPartialChanges discarded.
\* wasReady (history): the pull requests that were ready when the run started.
Run == [attempt : 0 .. MaxCount + 1, streak : 0 .. MaxAttempts,
        prevPr : MaybePr, skip : BOOLEAN, retry : 0 .. MaxRetries,
        pr : MaybePr, outcome : Outcome, disposition : Disposition, caught : BOOLEAN,
        lost : {"no", "restored", "all"}, wasReady : SUBSET Pr]

NoRun == [attempt |-> 0, streak |-> 0, prevPr |-> NoPr, skip |-> FALSE, retry |-> 0,
          pr |-> NoPr, outcome |-> "none", disposition |-> "none", caught |-> FALSE,
          lost |-> "no", wasReady |-> {}]

TypeOK ==
    /\ issue \in [open : BOOLEAN, labels : SUBSET Label,
                  counted : 0 .. MaxCount, streak : 0 .. MaxAttempts,
                  results : SUBSET Pr, progress : SUBSET Pr]
    /\ pulls \in [Pr -> PrState]
    /\ remote \in Content \cup {NoBranch}
    /\ tracking \in Content \cup {NoBranch}
    /\ local \in Content \cup {NoBranch}
    /\ dirty \in Dirty
    /\ ahead \in BOOLEAN /\ behind \in BOOLEAN
    /\ landed \in Content
    /\ saved \in [phase : Phase, pr : MaybePr] \cup {NoFile}
    /\ pc \in PC
    /\ run \in Run
    /\ faults \in 0 .. MaxFaults
    /\ crashes \in 0 .. MaxCrashes

Init ==
    /\ issue = [open |-> TRUE, labels |-> {}, counted |-> 0, streak |-> 0,
                results |-> {}, progress |-> {}]
    /\ pulls = [p \in Pr |-> "unused"]
    /\ remote = NoBranch /\ tracking = NoBranch /\ local = NoBranch
    /\ dirty = "clean" /\ ahead = FALSE /\ behind = FALSE
    /\ landed = {}
    /\ saved = NoFile
    /\ pc = "idle"
    /\ run = NoRun
    /\ faults = 0 /\ crashes = 0

-----------------------------------------------------------------------------
(* Control *)

Goto(l) == /\ pc' = l
           /\ run' = IF l = "idle" THEN NoRun ELSE run

\* The promise of processIssue is rejected, or fulfilled: the run is over.
EndRun == Goto("idle")

\* finishFailed, finishBlocked and finishVerifierInfrastructureFailure begin.
Finish(outcome, disposition) ==
    /\ pc' = IF disposition = "needs-human" THEN "ask" ELSE "checkpoint"
    /\ run' = [run EXCEPT !.outcome = outcome, !.disposition = disposition,
                          !.pr = NoPr, !.lost = "no"]

\* Mutant of FailedDisposition: the last attempt does not exhaust.
ExhaustedLater == IF run.attempt > MaxAttempts THEN "exhausted" ELSE "keep"

FailedDisposition == IF run.attempt >= MaxAttempts THEN "exhausted" ELSE "keep"

Fail == Finish("failed", FailedDisposition)

\* The catch of processIssue turns an exception into finishFailed.  The finish
\* functions run inside the try, so one that throws is followed by finishFailed;
\* an exception of that last finishFailed ends the run.  created is the pull
\* request of a CreatedPullRequestValidationError.
ThrowWith(created) ==
    IF run.caught
    THEN EndRun
    ELSE /\ pc' = "checkpoint"
         /\ run' = [run EXCEPT !.caught = TRUE, !.outcome = "failed", !.pr = created,
                               !.disposition = FailedDisposition, !.lost = "no"]

Throw == ThrowWith(NoPr)

Fault == faults < MaxFaults /\ faults' = faults + 1

\* A call to GitHub at step l: it has its effect and the run goes on; or it fails,
\* with or without the effect, and throws.
Call(l, effect, next) ==
    /\ pc = l
    /\ \/ effect /\ Goto(next) /\ UNCHANGED faults
       \/ Fault /\ (effect \/ UNCHANGED world) /\ Throw
    /\ UNCHANGED crashes

Quiet == UNCHANGED <<faults, crashes>>

-----------------------------------------------------------------------------
(* Content of the branch *)

Empty(c) == c \cap {"work", "forbidden"} = {}

\* git add -A, git commit
Commit(c, d) == CASE d = "clean"      -> c
                  [] d = "work"       -> (c \ {"reviewed"}) \cup {"work"}
                  [] d = "forbidden"  -> (c \ {"reviewed"}) \cup {"work", "forbidden"}
                  [] d = "revert"     -> c \cap {"human"}
                  [] d = "residue"    -> c \cup {"work"}
                  [] d = "badresidue" -> c \cup {"work", "forbidden"}

CommitLeftovers == /\ local' = Commit(local, dirty)
                   /\ dirty' = "clean"
                   /\ ahead' = (ahead \/ dirty # "clean")
                   /\ UNCHANGED <<remote, tracking, behind, landed>>

\* What a verification command may leave in the worktree.
Residue == IF VerifyOn THEN {"clean", "residue", "badresidue"} ELSE {"clean"}

\* git fetch origin, which does not prune
Fetched == IF remote = NoBranch THEN tracking ELSE remote
Moved == Fetched # tracking

SaveState(phase, pr) == saved' = [phase |-> phase, pr |-> pr]
-----------------------------------------------------------------------------
(* The start of a run: selectIssues, the intake gate, createIssueWorktree *)

\* Mutant of Marked: only scheduled runs list the open pull requests.
MarkedScheduled(scheduled) == IF scheduled THEN issue.results \cup issue.progress ELSE {}

\* The open pull requests are listed for a scheduled run, and for any run when a
\* result comment names a pull request.
Marked(scheduled) ==
    IF scheduled \/ issue.results # {} THEN issue.results \cup issue.progress ELSE {}

\* hasActiveInProgress: GitHub's label list has no creation time, and a label
\* without one is active.
Selected(scheduled) ==
    /\ issue.open
    /\ issue.labels \cap Terminal = {}
    /\ "in-progress" \notin issue.labels
    /\ ~ \E p \in Marked(scheduled) : Open(p)

Resumes == saved.phase \in Resumable

\* The worktree's branch: fresh from the default branch, or resumed from the
\* workspace's copy, fast-forwarded to GitHub's, or from GitHub's.
FreshBranch == /\ ~Resumes
               /\ local' = {}
               /\ ahead' = FALSE
               /\ behind' = (Fetched # NoBranch)

ResumedBranch == /\ Resumes
                 /\ \/ local # NoBranch \/ Fetched # NoBranch
                 /\ LET lags == local = NoBranch \/ behind \/ Moved
                    IN  /\ ~(local # NoBranch /\ lags /\ ahead)
                        /\ local' = IF lags THEN Fetched ELSE local
                 /\ ahead' = (ahead /\ local # NoBranch)
                 /\ behind' = FALSE

\* CheckpointBranchMissingError, CheckpointBranchDivergedError
Unresumable == /\ Resumes
               /\ \/ local = NoBranch /\ Fetched = NoBranch
                  \/ local # NoBranch /\ ahead /\ (behind \/ Moved)

Started == [NoRun EXCEPT !.attempt = issue.counted + 1,
                         !.streak = issue.streak,
                         !.prevPr = IF Resumes THEN saved.pr ELSE NoPr,
                         !.skip = saved.phase = "infrastructure-failure",
                         !.wasReady = {p \in Pr : IsReady(p)}]

Begin(scheduled) ==
    /\ pc = "idle"
    /\ Selected(scheduled)
    /\ FreshBranch \/ ResumedBranch
    /\ tracking' = Fetched
    /\ dirty' = "clean"
    /\ pc' = "clear"
    /\ run' = Started
    /\ UNCHANGED <<issue, pulls, remote, landed, saved>> /\ Quiet

\* The branch cannot be resumed: the run records it and stops, outside of
\* processIssue and its catch.
BeginRecovery(scheduled) ==
    /\ pc = "idle"
    /\ Selected(scheduled)
    /\ Unresumable
    /\ tracking' = Fetched
    /\ behind' = (behind \/ Moved)
    /\ dirty' = "clean"
    /\ pc' = "save"
    /\ run' = [Started EXCEPT !.outcome = "recovery", !.disposition = "blocked", !.caught = TRUE]
    /\ UNCHANGED <<issue, pulls, remote, local, ahead, landed, saved>> /\ Quiet

Relabel(labels) == /\ issue' = [issue EXCEPT !.labels = labels]
                   /\ UNCHANGED <<pulls, git, saved>>

\* applyIssueDisposition: never takes needs-human away.
ApplyDisposition(d) ==
    CASE d = "keep" -> UNCHANGED world
      [] d = "none" -> Relabel(issue.labels \ {"retryable", "blocked", "exhausted"})
      [] OTHER -> Relabel((issue.labels \ {"retryable", "blocked", "exhausted"}) \cup {d})

Clear == Call("clear", ApplyDisposition("none"), "claim")

Claim == Call("claim", Relabel(issue.labels \cup {"in-progress"}), "lookup")

\* The pull request of the resumed state: a ready one is handed to the guardian.
\* A failing lookup is taken for no pull request.
HandOff == /\ pc = "lookup"
           /\ run.prevPr # NoPr /\ IsReady(run.prevPr)
           /\ pc' = "guard"
           /\ run' = [run EXCEPT !.pr = run.prevPr, !.outcome = "pr-created"]
           /\ UNCHANGED world /\ Quiet

\* Otherwise the implementation state is saved and the setup commands run.
Implement == /\ pc = "lookup"
             /\ \/ ~(run.prevPr # NoPr /\ IsReady(run.prevPr)) /\ UNCHANGED faults
                \/ run.prevPr # NoPr /\ Fault
             /\ SaveState(IF run.skip THEN "verifying" ELSE "implementing", run.prevPr)
             /\ Goto("build") \/ Fail
             /\ UNCHANGED <<issue, pulls, git, crashes>>

-----------------------------------------------------------------------------
(* The attempts: builder, leftovers, verification, verifier *)

\* Mutants of Retry: an off-by-one; a retry that is not counted.
RetryOnceMore == /\ run.retry <= MaxRetries
                 /\ pc' = "build"
                 /\ run' = [run EXCEPT !.retry = @ + 1]
RetryForEver == Goto("build")

Retry == /\ run.retry < MaxRetries
         /\ pc' = "build"
         /\ run' = [run EXCEPT !.retry = @ + 1]

GiveUp == run.retry = MaxRetries /\ Fail

Skipping == run.skip /\ run.retry = 0

SkipBuilder == /\ pc = "build" /\ Skipping
               /\ Goto("commit")
               /\ UNCHANGED world /\ Quiet

\* The builder edits the worktree, and reports.
BuilderEdits == /\ dirty' \in {"clean", "work", "forbidden", "revert"}
                /\ UNCHANGED <<issue, pulls, remote, tracking, local, ahead, behind, landed, saved>>

BuilderFixed == /\ pc = "build" /\ ~Skipping
                /\ BuilderEdits
                /\ Goto("commit")
                /\ Quiet

\* The setup commands fail after the builder.
SetupFails == /\ pc = "build" /\ ~Skipping
              /\ BuilderEdits
              /\ Retry \/ GiveUp
              /\ Quiet

BuilderFails == /\ pc = "build" /\ ~Skipping
                /\ BuilderEdits
                /\ Fail
                /\ Quiet

\* dispositionForBlockedAgent, and the budget of consecutive retryable blocks
BlockedDisposition(d) ==
    IF d = "retryable" /\ run.streak + 1 >= MaxAttempts THEN "exhausted" ELSE d

BuilderBlocked == /\ pc = "build" /\ ~Skipping
                  /\ BuilderEdits
                  /\ \E d \in {"retryable", "needs-human", "blocked"} :
                        Finish("blocked", BlockedDisposition(d))
                  /\ Quiet

\* commitLeftovers, then the checks of the diff.
CommitAttempt ==
    /\ pc = "commit"
    /\ CommitLeftovers
    /\ \/ /\ \/ ~Empty(local') /\ "forbidden" \notin local'
             \/ Empty(local') /\ ~Skipping /\ VerifyOn
          /\ SaveState("verifying", run.prevPr)
          /\ Goto("verify")
       \/ /\ \/ "forbidden" \in local'
             \/ Empty(local') /\ (Skipping \/ ~VerifyOn)
          /\ Fail
          /\ UNCHANGED saved
    /\ UNCHANGED <<issue, pulls>> /\ Quiet

\* Verification passes.  Without a verifier that is the review of this attempt.
Accept(next) == /\ local' = local \cup {"reviewed"}
                /\ Goto(next)

VerifyPasses ==
    /\ pc = "verify" /\ ~Empty(local)
    /\ dirty' \in Residue
    /\ IF VerifierOn THEN Goto("review") /\ UNCHANGED local ELSE Accept("final")
    /\ UNCHANGED <<issue, pulls, remote, tracking, ahead, behind, landed, saved>> /\ Quiet

VerifyFails ==
    /\ VerifyOn
    /\ pc = "verify"
    /\ dirty' \in Residue
    /\ IF Empty(local) THEN Fail ELSE Retry \/ GiveUp
    /\ UNCHANGED <<issue, pulls, remote, tracking, local, ahead, behind, landed, saved>> /\ Quiet

\* Verification passes on an empty diff: the issue is already fixed, unless
\* verification itself changed something.
AlreadyFixed ==
    /\ pc = "verify" /\ Empty(local)
    /\ pc' = "comment"
    /\ run' = [run EXCEPT !.outcome = "already-fixed"]
    /\ UNCHANGED world /\ Quiet

VerifyChanges ==
    /\ pc = "verify" /\ Empty(local)
    /\ \E d \in Residue \ {"clean"} :
          /\ ahead' = TRUE
          /\ IF d = "badresidue"
             THEN Fail /\ local' = Commit(local, d)
             ELSE IF VerifierOn
                  THEN Goto("review") /\ local' = Commit(local, d)
                  ELSE Goto("final") /\ local' = Commit(local, d) \cup {"reviewed"}
    /\ UNCHANGED <<issue, pulls, remote, tracking, dirty, behind, landed, saved>> /\ Quiet

VerifierAccepts == /\ pc = "review"
                   /\ Accept("final")
                   /\ UNCHANGED <<issue, pulls, remote, tracking, dirty, ahead, behind, landed, saved>>
                   /\ Quiet

VerifierRejects == /\ pc = "review"
                   /\ Retry \/ GiveUp
                   /\ UNCHANGED world /\ Quiet

VerifierErrs == /\ pc = "review"
                /\ Finish("infra", "keep")
                /\ UNCHANGED world /\ Quiet

\* Mutant of DirectAllowed: a resumed pull request is forgotten.
DirectAnyway == ~VerifierOn /\ VerifyOn

\* The change goes to the default branch when no verifier ran, no pull request is
\* resumed, something was verified, and decideReflection says so.
DirectAllowed == ~VerifierOn /\ VerifyOn /\ run.prevPr = NoPr

Publishable(c) == ~Empty(c) /\ "forbidden" \notin c

\* Leftovers once more, the last checks of the diff, and the route: a pull request,
\* or a direct commit, which the user may reject.
Publish ==
    /\ pc = "final"
    /\ CommitLeftovers
    /\ \/ /\ Publishable(local')
          /\ SaveState("publishing", run.prevPr)
          /\ \/ Goto("check")
             \/ DirectAllowed /\ (Goto("rebase") \/ Fail)
       \/ /\ ~Publishable(local')
          /\ Fail
          /\ UNCHANGED saved
    /\ UNCHANGED <<issue, pulls>> /\ Quiet
-----------------------------------------------------------------------------
(* reflectDirect, and its fallback to a pull request *)

\* fetch, checkout, rebase, verify.  When one of them fails the branch may have been
\* rebased or not, and preparePrFallback returns to it.
Rebase ==
    /\ pc = "rebase"
    /\ tracking' = Fetched
    /\ behind' = (Fetched # NoBranch)
    /\ ahead' = TRUE
    /\ dirty' \in Residue
    /\ Goto("land") \/ Goto("check")
    /\ UNCHANGED <<issue, pulls, remote, local, landed, saved>> /\ Quiet

RebaseFails ==
    /\ pc = "rebase"
    /\ tracking' = Fetched
    /\ behind' = (behind \/ Moved)
    /\ Goto("check")
    /\ UNCHANGED <<issue, pulls, remote, local, dirty, ahead, landed, saved>> /\ Quiet

\* commitLeftovers, merge into the default branch, push it.
Land ==
    /\ pc = "land"
    /\ landed' = landed \cup Commit(local, dirty)
    /\ local' = {}
    /\ dirty' = "clean"
    /\ pc' = "comment"
    /\ run' = [run EXCEPT !.outcome = "direct"]
    /\ UNCHANGED <<issue, pulls, remote, tracking, ahead, behind, saved>> /\ Quiet

LandFails ==
    /\ pc = "land"
    /\ CommitLeftovers
    /\ Goto("check")
    /\ UNCHANGED <<issue, pulls, saved>> /\ Quiet

-----------------------------------------------------------------------------
(* reflectPullRequest and finishPr *)

\* The recorded pull request, if it is open, must be a draft.
Check ==
    /\ pc = "check"
    /\ \/ /\ \/ saved.pr = NoPr
             \/ saved.pr # NoPr /\ ~IsReady(saved.pr)
          /\ pc' = "push"
          /\ run' = [run EXCEPT !.pr = IF saved.pr # NoPr /\ Open(saved.pr) THEN saved.pr ELSE NoPr]
          /\ UNCHANGED faults
       \/ /\ saved.pr # NoPr
          /\ \/ IsReady(saved.pr) /\ UNCHANGED faults
             \/ Fault
          /\ Throw
    /\ UNCHANGED <<world, crashes>>

\* Mutant of LeaseHolds: --force.
NoLease == TRUE

\* git push --force-with-lease=<branch>:<tracking>
LeaseHolds == remote = tracking

PushBranch == /\ remote' = local
              /\ tracking' = local
              /\ ahead' = FALSE
              /\ behind' = FALSE
              /\ UNCHANGED <<issue, pulls, local, dirty, landed, saved>>

Push ==
    /\ pc = "push"
    /\ \/ LeaseHolds /\ PushBranch /\ Goto(IF run.pr # NoPr THEN "ready" ELSE "open")
          /\ UNCHANGED faults
       \/ /\ \/ ~LeaseHolds /\ UNCHANGED faults
             \/ Fault
          /\ Throw
          /\ UNCHANGED world
    /\ UNCHANGED crashes

SetPull(p, s) == /\ pulls' = [pulls EXCEPT ![p] = s]
                 /\ UNCHANGED <<issue, git, saved>>

\* editPullRequest and markPullRequestReady; the latter fails on a closed one.
Ready == /\ pc = "ready" /\ Open(run.pr)
         /\ Call("ready", SetPull(run.pr, "ready"), "progress")

ReadyFails == /\ pc = "ready" /\ ~Open(run.pr)
              /\ Throw
              /\ UNCHANGED world /\ Quiet

\* GitHub refuses a second open pull request of one head.
Refused == \E p \in Pr : Open(p)
Unused(p) == pulls[p] = "unused" /\ \A q \in Pr : q < p => pulls[q] # "unused"

\* Mutant of Create: the draft flag is not passed on.
CreateReady(p, s) == /\ Unused(p) /\ ~Refused
                     /\ pulls' = [pulls EXCEPT ![p] = "ready"]

Create(p, s) == /\ Unused(p) /\ ~Refused
                /\ pulls' = [pulls EXCEPT ![p] = s]

\* createPullRequest.  CreatedPullRequestValidationError: it exists, but GitHub does
\* not show the expected closing reference; the state records it and the issue gets
\* the progress comment.
OpenReady ==
    /\ pc = "open"
    /\ \/ \E p \in Pr :
             /\ Create(p, "ready")
             /\ \/ /\ pc' = "progress"
                   /\ run' = [run EXCEPT !.pr = p]
                   /\ UNCHANGED <<issue, saved, faults>>
                \/ /\ Fault
                   /\ SaveState("publishing", p)
                   /\ issue' = [issue EXCEPT !.progress = @ \cup {p}]
                   /\ ThrowWith(p)
                \/ /\ Fault
                   /\ Throw
                   /\ UNCHANGED <<issue, saved>>
       \/ /\ \/ Refused /\ UNCHANGED faults
             \/ Fault
          /\ Throw
          /\ UNCHANGED <<issue, pulls, saved>>
    /\ UNCHANGED <<git, crashes>>

Progress == Call("progress",
                 /\ issue' = [issue EXCEPT !.progress = @ \cup {run.pr}]
                 /\ UNCHANGED <<pulls, git, saved>>,
                 "guard")

\* runPrGuardianAfterPullRequest, of finishPr and handOffReadyCheckpointPullRequest:
\* merge-ready, disabled, queued or failed.
Guard ==
    /\ pc = "guard"
    /\ \/ \E g \in {<<"complete", "none">>, <<"handoff", "none">>,
                     <<"guardian", "none">>, <<"guardian", "blocked">>} :
             /\ SaveState(g[1], run.pr)
             /\ run' = [run EXCEPT !.outcome = "pr-created", !.disposition = g[2]]
             /\ pc' = "comment"
             /\ UNCHANGED faults
       \/ Fault /\ Throw /\ UNCHANGED saved
    /\ UNCHANGED <<issue, pulls, git, crashes>>

-----------------------------------------------------------------------------
(* The end of a stopped run: checkpointPartialChanges, publishDraftCheckpoint *)

\* ensureHumanRequest: the request is recorded and the label added; or a human has
\* already answered this request, and the issue is blocked instead.
Ask ==
    \/ Call("ask", Relabel((issue.labels \ {"retryable", "blocked", "exhausted"}) \cup {"needs-human"}),
            "checkpoint")
    \/ /\ pc = "ask"
       /\ pc' = "checkpoint"
       /\ run' = [run EXCEPT !.disposition = "blocked"]
       /\ UNCHANGED world /\ Quiet

\* Mutant of ForbiddenChanges: checkpoints are not checked.
NothingForbidden == FALSE

\* collectCheckpointDiffStats: the files of the commits and those of the worktree.
ForbiddenChanges == "forbidden" \in local \/ dirty \in {"forbidden", "badresidue"}

\* discardIssueChanges: back to GitHub's copy of the branch, or to the default branch.
Discard ==
    /\ pc = "checkpoint"
    /\ ForbiddenChanges
    /\ local' = IF tracking # NoBranch THEN tracking ELSE {}
    /\ run' = [run EXCEPT !.lost = IF tracking # NoBranch THEN "restored" ELSE "all"]
    /\ dirty' = "clean" /\ ahead' = FALSE /\ behind' = FALSE
    /\ pc' = "save"
    /\ UNCHANGED <<issue, pulls, remote, tracking, landed, saved>> /\ Quiet

\* A pull request that has just been created is not pushed to again.
Checkpoint ==
    /\ pc = "checkpoint"
    /\ \/ ~ForbiddenChanges /\ CommitLeftovers /\ UNCHANGED faults
       \/ Fault /\ UNCHANGED git
    /\ Goto(IF run.pr # NoPr THEN "save" ELSE "look")
    /\ UNCHANGED <<issue, pulls, saved, crashes>>

\* The open pull request publishDraftCheckpoint finds: the recorded one or, when that
\* lookup fails, the one of the branch.
Existing(p) == /\ saved.pr # NoPr /\ Open(p)
               /\ \/ p = saved.pr /\ UNCHANGED faults
                  \/ Fault

Look ==
    /\ pc = "look"
    /\ \/ \E p \in Pr :
             /\ Existing(p)
             /\ run' = [run EXCEPT !.pr = p]
             /\ pc' = IF IsReady(p) \/ ForbiddenChanges THEN "save" ELSE "savepush"
       \/ /\ saved.pr # NoPr => ~Open(saved.pr)
          /\ Goto(IF ForbiddenChanges \/ (saved.pr = NoPr /\ Empty(local) /\ dirty = "clean")
                  THEN "save" ELSE "savepush")
          /\ UNCHANGED faults
       \/ /\ saved.pr # NoPr /\ Fault
          /\ Goto("save")
    /\ UNCHANGED <<world, crashes>>

\* Errors, of the push or of editPullRequest after it, end up in the recorded reason; the
\* state keeps the recorded pull request.
SavePush ==
    /\ pc = "savepush"
    /\ \/ LeaseHolds /\ PushBranch /\ Goto(IF run.pr # NoPr THEN "save" ELSE "savecreate")
          /\ UNCHANGED faults
       \/ /\ \/ ~LeaseHolds /\ UNCHANGED <<world, faults>>
             \/ Fault /\ UNCHANGED world
             \/ Fault /\ LeaseHolds /\ run.pr # NoPr /\ PushBranch
          /\ pc' = "save"
          /\ run' = [run EXCEPT !.pr = NoPr]
    /\ UNCHANGED crashes

SaveCreate ==
    /\ pc = "savecreate"
    /\ \/ \E p \in Pr :
             /\ Create(p, "draft")
             /\ \/ run' = [run EXCEPT !.pr = p] /\ UNCHANGED faults
                \/ Fault /\ UNCHANGED run
       \/ /\ \/ Refused /\ UNCHANGED faults
             \/ Fault
          /\ UNCHANGED <<run, pulls>>
    /\ pc' = "save"
    /\ UNCHANGED <<issue, git, saved, crashes>>

PhaseOf(outcome) == CASE outcome = "failed"   -> "failed"
                      [] outcome = "blocked"  -> "blocked"
                      [] outcome = "infra"    -> "infrastructure-failure"
                      [] outcome = "recovery" -> "recovery-needed"

\* Mutant of Save: the recorded pull request is not carried over.
SaveForgets == /\ pc = "save"
               /\ SaveState(IF run.lost = "all" THEN "discarded" ELSE PhaseOf(run.outcome), run.pr)
               /\ Goto("comment")
               /\ UNCHANGED <<issue, pulls, git>> /\ Quiet

Save == /\ pc = "save"
        /\ SaveState(IF run.lost = "all" THEN "discarded" ELSE PhaseOf(run.outcome),
                     IF run.pr # NoPr THEN run.pr ELSE saved.pr)
        /\ Goto("comment")
        /\ UNCHANGED <<issue, pulls, git>> /\ Quiet

-----------------------------------------------------------------------------
(* The result comment, the labels, the end *)

\* hasRetryableExternalEvidence: the text of the result has a phrase like "status: 429"
\* in it, be it about this run or about the issue.  A retryable block is marked so.
Retryable == run.outcome = "blocked" /\ run.disposition = "retryable"
Evidence == IF Retryable THEN {TRUE} ELSE BOOLEAN

\* countAttempts and countConsecutiveRetryableBlocks read the thread back: a result
\* counts unless it is an infrastructure failure or has such evidence; blocks with it
\* are a streak, which any other result ends; a human request counts in any case.
Posted(evidence) ==
    LET asked    == run.disposition = "needs-human"
        external == evidence /\ ~asked
        counts   == run.outcome # "infra" /\ ~external
        repeats  == run.outcome \in {"blocked", "recovery"} /\ external
    IN  [issue EXCEPT
            !.counted = IF counts /\ @ < MaxCount THEN @ + 1 ELSE @,
            !.streak  = IF ~repeats THEN 0 ELSE IF @ < MaxAttempts THEN @ + 1 ELSE @,
            !.results = IF run.outcome = "pr-created" THEN @ \cup {run.pr} ELSE @]

Comment == Call("comment",
                (\E evidence \in Evidence : issue' = Posted(evidence)) /\ UNCHANGED <<pulls, git, saved>>,
                IF run.outcome \in {"direct", "already-fixed"} THEN "close" ELSE "label")

LabelOutcome == Call("label",
                     ApplyDisposition(IF run.disposition = "needs-human" THEN "keep"
                                      ELSE run.disposition),
                     "unclaim")

\* Mutant of Unclaim: the claim stays.
KeepClaim == Call("unclaim", UNCHANGED world, "idle")

Unclaim == Call("unclaim", Relabel(issue.labels \ {"in-progress"}), "idle")

\* After a direct commit, or when nothing was left to fix.
Close == Call("close",
              issue' = [issue EXCEPT !.open = FALSE] /\ UNCHANGED <<pulls, git, saved>>,
              "release")

Release == Call("release", Relabel(issue.labels \ {"in-progress"}), "relabel")

ClearOutcome == Call("relabel", ApplyDisposition("none"), "complete")

Complete == /\ pc = "complete"
            /\ SaveState("complete", NoPr)
            /\ EndRun
            /\ UNCHANGED <<issue, pulls, git>> /\ Quiet

-----------------------------------------------------------------------------
(* Crashes and signals *)

Crash == /\ pc # "idle"
         /\ crashes < MaxCrashes /\ crashes' = crashes + 1
         /\ EndRun
         /\ UNCHANGED <<world, faults>>

\* SIGINT or SIGTERM: from now on every command throws (throwIfShutdownRequested),
\* which leaves finishFailed its save and nothing else.
Terminate == /\ pc # "idle" /\ ~run.caught
             /\ crashes < MaxCrashes /\ crashes' = crashes + 1
             /\ SaveState("failed", saved.pr)
             /\ EndRun
             /\ UNCHANGED <<issue, pulls, git, faults>>

-----------------------------------------------------------------------------
(* Humans, on GitHub and at the machine *)

Acts(a) == a \in Human /\ UNCHANGED <<pc, run>> /\ Quiet

\* MaxPr bounds the pull requests: the last one stays open.
Replaceable(p) == \E q \in Pr : q > p

HumanPromotes(p) == /\ Acts("promote") /\ pulls[p] = "draft" /\ SetPull(p, "promoted")

HumanCloses(p) == /\ Acts("close") /\ Open(p) /\ Replaceable(p) /\ SetPull(p, "closed")

\* The merge closes the issue the pull request names.
HumanMerges(p) == /\ Acts("merge")
                  /\ IsReady(p) /\ Replaceable(p)
                  /\ pulls' = [pulls EXCEPT ![p] = "merged"]
                  /\ issue' = [issue EXCEPT !.open = FALSE]
                  /\ UNCHANGED <<git, saved>>

HumanPushes(p) == /\ Acts("push")
                  /\ Open(p) /\ remote # NoBranch /\ "human" \notin remote
                  /\ remote' = remote \cup {"human", "work"}
                  /\ UNCHANGED <<issue, pulls, tracking, local, dirty, ahead, behind, landed, saved>>

\* A human takes a terminal label away: the issue may be tried again.
HumanClears == /\ Acts("clear")
               /\ \E l \in issue.labels \cap Terminal : Relabel(issue.labels \ {l})

\* An operator takes away the claim of a run that is over.
OperatorUnclaims == /\ Acts("unclaim") /\ pc = "idle"
                    /\ "in-progress" \in issue.labels
                    /\ Relabel(issue.labels \ {"in-progress"})

\* The workspace is cloned anew (WorkspaceManager.ensure, secureOrRebuildExistingWorkspace).
WorkspaceRebuilt == /\ Acts("rebuild") /\ pc = "idle"
                    /\ local # NoBranch
                    /\ local' = NoBranch /\ tracking' = remote
                    /\ dirty' = "clean" /\ ahead' = FALSE /\ behind' = FALSE
                    /\ UNCHANGED <<issue, pulls, remote, landed, saved>>

-----------------------------------------------------------------------------
Implementation == \/ HandOff \/ Implement
                  \/ SkipBuilder \/ BuilderFixed \/ SetupFails \/ BuilderFails \/ BuilderBlocked
                  \/ CommitAttempt
                  \/ VerifyPasses \/ VerifyFails \/ AlreadyFixed \/ VerifyChanges
                  \/ VerifierAccepts \/ VerifierRejects \/ VerifierErrs
                  \/ Publish

Publication == \/ Rebase \/ RebaseFails \/ Land \/ LandFails
               \/ Check \/ Push \/ Ready \/ ReadyFails \/ OpenReady \/ Progress \/ Guard

Finishing == \/ Ask \/ Discard \/ Checkpoint \/ Look \/ SavePush \/ SaveCreate \/ Save
             \/ Comment \/ LabelOutcome \/ Unclaim
             \/ Close \/ Release \/ ClearOutcome \/ Complete

RunStep == Clear \/ Claim \/ Implementation \/ Publication \/ Finishing

HumanStep == \/ \E p \in Pr : HumanPromotes(p) \/ HumanCloses(p) \/ HumanMerges(p) \/ HumanPushes(p)
             \/ HumanClears \/ OperatorUnclaims \/ WorkspaceRebuilt

Next == \/ \E scheduled \in BOOLEAN : Begin(scheduled) \/ BeginRecovery(scheduled)
        \/ RunStep
        \/ Crash \/ Terminate
        \/ HumanStep

Safety == Init /\ [][Next]_vars

\* A run in progress goes on: each of its calls has a deadline.  The scheduler starts
\* runs again and again.
Fairness == /\ WF_vars(RunStep)
            /\ WF_vars(\E scheduled \in BOOLEAN : Begin(scheduled) \/ BeginRecovery(scheduled))

Spec == Safety /\ Fairness

-----------------------------------------------------------------------------
(* Properties *)

\* Every step of a run moves pc; no step of a human does.
RunMoves == pc' # pc

Calm == faults = 0 /\ crashes = 0

\* What policy.forbiddenPaths names never reaches GitHub on the issue's branch: not
\* with a pull request, not with a draft checkpoint, not through a resumed branch
\* that an earlier run left half checked.
NoForbiddenPublished == "forbidden" \notin remote

\* The same of the default branch, which direct commits are pushed to
\* (docs/07-safety.md, 4: a direct commit touches no forbidden path, "4. 変更が
\* protectedPaths / forbiddenPaths に触れていない").
NoForbiddenLanded == "forbidden" \notin landed

\* A pull request kaizen calls ready for review shows what verification and the
\* verifier passed, and goes on showing that: no later checkpoint of unreviewed work
\* is pushed to its branch.
ReadyIsReviewed == \A p \in Pr : pulls[p] = "ready" => "reviewed" \in remote

\* A pull request that is ready when a run starts is handed to the guardian; that run
\* does not push to its branch.
ReadyPrUntouched ==
    [][RunMoves /\ (\E p \in run.wasReady : Open(p)) => UNCHANGED remote]_vars

\* Commits a human added to the branch of an open pull request stay: neither a lease
\* on a stale copy nor a branch started afresh overwrites them.
HumanCommitsKept ==
    [][RunMoves /\ "human" \in remote /\ (\E p \in Pr : Open(p)) => "human" \in remote']_vars

\* Between runs, an open pull request of an open issue is on record: in the saved
\* state that the next run resumes, or in the comments that keep it from starting.
PullRequestRecorded ==
    Calm /\ pc = "idle" /\ issue.open =>
        \A p \in Pr : Open(p) => \/ saved.pr = p /\ saved.phase \in Resumable
                                 \/ p \in issue.results

\* The claim a run puts on the issue is gone when the run is over, whichever of the
\* outcomes it had.
ClaimReleased == Calm /\ pc = "idle" => "in-progress" \notin issue.labels

\* An issue nobody touches is tried maxAttemptsPerIssue times, and every failing call
\* or crash adds at most one.
AttemptLimit == issue.counted <= MaxAttempts + faults + crashes

\* A direct commit is one that verification passed, and that has no open pull request
\* with the same change beside it.
LandedAlone ==
    [][Calm /\ landed' # landed =>
        "reviewed" \in landed' /\ \A p \in Pr : ~Open(p)]_vars

\* Whatever fails, a run comes to its end.
RunEnds == pc # "idle" ~> pc = "idle"
=============================================================================
