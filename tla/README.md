# Verification of kaizen-loop

kaizen-loop takes GitHub issues, lets a coding agent fix them in a worktree, verifies the
result and publishes it as a pull request or as a direct commit. It runs unattended, from
launchd or cron, on a repository in which people work at the same time. This directory
holds TLA+ models of the parts of it that are hard to test, the TLC runs that check them,
and theorems that TLAPS proves about them. Source paths below are relative to `src/src/`
unless they begin with `docs/` or `scripts/`.

## How to run

    tlc -config MCPipelineReview.cfg IssuePipeline      # any of the runs listed below
    tlapm IssuePipelineProofs.tla                       # any of the modules with theorems

## The system

| component | state | operations | hard because of |
|---|---|---|---|
| Run lock (`orchestrator/lock.ts`, `commands/fleet.ts` 766-789) | `run.lock` | acquire, steal of a stale lock, release, fleet repair | processes interleave between system calls; crashes |
| A run (`orchestrator/run.ts`, `runKaizen`) | the run in memory, its worktrees | lock, secure the workspace, reconcile, select, limit, gate, prepare, work on all issues at once, clean up | lists are old when they are used; one of several issues throws; cleanup beside work |
| Issue pipeline (`orchestrator/run.ts`, `processIssue`) | `implementations/issue-<n>.json`; the issue's labels and comments; the branch in three copies; pull requests | claim, resume, build, verify, review, publish, checkpoint, report, release | every step is a call that may fail; crashes and signals; humans on GitHub; state of one run steers the next |
| Follow-up issues (`orchestrator/run.ts`, `github/client.ts`, `discovered-issue-fingerprint.ts`) | open issues on GitHub; what was filed for this issue | route, look three times, create, repair | searches lag, answers get lost, several file at once |
| Selection, dispositions, policy (`orchestrator/issues.ts`, `disposition.ts`, `reflection.ts`, `wipLimit.ts`, `issueIntake.ts`) | labels, comments | select, limit, decide direct or PR | labels read long before they are used |
| Workspace and git (`workspace/`) | clone, worktrees, tracking refs | ensure, sync, resume, checkpoint, discard, push | stale tracking refs, leases |
| Workspace trust (`utils/workspaceTrust.ts`, `utils/privateDirectory.ts`) | mode and ACL of the workspace, a marker file | check, mark, repair, rebuild; doctor's look at it | doctor without the lock; a crash between mark, removal, clone and unmark |
| PR guardian (`orchestrator/prGuardian.ts`) | one job file per pull request and head: pending, running, success, blocked, skipped; attempts of a budget | enqueue, run, recover, reactivate, sync of implementation state | crash between files, timeout against a late end, activity after success |
| Goals (`goals/`, `commands/goal.ts`) | `goal.json` with its iterations, `goal.lock`, the issues with its marker | plan, create issue, run, evaluate, stop | `goal stop` beside the runner; a crash between issue and record; a search that lags |
| Registry (`config/registry.ts`) | `registry.json`, a lock directory with owner, heartbeat and reaper | locked update, takeover | an owner that is slow, not dead; several take over |
| Scheduler and fleet (`scheduler/`, `commands/fleet.ts`, `cli.ts`, `init/`) | crontab or launchd; flags in the registry | init, enable, disable, fleet sync | crontab without a lock; flags decided on a copy |
| Verifier refresh (`orchestrator/verifierRefresh.ts`, `agents/verifierFreshness.ts`) | the global link, builds, a lock beside it | inspect, build, swap, validate, roll back | runs of several projects share the link; main moves; people link |
| Commands (`utils/command.ts`) | active groups and sockets, timers, the requested shutdown | spawn with limits, kill the group, ask the broker, shut down | descendants that are deaf or leave; timers that outlive the group |
| Human requests (`orchestrator/humanRequest.ts`) | label and comments of a question | ask, acknowledge | a label removal is the answer |
| Agents (`agents/`) | none | run builder, verifier; backends in order | any result, any edit |
| doctor, queue, status, report, logs, smoke, actions, improve, configuration | files they write | one-shot commands | little: no shared state of their own but the locks |
| macOS publication broker (`scripts/macos`) | a credential | answer publication requests | a separate Swift program |

The parts meet in few places. Processes of one project exclude each other by `run.lock`
(run, smoke, goal, guardian, doctor --repair, fleet refresh). A run and its successors talk
through the saved implementation state, the issue's labels and its comments, which are
parsed back (`report/comments.ts`). The run and people talk through GitHub: labels, the
draft or ready state of a pull request, pushes to its branch. The guardian is called at the
end of a run and changes the same implementation state. Runs of different projects meet in the
registry, in the global verifier link and in the issues they file for each other.

What makes each component correct:

- *Run lock*: one process at a time; the holder's file stays; a dead holder's lock is taken
  over; acquire comes to an outcome.
- *Issue pipeline*: nothing forbidden leaves the machine; what is ready for review was
  reviewed; a person's commits and a person's promotion are respected; every pull request is
  on record for the next run; the claim is released; attempts are limited; runs end.
- *Guardian*: attempts within the budget; job and implementation state agree; a job that was
  running at a crash is taken up again; a success is withdrawn when the head moves.
- *Goals*: an end is final, and a stop is not lost; iterations are within their limit and on
  record with their issues; no second issue for an iteration that is done again; a goal succeeds
  only on a passing evaluation command.
- *A run*: it does not use contents others may have written; what it works on is in a worktree of
  its own and under its lock; new work stays within the limit on open pull requests.
- *Follow-up issues*: one open issue per bug, filed once, with the labels it needs and none that
  authorizes.
- *Registry*: no update is lost; a dead owner keeps nobody waiting.
- *Scheduler*: what the registry calls enabled is scheduled.
- *Verifier refresh*: what is linked or pinned is whole; a bad build does not stay linked, if it can be undone.
- *Commands*: when a command has settled nobody writes any more, and its timers signal nobody; calls end.

## The modules

| module | models |
|---|---|
| `ExclusiveRuns` | what a lock promises: at most one process works |
| `RunLock` | `run.lock`, one step per system call |
| `IssuePipeline` | one issue through any number of runs |
| `IssuePipelineProofs` | types, forbidden paths, the order of a run and the bound on attempts, for all parameters |
| `Guardian` | the jobs of the PR guardian, its passes, and the implementation state they write |
| `GuardianProofs` | types, budget, grounds for success and given-up jobs, for all parameters |
| `GoalLife` | what a goal's file promises: iterations in order, outcomes once, ends for good |
| `GoalRunner` | `kaizen goal run` beside others, `goal stop`, GitHub's search and people |
| `GoalRunnerProofs` | types, issues on record and found again, ends, and the implementation of `GoalLife` |
| `WorkspaceTrust` | the workspace directory and the marker of exposed contents |
| `RunBatch`, `MCRunBatch` | the runs of a project with several issues; EXTENDS `WorkspaceTrust` |
| `RunBatchProofs` | the marker, the worktrees and the limit on pull requests, for all parameters |
| `FollowUps`, `MCFollowUps` | the issues that runs file about bugs they meet |
| `FollowUpsProofs` | labels, and that a report is filed once, for all parameters |
| `Registry` | `registry.json` and its directory lock |
| `Fleet`, `MCFleet` | the commands on registry and crontab; EXTENDS `Registry` |
| `LockProofs` | both locks: `run.lock` and its refinement, no lost update of the registry, crontab and flags, for all parameters |
| `VerifierRefresh` | the global verifier, refreshed by runs of several projects |
| `VerifierRefreshProofs` | types, whole packages and the link, for all parameters |
| `CommandRunner` | process groups, timers, the broker's answers and the shutdown |
| `CommandRunnerProofs` | types, what is left of a command, whom a signal hits, for all parameters |

The `MC` modules hold values of constants and constraints, no behaviour.

### RunLock

`owner` is the process whose `open(path, 'wx')` created the file that is at the path now
(`NoFile` without one, `Gone` when that process has ended), `written` whether its pid is in
the file yet. `acquire` is `Begin`, then `OpenNew` and `Write`, or `OpenExisting`, a read of the file
(`ReadPid`, `ReadStale`), the probe of the pid (`ProbeDead`, `ProbeAlive`) and `Remove`, which
leads back to `open` as the recursive call does. `fleet repair` (`Repairer`) starts with the
read and stops after the removal. `Write` goes to the inode: if the path was removed and
created anew meanwhile, the new file does not change. `WriteFails` is a full disk: acquire
throws and leaves the empty file. A process may crash before any step.

A process that starts again has a new pid. Reuse of a pid while a file still names it, and
probes of another user's processes (EPERM counts as dead in `isStale`), are not modelled.

`Spec` is the code as it is. It does not exclude: see the `lock-race` run. `SerialSpec` adds
the environment in which the file is a lock: no process is between its first look at
`run.lock` and the outcome while another is (`Serial`). It is what scheduled starts
minutes apart give. Under it the lock is checked, and proved.

### IssuePipeline

One issue, its branch and its pull requests, and the runs that process it one after the
other. Every call of `processIssue` to GitHub, git or the disk that changes shared state is a
step; `pc` says which is next.

| in the model | in the code |
|---|---|
| `issue.labels` | the `kaizen:*` disposition labels and `in-progress` |
| `issue.counted`, `issue.streak` | `countAttempts`, `countConsecutiveRetryableBlocks` over the comments |
| `issue.results`, `issue.progress` | the pull requests named by result and progress comments |
| `pulls` | state of each pull request whose head is the branch; `promoted` is ready by a human's hand |
| `remote`, `tracking`, `local`, `dirty` | the branch on GitHub, `refs/remotes/origin/<branch>`, the branch of the workspace, uncommitted changes |
| `ahead`, `behind` | the two numbers of `GitWorkspace.divergence`, as zero or not |
| `landed` | what reached the default branch directly |
| `saved` | `implementations/issue-<n>.json` |
| `run` | locals of `processIssue`: attempt, previous state, retry, the pull request at hand, the outcome |

The content of a branch is a set of facts about its diff: `work` (not empty), `forbidden`
(touches `policy.forbiddenPaths`), `reviewed` (verification, and the verifier if enabled,
passed since the builder's last edit), `human` (has a human's commit).

The steps, in the order of a run:

1. `Begin` (`selectIssues` and the intake gate's look at pending pull requests,
   `prepareBaseWorkspace`, `createIssueWorktree`), or `BeginRecovery` when the checkpoint
   branch is missing or diverged; `Clear`, `Claim`, `Implement` or `HandOff`.
2. `SkipBuilder`, `BuilderFixed`, `SetupFails`, `BuilderFails`, `BuilderBlocked`;
   `CommitAttempt`; `VerifyPasses`, `VerifyFails`, `AlreadyFixed`, `VerifyChanges`;
   `VerifierAccepts`, `VerifierRejects`, `VerifierErrs`; `Publish`, which chooses the route.
3. `Rebase`, `Land` and their failures (`reflectDirect` and the fallback); `Check`, `Push`,
   `Ready`, `OpenReady` (`reflectPullRequest`); `Progress`, `Guard` (`finishPr`).
4. The finish functions share `Ask`, `Discard` or `Checkpoint`, `Look`, `SavePush`,
   `SaveCreate`, `Save`, `Comment`, `LabelOutcome`, `Unclaim`; a direct commit or an issue
   already fixed takes `Close`, `Release`, `ClearOutcome`, `Complete`.

A failing call may have had its effect (`Call`) and throws. An exception leads to
`finishFailed` once (`ThrowWith`): the finish functions are inside the `try`, so one that throws is followed
by a second one, and an exception of that one ends the run. `Crash` ends a run
between any two steps. `Terminate` is SIGINT or SIGTERM: every later command throws
(`throwIfShutdownRequested`), and what `finishFailed` still does is save the state, a local
file.

Humans act between any two steps: they mark a draft ready, push to the branch, close or merge
a pull request, take a terminal label away; an operator takes a stale claim away; the
workspace is cloned anew. `Human` says which of these a run of TLC has.

Abstractions, all of them choices a reader should know:

- Runs of a project exclude each other, so there is one run at a time. With several issues
  selected, the code processes them in parallel in worktrees of their own and forces pull
  requests; the route `Goto("check")` of `Publish` is open to every change, which covers it.
- The route of a publishable change depends on labels and sizes that are not in the model, so
  `decideReflection` may say either, within `DirectAllowed`.
- A push is one step: no push that has landed and is reported as failed. Writing the saved
  state does not fail. `editPullRequest` and `markPullRequestReady` are one step, and so are the add and
  the removal of a disposition.
- Errors of setup, agent selection, or disk and deadline checks are `Fail` at the step they occur in.
- `hasRetryableExternalEvidence` matches the text of a result; what the text is cannot be
  said, so the match is free, but for retryable blocks, which are marked.
- Merging, reviewing and pushing by the guardian and the handling of a checkpoint pull request of
  another branch are left out. Authorization, the limits and reconciling are in `RunBatch`, the
  filing of discovered issues in `FollowUps`.
- Counts saturate at `MaxCount` and `MaxAttempts`, above what the guards compare them with.

### Guardian

The asynchronous guardian: its job files, the processes that work on them one after the
other (they all hold the run lock), and the pull requests, which change at any moment.

| in the model | in the code |
|---|---|
| `jobs` | `guardian/jobs/<id>.json`, where the id is made of the pull request and the head it had when the job was created |
| `newer` | the order of the jobs of one pull request by `updatedAt` |
| `saved` | phase and pull request in `implementations/issue-<n>.json` |
| `pc`, `pass` | where the process is, and its locals |
| `pulls` | what `inspectPrGate` and `activityFingerprint` read |
| `examined`, `reopened`, `crashed` | history, for the properties |

A pass of `guardian watch`, or of a scheduled run, is `BeginWatch` and the five loops of
`runPendingPrGuardianJobs`: *enqueue* (`enqueueManagedPrGuardianJobs`), *terminal* (jobs
without budget whose pull request was merged meanwhile), *observe* (successes looked at
again), *expire* (running jobs that died with the budget used up), *start* (the jobs that
are run). `Create`, `Reuse`, `Merge` and `Remove` are `enqueuePrGuardianJob`; the mode of the
pass says who called it: the watch, `guardian run <pr>` (`BeginRun`), or the pipeline that
publishes (`OpenPr`, `Resume`, then `Record`). `Start` to `Finish` are `runPrGuardianJob` with
`runPrGuardianSkill` inside: *inspect* the gate, run the *agent*, *settle* and *confirm*
(the two further looks of `waitForStablePrGate`), *finish*. Each write of a job is followed by
`Sync`, a step of its own (`syncImplementationState`), so that a crash can come in between.

Abstractions:

- A fingerprint is the head and a count of the activity seen. Whether the branch can be
  merged, which `Drift` changes, is not in the fingerprint, as in the code.
- What the agent itself pushes and writes are the events `Push`, `Talk` and `Vet`, which happen while
  `pc = "agent"` as at any other time.
- A running job is `stale` once its last check is older than `timeoutMinutes`; `GoesStale`
  is that moment. While a process works on the job it holds the run lock, so that nobody
  looks at the age; the model lets it go stale only after the process is gone.
- Two jobs of a pull request have different `updatedAt`. Successes without a fingerprint, from
  files of an older version, do not occur. Corrupt job files, `skipped` jobs of a disabled
  guardian and the synchronous mode are left out.
- Of the issue's runs only what touches the jobs is there: `OpenPr`, `Checkpoint`, `Resume`.
  `IssuePipeline` has the rest.

### GoalRunner

One goal, the `kaizen goal run` processes that work on it, and everybody else who touches its
file or its issues.

| in the model | in the code |
|---|---|
| `goal` | `goal.json`: the status, and of each iteration the issue, the outcome, whether its evaluation has named the next issue (`goesOn`), and `mechanicalEvaluation.ok` (`gate`) |
| `issues` | issues whose body has the goal's marker; `indexed` when GitHub's search finds them |
| `missed` | history: issues that a search for their marker did not find |
| `lock` | whose pid is in `goal.lock`; `Gone` when that process has died |
| `pc`, `mem`, `issue` | where each runner is, its `goal`, and the issue it is at |
| `stopper` | the goal that `stopGoal` has loaded |

`Begin`, `Acquire` or `Refused`, and `Load` are `runGoal` up to its loop: the status is looked
at before the lock and again, from a second load, under it. An iteration is `Plan` (or
`PlanEnds`), `createGoalIssue` in two searches and a creation (`Reuse`, `SearchEmpty`, `Create`,
`Again`), the first write (`Record`), the pipeline (`RunDone`, `RunUnsuccessful`), the command
and the evaluator (`Judge`), and the second write (`Store`). `finishGoal` and `failCurrentIteration`
change the goal in memory and write it in a step of their own (`End`). From `Load` on nothing
is read from the file any more. A call to GitHub may throw, with or without its effect (`CallFails`), a
write may (`SaveFails`), and a process may die between any two steps (`Crash`), which leaves an iteration that
is "planned" for ever, or an issue that is not on record.

`stopGoal` is `StopLoad` and `StopSave`, without the lock. `Overlap` says whether it is used
while a runner works: with it the stop is lost (see the divergences below), without it the file keeps the promises of
`GoalLife`.

Abstractions:

- `GoalLock.acquire` is one step, with the takeover of a stale lock; its windows are those of
  `RunLock`. So the lock is never lost, and the identity checks of the lock and
  of the directories (`assertGoalStateIdentity`), which end a run that has lost them, never fail.
- The pipeline comes to any outcome; the issue may be closed by it, and by people at any time.
  Planner and evaluator answer anything their schemas allow.
- Duplicates found in a search are closed in one step; a failing call may have closed one of them.
- The checkout, the command and the reset of `runMechanicalEvaluation` are part of `Judge`. They use the
  project's clone without `run.lock`; that is among the hazards and not modelled.

### WorkspaceTrust and RunBatch

`WorkspaceTrust` is the beginning of a run, one step per access to the file system: `dir` is the
access to the workspace, `marker` the file that says its contents may have been written by others,
`tainted` a history of whether they were marked and before which run. `Securing` is
`prepareTrustedWorkspace` with `ensurePrivateDirectory` inside; `Doctor` looks at the same directory,
without the lock when it only reports; `Operator` changes the access at any moment but between the last check
of a fresh clone and the removal of the marker. What doctor marks in that moment is forgotten,
and the model leaves it out.

`RunBatch` is `runKaizen` around it, from the lock to the summary. `pc` names the next gate, in the order
of the code: `list`, `reconcile` (`reconcileMergedPullRequestIssues`, issue by issue), `pulls`, `select`
(`selectIssues`, authorization, budget, `applyOpenPullRequestLimit`), `wip`, `intake`, `verifier`, `base`,
`worktrees`, `work`, `cleanup`, `summary`. `run` is what it has selected: `todo` is left to the loop at
hand, `sel` is selected, `resumed` goes on with a checkpoint, `open` and `ready` are the pull requests as
listed. In `work` all issues are under way; `Delivered`, `Landed`, `Fixed`, `Undelivered` and `Threw` are the
outcomes of `processIssue` as `IssuePipeline` has them in detail. `Settle` is `Promise.allSettled`.

- Which issues are authorized, what the intake gate refuses, and how many pull requests there are in other
  repositories are any sets and numbers: they come from texts and from GitHub.
- The terminal labels are one, and a human takes a claim away only while no run works.
- A dry run, explicit issues without a list, and the summary's contents are left out.

### FollowUps

`issues` are the issues on GitHub in the order of their numbers, `worker` the issues of a run with what
their attempts have reported: `todo` is left to file, `task` the report under way, `keys` is `filedKeys`.
A step is a call: `FindMarker`, `FindTitle` and `FindInList` are the three looks of
`findOpenIssueByTitle`, of which the first two go by an index that lags (`Searches` finds any part of
what there is); `Create`, `Relabel` and `CreateLost` are `createIssue`; `Repair` and `Edit` complete
the body. `NextRun` forgets everything but GitHub.

- A text is its title, its evidence, whether it names a failure class, whether it has the words of a
  missing label (`alarming`), the repositories whose paths it names, and its labels.
- Registered repositories and their labels do not change.

### Registry and Fleet

`dir` is the lock directory at the path: who made it, who is in `owner.json`, who in `.reaper`. A
transaction (`txn`) is `Mkdir`, `Own` (the owner file, then the read), `WriteRegistry` (by rename) and
`Unlock`; one that finds the directory there is `Contend`, `Reap`, `Verify`, `RemoveStale`, when it is stale, and
`GiveUp` otherwise. Staleness is `Lapsed`: the process has died, or is `late`, which `Stall`
makes it and `Heartbeat` ends. What is compared by inode is `seen`, which a removal of the directory resets.

`Fleet` composes it with the crontab (`tab`, read and written in two steps, under no lock) and four commands.
`enable`, `disable` and the second half of `fleet` edit the crontab, then the flag, or the other way round, as the
code has it; `fleet` decides the flags on a copy of the registry, `baseline`, and to prune
requires that the registry is still that copy.

- An entry is absent, off or on. launchd, the texts of the lines, and the state of checkouts and labels are left out.
- A project with an error ends `fleet` before its transaction, so it is not a behaviour of its own.

### VerifierRefresh

`link` names a package, `package` says of each how far and how good it is, `run` where each process is:
`Inspect`, `Resolve`, `Acquire`, `Clone`, `Finish`, `Compare`, `Swap`, `Validate`, `Release`, and
`Fail` from any step at which the code removes its build. `replaceGlobalVerifierLink` is two steps both ways: `Compare` and
`Swap`, `CompareBack` and `Rollback`, between which a person may link something else that the rename then undoes. Where the
comparison or a system call of the rollback throws (`RollbackFails`), the link stays as it is, and `Release` follows all the
same. `abandoned` is history: the builds that were still linked when their maker died or failed there. `Relink` is a person,
`MainMoves` the remote. The lock beside the link is one step that takes a dead process's lock; its windows are those of
`RunLock`. The temporary link is gone after the rename, so its removal does not fail.

### CommandRunner

`call` is what `utils/command.ts` knows of a call, its timers included; `group` what the system knows of its process
group: the leader, a descendant that holds the output or not, one that has left the group, and whether the
number has been given to others (`Reuse`). SIGTERM promises nothing, SIGKILL ends the group, unless it is by now one of
strangers, who may be another user's. `processGroupExists` cannot tell them from members (`Exists`). One action is one callback
of the event loop (`TimeOut`, `ForceKill`, `Close`, `Grace`, `Settle`, `Answered`, `Unanswered`, `Shutdown`) or one step of a program
(`Fork`, `Leave`, `Exit`, `Serve`). A number is given again once the command has settled, and also while it
waits for `close` with its group gone because somebody who has left the group holds the output: that takes any time
(`utils/command.ts:210`). It is not within the milliseconds from an exit to its `close`, nor within the poll of 25 ms from
which the command takes that the group is gone; this much is assumed of the system, which gives numbers in turn. Which executables and environments are trusted is not modelled, nor is Windows.

## The runs

| run | shows | states |
|---|---|---|
| `lock-serial` (pass) | the lock under `SerialSpec`: three processes, a repairer, two crashes; safety, recovery, refinement of `ExclusiveRuns` | 1,846 |
| `lock-race` (violation) | two processes that start together both hold the lock | |
| `pipeline-review` (pass) | pull requests with verification and verifier; humans do everything but unclaim; calls succeed | 987,020 |
| `pipeline-direct` (pass) | direct commits; one failing call, one crash, an operator; attempts and termination | 613,430 |
| `pipeline-forbidden` (violation) | residue of post-rebase verification in a forbidden path lands | |
| `guardian-watch` (pass) | jobs of one pull request, the issue's or a marked one, with two heads, everything that happens to it, and faults; safety and progress | 210,014 |
| `goal` (pass) | two runners of a goal of two iterations with an evaluation command, a `goal stop` while none works, a fault (a creation that is sent twice among them); safety, progress, refinement of `GoalLife` | 644,979 |
| `fleet` (pass) | two commands at once on two projects, a dead process's lock, one trouble; flags against crontab, updates, termination | 124,959 |
| `command` (pass) | a command and a broker request, limits, deaf and detached descendants, a shutdown, numbers given again; safety and termination | 4,152 |
| `verifier` (pass) | two runs refresh the verifier while main moves twice, a person links another package, putting back fails, one run dies | 3,586,757 |
| `batch` (pass) | runs of two issues with a limit of one open pull request, calls that fail, crashes, humans, doctor and operators | 882,001 |
| `followups` (pass) | two runs that report one bug under two titles and one without evidence; lost answers, a lagging search, a person's issue | 292,660 |

What is checked:

- `MutualExclusion`, `HolderOwnsFile`, `DeadLockRecovered`, `AcquireSettles`,
  `ExclusiveRunsSpec` of the lock.
- `NoForbiddenPublished`: no forbidden change on GitHub's branch, through checkpoints and resumes.
- `ReadyIsReviewed`: a pull request kaizen marks ready shows reviewed content, and goes on to.
- `PullRequestRecorded`: between runs an open pull request is in the saved state of a
  resumable phase, or in a result comment.
- `ClaimReleased`: no claim is left by any of the outcomes of a run.
- `ReadyPrUntouched`: a run that starts with a ready pull request does not push to it.
- `HumanCommitsKept`: no push overwrites a human's commits on the branch of an open pull request.
- `AttemptLimit`: results counted are within `maxAttemptsPerIssue`, plus one for each failing
  call or crash.
- `LandedAlone`: a direct commit was verified, and no pull request is open beside it.
- `RunEnds`: every run ends.
- `PendingHasBudget`: no job waits that no pass would ever run.
- `SuccessExamined`: a success names a head that the agent or the review bot went through, or
  its pull request is merged, unless it was closed and reopened: a pass stores the fingerprint of
  a closed pull request in its success job without looking at what has changed
  (`orchestrator/prGuardian.ts:327`), so a push, a close and a reopen carry the success over to the new head.
- `GivenUpIsRecorded`: when the guardian has given up a pull request of the issue, the
  implementation state names that pull request and does not say it is complete, or it is about another one of the
  issue by then; in behaviours without a crash, which can come between the two files.
- `JobsSettle`: a job that waits, or whose process died, comes to an end.
- `RegressionNoticed`: a success does not outlive an open pull request that is no longer ready, or
  has moved on.
- `Quiesces`: once nothing happens to the pull requests any more, the passes stop working on them.
- `RecordedIssues`: each iteration on record names an issue with its own marker, also one that was
  taken over from a runner that died.
- `OneOpenIssue`: an iteration that is done again has no second open issue, unless GitHub's search
  missed the first, or `createIssue` sent its creation again after a lost answer (`unheard`); and what a runner is
  about to record is the first issue that is open, unless the search missed that one.
- `RunLeavesEnd`: a runner leaves the goal ended, when nothing failed.
- `RunnerSettles`: a runner comes to an end, also after one that died with the lock.
- `GoalLifeSpec`: `goal.json` goes through its iterations in order, up to the limit; no outcome is
  rewritten; an end is final.
- `EnabledIsScheduled`: a project that the registry calls enabled is in the crontab, over any number of
  commands, unless two edits of the crontab overlapped or one failed or died.
- `UpdatesApplied`: each change of `registry.json` is one whole update, made on what the file says at that
  moment, as long as no lease has run out.
- `CommandsEnd`: a command ends, also when a process died as the owner of the registry's lock, before its pid
  was there, or while removing another's.
- `NothingLeftBehind`: when a command has settled nobody of its group is left.
- `NoLateSignal`: after a command has settled nothing signals the number of its group, which others may have by
  then, but for the timers of a shutdown. Of a command that is open it says nothing: strangers who come by the
  number while the output is held elsewhere are hit, in the run too (`"open" \in astray`).
- `CallsEnd`: a call with a limit, and in a shutdown every call, ends, unless a descendant that left the
  group holds the output, or strangers have got the number before the end.
- `InUseIsWhole`: the link and what a run has pinned name whole packages.
- `LinkTrusted`: when nobody has the update lock, or who has it is dead, the link names a verifier that says what it
  is, or an abandoned build: one whose maker died before it had validated or undone it, or failed to undo it.
- `TaintRemembered`: a run does not use contents that were marked before it began.
- `WorkCovered`: what is worked on is in a worktree of the run that holds the lock.
- `NewWorkWithinLimit`: the new work of an automatic run, with the pull requests that are open, but for the
  checkpoints it resumes, is within `maxOpenPullRequests`.
- `OneIssuePerBug`: a bug has one open issue in its repository, unless another was created after the look that
  preceded its creation.
- `FiledOnce`: the work on an issue files a report once over its attempts, unless an answer is lost.
- `LabelsGranted`: a follow-up issue has its required labels and no label that authorizes, whatever its
  repository lacks.

`PullRequestRecorded`, `ClaimReleased` and `LandedAlone` speak of calm behaviours, without
failing calls and crashes: with them the code does leave claims and unrecorded pull requests
behind (see the divergences). `pipeline-review` has `MaxFaults = MaxCrashes = 0` for the same reason: `ReadyIsReviewed`
fails with one crash. `pipeline-direct` takes one of each.

### Bounds

- `MaxPr = 2`: one pull request that is closed or merged, and a second on the same branch.
  The last one stays open, or the bound would run out; a third would repeat the second.
- `MaxRetries = 1`: both a retry and the last attempt. The skipped builder at retry 0 and
  its builder at retry 1 need one.
- `MaxAttempts = 2`: an attempt that is not the last, and one that is.
- `MaxFaults`, `MaxCrashes` up to 1 each: a fault inside the finish of a first failure and a crash after it
  are behaviours of `pipeline-direct`. The theorems have no bound.
- Runs are not counted: the issue is taken up as often as labels and people allow.
- The lock: two processes are enough for the race. The third starts while two are involved
  with a stale file; the repairer does not take the lock; two crashes leave two stale files, one after the other, or
  the death of the one that recovers the first.
- The guardian: `Head` of 2, one head that was examined and one that was not. `Budget = 2`, an
  attempt that is not the last and one that is. `MaxPulls = 1` in `guardian-watch`: either
  kind of pull request, one at a time; jobs of different pull requests share nothing but `saved`. `MaxEvents = 2` bounds events, manual
  runs, failing looks and crashes together, as in a push and a crash, or a crash and a manual run. Closing,
  merging and promoting do not count, nor do passes and the time that goes by.
- The goal: two runners, one that works, dies or has just ended and one that comes after or meanwhile.
  `MaxIterations = 2`, one that is followed by another and the last. `MaxFaults = 1`, a failing call, a failing
  write, a creation that is sent again, or a crash; several of them are behaviours of the theorems. (With `MaxIterations = 1`
  and two faults, 338,747 states, TLC finds nothing either.) The labels that `createIssue` gives up one by one outlast the bound. `GateOn`: with the evaluation command, without
  which there are fewer behaviours.
- The fleet: two commands overlap in every way that three do in pairs. `MCSyncs`: `fleet` that finds one project, to prune
  and schedule, or both, to do neither. The lock of an earlier process is there at first, so that one trouble more
  (a crash, a pause, a failing crontab) meets a takeover.
- Calls: one command and one request, each made once. Calls share the shutdown and nothing else, so that a second
  of a kind repeats the first; the theorems have no bound.
- The verifier: two runs, three packages to build, main moves twice, so that a build is old when it is done. One
  death; failures have no bound.
- The batch: two issues, one delivered and one that throws, or one resumed and one new, with room for one pull
  request. `OneAtATime`: the issues are as at first while the workspace is not, or the other way round. A run reads of
  the workspace only whether it may use it, and the work changes nothing there; the theorems need no such constraint.
- Follow-ups: two issues at once, the first with two attempts, and a second run; one report per attempt, one
  closed issue, one fault (`Attempts`). That is what a duplicate needs: two who file and one thing that is lost.

Deadlock is checked for the lock. The pipeline really stops when the issue is closed or labelled and no
human acts, so its configurations say `CHECK_DEADLOCK FALSE`. So do the guardian's, which
has only the states that a short list of events leads to, and the goal's: a goal that has ended is not taken up again.
So do `fleet`, `command` and `followups`, whose commands, calls and runs come to an end, and `verifier`, in which the bound on
packages and deaths is used up. `batch` is checked for deadlock.

### Fairness

- `WF(Step(p))` in `RunLock`: a process that runs goes on. `Release` is among its steps,
  since a run ends by its deadline (`withRunDeadline`). `WF(Begin)`: timers start kaizen again and again.
- `WF(RunStep)` in `IssuePipeline`: each command has a timeout, and its failure is an
  exception; the process goes on to the next. `WF(Begin)`: the scheduler again. Nothing is assumed of humans, failing
  calls or crashes, and no strong fairness is used.
- `WF(Step)` in `Guardian`: as above, with `guardian.timeoutMinutes` for the agent. `WF(BeginWatch)`: the scheduler
  starts passes. `WF(Clock)`: time passes, so that a job whose process died becomes stale.
- `WF(Step(r))`, `WF(StopSave)` in `GoalRunner`: a runner that was started goes on, as do the commands it
  waits for, each of which has a timeout. Nobody has to start one, and GitHub's search need not catch up.
- `WF(Work(p) \/ Transact(p))` in `Fleet`: a command goes on by itself. Heartbeats, failures and the end of
  a pause are not among these steps: a process that is paused for ever counts as late, and others pass it.
- `WF(Loop(c))` in `CommandRunner`: timers fire and callbacks run. Programs need not exit, answer or heed SIGTERM.

`RunBatch`, `VerifierRefresh` and `FollowUps` state no fairness; what they are checked for is safety.

## Findings

1. `lock-race`: between `open` and `writeFile` the lock file has no pid, and a process that reads it
   then takes it for stale (`orchestrator/lock.ts:15-22`). Documented as the exclusion of
   multiple runs (`docs/07-safety.md:20`, `docs/01-architecture.md:171`).
2. `pipeline-forbidden`: what the post-rebase verification leaves is committed and pushed to
   the default branch unchecked (`orchestrator/run.ts:2625`, `docs/07-safety.md` section 4).

Other divergences met while modelling. The models take these steps, so no property of a passing run
forbids them, and no run of their own shows them:

- A stale claim: labels as `gh` lists them have no creation time, so the documented 24-hour rule
  (`docs/04-nightly-pipeline.md:66`) never applies (`orchestrator/issues.ts:118`).
- A ready pull request that is created and not recorded, because of a crash or because `createPullRequest` fails after
  the fact, is unknown to the next run, whose checkpoint pushes unreviewed commits to its branch
  (`orchestrator/run.ts:2311`, 2345-2353).
- A guardian job writes its own pull request over the implementation state of the issue, whatever that is
  about by then (`orchestrator/prGuardian.ts:269`): a draft checkpoint on record there is lost to the run that
  should resume it (`docs/04-nightly-pipeline.md:132-133`).
- `goal stop` and the runner write `goal.json` without knowing of each other (`commands/goal.ts:74`,
  `goals/runner.ts:485`): a stop is undone by the next save, where `stopped` is documented as an end state
  (`docs/11-goals.md:41`).
- After an evaluation command that failed the planner may still conclude that the goal has succeeded
  (`goals/runner.ts:75`), though mechanical conditions are to be part of its end (`docs/11-goals.md:52`).
- Resumed checkpoints are left out of the limit on open pull requests (`orchestrator/run.ts:1083`), which
  `docs/04-nightly-pipeline.md:69` does not say.
- `labelsAfterMissingLabelError` (`github/client.ts:934`) reads an error message that repeats the whole `gh` command. A
  missing required label is therefore answered by a retry without an optional one, although
  `test/github-client.test.ts:946` expects no retry; and any failure of an issue whose text
  says "missing" or "not found" repeats the creation in spite of `noRetry` (`github/client.ts:440`), which after a
  lost answer files a second issue (`docs/04-nightly-pipeline.md:151`). So it does for the issue of a goal's iteration
  (`goals/runner.ts:386`): `Resend`. There the second look, a quarter of a second later, closes what it finds beside the
  first; what the search does not find by then stays open.
- A verifier build that failed its validation stays linked when the rollback throws, and the lock is released
  (`orchestrator/run.ts:748-758`); the run reports `rollback-failed`, and the next run of any project asks what is linked.
- A link that a person makes between comparison and rename is replaced
  (`orchestrator/verifierRefresh.ts:158-169`), forward and back.
- A command whose group is gone while a detached descendant holds its output goes on signalling the number of the group,
  at its limits and at `close` (`utils/command.ts:169`, 1065), whoever has it by then.

## What is proved

TLAPS proves, for every value of the constants:

| theorem | says | along |
|---|---|---|
| `LockProofs!TypeCorrect`, `HolderSafe`, `Exclusion` | types, the holder's file, mutual exclusion, under `SerialSpec` | `IInv` |
| `LockProofs!Implements` | `SerialSpec` implements `ExclusiveRuns` | `IInv`, step by step: opening and judging are stutters, a completed write enters, release and crash leave |
| `LockProofs!FleetTypeCorrect` | types of registry, lock, crontab and commands | `FleetTyped` |
| `LockProofs!NoUpdateIsLost` | `UpdatesApplied`, for any number of processes, deaths and reapers | `Locked` |
| `LockProofs!EnabledHasItsLines` | `EnabledIsScheduled`, for any number of projects and commands | `FleetInv` |
| `IssuePipelineProofs!PipelineTyped` | types and counter bounds of the pipeline | `Typed` |
| `IssuePipelineProofs!ForbiddenStaysHome` | with a verifier, `NoForbiddenPublished`, whatever fails or crashes and whatever humans do | `Screened` |
| `IssuePipelineProofs!ReadyStaysReviewed`, `NoPullRequestForgotten`, `ClaimGivenBack`, `LandsReviewedAndAlone` | in calm behaviours `ReadyIsReviewed`, `PullRequestRecorded`, `ClaimReleased` and `LandedAlone`, for any number of pull requests, retries and attempts, whatever humans do | `Orderly` |
| `IssuePipelineProofs!ReadyIsHandedOver`, `HumanCommitsStay` | with `MaxFaults = MaxCrashes = 0`, `ReadyPrUntouched` and `HumanCommitsKept` | `Orderly` |
| `IssuePipelineProofs!AttemptsAreBounded` | `AttemptLimit`, with any failing calls and crashes, when humans neither clear terminal labels nor close a pull request | `Frugal` |
| `GuardianProofs!GuardianTyped` | types and bounds of the guardian | `Typed` |
| `GuardianProofs!BudgetKept` | `PendingHasBudget` | `Typed` and the property itself |
| `GuardianProofs!SuccessIsExamined` | `SuccessExamined`, whatever fails or crashes and whatever people do | `Inv` |
| `GuardianProofs!GivenUpIsTold` | `GivenUpIsRecorded`, for any number of pull requests of the issue | `Places`, `Story` |
| `GoalRunnerProofs!GoalTyped` | types of the goal | `Typed` |
| `GoalRunnerProofs!IssuesMatch` | `RecordedIssues`, with overlapping stops too | `AllRecorded` |
| `GoalRunnerProofs!KeepsPromises` | without overlapping stops, `goal.json` implements `GoalLife` | `Alone` |
| `GoalRunnerProofs!IssuesAreFoundAgain`, `RunnersEndGoals` | `OneOpenIssue` and `RunLeavesEnd`, with overlapping stops too, whatever is sent twice, fails or crashes | `Searched`, `Newest`, `AtFirst`; `Ending` |
| `CommandRunnerProofs!CommandsTyped`, `NobodyLeft`, `TimersEndWithCommands` | types, `NothingLeftBehind`, `NoLateSignal`, for any calls at once | `Inv` |
| `VerifierRefreshProofs!VerifierTyped`, `UsedIsWhole`, `LinkGood` | types, `InUseIsWhole`, `LinkTrusted`, for any runs, packages, crashes and failing rollbacks | `Inv` |
| `RunBatchProofs!MarkIsHeeded` | `TaintRemembered` | `TrustInv` |
| `RunBatchProofs!WorkIsCovered` | `WorkCovered`, for any number of issues | `BatchInv` |
| `RunBatchProofs!LimitHolds` | `NewWorkWithinLimit`, for any number of issues and any limit | `LimitInv` |
| `FollowUpsProofs!LabelsAreGranted` | `LabelsGranted`, whatever fails between the calls | `Invariant` |
| `FollowUpsProofs!ReportsAreFiledOnce`, `BugsHaveOneIssue` | `FiledOnce`, `OneIssuePerBug`, for any number of workers, attempts, runs, lost answers and deaths | `Invariant` and the property itself |

*The lock.* Mutual exclusion is not inductive: that nobody removes the file of a live holder
depends on what removers have seen. `IInv` adds that an empty file's creator is still writing or is leaving (`Empty`),
that a process about to remove judged a file that is gone or whose creator is leaving (`Judge`), that the pid about to be
probed is the file's (`Probe`), and that repairers never open (`Roles`). `Serial` is what
keeps `Judge` true between the reading and the removal; without it the theorem is false.

`LockProofs` extends both RunLock and Fleet, whose names differ for that; no theorem is about the two at once.

*The registry.* `UpdatesApplied` is about one step, and rests on two things: the copy in memory is the file
(`CopyCurrent`), and there is one process inside. Who is inside made the directory at the path (`InsideOwns`), so nobody
finds it stale; a directory that was found stale stays so, is announced by one process (`SeenIsStale`, `ReaperNamed`), and is
what that process removes (`RemovesSeen`). All of it is said as long as no lease has run out: after a pause two
processes may be inside, and `UpdatesApplied` is false.

*The crontab.* While commands that edit the crontab do not overlap (`Solo`) what one of them has read is the crontab
(`SeenTab`), and what its transaction may enable has its lines (`Provided`): those of an enable, of the project that
fleet has just written, or of fleet's baseline, which was read when nobody was disabling. A flag without lines is
then the business of a disable that has still to write (`Scheduled`, `Clears`), whose update is always allowed. That other
commands change the registry meanwhile is where `NoUpdateIsLost` comes in: the write of an update does not bring back
what was on.

*The pipeline's types.* What a step writes depends on what other records hold: the saved
phase at the end of a run is a function of its outcome, so that `Typed` must know at which steps a
run has one (`Control`), and where the branch exists (`Branches`).

*Forbidden paths.* `Screened`: neither GitHub's branch nor the workspace's copy of it is
forbidden, and at the three steps before a push the local branch is not. Every way to these
steps checks the diff after the last edit. With a verifier the direct route is closed. It
assumes `VerifierOn`, the standard mode: without a verifier `LandFails` leads from the residue of
post-rebase verification to a pull request without another check.

*The order of a run.* What a run may rely on at each step is what its earlier steps and earlier runs have left, and
`Orderly` says it: which pull request the run holds and that it comes to an outcome (`Holding`); from where an open pull
request is known, the saved state, a result or the run (`Traced`); that its branch is on GitHub and in the workspace
(`Present`); that there is no claim at the start and at the end (`Unclaimed`); that nothing is ready for review while the
run may push, and what was ready at its start has been handed over (`Drafts`, `Handed`); that after the review only
verification commands have touched the worktree (`Examined`); and that a human's commit is in the workspace's branch unless
that is known to be behind (`Carried`). No part is inductive without others: a run that knows every open pull request
turns a ready one over and never looks for a branch without one. `Calm` is not a convenience: TLC
finds `ReadyIsReviewed`, `ReadyPrUntouched` and `HumanCommitsKept` violated with one failing call or one crash, by the
divergence above, a ready pull request that nobody recorded. The two action properties do not speak of
`Calm` themselves, and are proved from `MaxFaults = MaxCrashes = 0`, as `pipeline-review` checks them.

*Attempts.* Between runs either the bound leaves room for another result or the issue is `Stuck`, with a terminal label
or an open pull request on record (`Counted`). That rests on the disposition that goes with each outcome (`Disposed`), and on a
pull request that is handed over being open, or merged with the issue closed (`Published`). A failing call or a crash raises the
bound by as much as it may add. The property is about an issue nobody touches: a human who removes the terminal label
asks for another attempt, and one who closes the pull request unsticks the issue, so the theorem assumes that neither happens.

*The guardian's jobs.* A step that updates a job relies on its file being there, so `Typed` adds to
the types what is left to the loop at hand (`Control`), and that only pull requests of the
issue write its state (`JobsOfIssue`, `PassOfIssue`). For `SuccessExamined`, `Inv` adds that
a finding of the review bot is about the current head (`VettedKnown`), that the look to become the
result is of an examined head (`LookKnown`), and that so is the head in the fingerprint of a success
(`SuccessOk`): a later pass copies it from there into the job. That last part is what a reopened
pull request breaks.

That a job given up is on record depends on which step comes next. A write that gives up is followed by the sync of
that job (`GivenUpTold`), and the state can only be overwritten with another job of the same pull request if there is one
that belongs to the issue; so a pull request has one, but for duplicates about to be removed (`Sole`). It gets that one
when it is published, and never had one before (`Unpublished`), because no job is older than its pull request (`Used`).
With several pull requests of one issue the state may be about a later one by then, which `guardian-watch`, with one, never
shows; the property says so since the proof needed it.

*The goal.* `AllRecorded` says of every copy of the goal, in the file, in a runner's memory and in a
stopper's, what `RecordedIssues` says of the file, and that the issue a runner is about to record
has the marker of the coming iteration (`AtIssue`). For `KeepsPromises`, `Alone` says that only the runner that
has the lock is past it (`Locked`), that its memory is the file or what the next write makes of it
(`Mirror`), and that a stopper has the file to itself (`StopperAlone`). The last one is what `Overlap` breaks, and with
it `Mirror`. Every step of a runner is then a step of `GoalLife` or a stutter (`StepEffect`).

An issue is only created by the holder of the lock, and after a search found none of its iteration, or `missed` notes
what it did not find, or the runner itself has sent the creation before and not heard of it (`Searched`). Nobody else creates
meanwhile, so that at the second look the runner's own is the last (`Newest`), and what comes before the one it goes on
with was not found (`AtFirst`). A runner that is about to write for the last time has an end in memory, and
one that is about to release has written it (`Ending`).

*Commands.* That a command signals nobody after its end depends on what each timer knows: `Inv` says that only
a shutdown's timers are left when a command has settled, and that a settled command's group is gone. Before that its
signals may reach strangers, which the theorem leaves open.

*The verifier.* A refresh is alone (`OneRefresh`: whoever is in it has the lock), what it builds is nobody
else's (`OwnBuild`), and it has validated what a run pins (`Pinned`). `Good` says of the link what is true also inside
of a refresh: it can be trusted, as good or abandoned, or is on trial (`OnTrial`): its maker has still to validate or to undo
it, and can trust the one it goes back to. Whoever leaves that stage without having undone a bad build, by a
death or by a failing rollback, makes it an abandoned one. A person's package is taken to be good (`Relink`). The lock's
holder is the only one who tries a build, so that when nobody has the lock the link can be trusted.

*The run.* `TrustInv` says what the run may rely on while others look at the directory: contents that were marked
have their marker (`Marked`), a run about to decide has read a marker of before (`Seen`), and doctor has nothing to mark
in a directory that was just cloned (`NotLooking`). For the limit, `Limited` is the property at every step after the selection, and `Listed` that
people only take pull requests away from the list it is decided on; `RoomSuffices` does the arithmetic on
finite sets, with `FirstBounded`, that the first k are at most k. What the work opens was selected
(`Placed`), so that the sum does not grow.

*Follow-ups.* `Invariant` says what a worker has in hand: a report for a repository (`Subjected`), the issue it found or
created (`Pointed`), a key that it has not filed (`Unfiled`), labels that an issue may have (`Labelled`), and the result of its
last look, of which nothing that was there is the report's and everything since was filed by a run (`Looked`). `Signed` says the same
of the issues that runs have filed, and `Noted` that their keys are in `filedKeys`. The issues that were there before
(`Legacy`) are any that people filed: they have no marker, which `FollowUpAssumption` says. A marked issue is one of an
earlier run of the model.

Only model-checked: the liveness properties (`DeadLockRecovered`, `AcquireSettles`, `RunEnds`, `JobsSettle`,
`RegressionNoticed`, `Quiesces`, `RunnerSettles`, `CommandsEnd`, `CallsEnd`), which fairness and ENABLED put out of
the prover's reach.

## Plan

In this order, by how much depends on it:

1. `HumanRequest`: fingerprint, acknowledgement by a label's removal, and what a run makes of it.
2. The project's clone as goals and runs share it (`goals/runner.ts:295`), as a refinement of `Judge` beside `RunBatch`.
3. `Policy`: `decideReflection`, `countAttempts` and the comments parsed back as operators, checked against reference
   definitions over small lists.
4. Backend fallback of the agents; launchd beside cron in `Fleet`.
5. Abstract specifications of a pull request's life (draft, ready, merged; recorded or not), which the calm pipeline
   should implement, and of the guardian's job (waiting, tried at most `retryBudget` times, ended).

Theorems to come: with those abstract specifications, that the models implement them. Every safety property of a passing
run is a theorem.

## Not modelled, and why

status, report, logs, queue, smoke, actions, improve and most of doctor read and format, or edit labels and files in
one shot; configuration, detection and the generation of YAML have no state that two actors share. launchd
property lists, the rendering of scheduled commands and the termination of an active run by the scheduler are
texts and single calls. Prompts and the parsing of agent output decide nothing beyond the status the models take as
arbitrary. Which executables and environments are trusted is about who owns which file. The macOS broker
is a separate Swift program, of which `CommandRunner` has the answers; `dist/` is generated. The components in
`PROJECT.json` say the same one by one.
