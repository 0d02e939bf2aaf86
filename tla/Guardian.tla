------------------------------ MODULE Guardian ------------------------------
(***************************************************************************)
(* The jobs of the PR guardian (src/src/orchestrator/prGuardian.ts,        *)
(* guardian.mode async): one file per pull request and head commit, taken  *)
(* up by `kaizen guardian watch` and by scheduled runs, by `kaizen guardian*)
(* run <pr>`, and written by the pipeline when it publishes.  All of these *)
(* hold the run lock, so that one of them works at a time (pc, pass); each *)
(* write of a file is a step, and the process may die between two.         *)
(*                                                                         *)
(* Beside it, people, bots and the guardian's own agent push to the pull   *)
(* requests, discuss, close, merge and reopen them.  Two kinds of pull     *)
(* requests have jobs: those of one issue (IssuePr, whose implementation   *)
(* state the jobs overwrite), and generated ones that carry the guardian's *)
(* marker and belong to no issue (SyncPr).                                 *)
(***************************************************************************)
EXTENDS Integers, FiniteSets

CONSTANTS
    IssuePr,      \* the pull requests the issue's runs may open, one after the other
    SyncPr,       \* the marked pull requests
    NoPr,
    Head,         \* the commits a branch may point to
    FirstHead,    \* the one it is opened with
    Budget,       \* config.guardian.maxAttempts, the retryBudget of a job
    MaxPulls,     \* bound on the pull requests that are opened
    MaxEvents,    \* bound on what happens to them, the calls of `guardian run`, the looks
                  \* at GitHub that fail and the crashes, all together
    Human         \* what happens in the instance, a subset of HumanActions

HumanActions == {"push", "talk", "drift", "vet", "close", "merge", "reopen", "promote"}

ASSUME GuardianAssumption ==
    /\ NoPr \notin IssuePr \cup SyncPr
    /\ IssuePr \cap SyncPr = {}
    /\ FirstHead \in Head
    /\ Budget \in Nat \ {0}
    /\ {MaxPulls, MaxEvents} \subseteq Nat
    /\ Human \subseteq HumanActions

VARIABLES
    pulls,      \* the pull requests on GitHub
    examined,   \* (history) the heads that a bot or a pass of the agent went through
    reopened,   \* (history) the pull requests that were closed and opened again
    jobs,       \* guardian/jobs/<id>.json
    newer,      \* the order of the jobs of a pull request by updatedAt
    saved,      \* implementations/issue-<n>.json of the issue
    pc,         \* the next step of the process that holds the run lock
    pass,       \* what that process keeps in memory
    events,     \* those that MaxEvents bounds
    crashed     \* (history) one of them was a crash

files == <<jobs, newer, saved>>
github == <<pulls, examined, reopened>>
counts == <<events, crashed>>
vars == <<github, files, pc, pass, counts>>

-----------------------------------------------------------------------------
(* Types *)

Pr == IssuePr \cup SyncPr

\* guardianJobId: the pull request and the head it had when the job was created.
\* The headSha inside the job may be another one later.
Id == Pr \X Head
NoId == <<>>

\* activityFingerprint, as far as two of them can differ: the head, and the number of
\* comments, reviews, checks and resolved threads so far.  NoFingerprint is the undefined
\* one, Resolved what a job gets that was settled by the merge alone.
Fingerprint == Head \X Nat
NoFingerprint == <<>>
Resolved == <<0>>

\* ready: nothing blocks merging, as inspectPrGate finds it.  vetted: the review bot
\* found nothing in the head, and nothing has happened since.
PullRequest == [state : {"unused", "draft", "open", "closed", "merged"},
                head : Head, act : Nat, ready : BOOLEAN, vetted : BOOLEAN]

\* stale: running, and last checked more than timeoutMinutes ago.
Status == {"pending", "running", "stale", "success", "blocked"}
Active == {"pending", "running", "stale"}

Job == [head : Head, status : Status, attempts : Nat, issue : BOOLEAN,
        seen : Fingerprint \cup {NoFingerprint, Resolved}]
NoJob == [status |-> "none"]

Phase == {"none", "failed", "guardian", "complete"}
Saved == [phase : Phase, pr : IssuePr \cup {NoPr}]

PC == {"idle", "enqueue", "remove", "record", "sync", "terminal", "observe", "expire",
       "start", "inspect", "agent", "settle", "confirm", "finish"}
Working == {"inspect", "agent", "settle", "confirm", "finish"}

\* mode: `guardian watch` or a scheduled run, `guardian run`, or the pipeline that
\* publishes.  todo: what the loop at hand has left.  done: the jobs that this pass
\* found merged.  job: the one at hand; next: the step after its sync.  attempt: the
\* passes of the agent within this attempt of the job.  look: the last fingerprint
\* read, in the end the result.  need: what the last look must be to be a success.
Pass == [mode : {"none", "watch", "run", "publish"}, todo : SUBSET Id, done : SUBSET Id,
         job : Id \cup {NoId}, next : PC, attempt : 0 .. Budget,
         look : Fingerprint \cup {NoFingerprint}, need : {"ready", "audited"}]

NoPass == [mode |-> "none", todo |-> {}, done |-> {}, job |-> NoId, next |-> "idle",
           attempt |-> 0, look |-> NoFingerprint, need |-> "ready"]

TypeOK ==
    /\ pulls \in [Pr -> PullRequest]
    /\ examined \subseteq Id /\ reopened \subseteq Pr
    /\ jobs \in [Id -> Job \cup {NoJob}]
    /\ newer \subseteq Id \X Id
    /\ saved \in Saved
    /\ pc \in PC
    /\ pass \in Pass
    /\ events \in 0 .. MaxEvents
    /\ crashed \in BOOLEAN

Init ==
    /\ pulls = [p \in Pr |-> [state |-> "unused", head |-> FirstHead, act |-> 0,
                              ready |-> FALSE, vetted |-> FALSE]]
    /\ examined = {} /\ reopened = {}
    /\ jobs = [id \in Id |-> NoJob]
    /\ newer = {}
    /\ saved = [phase |-> "none", pr |-> NoPr]
    /\ pc = "idle" /\ pass = NoPass
    /\ events = 0 /\ crashed = FALSE

-----------------------------------------------------------------------------
(* What the guardian reads *)

\* inspectPrGate: no blockers.  A merged pull request has none; a draft has, and so
\* has a closed one.
Ready(p) == \/ pulls[p].state = "merged"
            \/ pulls[p].state = "open" /\ pulls[p].ready

\* isAuditedReady.
Audited(p) == Ready(p) /\ (pulls[p].state = "merged" \/ pulls[p].vetted)

FingerprintOf(p) == <<pulls[p].head, pulls[p].act>>

\* listPrGuardianJobs.
Live == {id \in Id : jobs[id].status # "none"}
JobsOf(p) == {id \in Live : id[1] = p}
IsNewest(j, S) == \A k \in S \ {j} : <<j, k>> \in newer

HasBudget(id) == jobs[id].attempts < Budget

\* Mutants: only a success with budget left is observed again; a job whose process died
\* is never taken up.
SucceededWithBudget == {id \in Live : jobs[id].status = "success" /\ HasBudget(id)}
RunnableNow == {id \in Live : jobs[id].status \in {"pending", "blocked"} /\ HasBudget(id)}

\* The jobs that runPendingPrGuardianJobs looks up on GitHub as possibly merged, those
\* it observes again, those it gives up, and those it runs.
Exhausted == {id \in Live : jobs[id].status \in {"blocked", "stale"} /\ ~HasBudget(id)}
Succeeded == {id \in Live : jobs[id].status = "success"}
Abandoned == {id \in Live : jobs[id].status = "stale" /\ ~HasBudget(id)}
Runnable == {id \in Live : jobs[id].status \in {"pending", "stale", "blocked"} /\ HasBudget(id)}

\* One of the events that MaxEvents bounds.
Event == events < MaxEvents /\ events' = events + 1

-----------------------------------------------------------------------------
(* How the guardian writes *)

\* writeGuardianJob with a new updatedAt, and without one.
Stamp(id, job) ==
    /\ jobs' = [jobs EXCEPT ![id] = job]
    /\ newer' = {q \in newer : id \notin {q[1], q[2]}}
                \cup ({id} \X (JobsOf(id[1]) \ {id}))
Amend(id, job) ==
    /\ jobs' = [jobs EXCEPT ![id] = job]
    /\ UNCHANGED newer

Forget(S) ==
    /\ jobs' = [id \in Id |-> IF id \in S THEN NoJob ELSE jobs[id]]
    /\ newer' = {q \in newer : q[1] \notin S /\ q[2] \notin S}

\* On to syncImplementationState for the job just written, and then to step s.
SyncThen(id, s, p) ==
    /\ pc' = "sync"
    /\ pass' = [p EXCEPT !.job = id, !.next = s]

PhaseOf(status) == IF status = "success" THEN "complete" ELSE "guardian"

\* The state of the issue is written over with that of the job's pull request.
Sync ==
    /\ pc = "sync"
    /\ saved' = IF jobs[pass.job].issue
                  THEN [phase |-> PhaseOf(jobs[pass.job].status), pr |-> pass.job[1]]
                  ELSE saved
    /\ pc' = pass.next
    /\ pass' = CASE pass.next = "idle"   -> NoPass
                 [] pass.next = "remove" -> pass
                 [] OTHER -> [NoPass EXCEPT !.mode = pass.mode, !.todo = pass.todo,
                                            !.done = pass.done]
    /\ UNCHANGED <<github, jobs, newer, counts>>

-----------------------------------------------------------------------------
(* enqueuePrGuardianJob for the pull request and head of id, which is in todo. *)

SameHead(id) == {j \in JobsOf(id[1]) : jobs[j].head = id[2]}

\* The caller goes on with job j.
EnqueuedOf(mode) == CASE mode = "watch" -> "enqueue" [] mode = "run" -> "start" [] OTHER -> "record"
Enqueued(id, j) ==
    /\ pc' = EnqueuedOf(pass.mode)
    /\ pass' = [pass EXCEPT !.todo = IF pass.mode = "run" THEN {j} ELSE @ \ {id}, !.job = j]

\* Only the pipeline knows the issue.
IssueKnown == pass.mode = "publish"

\* No job of this head.  The file may hold one that has moved on to another head: it is
\* written over, but for its issue.
Create(id) ==
    /\ pc = "enqueue" /\ id \in pass.todo /\ SameHead(id) = {}
    /\ Stamp(id, [head |-> id[2], status |-> "pending", attempts |-> 0,
                  issue |-> IssueKnown \/ (id \in Live /\ jobs[id].issue), seen |-> NoFingerprint])
    /\ Enqueued(id, id)
    /\ UNCHANGED <<github, saved, counts>>

Sufficient(id, j) == SameHead(id) = {j} /\ (IssueKnown => jobs[j].issue)

Reuse(id) ==
    /\ pc = "enqueue" /\ id \in pass.todo
    /\ \E j \in SameHead(id) : Sufficient(id, j) /\ Enqueued(id, j)
    /\ UNCHANGED <<github, files, counts>>

\* compareGuardianJobs: pending and running jobs first, then the newest.
IsCanonical(c, S) ==
    LET active == {j \in S : jobs[j].status \in Active}
    IN  /\ active # {} => c \in active
        /\ IsNewest(c, IF active = {} THEN S ELSE active)

\* Mutant: the duplicates' attempts do not count.
MergedStatusKept(c, S, most) == {jobs[c].status}

\* What the status of the canonical job becomes, with the most attempts of any: blocked
\* when it was pending and another one used up its budget; the last check of another
\* one can make a stale job a running one again.
MergedStatus(c, S, most) ==
    IF jobs[c].status = "pending" /\ most >= Budget THEN {"blocked"}
    ELSE IF jobs[c].status = "stale" /\ S # {c} THEN {"stale", "running"}
    ELSE {jobs[c].status}

\* Several jobs of this head, or one whose issue was not known: one is written that
\* stands for all of them.
Merge(id) ==
    LET S == SameHead(id)
    IN  /\ pc = "enqueue" /\ id \in pass.todo
        /\ ~\E j \in S : Sufficient(id, j)
        /\ \E c \in S, most \in {jobs[j].attempts : j \in S} :
             /\ IsCanonical(c, S)
             /\ \A j \in S : jobs[j].attempts <= most
             /\ \E s \in MergedStatus(c, S, most) :
                  Stamp(c, [jobs[c] EXCEPT !.issue = IssueKnown \/ \E j \in S : jobs[j].issue,
                                           !.attempts = most, !.status = s])
             /\ SyncThen(c, "remove", [pass EXCEPT !.todo = @ \ {id}])
        /\ UNCHANGED <<github, saved, counts>>

\* The duplicates go.
Remove ==
    /\ pc = "remove"
    /\ Forget(SameHead(<<pass.job[1], jobs[pass.job].head>>) \ {pass.job})
    /\ pc' = EnqueuedOf(pass.mode)
    /\ pass' = [pass EXCEPT !.todo = IF pass.mode = "run" THEN {pass.job} ELSE @, !.next = "idle"]
    /\ UNCHANGED <<github, saved, counts>>

-----------------------------------------------------------------------------
(* runPendingPrGuardianJobs: five loops, one after the other. *)

\* enqueueManagedPrGuardianJobs with the marked pull requests that are open.
BeginWatch ==
    /\ pc = "idle"
    /\ pc' = "enqueue"
    /\ pass' = [NoPass EXCEPT !.mode = "watch",
                  !.todo = {<<p, pulls[p].head>> : p \in {q \in SyncPr : pulls[q].state = "open"}}]
    /\ UNCHANGED <<github, files, counts>>

NextLoop(from, to, ids) ==
    /\ pc = from /\ pass.todo = {}
    /\ pc' = to
    /\ pass' = [NoPass EXCEPT !.mode = "watch", !.todo = ids, !.done = pass.done]
    /\ UNCHANGED <<github, files, counts>>

BeginTerminal == pass.mode = "watch" /\ NextLoop("enqueue", "terminal", Exhausted)
BeginObserve == NextLoop("terminal", "observe", Succeeded \ pass.done)
BeginExpire == NextLoop("observe", "expire", Abandoned)
BeginStart == NextLoop("expire", "start", Runnable)

EndPass ==
    /\ pc = "start" /\ pass.todo = {}
    /\ pc' = "idle" /\ pass' = NoPass
    /\ UNCHANGED <<github, files, counts>>

\* The loop has the job id before it, and goes on after it.
Turn(loop, id) == pc = loop /\ id \in pass.todo
After(id) == [pass EXCEPT !.todo = @ \ {id}]
Skip(id) == pc' = pc /\ pass' = After(id)

\* A merge settles a job that has used up its budget.
TerminalMerged(id) ==
    /\ Turn("terminal", id)
    /\ pulls[id[1]].state = "merged" /\ jobs[id].issue
    /\ Stamp(id, [jobs[id] EXCEPT !.status = "success", !.seen = Resolved])
    /\ SyncThen(id, "terminal", [After(id) EXCEPT !.done = @ \cup {id}])
    /\ UNCHANGED <<github, saved, counts>>

\* The pull request is not merged, or was merged into another branch or without closing
\* the issue, or cannot be looked at.
TerminalSkip(id) ==
    /\ Turn("terminal", id)
    /\ Skip(id)
    /\ UNCHANGED <<github, files, counts>>

Visible(id) == Turn("observe", id) /\ pulls[id[1]].state \in {"open", "draft"}

ObserveFails(id) ==
    /\ Turn("observe", id)
    /\ Event
    /\ Skip(id)
    /\ UNCHANGED <<github, files, crashed>>

\* Closed or merged: what is seen is noted, and nothing is done about it.
ObserveClosed(id) ==
    /\ Turn("observe", id) /\ pulls[id[1]].state \in {"closed", "merged"}
    /\ Amend(id, [jobs[id] EXCEPT !.seen = FingerprintOf(id[1])])
    /\ Skip(id)
    /\ UNCHANGED <<github, saved, counts>>

Unchanged(id) == jobs[id].seen = FingerprintOf(id[1])

\* Ready, and nothing new.  (A success always has a fingerprint, so that the case
\* without one, of files of an older version, is left out.)
ObserveSame(id) ==
    /\ Visible(id) /\ Ready(id[1]) /\ Unchanged(id)
    /\ Amend(id, [jobs[id] EXCEPT !.head = pulls[id[1]].head])
    /\ Skip(id)
    /\ UNCHANGED <<github, saved, counts>>

\* Mutant: giving up is not recorded.
ReactivateSilently(id) ==
    /\ Visible(id) /\ ~(Ready(id[1]) /\ Unchanged(id))
    /\ Stamp(id, [jobs[id] EXCEPT !.head = pulls[id[1]].head, !.seen = FingerprintOf(id[1]),
                                  !.status = IF HasBudget(id) THEN "pending" ELSE "blocked"])
    /\ Skip(id)
    /\ UNCHANGED <<github, saved, counts>>

\* Something new, or no longer ready: the job is taken up again, or given up.
ObserveReactivate(id) ==
    LET p == id[1]
        again == [jobs[id] EXCEPT !.head = pulls[p].head, !.seen = FingerprintOf(p),
                                  !.status = IF HasBudget(id) THEN "pending" ELSE "blocked"]
    IN  /\ Visible(id) /\ ~(Ready(p) /\ Unchanged(id))
        /\ Stamp(id, again)
        /\ IF HasBudget(id) THEN Skip(id) ELSE SyncThen(id, "observe", After(id))
        /\ UNCHANGED <<github, saved, counts>>

\* A crashed job without budget is given up.
ExpireAbandoned(id) ==
    /\ Turn("expire", id)
    /\ Stamp(id, [jobs[id] EXCEPT !.status = "blocked"])
    /\ SyncThen(id, "expire", After(id))
    /\ UNCHANGED <<github, saved, counts>>

\* The clock: the last check of a job that was left running is timeoutMinutes ago.
\* (While a process works on a job nobody looks at its age.)
GoesStale(id) ==
    /\ jobs[id].status = "running"
    /\ ~(pc \in Working /\ pass.job = id)
    /\ Amend(id, [jobs[id] EXCEPT !.status = "stale"])
    /\ UNCHANGED <<github, saved, pc, pass, counts>>

-----------------------------------------------------------------------------
(* runPrGuardianJob and runPrGuardianSkill *)

\* Mutant: the attempt is not counted.
StartUncounted(id) ==
    /\ Turn("start", id)
    /\ Stamp(id, [jobs[id] EXCEPT !.status = "running"])
    /\ pc' = "inspect"
    /\ pass' = [After(id) EXCEPT !.job = id, !.attempt = 0]
    /\ UNCHANGED <<github, saved, counts>>

\* The job is written running before anything is done.
Start(id) ==
    /\ Turn("start", id)
    /\ Stamp(id, [jobs[id] EXCEPT !.status = "running", !.attempts = @ + 1])
    /\ pc' = "inspect"
    /\ pass' = [After(id) EXCEPT !.job = id, !.attempt = 0]
    /\ UNCHANGED <<github, saved, counts>>

MyPr == pass.job[1]
Continue(s, p) == pc' = s /\ pass' = p /\ UNCHANGED <<pulls, reopened, files, counts>>
Result(seen) == Continue("finish", [pass EXCEPT !.look = seen])

\* waitForStablePrGate begins, with what the pull request looks like now.  Two more looks
\* follow: the first must find the same head, the second nothing new.
Look(need, p) == Continue("settle", [p EXCEPT !.look = FingerprintOf(MyPr), !.need = need])

\* The agent starts; its look dates the evidence that may count when it fails.
Work == Continue("agent", [pass EXCEPT !.look = FingerprintOf(MyPr)])

Inspecting == pc = "inspect"
InspectMerged == /\ Inspecting /\ pass.attempt = 0 /\ pulls[MyPr].state = "merged"
                 /\ Result(FingerprintOf(MyPr)) /\ UNCHANGED examined
InspectAudited == /\ Inspecting /\ Audited(MyPr)
                  /\ Look("audited", pass) /\ UNCHANGED examined
InspectOther == Inspecting /\ ~Audited(MyPr) /\ Work /\ UNCHANGED examined

\* A look at GitHub throws, or the worktree cannot be made.
InspectFails ==
    /\ pc \in {"inspect", "settle", "confirm"}
    /\ Event
    /\ pc' = "finish" /\ pass' = [pass EXCEPT !.look = NoFingerprint]
    /\ UNCHANGED <<github, files, crashed>>

\* To the next pass of the agent, of at most maxAttempts.
Again(p) == IF p.attempt < Budget THEN Continue("inspect", p)
                                  ELSE Continue("finish", [p EXCEPT !.look = NoFingerprint])

Passed == [pass EXCEPT !.attempt = @ + 1]

\* The agent ends with exit code 0, having gone through the head.
AgentDone ==
    /\ pc = "agent"
    /\ examined' = examined \cup {<<MyPr, pulls[MyPr].head>>}
    /\ IF Ready(MyPr) THEN Look("ready", Passed) ELSE Again(Passed)

\* It fails or times out.  A clean audit that is newer than its start counts all the same.
AgentFails ==
    /\ pc = "agent"
    /\ LET fresh == pulls[MyPr].state = "merged" \/ pulls[MyPr].act > pass.look[2]
           last == [pass EXCEPT !.attempt = Budget]
       IN  IF Audited(MyPr) /\ fresh THEN Look("audited", last) ELSE Again(last)
    /\ UNCHANGED examined

SameHeadStill == Ready(MyPr) /\ pulls[MyPr].head = pass.look[1]
Stable == /\ Ready(MyPr) /\ FingerprintOf(MyPr) = pass.look
          /\ pass.need = "audited" => Audited(MyPr)

SettleFirst ==
    /\ pc = "settle" /\ SameHeadStill
    /\ Continue("confirm", [pass EXCEPT !.look = FingerprintOf(MyPr)])
    /\ UNCHANGED examined

\* Mutant: the last look is not compared with the one before.
SettleReady == pc = "confirm" /\ Ready(MyPr) /\ Result(FingerprintOf(MyPr)) /\ UNCHANGED examined

SettleStable == pc = "confirm" /\ Stable /\ Result(FingerprintOf(MyPr)) /\ UNCHANGED examined

\* Something changed meanwhile.
SettleMoved ==
    /\ \/ pc = "settle" /\ ~SameHeadStill
       \/ pc = "confirm" /\ ~Stable
    /\ IF pass.need = "audited" /\ pass.attempt < Budget THEN Work ELSE Again(pass)
    /\ UNCHANGED examined

Finish ==
    LET id == pass.job
        success == pass.look # NoFingerprint
    IN  /\ pc = "finish"
        /\ Stamp(id, IF success
             THEN [jobs[id] EXCEPT !.status = "success", !.head = pass.look[1], !.seen = pass.look]
             ELSE [jobs[id] EXCEPT !.status = "blocked"])
        /\ SyncThen(id, IF pass.mode = "watch" THEN "start" ELSE "idle", pass)
        /\ UNCHANGED <<github, saved, counts>>

\* `guardian run <pr>`: the latest job of the pull request, or a new one if its head is
\* not the current one, whatever budget it has left.
BeginRun(p) ==
    LET latest == {j \in JobsOf(p) : IsNewest(j, JobsOf(p)) /\ jobs[j].head = pulls[p].head}
    IN  /\ pc = "idle" /\ pulls[p].state # "unused"
        /\ Event
        /\ pc' = IF latest = {} THEN "enqueue" ELSE "start"
        /\ pass' = [NoPass EXCEPT !.mode = "run",
                      !.todo = IF latest = {} THEN {<<p, pulls[p].head>>} ELSE latest]
        /\ UNCHANGED <<github, files, crashed>>

-----------------------------------------------------------------------------
(* The runs of the issue, as far as the jobs see them (IssuePipeline has the rest). *)

Opens(p) == /\ pulls[p].state = "unused"
            /\ Cardinality({q \in Pr : pulls[q].state # "unused"}) < MaxPulls
IssueFree == \A p \in IssuePr : pulls[p].state \in {"unused", "closed"}

Enqueueing(p, h) ==
    /\ pc' = "enqueue"
    /\ pass' = [NoPass EXCEPT !.mode = "publish", !.todo = {<<p, h>>}]

\* A run creates a pull request, enqueues its job and records both.
OpenPr(p) ==
    /\ pc = "idle" /\ p \in IssuePr /\ IssueFree /\ Opens(p)
    /\ \E r \in BOOLEAN :
         pulls' = [pulls EXCEPT ![p].state = "open", ![p].ready = r]
    /\ Enqueueing(p, pulls[p].head)
    /\ UNCHANGED <<examined, reopened, files, counts>>

\* A run that stops early leaves a draft as its checkpoint, and records it.
Checkpoint(p) ==
    /\ pc = "idle" /\ p \in IssuePr /\ IssueFree /\ Opens(p)
    /\ pulls' = [pulls EXCEPT ![p].state = "draft"]
    /\ saved' = [phase |-> "failed", pr |-> p]
    /\ UNCHANGED <<examined, reopened, jobs, newer, pc, pass, counts>>

\* A later run resumes the checkpoint on record and publishes it; or it finds that a
\* human has, and hands it to the guardian.
Resume(p) ==
    /\ pc = "idle" /\ saved = [phase |-> "failed", pr |-> p]
    /\ pulls[p].state \in {"draft", "open"}
    /\ pulls' = [pulls EXCEPT ![p].state = "open"]
    /\ Enqueueing(p, pulls[p].head)
    /\ UNCHANGED <<examined, reopened, files, counts>>

\* finishPr and handOffReadyCheckpointPullRequest after the enqueue.
Record ==
    /\ pc = "record"
    /\ saved' = [phase |-> "guardian", pr |-> pass.job[1]]
    /\ pc' = "idle" /\ pass' = NoPass
    /\ UNCHANGED <<github, jobs, newer, counts>>

Crash ==
    /\ pc # "idle"
    /\ Event /\ crashed' = TRUE
    /\ pc' = "idle" /\ pass' = NoPass
    /\ UNCHANGED <<github, files>>

-----------------------------------------------------------------------------
(* GitHub: people, bots, the guardian's agent *)

Happens(kind) == kind \in Human /\ Event
Elsewhere == UNCHANGED <<files, pc, pass, crashed>>
Unexamined == UNCHANGED <<examined, reopened>>

OpenSync(p) ==
    /\ p \in SyncPr /\ Opens(p)
    /\ \E r \in BOOLEAN : pulls' = [pulls EXCEPT ![p].state = "open", ![p].ready = r]
    /\ UNCHANGED events /\ Unexamined /\ Elsewhere

Push(p) ==
    /\ Happens("push") /\ pulls[p].state \in {"draft", "open"}
    /\ \E h \in Head \ {pulls[p].head}, r \in BOOLEAN :
         pulls' = [pulls EXCEPT ![p].head = h, ![p].ready = r, ![p].vetted = FALSE]
    /\ Unexamined /\ Elsewhere

\* A comment, a review, a check, a thread that is resolved.
Talk(p) ==
    /\ Happens("talk") /\ pulls[p].state # "unused"
    /\ \E r \in BOOLEAN :
         pulls' = [pulls EXCEPT ![p].act = @ + 1, ![p].ready = r, ![p].vetted = FALSE]
    /\ Unexamined /\ Elsewhere

\* The default branch moves: whether the branch can be merged is not in the fingerprint.
Drift(p) ==
    /\ Happens("drift") /\ pulls[p].state = "open"
    /\ \E r \in BOOLEAN \ {pulls[p].ready} : pulls' = [pulls EXCEPT ![p].ready = r]
    /\ Unexamined /\ Elsewhere

\* The review bot has gone through the head and found nothing.
Vet(p) ==
    /\ Happens("vet") /\ pulls[p].state = "open"
    /\ \E r \in BOOLEAN :
         pulls' = [pulls EXCEPT ![p].act = @ + 1, ![p].ready = r, ![p].vetted = TRUE]
    /\ examined' = examined \cup {<<p, pulls[p].head>>}
    /\ UNCHANGED reopened /\ Elsewhere

Close(p) ==
    /\ "close" \in Human /\ pulls[p].state \in {"draft", "open"}
    /\ pulls' = [pulls EXCEPT ![p].state = "closed"]
    /\ UNCHANGED events /\ Unexamined /\ Elsewhere

MergePr(p) ==
    /\ "merge" \in Human /\ pulls[p].state = "open"
    /\ pulls' = [pulls EXCEPT ![p].state = "merged"]
    /\ UNCHANGED events /\ Unexamined /\ Elsewhere

Reopen(p) ==
    /\ Happens("reopen") /\ pulls[p].state = "closed"
    /\ p \in IssuePr => IssueFree
    /\ pulls' = [pulls EXCEPT ![p].state = "open"]
    /\ reopened' = reopened \cup {p}
    /\ UNCHANGED examined /\ Elsewhere

Promote(p) ==
    /\ "promote" \in Human /\ pulls[p].state = "draft"
    /\ pulls' = [pulls EXCEPT ![p].state = "open"]
    /\ UNCHANGED events /\ Unexamined /\ Elsewhere

-----------------------------------------------------------------------------
EnqueueStep == \/ \E id \in pass.todo : Create(id) \/ Reuse(id) \/ Merge(id)
               \/ Remove
PassStep ==
    \/ BeginTerminal \/ BeginObserve \/ BeginExpire \/ BeginStart \/ EndPass
    \/ \E id \in pass.todo :
         \/ TerminalMerged(id) \/ TerminalSkip(id)
         \/ ObserveClosed(id) \/ ObserveSame(id) \/ ObserveReactivate(id)
         \/ ExpireAbandoned(id) \/ Start(id)
SkillStep == \/ InspectMerged \/ InspectAudited \/ InspectOther
             \/ AgentDone \/ AgentFails \/ SettleFirst \/ SettleStable \/ SettleMoved \/ Finish

\* What the process that holds the lock does when nothing fails.
Step == EnqueueStep \/ PassStep \/ SkillStep \/ Sync \/ Record

FaultStep == (\E id \in pass.todo : ObserveFails(id)) \/ InspectFails \/ Crash

Clock == \E id \in Id : GoesStale(id)

Others == \E p \in Pr :
    \/ BeginRun(p) \/ OpenPr(p) \/ Checkpoint(p) \/ Resume(p)
    \/ OpenSync(p) \/ Push(p) \/ Talk(p) \/ Drift(p) \/ Vet(p)
    \/ Close(p) \/ MergePr(p) \/ Reopen(p) \/ Promote(p)

Next == Step \/ BeginWatch \/ FaultStep \/ Clock \/ Others

Safety == Init /\ [][Next]_vars

\* The process goes on, the scheduler starts passes again and again, and time passes.
Spec == Safety /\ WF_vars(Step) /\ WF_vars(BeginWatch) /\ WF_vars(Clock)

-----------------------------------------------------------------------------
(* Properties *)

Calm == ~crashed

\* The budget counts: a job that waits to be run can be run.  (The passes leave a pending
\* job without budget alone for ever.)
PendingHasBudget == \A id \in Live : jobs[id].status = "pending" => HasBudget(id)

\* The job is a success for a head that the agent or the review bot went through, or
\* because the pull request was merged.
Examined(id) == \/ <<id[1], jobs[id].head>> \in examined
                \/ pulls[id[1]].state = "merged"

\* No conclusion about an earlier head is carried over to the one a job names, whether
\* the head moved in a pass or between two, unless the pull request was reopened:
\* what is seen of it while it is closed is adopted unexamined (runPendingPrGuardianJobs).
SuccessExamined ==
    \A id \in Live : jobs[id].status = "success" /\ id[1] \notin reopened => Examined(id)

\* When the guardian has given up a pull request of the issue, the implementation
\* state says so, or it is about another pull request of the issue by then.
GivenUpIsRecorded ==
    Calm /\ pc = "idle" =>
        \A id \in Exhausted : jobs[id].status = "blocked" /\ jobs[id].issue
            => saved = [phase |-> "guardian", pr |-> id[1]] \/ saved.pr \in IssuePr \ {id[1]}

\* A job that is waiting, or whose process died, comes to an end.
JobsSettle ==
    \A id \in Id : jobs[id].status \in Active ~> jobs[id].status \notin Active

\* A success does not outlive a pull request that is open and no longer ready, or that
\* has another head.
Outdated(id) ==
    /\ jobs[id].status = "success" /\ pulls[id[1]].state \in {"open", "draft"}
    /\ ~pulls[id[1]].ready \/ pulls[id[1]].head # jobs[id].head
RegressionNoticed == \A id \in Id : Outdated(id) ~> ~Outdated(id)

\* The passes stop working on pull requests on which nothing happens any more.
Quiesces == <>[](pc \notin Working)
=============================================================================
