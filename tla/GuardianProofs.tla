--------------------------- MODULE GuardianProofs ---------------------------
(***************************************************************************)
(* Theorems about the guardian's jobs, for any pull requests, heads,       *)
(* budget, bounds and kinds of events.                                     *)
(*                                                                         *)
(* Types alone are not inductive: a step that updates a job relies on the  *)
(* file being there, and the state of the issue is written from jobs.      *)
(*   - Control: what a loop has left and the job at hand exist, and the    *)
(*     agent starts only with an attempt left;                             *)
(*   - JobsOfIssue, PassOfIssue: whatever claims to belong to the issue    *)
(*     is about one of its pull requests.                                  *)
(* That a success is about an examined head needs beside them what the     *)
(* process knows of its last look (LookKnown), that the review bot's       *)
(* verdict is about the current head (VettedKnown), and, because a later   *)
(* pass copies the head of an unchanged fingerprint into the job, the same *)
(* of the head in that fingerprint (SuccessOk).                            *)
(* That a job given up is on record needs that no process died, and then   *)
(* that a pull request has one job of the issue, but for the duplicates    *)
(* that are about to be removed (Sole), which it gets when it is published *)
(* (Unpublished), after it was opened (Used); and that a write that gives  *)
(* up is followed by the sync of that very job (GivenUpTold).              *)
(***************************************************************************)
EXTENDS Guardian, TLAPS

Loops == {"terminal", "observe", "expire", "start"}

\* Where the process is, and what it knows there.
Control ==
    /\ pc # "idle" => pass.mode # "none"
    /\ pc \in Loops \cup Working => pass.todo \subseteq Live
    /\ pc \in Working \cup {"sync", "remove"} => pass.job \in Live
    /\ pc \in {"inspect", "agent"} => pass.attempt < Budget
    /\ pc = "sync" => /\ pass.next \in Loops \cup {"remove", "idle"}
                      /\ pass.next \in Loops => pass.todo \subseteq Live
    /\ pc = "record" => pass.mode = "publish" /\ pass.job \in Id

\* The jobs of the issue are about its pull requests, and so is the work of the pipeline.
JobsOfIssue == \A id \in Live : jobs[id].issue => id[1] \in IssuePr
PassOfIssue == pass.mode = "publish" => /\ pass.todo \subseteq IssuePr \X Head
                                        /\ pass.job \in Id => pass.job[1] \in IssuePr

Typed == TypeOK /\ Control /\ JobsOfIssue /\ PassOfIssue

\* Somebody went through the head, or the merge made it pointless.
Known(p, h) == <<p, h>> \in examined \/ pulls[p].state = "merged"

\* No finding of the review bot outlives a push.
VettedKnown == \A p \in Pr : pulls[p].vetted => <<p, pulls[p].head>> \in examined

\* The stabilized look is of a head that was gone through.
LookKnown ==
    /\ pc \in {"settle", "confirm"} => pass.look # NoFingerprint
    /\ pc \in {"settle", "confirm", "finish"} /\ pass.look # NoFingerprint
           => Known(MyPr, pass.look[1])

\* A success is about such a head, and so is the fingerprint that would renew it.
SuccessOk(id) ==
    jobs[id].status = "success" /\ id[1] \notin reopened =>
        /\ Known(id[1], jobs[id].head)
        /\ pulls[id[1]].state \notin {"closed", "merged"}
               => jobs[id].seen \in Fingerprint /\ Known(id[1], jobs[id].seen[1])
SuccessKnown == \A id \in Live : SuccessOk(id)

Inv == Typed /\ VettedKnown /\ LookKnown /\ SuccessKnown

-----------------------------------------------------------------------------

\* The values that stand for nothing are none of the others.
LEMMA Values ==
    /\ NoId \notin Id
    /\ NoFingerprint \notin Fingerprint
    /\ NoPass \in Pass
    /\ \A job \in Job : job.status \in Status
    /\ NoJob.status = "none" /\ "none" \notin Status
<1>1. NoId \notin Id /\ NoFingerprint \notin Fingerprint
  BY DEF NoId, Id, NoFingerprint, Fingerprint
<1>2. NoPass \in Pass
  BY GuardianAssumption DEF GuardianAssumption, NoPass, Pass, PC
<1>3. \A job \in Job : job.status \in Status
  BY DEF Job
<1> QED
  BY <1>1, <1>2, <1>3 DEF NoJob, Status

Files == jobs \in [Id -> Job \cup {NoJob}] /\ newer \subseteq Id \X Id

\* The jobs that exist are jobs.
LEMMA LiveJobs ==
    ASSUME Files
    PROVE  /\ Live \subseteq Id
           /\ \A id \in Live : jobs[id] \in Job
           /\ \A id \in Id : jobs[id] \in Job => id \in Live
BY Values DEF Files, Live

\* What writing one file does to the files (writeGuardianJob).
LEMMA Written ==
    ASSUME Files, NEW id \in Id, NEW job \in Job, jobs' = [jobs EXCEPT ![id] = job]
    PROVE  /\ jobs' \in [Id -> Job \cup {NoJob}]
           /\ jobs'[id] = job
           /\ \A j \in Id \ {id} : jobs'[j] = jobs[j]
           /\ Live' = Live \cup {id}
<1>1. /\ jobs' \in [Id -> Job \cup {NoJob}]
      /\ jobs'[id] = job
      /\ \A j \in Id \ {id} : jobs'[j] = jobs[j]
  BY DEF Files
<1> QED
  BY <1>1, Values DEF Live

LEMMA StampFiles ==
    ASSUME Files, NEW id \in Id, NEW job \in Job, Stamp(id, job)
    PROVE  /\ jobs' = [jobs EXCEPT ![id] = job]
           /\ Files' /\ Live' = Live \cup {id}
           /\ jobs'[id] = job
           /\ \A j \in Id \ {id} : jobs'[j] = jobs[j]
<1>1. jobs' = [jobs EXCEPT ![id] = job]
  BY DEF Stamp
<1>2. JobsOf(id[1]) \subseteq Id
  BY DEF JobsOf, Live
<1>3. newer' \subseteq Id \X Id
  BY <1>2 DEF Stamp, Files
<1> QED
  BY <1>1, <1>3, Written DEF Files

LEMMA AmendFiles ==
    ASSUME Files, NEW id \in Id, NEW job \in Job, Amend(id, job)
    PROVE  /\ jobs' = [jobs EXCEPT ![id] = job]
           /\ Files' /\ Live' = Live \cup {id}
           /\ jobs'[id] = job
           /\ \A j \in Id \ {id} : jobs'[j] = jobs[j]
BY Written DEF Amend, Files

LEMMA ForgetFiles ==
    ASSUME Files, NEW S \in SUBSET Id, Forget(S)
    PROVE  /\ Files' /\ Live' = Live \ S
           /\ \A j \in Id \ S : jobs'[j] = jobs[j]
<1>1. jobs' \in [Id -> Job \cup {NoJob}] /\ newer' \subseteq Id \X Id
  BY DEF Files, Forget
<1>2. \A j \in Id : jobs'[j] = IF j \in S THEN NoJob ELSE jobs[j]
  BY DEF Forget
<1> QED
  BY <1>1, <1>2, Values DEF Files, Live

-----------------------------------------------------------------------------
(* What each action writes to the file of a job. *)

OneJob(id) ==
    /\ Files' /\ Live' = Live \cup {id}
    /\ jobs'[id] \in Job
    /\ \A j \in Id \ {id} : jobs'[j] = jobs[j]

LEMMA WritesOne ==
    ASSUME Files, NEW id \in Id, NEW job \in Job, Stamp(id, job) \/ Amend(id, job)
    PROVE  OneJob(id) /\ jobs'[id] = job
BY StampFiles, AmendFiles DEF OneJob

LEMMA TodoIds == TypeOK => pass.todo \subseteq Id
BY DEF TypeOK, Pass

LEMMA FilesTyped == TypeOK => Files
BY DEF TypeOK, Files

\* What is read of a pull request.
LEMMA LooksTyped ==
    ASSUME TypeOK, NEW p \in Pr
    PROVE  /\ pulls[p] \in PullRequest
           /\ FingerprintOf(p) \in Fingerprint
           /\ FingerprintOf(p)[1] = pulls[p].head /\ pulls[p].head \in Head
BY DEF TypeOK, PullRequest, FingerprintOf, Fingerprint

LEMMA CreateWrites ==
    ASSUME TypeOK, NEW id \in pass.todo, Create(id)
    PROVE  /\ OneJob(id)
           /\ jobs'[id].status = "pending" /\ jobs'[id].attempts = 0
           /\ jobs'[id].issue => IssueKnown \/ (id \in Live /\ jobs[id].issue)
<1> DEFINE job == [head |-> id[2], status |-> "pending", attempts |-> 0,
                   issue |-> IssueKnown \/ (id \in Live /\ jobs[id].issue), seen |-> NoFingerprint]
<1>1. id \in Id /\ id[2] \in Head
  BY TodoIds DEF Id
<1>2. (IssueKnown \/ (id \in Live /\ jobs[id].issue)) \in BOOLEAN
  BY FilesTyped, LiveJobs DEF Job, IssueKnown
<1>3. /\ job \in Job
      /\ job.status = "pending" /\ job.attempts = 0
      /\ job.issue <=> (IssueKnown \/ (id \in Live /\ jobs[id].issue))
  BY <1>1, <1>2 DEF Job, Status
<1>4. Stamp(id, job)
  BY DEF Create
<1> HIDE DEF job
<1>5. OneJob(id) /\ jobs'[id] = job
  BY <1>1, <1>3, <1>4, FilesTyped, WritesOne
<1> QED
  BY <1>3, <1>5

\* An update of fields of a job that is there.
LEMMA JobFields ==
    ASSUME TypeOK, NEW id \in Live
    PROVE  /\ id \in Id /\ id[1] \in Pr /\ jobs[id] \in Job
           /\ jobs[id].attempts \in Nat /\ jobs[id].issue \in BOOLEAN
           /\ jobs[id].head \in Head
BY FilesTyped, LiveJobs DEF Id, Job

\* The job that stands for its duplicates.
LEMMA MergeWrites ==
    ASSUME TypeOK, NEW id \in pass.todo, Merge(id)
    PROVE  \E c \in SameHead(id), most \in Nat, s \in Status :
             /\ OneJob(c)
             /\ jobs'[c].status = s /\ s \in MergedStatus(c, SameHead(id), most)
             /\ jobs'[c].attempts = most
             /\ jobs'[c].issue => IssueKnown \/ \E j \in SameHead(id) : jobs[j].issue
             /\ jobs'[c].head = jobs[c].head /\ jobs'[c].seen = jobs[c].seen
             /\ SyncThen(c, "remove", [pass EXCEPT !.todo = @ \ {id}])
<1> DEFINE S == SameHead(id)
<1>1. PICK c \in S, most \in {jobs[j].attempts : j \in S} :
        /\ IsCanonical(c, S)
        /\ \E s \in MergedStatus(c, S, most) :
             Stamp(c, [jobs[c] EXCEPT !.issue = IssueKnown \/ \E j \in S : jobs[j].issue,
                                      !.attempts = most, !.status = s])
        /\ SyncThen(c, "remove", [pass EXCEPT !.todo = @ \ {id}])
  BY DEF Merge
<1>2. PICK s \in MergedStatus(c, S, most) :
        Stamp(c, [jobs[c] EXCEPT !.issue = IssueKnown \/ \E j \in S : jobs[j].issue,
                                 !.attempts = most, !.status = s])
  BY <1>1
<1>3. S \subseteq Live
  BY DEF SameHead, JobsOf
<1>4. most \in Nat /\ jobs[c] \in Job /\ c \in Id
  BY <1>3, JobFields
<1>5. s \in Status
  BY <1>4 DEF MergedStatus, Status, Job
<1>6. (IssueKnown \/ \E j \in S : jobs[j].issue) \in BOOLEAN
  BY DEF IssueKnown
<1> DEFINE job == [jobs[c] EXCEPT !.issue = IssueKnown \/ \E j \in S : jobs[j].issue,
                                  !.attempts = most, !.status = s]
<1>7. /\ job \in Job
      /\ job.status = s /\ job.attempts = most
      /\ job.issue <=> (IssueKnown \/ \E j \in S : jobs[j].issue)
      /\ job.head = jobs[c].head /\ job.seen = jobs[c].seen
  BY <1>4, <1>5, <1>6 DEF Job
<1> HIDE DEF job
<1>8. OneJob(c) /\ jobs'[c] = job
  <2>1. Stamp(c, job)
    BY <1>2 DEF job
  <2> QED
    BY <1>4, <1>7, <2>1, FilesTyped, WritesOne
<1> QED
  BY <1>1, <1>2, <1>4, <1>5, <1>7, <1>8

LEMMA TerminalMergedWrites ==
    ASSUME TypeOK, NEW id \in pass.todo, id \in Live, TerminalMerged(id)
    PROVE  /\ OneJob(id)
           /\ jobs'[id].status = "success" /\ jobs'[id].issue = jobs[id].issue
           /\ jobs'[id].head = jobs[id].head
<1> DEFINE job == [jobs[id] EXCEPT !.status = "success", !.seen = Resolved]
<1>1. job \in Job /\ job.status = "success" /\ job.issue = jobs[id].issue /\ job.head = jobs[id].head
  BY JobFields DEF Job, Status
<1>2. Stamp(id, job)
  BY DEF TerminalMerged
<1> HIDE DEF job
<1> QED
  BY <1>1, <1>2, FilesTyped, JobFields, WritesOne

LEMMA ObserveClosedWrites ==
    ASSUME TypeOK, NEW id \in pass.todo, id \in Live, ObserveClosed(id)
    PROVE  /\ OneJob(id)
           /\ jobs'[id].status = jobs[id].status /\ jobs'[id].issue = jobs[id].issue
           /\ jobs'[id].attempts = jobs[id].attempts /\ jobs'[id].head = jobs[id].head
<1> DEFINE job == [jobs[id] EXCEPT !.seen = FingerprintOf(id[1])]
<1>1. /\ job \in Job /\ job.status = jobs[id].status /\ job.issue = jobs[id].issue
      /\ job.attempts = jobs[id].attempts /\ job.head = jobs[id].head
  BY JobFields, LooksTyped DEF Job
<1>2. Amend(id, job)
  BY DEF ObserveClosed
<1> HIDE DEF job
<1> QED
  BY <1>1, <1>2, FilesTyped, JobFields, WritesOne

LEMMA ObserveSameWrites ==
    ASSUME TypeOK, NEW id \in pass.todo, id \in Live, ObserveSame(id)
    PROVE  /\ OneJob(id)
           /\ jobs'[id].status = jobs[id].status /\ jobs'[id].issue = jobs[id].issue
           /\ jobs'[id].attempts = jobs[id].attempts /\ jobs'[id].seen = jobs[id].seen
           /\ jobs'[id].head = pulls[id[1]].head
<1> DEFINE job == [jobs[id] EXCEPT !.head = pulls[id[1]].head]
<1>1. /\ job \in Job /\ job.status = jobs[id].status /\ job.issue = jobs[id].issue
      /\ job.attempts = jobs[id].attempts /\ job.seen = jobs[id].seen
      /\ job.head = pulls[id[1]].head
  BY JobFields, LooksTyped DEF Job
<1>2. Amend(id, job)
  BY DEF ObserveSame
<1> HIDE DEF job
<1> QED
  BY <1>1, <1>2, FilesTyped, JobFields, WritesOne

LEMMA ObserveReactivateWrites ==
    ASSUME TypeOK, NEW id \in pass.todo, id \in Live, ObserveReactivate(id)
    PROVE  /\ OneJob(id)
           /\ jobs'[id].status = IF HasBudget(id) THEN "pending" ELSE "blocked"
           /\ jobs'[id].attempts = jobs[id].attempts /\ jobs'[id].issue = jobs[id].issue
<1> DEFINE job == [jobs[id] EXCEPT !.head = pulls[id[1]].head, !.seen = FingerprintOf(id[1]),
                                   !.status = IF HasBudget(id) THEN "pending" ELSE "blocked"]
<1>1. /\ job \in Job /\ job.status = IF HasBudget(id) THEN "pending" ELSE "blocked"
      /\ job.attempts = jobs[id].attempts /\ job.issue = jobs[id].issue
  BY JobFields, LooksTyped DEF Job, Status
<1>2. Stamp(id, job)
  BY DEF ObserveReactivate
<1> HIDE DEF job
<1> QED
  BY <1>1, <1>2, FilesTyped, JobFields, WritesOne

LEMMA OtherStatusWrites ==
    ASSUME TypeOK, NEW id \in Live,
           \/ ExpireAbandoned(id) \/ GoesStale(id) \/ Start(id)
           \/ Finish /\ id = pass.job /\ pass.look = NoFingerprint
    PROVE  /\ OneJob(id)
           /\ jobs'[id].status \in {"blocked", "stale", "running"}
           /\ jobs'[id].issue = jobs[id].issue
<1>1. ASSUME NEW st \in {"blocked", "stale", "running"}, NEW n \in Nat,
             \/ Stamp(id, [jobs[id] EXCEPT !.status = st])
             \/ Amend(id, [jobs[id] EXCEPT !.status = st])
             \/ Stamp(id, [jobs[id] EXCEPT !.status = st, !.attempts = n])
      PROVE  OneJob(id) /\ jobs'[id].status = st /\ jobs'[id].issue = jobs[id].issue
  <2> DEFINE plain == [jobs[id] EXCEPT !.status = st]
             counted == [jobs[id] EXCEPT !.status = st, !.attempts = n]
  <2>1. plain \in Job /\ plain.status = st /\ plain.issue = jobs[id].issue
    BY JobFields DEF Job, Status
  <2>2. counted \in Job /\ counted.status = st /\ counted.issue = jobs[id].issue
    BY JobFields DEF Job, Status
  <2>3. (Stamp(id, plain) \/ Amend(id, plain)) \/ Stamp(id, counted)
    BY <1>1
  <2> HIDE DEF plain, counted
  <2> QED
    BY <2>1, <2>2, <2>3, FilesTyped, JobFields, WritesOne
<1>2. CASE ExpireAbandoned(id)
  BY <1>1, <1>2 DEF ExpireAbandoned
<1>3. CASE GoesStale(id)
  BY <1>1, <1>3 DEF GoesStale
<1>4. CASE Start(id)
  <2>1. jobs[id].attempts + 1 \in Nat
    BY JobFields
  <2>2. Stamp(id, [jobs[id] EXCEPT !.status = "running", !.attempts = jobs[id].attempts + 1])
    BY <1>4 DEF Start
  <2> QED
    BY <1>1, <2>1, <2>2
<1>5. CASE Finish /\ id = pass.job /\ pass.look = NoFingerprint
  BY <1>1, <1>5 DEF Finish
<1> QED
  BY <1>2, <1>3, <1>4, <1>5

LEMMA SuccessWrites ==
    ASSUME TypeOK, pass.job \in Live, Finish, pass.look # NoFingerprint
    PROVE  /\ OneJob(pass.job)
           /\ jobs'[pass.job].status = "success" /\ jobs'[pass.job].issue = jobs[pass.job].issue
           /\ jobs'[pass.job].head = pass.look[1] /\ jobs'[pass.job].seen = pass.look
           /\ pass.look \in Fingerprint
<1> DEFINE id == pass.job
           job == [jobs[id] EXCEPT !.status = "success", !.head = pass.look[1], !.seen = pass.look]
<1>1. pass.look \in Fingerprint
  BY DEF TypeOK, Pass
<1>2. pass.look[1] \in Head
  BY <1>1 DEF Fingerprint
<1>3. /\ job \in Job /\ job.status = "success" /\ job.issue = jobs[id].issue
      /\ job.head = pass.look[1] /\ job.seen = pass.look
  BY <1>1, <1>2, JobFields DEF Job, Status
<1>4. Stamp(id, job)
  BY DEF Finish
<1> HIDE DEF job
<1> QED
  BY <1>1, <1>3, <1>4, FilesTyped, JobFields, WritesOne

-----------------------------------------------------------------------------
(* Where each action leaves the process. *)

PassTyped == pc \in PC /\ pass \in Pass /\ Control /\ PassOfIssue

\* Nobody loses a job.
LEMMA SkipTyped ==
    ASSUME Typed, Live \subseteq Live', NEW id \in pass.todo, pc \in Loops, Skip(id)
    PROVE  PassTyped'
<1>1. /\ pass' = [pass EXCEPT !.todo = pass.todo \ {id}]
      /\ pass' \in Pass /\ pass'.todo \subseteq pass.todo
      /\ pass'.mode = pass.mode /\ pass'.job = pass.job
  BY DEF Skip, After, Typed, TypeOK, Pass
<1>2. pc' = pc /\ pc \in PC /\ pc \notin Working \cup {"idle", "sync", "remove", "record"}
  BY DEF Skip, Typed, TypeOK, Loops, Working
<1> QED
  BY <1>1, <1>2 DEF PassTyped, Control, PassOfIssue, Typed, Loops, Working

LEMMA SyncThenTyped ==
    ASSUME Typed, Live \subseteq Live', pass.mode # "none",
           NEW p \in Pass, p.mode = pass.mode, p.todo \subseteq pass.todo,
           NEW id \in Live', NEW s \in Loops \cup {"remove", "idle"},
           s \in Loops => pass.todo \subseteq Live,
           pass.mode = "publish" => id[1] \in IssuePr,
           Live' \subseteq Id,
           SyncThen(id, s, p)
    PROVE  PassTyped'
<1>1. s \in PC
  BY DEF Loops, PC
<1>2. /\ pass' = [p EXCEPT !.job = id, !.next = s]
      /\ pass' \in Pass /\ pass'.todo \subseteq pass.todo
      /\ pass'.mode = pass.mode /\ pass'.job = id /\ pass'.next = s
  BY <1>1 DEF SyncThen, Pass
<1>3. pc' = "sync"
  BY DEF SyncThen
<1> QED
  BY <1>2, <1>3 DEF PassTyped, Control, PassOfIssue, Typed, Loops, Working, PC

LEMMA ContinueTyped ==
    ASSUME Typed, pc \in Working, NEW p \in Pass, NEW s \in Working,
           p.mode = pass.mode, p.job = pass.job, p.todo = pass.todo,
           s \in {"inspect", "agent"} => p.attempt < Budget,
           Continue(s, p)
    PROVE  PassTyped'
<1>1. pc' = s /\ pass' = p /\ Live' = Live
  BY DEF Continue, files, Live
<1>2. s \in PC
  BY DEF PC, Working
<1> QED
  BY <1>1, <1>2 DEF PassTyped, Control, PassOfIssue, Typed, Loops, Working

\* The process ends, in whatever way.
LEMMA IdleTyped == pc' = "idle" /\ pass' = NoPass => PassTyped'
BY Values DEF PassTyped, Control, PassOfIssue, NoPass, PC, Loops, Working

\* The caller of enqueuePrGuardianJob goes on.
LEMMA EnqueuedTyped ==
    ASSUME Typed, pc = "enqueue", NEW id \in pass.todo, NEW j \in Live', Live' \subseteq Id,
           j[1] = id[1], Enqueued(id, j)
    PROVE  PassTyped'
<1>1. pass \in Pass /\ pass.mode # "none" /\ j \in Id
  BY DEF Typed, TypeOK, Control
<1>2. /\ pass' = [pass EXCEPT !.todo = IF pass.mode = "run" THEN {j} ELSE pass.todo \ {id}, !.job = j]
      /\ pc' = EnqueuedOf(pass.mode)
  BY DEF Enqueued
<1>3. /\ pass' \in Pass /\ pass'.mode = pass.mode /\ pass'.job = j
      /\ pass'.todo = IF pass.mode = "run" THEN {j} ELSE pass.todo \ {id}
  BY <1>1, <1>2 DEF Pass
<1>4. pass.mode = "publish" => id[1] \in IssuePr
  BY DEF Typed, PassOfIssue
<1>5. pass.mode \in {"watch", "run", "publish"}
  BY <1>1 DEF Pass
<1>6. /\ pass.mode = "watch" => pc' = "enqueue"
      /\ pass.mode = "run" => pc' = "start"
      /\ pass.mode = "publish" => pc' = "record"
  BY <1>2 DEF EnqueuedOf
<1> QED
  BY <1>1, <1>3, <1>4, <1>5, <1>6 DEF PassTyped, Control, PassOfIssue, Typed, Loops, Working, PC

-----------------------------------------------------------------------------
(* Type correctness *)

FilesInv == Files /\ saved \in Saved /\ JobsOfIssue

\* A write keeps the jobs of the issue about its pull requests.
LEMMA OneJobOfIssue ==
    ASSUME TypeOK, JobsOfIssue, NEW id \in Id, OneJob(id), jobs'[id].issue => id[1] \in IssuePr
    PROVE  JobsOfIssue' /\ Files' /\ Live \subseteq Live' /\ id \in Live' /\ Live' \subseteq Id
<1>1. Live \subseteq Id
  BY DEF Live
<1>2. \A k \in Live' : k = id \/ (k \in Live /\ jobs'[k] = jobs[k])
  BY <1>1 DEF OneJob
<1> QED
  BY <1>1, <1>2 DEF OneJob, JobsOfIssue

\* Every step that writes a job, or takes one from a loop.
LEMMA JobStepTyped ==
    ASSUME Typed, NEW id \in pass.todo,
           \/ Create(id) \/ Reuse(id) \/ Merge(id)
           \/ TerminalMerged(id) \/ TerminalSkip(id) \/ ObserveFails(id)
           \/ ObserveClosed(id) \/ ObserveSame(id) \/ ObserveReactivate(id)
           \/ ExpireAbandoned(id) \/ Start(id)
    PROVE  FilesInv' /\ PassTyped'
<1> USE DEF FilesInv
<1>0. TypeOK /\ JobsOfIssue /\ Files /\ saved \in Saved /\ id \in Id /\ pass \in Pass
  BY FilesTyped, TodoIds DEF Typed, TypeOK
<1>1. CASE Create(id)
  <2>1. OneJob(id) /\ (jobs'[id].issue => IssueKnown \/ (id \in Live /\ jobs[id].issue))
    BY <1>0, <1>1, CreateWrites
  <2>2. pc = "enqueue" /\ Enqueued(id, id) /\ saved' = saved
    BY <1>1 DEF Create
  <2>3. jobs'[id].issue => id[1] \in IssuePr
    BY <2>1 DEF Typed, JobsOfIssue, PassOfIssue, IssueKnown
  <2> QED
    BY <1>0, <2>1, <2>2, <2>3, OneJobOfIssue, EnqueuedTyped
<1>2. CASE Reuse(id)
  <2>1. PICK j \in SameHead(id) : Enqueued(id, j)
    BY <1>2 DEF Reuse
  <2>2. j \in Live /\ j[1] = id[1]
    BY <2>1 DEF SameHead, JobsOf
  <2>3. pc = "enqueue" /\ UNCHANGED files
    BY <1>2 DEF Reuse
  <2>4. Live' = Live /\ Live \subseteq Id
    BY <2>3 DEF files, Live
  <2> QED
    BY <1>0, <2>1, <2>2, <2>3, <2>4, EnqueuedTyped DEF files, Files, JobsOfIssue
<1>3. CASE Merge(id)
  <2>1. PICK c \in SameHead(id), most \in Nat, s \in Status :
          /\ OneJob(c)
          /\ jobs'[c].issue => IssueKnown \/ \E j \in SameHead(id) : jobs[j].issue
          /\ SyncThen(c, "remove", [pass EXCEPT !.todo = @ \ {id}])
    BY <1>0, <1>3, MergeWrites
  <2>2. \A j \in SameHead(id) : j \in Live /\ j \in Id /\ j[1] = id[1]
    BY DEF SameHead, JobsOf, Live
  <2>3. IssueKnown => id[1] \in IssuePr
    BY DEF Typed, PassOfIssue, IssueKnown
  <2>4. jobs'[c].issue => c[1] \in IssuePr
    BY <2>1, <2>2, <2>3 DEF Typed, JobsOfIssue
  <2>5. JobsOfIssue' /\ Files' /\ Live \subseteq Live' /\ c \in Live' /\ Live' \subseteq Id
    BY <1>0, <2>1, <2>2, <2>4, OneJobOfIssue
  <2> DEFINE p == [pass EXCEPT !.todo = @ \ {id}]
  <2>6. p \in Pass /\ p.mode = pass.mode /\ p.todo \subseteq pass.todo
    BY <1>0 DEF Pass
  <2>7. pass.mode # "none" /\ saved' = saved
    BY <1>3 DEF Merge, Typed, Control
  <2>8. SyncThen(c, "remove", p)
    BY <2>1
  <2> HIDE DEF p
  <2>9. PassTyped'
    BY <2>2, <2>3, <2>5, <2>6, <2>7, <2>8, SyncThenTyped DEF IssueKnown, Loops
  <2> QED
    BY <1>0, <2>5, <2>7, <2>9
<1>4. ASSUME pc \in Loops PROVE id \in Live /\ pass.todo \subseteq Live /\ pass.mode # "none"
  BY <1>4 DEF Typed, Control, Loops
<1>5. ASSUME NEW s \in Loops, NEW p \in Pass, p.mode = pass.mode, p.todo \subseteq pass.todo,
             pc \in Loops, SyncThen(id, s, p), Live \subseteq Live', Live' \subseteq Id
      PROVE  PassTyped'
  <2>1. pass.mode = "publish" => id[1] \in IssuePr
    BY DEF Typed, PassOfIssue
  <2> QED
    BY <1>4, <1>5, <2>1, SyncThenTyped
<1>6. After(id) \in Pass /\ After(id).mode = pass.mode /\ After(id).todo \subseteq pass.todo
  BY <1>0 DEF After, Pass
<1>7. CASE TerminalMerged(id)
  <2>1. pc \in Loops /\ saved' = saved
    BY <1>7 DEF TerminalMerged, Turn, Loops
  <2>2. OneJob(id) /\ jobs'[id].issue = jobs[id].issue
    BY <1>0, <1>4, <1>7, <2>1, TerminalMergedWrites
  <2>3. JobsOfIssue' /\ Files' /\ Live \subseteq Live' /\ id \in Live' /\ Live' \subseteq Id
    BY <1>0, <1>4, <2>1, <2>2, OneJobOfIssue DEF JobsOfIssue
  <2> DEFINE p == [After(id) EXCEPT !.done = @ \cup {id}]
  <2>4. p \in Pass /\ p.mode = pass.mode /\ p.todo \subseteq pass.todo
    BY <1>0, <1>6 DEF Pass
  <2>5. SyncThen(id, "terminal", p)
    BY <1>7 DEF TerminalMerged
  <2> HIDE DEF p
  <2>6. PassTyped'
    BY <1>5, <2>1, <2>3, <2>4, <2>5 DEF Loops
  <2> QED
    BY <1>0, <2>1, <2>3, <2>6
<1>8. CASE TerminalSkip(id) \/ ObserveFails(id)
  <2>1. pc \in Loops /\ UNCHANGED files /\ Skip(id)
    BY <1>8 DEF TerminalSkip, ObserveFails, Turn, Loops
  <2>2. Live \subseteq Live' /\ FilesInv'
    BY <1>0, <2>1 DEF files, Files, Live, JobsOfIssue
  <2> QED
    BY <2>1, <2>2, SkipTyped
<1>9. ASSUME pc \in Loops, OneJob(id), jobs'[id].issue = jobs[id].issue, saved' = saved
      PROVE  FilesInv' /\ Live \subseteq Live' /\ id \in Live' /\ Live' \subseteq Id
  BY <1>0, <1>4, <1>9, OneJobOfIssue DEF JobsOfIssue
<1>10. CASE ObserveClosed(id) \/ ObserveSame(id)
  <2>1. pc \in Loops /\ saved' = saved /\ Skip(id)
    BY <1>10 DEF ObserveClosed, ObserveSame, Visible, Turn, Loops
  <2>2. OneJob(id) /\ jobs'[id].issue = jobs[id].issue
    BY <1>0, <1>4, <1>10, <2>1, ObserveClosedWrites, ObserveSameWrites
  <2> QED
    BY <1>9, <2>1, <2>2, SkipTyped
<1>11. CASE ObserveReactivate(id)
  <2>1. pc \in Loops /\ saved' = saved
    BY <1>11 DEF ObserveReactivate, Visible, Turn, Loops
  <2>2. OneJob(id) /\ jobs'[id].issue = jobs[id].issue
    BY <1>0, <1>4, <1>11, <2>1, ObserveReactivateWrites
  <2>3. Skip(id) \/ SyncThen(id, "observe", After(id))
    BY <1>11 DEF ObserveReactivate
  <2> QED
    BY <1>5, <1>6, <1>9, <2>1, <2>2, <2>3, SkipTyped DEF Loops
<1>12. CASE ExpireAbandoned(id)
  <2>1. pc \in Loops /\ saved' = saved /\ SyncThen(id, "expire", After(id))
    BY <1>12 DEF ExpireAbandoned, Turn, Loops
  <2>2. OneJob(id) /\ jobs'[id].issue = jobs[id].issue
    BY <1>0, <1>4, <1>12, <2>1, OtherStatusWrites
  <2> QED
    BY <1>5, <1>6, <1>9, <2>1, <2>2 DEF Loops
<1>13. CASE Start(id)
  <2>1. pc \in Loops /\ saved' = saved
    BY <1>13 DEF Start, Turn, Loops
  <2>2. OneJob(id) /\ jobs'[id].issue = jobs[id].issue
    BY <1>0, <1>4, <1>13, <2>1, OtherStatusWrites
  <2>3. /\ pass' = [After(id) EXCEPT !.job = id, !.attempt = 0]
        /\ pc' = "inspect"
    BY <1>13 DEF Start
  <2>4. 0 \in 0 .. Budget /\ 0 < Budget
    BY GuardianAssumption DEF GuardianAssumption
  <2>5. /\ pass' \in Pass /\ pass'.job = id /\ pass'.attempt = 0
        /\ pass'.mode = pass.mode /\ pass'.todo \subseteq pass.todo
    BY <1>0, <1>6, <2>3, <2>4 DEF Pass
  <2>6. FilesInv' /\ Live \subseteq Live' /\ id \in Live' /\ Live' \subseteq Id
    BY <1>9, <2>1, <2>2
  <2>7. PassTyped'
    BY <1>4, <2>1, <2>3, <2>4, <2>5, <2>6
       DEF PassTyped, Control, PassOfIssue, Typed, Loops, Working, PC
  <2> QED
    BY <2>6, <2>7
<1> QED
  BY <1>1, <1>2, <1>3, <1>7, <1>8, <1>10, <1>11, <1>12, <1>13

\* The steps that leave the files alone.
LEMMA SameFiles ==
    ASSUME Typed, UNCHANGED files
    PROVE  FilesInv' /\ Live' = Live
BY FilesTyped DEF Typed, TypeOK, FilesInv, files, Files, Live, JobsOfIssue

LEMMA SkillStepTyped ==
    ASSUME Typed,
           \/ InspectMerged \/ InspectAudited \/ InspectOther
           \/ AgentDone \/ AgentFails \/ SettleFirst \/ SettleStable \/ SettleMoved
    PROVE  FilesInv' /\ PassTyped'
<1>1. pc \in Working /\ pass.job \in Live /\ pass.job \in Id /\ pass \in Pass
  BY DEF InspectMerged, InspectAudited, InspectOther, Inspecting, AgentDone, AgentFails,
         SettleFirst, SettleStable, SettleMoved, Working, Typed, TypeOK, Control, Live
<1>2. MyPr \in Pr /\ FingerprintOf(MyPr) \in Fingerprint
  <2>1. MyPr \in Pr
    BY <1>1 DEF MyPr, Id
  <2> QED
    BY <2>1, LooksTyped DEF Typed
<1>3. UNCHANGED files
  BY DEF InspectMerged, InspectAudited, InspectOther, AgentDone, AgentFails,
         SettleFirst, SettleStable, SettleMoved, Result, Look, Work, Again, Continue
<1>4. ASSUME NEW p \in Pass, NEW need \in {"ready", "audited"}, NEW l \in Fingerprint,
             p.mode = pass.mode, p.job = pass.job, p.todo = pass.todo, NEW s \in Working,
             s \in {"inspect", "agent"} => p.attempt < Budget,
             Continue(s, [p EXCEPT !.look = l, !.need = need])
      PROVE  PassTyped'
  <2> DEFINE q == [p EXCEPT !.look = l, !.need = need]
  <2>1. /\ q \in Pass /\ q.mode = pass.mode /\ q.job = pass.job /\ q.todo = pass.todo
        /\ q.attempt = p.attempt
    BY <1>4 DEF Pass
  <2>2. Continue(s, q)
    BY <1>4
  <2> HIDE DEF q
  <2> QED
    BY <1>1, <1>4, <2>1, <2>2, ContinueTyped
<1>5. ASSUME NEW p \in Pass, NEW l \in Fingerprint \cup {NoFingerprint}, NEW s \in Working,
             p.mode = pass.mode, p.job = pass.job, p.todo = pass.todo,
             s \in {"inspect", "agent"} => p.attempt < Budget,
             Continue(s, [p EXCEPT !.look = l])
      PROVE  PassTyped'
  <2> DEFINE q == [p EXCEPT !.look = l]
  <2>1. /\ q \in Pass /\ q.mode = pass.mode /\ q.job = pass.job /\ q.todo = pass.todo
        /\ q.attempt = p.attempt
    BY <1>5 DEF Pass
  <2>2. Continue(s, q)
    BY <1>5
  <2> HIDE DEF q
  <2> QED
    BY <1>1, <1>5, <2>1, <2>2, ContinueTyped
<1>6. ASSUME NEW p \in Pass, p.mode = pass.mode, p.job = pass.job, p.todo = pass.todo, Again(p)
      PROVE  PassTyped'
  <2>1. CASE p.attempt < Budget
    BY <1>1, <1>6, <2>1, ContinueTyped DEF Again, Working
  <2>2. CASE ~(p.attempt < Budget)
    BY <1>5, <1>6, <2>2 DEF Again, Working
  <2> QED
    BY <2>1, <2>2
<1>7. ASSUME InspectMerged \/ SettleStable PROVE PassTyped'
  BY <1>1, <1>2, <1>5, <1>7 DEF InspectMerged, SettleStable, Result, Working
<1>8. ASSUME InspectAudited PROVE PassTyped'
  BY <1>1, <1>2, <1>4, <1>8 DEF InspectAudited, Look, Working
<1>9. ASSUME InspectOther PROVE PassTyped'
  <2>1. pass.attempt < Budget
    BY <1>9 DEF InspectOther, Inspecting, Typed, Control
  <2> QED
    BY <1>1, <1>2, <1>5, <1>9, <2>1 DEF InspectOther, Work, Working
<1>10. ASSUME AgentDone PROVE PassTyped'
  <2>1. pass.attempt < Budget /\ pass.attempt \in 0 .. Budget /\ Budget \in Nat
    BY <1>1, <1>10, GuardianAssumption DEF AgentDone, Typed, Control, GuardianAssumption, Pass
  <2>2. pass.attempt + 1 \in 0 .. Budget
    BY <2>1
  <2>3. Passed \in Pass /\ Passed.mode = pass.mode /\ Passed.job = pass.job /\ Passed.todo = pass.todo
    BY <1>1, <2>2 DEF Passed, Pass
  <2>4. Look("ready", Passed) \/ Again(Passed)
    BY <1>10 DEF AgentDone
  <2> HIDE DEF Passed
  <2> QED
    BY <1>2, <1>4, <1>6, <2>3, <2>4 DEF Look, Working
<1>11. ASSUME AgentFails PROVE PassTyped'
  <2> DEFINE last == [pass EXCEPT !.attempt = Budget]
  <2>1. Budget \in 0 .. Budget
    BY GuardianAssumption DEF GuardianAssumption
  <2>2. last \in Pass /\ last.mode = pass.mode /\ last.job = pass.job /\ last.todo = pass.todo
    BY <1>1, <2>1 DEF Pass
  <2>3. Look("audited", last) \/ Again(last)
    BY <1>11 DEF AgentFails
  <2> HIDE DEF last
  <2> QED
    BY <1>2, <1>4, <1>6, <2>2, <2>3 DEF Look, Working
<1>12. ASSUME SettleFirst PROVE PassTyped'
  BY <1>1, <1>2, <1>5, <1>12 DEF SettleFirst, Working
<1>13. ASSUME SettleMoved PROVE PassTyped'
  <2>1. (pass.attempt < Budget /\ Work) \/ Again(pass)
    BY <1>13 DEF SettleMoved
  <2> QED
    BY <1>1, <1>2, <1>5, <1>6, <2>1 DEF Work, Working
<1> QED
  BY <1>3, <1>7, <1>8, <1>9, <1>10, <1>11, <1>12, <1>13, SameFiles

\* The steps between: loops, ends, syncs.
LEMMA ProcessStepTyped ==
    ASSUME Typed,
           \/ Sync \/ Remove \/ Record \/ Finish \/ InspectFails \/ Crash
           \/ BeginTerminal \/ BeginObserve \/ BeginExpire \/ BeginStart \/ EndPass
    PROVE  FilesInv' /\ PassTyped'
<1> USE DEF FilesInv
<1>0. /\ TypeOK /\ JobsOfIssue /\ Files /\ saved \in Saved /\ pass \in Pass /\ pc \in PC
      /\ Live \subseteq Id
  BY FilesTyped DEF Typed, TypeOK, Live
<1>1. CASE Sync
  <2>1. pc = "sync" /\ pass.job \in Live /\ pass.mode # "none" /\ jobs' = jobs /\ newer' = newer
    BY <1>1 DEF Sync, Typed, Control
  <2>2. Live' = Live /\ JobsOfIssue' /\ Files'
    BY <1>0, <2>1 DEF Live, JobsOfIssue, Files
  <2>3. saved' \in Saved
    <3>1. CASE jobs[pass.job].issue
      <4>1. pass.job[1] \in IssuePr
        BY <1>0, <2>1, <3>1 DEF JobsOfIssue
      <4>2. PhaseOf(jobs[pass.job].status) \in Phase
        BY DEF PhaseOf, Phase
      <4>3. saved' = [phase |-> PhaseOf(jobs[pass.job].status), pr |-> pass.job[1]]
        BY <1>1, <3>1 DEF Sync
      <4> QED
        BY <4>1, <4>2, <4>3 DEF Saved
    <3>2. CASE ~jobs[pass.job].issue
      BY <1>0, <1>1, <3>2 DEF Sync
    <3> QED
      BY <3>1, <3>2
  <2>4. pc' = pass.next /\ pass.next \in Loops \cup {"remove", "idle"}
    BY <1>1, <2>1 DEF Sync, Typed, Control
  <2>5. CASE pass.next = "idle"
    BY <1>1, <2>2, <2>3, <2>4, <2>5, IdleTyped DEF Sync
  <2>6. CASE pass.next = "remove"
    <3>1. pass' = pass
      BY <1>1, <2>6 DEF Sync
    <3> QED
      BY <1>0, <2>1, <2>2, <2>3, <2>4, <2>6, <3>1
         DEF PassTyped, Control, PassOfIssue, Typed, Loops, Working, PC
  <2>7. CASE pass.next \in Loops
    <3>1. pass' = [NoPass EXCEPT !.mode = pass.mode, !.todo = pass.todo, !.done = pass.done]
      BY <1>1, <2>7 DEF Sync, Loops
    <3>2. /\ pass' \in Pass /\ pass'.mode = pass.mode /\ pass'.todo = pass.todo
          /\ pass'.job = NoId
      BY <1>0, <3>1, Values DEF Pass, NoPass
    <3>3. pass.todo \subseteq Live
      BY <2>1, <2>7 DEF Typed, Control
    <3> QED
      BY <1>0, <2>1, <2>2, <2>3, <2>4, <2>7, <3>2, <3>3, Values
         DEF PassTyped, Control, PassOfIssue, Typed, Loops, Working, PC
  <2> QED
    BY <2>4, <2>5, <2>6, <2>7
<1>2. CASE Remove
  <2> DEFINE S == SameHead(<<pass.job[1], jobs[pass.job].head>>) \ {pass.job}
  <2>1. pc = "remove" /\ pass.job \in Live /\ pass.mode # "none" /\ saved' = saved
    BY <1>2 DEF Remove, Typed, Control
  <2>2. S \in SUBSET Id /\ pass.job \notin S
    BY DEF SameHead, JobsOf, Live
  <2>3. Forget(S)
    BY <1>2 DEF Remove
  <2> HIDE DEF S
  <2>4. Files' /\ Live' = Live \ S /\ (\A j \in Id \ S : jobs'[j] = jobs[j])
    BY <1>0, <2>2, <2>3, ForgetFiles
  <2>5. JobsOfIssue'
    BY <1>0, <2>4 DEF JobsOfIssue
  <2>6. /\ pc' = EnqueuedOf(pass.mode)
        /\ pass' = [pass EXCEPT !.todo = IF pass.mode = "run" THEN {pass.job} ELSE @, !.next = "idle"]
    BY <1>2 DEF Remove
  <2>7. /\ pass' \in Pass /\ pass'.mode = pass.mode /\ pass'.job = pass.job
        /\ pass'.todo = IF pass.mode = "run" THEN {pass.job} ELSE pass.todo
    BY <1>0, <2>1, <2>6 DEF Pass, PC
  <2>8. pass.mode \in {"watch", "run", "publish"}
    BY <1>0, <2>1 DEF Pass
  <2>9. /\ pass.mode = "watch" => pc' = "enqueue"
        /\ pass.mode = "run" => pc' = "start"
        /\ pass.mode = "publish" => pc' = "record"
    BY <2>6 DEF EnqueuedOf
  <2>10. PassTyped'
    BY <1>0, <2>1, <2>2, <2>4, <2>7, <2>8, <2>9
       DEF PassTyped, Control, PassOfIssue, Typed, Loops, Working, PC
  <2> QED
    BY <1>0, <2>1, <2>4, <2>5, <2>10
<1>3. CASE Record
  <2>1. pass.mode = "publish" /\ pass.job \in Id /\ pass.job[1] \in IssuePr
    BY <1>3 DEF Record, Typed, Control, PassOfIssue
  <2>2. saved' \in Saved /\ jobs' = jobs /\ newer' = newer /\ pc' = "idle" /\ pass' = NoPass
    BY <1>3, <2>1 DEF Record, Saved, Phase
  <2> QED
    BY <1>0, <2>2, IdleTyped DEF Files, JobsOfIssue, Live
<1>4. CASE Finish
  <2>1. pc = "finish" /\ pass.job \in Live /\ pass.mode # "none" /\ saved' = saved
    BY <1>4 DEF Finish, Typed, Control, Working
  <2>2. OneJob(pass.job) /\ jobs'[pass.job].issue = jobs[pass.job].issue
    BY <1>0, <1>4, <2>1, OtherStatusWrites, SuccessWrites
  <2>3. JobsOfIssue' /\ Files' /\ Live \subseteq Live' /\ pass.job \in Live' /\ Live' \subseteq Id
    BY <1>0, <2>1, <2>2, OneJobOfIssue DEF JobsOfIssue
  <2>4. SyncThen(pass.job, IF pass.mode = "watch" THEN "start" ELSE "idle", pass)
    BY <1>4 DEF Finish
  <2>5. pass.todo \subseteq Live
    BY <2>1 DEF Typed, Control, Working
  <2>6. pass.mode = "publish" => pass.job[1] \in IssuePr
    BY <1>0, <2>1 DEF Typed, PassOfIssue
  <2>7. PassTyped'
    BY <1>0, <2>1, <2>3, <2>4, <2>5, <2>6, SyncThenTyped DEF Loops
  <2> QED
    BY <1>0, <2>1, <2>3, <2>7
<1>5. CASE InspectFails
  <2>1. /\ pc \in Working /\ pc' = "finish" /\ UNCHANGED files
        /\ pass' = [pass EXCEPT !.look = NoFingerprint]
    BY <1>5 DEF InspectFails, Working
  <2>2. /\ pass' \in Pass /\ pass'.mode = pass.mode /\ pass'.todo = pass.todo
        /\ pass'.job = pass.job
    BY <1>0, <2>1 DEF Pass
  <2>3. FilesInv' /\ Live' = Live
    BY <2>1, SameFiles
  <2> QED
    BY <2>1, <2>2, <2>3 DEF PassTyped, Control, PassOfIssue, Typed, Loops, Working, PC
<1>6. CASE Crash \/ EndPass
  BY <1>6, SameFiles, IdleTyped DEF Crash, EndPass
<1>7. ASSUME NEW from, NEW to \in Loops, NEW ids \in SUBSET Live, NextLoop(from, to, ids)
      PROVE  FilesInv' /\ PassTyped'
  <2>1. /\ pc' = to /\ UNCHANGED files
        /\ pass' = [NoPass EXCEPT !.mode = "watch", !.todo = ids, !.done = pass.done]
    BY <1>7 DEF NextLoop
  <2>2. pass' \in Pass /\ pass'.mode = "watch" /\ pass'.todo = ids
    BY <1>0, <2>1, Values DEF Pass, NoPass
  <2>3. FilesInv' /\ Live' = Live
    BY <2>1, SameFiles
  <2> QED
    BY <2>1, <2>2, <2>3 DEF PassTyped, Control, PassOfIssue, Loops, Working, PC
<1>8. /\ Exhausted \subseteq Live /\ Succeeded \subseteq Live
      /\ Abandoned \subseteq Live /\ Runnable \subseteq Live
  BY DEF Exhausted, Succeeded, Abandoned, Runnable
<1>9. CASE BeginTerminal \/ BeginObserve \/ BeginExpire \/ BeginStart
  BY <1>7, <1>8, <1>9 DEF BeginTerminal, BeginObserve, BeginExpire, BeginStart, Loops
<1> QED
  BY <1>1, <1>2, <1>3, <1>4, <1>5, <1>6, <1>9

\* A pass, a run and a publication begin; time passes.
LEMMA BeginTyped ==
    ASSUME Typed,
           \/ BeginWatch \/ \E id \in Id : GoesStale(id)
           \/ \E p \in Pr : BeginRun(p) \/ OpenPr(p) \/ Checkpoint(p) \/ Resume(p)
    PROVE  FilesInv' /\ PassTyped'
<1> USE DEF FilesInv
<1>0. /\ TypeOK /\ JobsOfIssue /\ Files /\ saved \in Saved /\ pass \in Pass /\ pc \in PC
      /\ Live \subseteq Id /\ \A p \in Pr : pulls[p].head \in Head
  BY FilesTyped, LooksTyped DEF Typed, TypeOK, Live
<1>1. CASE BeginWatch
  <2> DEFINE todo == {<<p, pulls[p].head>> : p \in {q \in SyncPr : pulls[q].state = "open"}}
  <2>1. todo \in SUBSET Id
    BY <1>0 DEF Id, Pr
  <2>2. pc' = "enqueue" /\ pass' = [NoPass EXCEPT !.mode = "watch", !.todo = todo] /\ UNCHANGED files
    BY <1>1 DEF BeginWatch
  <2> HIDE DEF todo
  <2>3. pass' \in Pass /\ pass'.mode = "watch" /\ pass'.job = NoId
    BY <2>1, <2>2, Values DEF Pass, NoPass
  <2> QED
    BY <2>2, <2>3, SameFiles DEF PassTyped, Control, PassOfIssue, Loops, Working, PC
<1>2. ASSUME NEW id \in Id, GoesStale(id) PROVE FilesInv' /\ PassTyped'
  <2>1. id \in Live
    BY <1>2, Values DEF GoesStale, Live
  <2>2. OneJob(id) /\ jobs'[id].issue = jobs[id].issue
    BY <1>0, <1>2, <2>1, OtherStatusWrites
  <2>3. JobsOfIssue' /\ Files' /\ Live \subseteq Live'
    BY <1>0, <2>1, <2>2, OneJobOfIssue DEF JobsOfIssue
  <2>4. UNCHANGED <<saved, pc, pass>>
    BY <1>2 DEF GoesStale
  <2> QED
    BY <1>0, <2>3, <2>4 DEF PassTyped, Control, PassOfIssue, Typed
<1>3. ASSUME NEW p \in Pr, BeginRun(p) PROVE FilesInv' /\ PassTyped'
  <2> DEFINE latest == {j \in JobsOf(p) : IsNewest(j, JobsOf(p)) /\ jobs[j].head = pulls[p].head}
             todo == IF latest = {} THEN {<<p, pulls[p].head>>} ELSE latest
  <2>1. latest \subseteq Live
    BY DEF JobsOf
  <2>2. todo \in SUBSET Id /\ (latest # {} => todo \subseteq Live)
    BY <1>0, <2>1 DEF Id
  <2>3. /\ pc' = IF latest = {} THEN "enqueue" ELSE "start"
        /\ pass' = [NoPass EXCEPT !.mode = "run", !.todo = todo] /\ UNCHANGED files
    BY <1>3 DEF BeginRun
  <2> HIDE DEF todo, latest
  <2>4. pass' \in Pass /\ pass'.mode = "run" /\ pass'.todo = todo
    BY <2>2, <2>3, Values DEF Pass, NoPass
  <2> QED
    BY <2>2, <2>3, <2>4, SameFiles DEF PassTyped, Control, PassOfIssue, Loops, Working, PC
<1>4. ASSUME NEW p \in IssuePr, Enqueueing(p, pulls[p].head), UNCHANGED files
      PROVE  FilesInv' /\ PassTyped'
  <2>1. <<p, pulls[p].head>> \in Id /\ <<p, pulls[p].head>> \in IssuePr \X Head
    BY <1>0 DEF Id, Pr
  <2> DEFINE todo == {<<p, pulls[p].head>>}
  <2>2. todo \in SUBSET Id /\ todo \subseteq IssuePr \X Head
    BY <2>1
  <2>3. pc' = "enqueue" /\ pass' = [NoPass EXCEPT !.mode = "publish", !.todo = todo]
    BY <1>4 DEF Enqueueing
  <2> HIDE DEF todo
  <2>4. pass' \in Pass /\ pass'.mode = "publish" /\ pass'.todo = todo /\ pass'.job = NoId
    BY <2>2, <2>3, Values DEF Pass, NoPass
  <2> QED
    BY <1>4, <2>2, <2>3, <2>4, Values, SameFiles
       DEF PassTyped, Control, PassOfIssue, Loops, Working, PC
<1>5. ASSUME NEW p \in Pr, OpenPr(p) PROVE FilesInv' /\ PassTyped'
  BY <1>4, <1>5 DEF OpenPr
<1>6. ASSUME NEW p \in Pr, Resume(p) PROVE FilesInv' /\ PassTyped'
  <2>1. p \in IssuePr
    <3>1. saved.pr \in IssuePr \cup {NoPr} /\ saved.pr = p
      BY <1>0, <1>6 DEF Resume, Saved
    <3> QED
      BY <3>1, GuardianAssumption DEF GuardianAssumption, Pr
  <2> QED
    BY <1>4, <1>6, <2>1 DEF Resume
<1>7. ASSUME NEW p \in Pr, Checkpoint(p) PROVE FilesInv' /\ PassTyped'
  <2>1. saved' \in Saved /\ UNCHANGED <<jobs, newer, pc, pass>>
    BY <1>7 DEF Checkpoint, Saved, Phase
  <2> QED
    BY <1>0, <2>1 DEF PassTyped, Control, PassOfIssue, Typed, Files, JobsOfIssue, Live
<1> QED
  BY <1>1, <1>2, <1>3, <1>5, <1>6, <1>7

Events == \E p \in Pr :
    \/ OpenSync(p) \/ Push(p) \/ Talk(p) \/ Drift(p) \/ Vet(p)
    \/ Close(p) \/ MergePr(p) \/ Reopen(p) \/ Promote(p)

LEMMA EventTyped ==
    ASSUME Typed, Events
    PROVE  FilesInv' /\ PassTyped'
<1>1. UNCHANGED <<files, pc, pass>>
  BY DEF Events, OpenSync, Push, Talk, Drift, Vet, Close, MergePr, Reopen, Promote, Elsewhere
<1>2. FilesInv' /\ Live' = Live
  BY <1>1, SameFiles
<1> QED
  BY <1>1, <1>2 DEF PassTyped, Control, PassOfIssue, Typed, TypeOK

GithubTyped ==
    /\ pulls \in [Pr -> PullRequest]
    /\ examined \subseteq Id /\ reopened \subseteq Pr
CountsTyped == events \in 0 .. MaxEvents /\ crashed \in BOOLEAN

LEMMA EventCounts == CountsTyped /\ Event => events' \in 0 .. MaxEvents
BY GuardianAssumption DEF CountsTyped, Event, GuardianAssumption

\* A comment, or a review that finds nothing, changes one pull request.
LEMMA TalkEffect ==
    ASSUME TypeOK, NEW p \in Pr, Talk(p) \/ Vet(p)
    PROVE  /\ pulls' \in [Pr -> PullRequest]
           /\ \A q \in Pr \ {p} : pulls'[q] = pulls[q]
           /\ pulls'[p].state = pulls[p].state /\ pulls'[p].head = pulls[p].head
           /\ Talk(p) => ~pulls'[p].vetted
<1>0. pulls \in [Pr -> PullRequest] /\ pulls[p].act + 1 \in Nat
  BY DEF TypeOK, PullRequest
<1> DEFINE n == pulls[p].act + 1
<1>1. PICK r \in BOOLEAN, v \in BOOLEAN :
        /\ pulls' = [pulls EXCEPT ![p].act = pulls[p].act + 1, ![p].ready = r, ![p].vetted = v]
        /\ Talk(p) => v = FALSE
  <2>1. CASE Talk(p)
    <3>1. PICK r \in BOOLEAN :
            pulls' = [pulls EXCEPT ![p].act = pulls[p].act + 1, ![p].ready = r, ![p].vetted = FALSE]
      BY <2>1 DEF Talk
    <3> QED
      BY <3>1
  <2>2. CASE ~Talk(p)
    BY <2>2 DEF Vet
  <2> QED
    BY <2>1, <2>2
<1> DEFINE one == [pulls[p] EXCEPT !.act = n, !.ready = r, !.vetted = v]
<1>2. n \in Nat /\ pulls' = [pulls EXCEPT ![p] = one]
  BY <1>0, <1>1
<1> HIDE DEF n
<1>3. /\ one \in PullRequest /\ one.state = pulls[p].state /\ one.head = pulls[p].head
      /\ one.vetted <=> v
  BY <1>0, <1>2 DEF PullRequest
<1> HIDE DEF one
<1>4. /\ pulls' \in [Pr -> PullRequest]
      /\ \A q \in Pr \ {p} : pulls'[q] = pulls[q]
      /\ pulls'[p] = one
  BY <1>0, <1>2, <1>3
<1> QED
  BY <1>1, <1>3, <1>4

\* What happens on GitHub, and what the runs do there.
LEMMA PullsTyped ==
    ASSUME TypeOK,
           Events \/ \E p \in Pr : OpenPr(p) \/ Checkpoint(p) \/ Resume(p)
    PROVE  GithubTyped' /\ CountsTyped'
<1> USE DEF GithubTyped, CountsTyped
<1>0. GithubTyped /\ CountsTyped
  BY DEF TypeOK
<1>1. ASSUME NEW p \in Pr PROVE <<p, pulls[p].head>> \in Id /\ pulls[p].act + 1 \in Nat
  BY <1>0 DEF PullRequest, Id
<1>2. ASSUME NEW p \in Pr, OpenSync(p) \/ OpenPr(p) \/ Checkpoint(p) \/ Resume(p)
      PROVE  GithubTyped' /\ CountsTyped'
  BY <1>0, <1>2 DEF OpenSync, OpenPr, Checkpoint, Resume, PullRequest, Unexamined, Elsewhere, counts
<1>3. ASSUME NEW p \in Pr, Push(p) PROVE GithubTyped' /\ CountsTyped'
  <2>1. PICK h \in Head, r \in BOOLEAN :
          pulls' = [pulls EXCEPT ![p].head = h, ![p].ready = r, ![p].vetted = FALSE]
    BY <1>3 DEF Push
  <2>2. pulls' \in [Pr -> PullRequest]
    BY <1>0, <2>1 DEF PullRequest
  <2> QED
    BY <1>0, <1>3, <2>2, EventCounts DEF Push, Unexamined, Elsewhere, Happens
<1>4. ASSUME NEW p \in Pr, Drift(p) PROVE GithubTyped' /\ CountsTyped'
  <2>1. PICK r \in BOOLEAN : pulls' = [pulls EXCEPT ![p].ready = r]
    BY <1>4 DEF Drift
  <2>2. pulls' \in [Pr -> PullRequest]
    BY <1>0, <2>1 DEF PullRequest
  <2> QED
    BY <1>0, <1>4, <2>2, EventCounts DEF Drift, Unexamined, Elsewhere, Happens
<1>5. ASSUME NEW p \in Pr, Talk(p) \/ Vet(p) PROVE GithubTyped' /\ CountsTyped'
  <2>1. pulls' \in [Pr -> PullRequest]
    BY <1>5, TalkEffect
  <2> QED
    BY <1>0, <1>1, <1>5, <2>1, EventCounts DEF Talk, Vet, Unexamined, Elsewhere, Happens
<1>6. ASSUME NEW p \in Pr, Close(p) \/ MergePr(p) \/ Promote(p) PROVE GithubTyped' /\ CountsTyped'
  BY <1>0, <1>6 DEF Close, MergePr, Promote, PullRequest, Unexamined, Elsewhere
<1>7. ASSUME NEW p \in Pr, Reopen(p) PROVE GithubTyped' /\ CountsTyped'
  BY <1>0, <1>7, EventCounts DEF Reopen, PullRequest, Elsewhere, Happens
<1> QED
  BY <1>2, <1>3, <1>4, <1>5, <1>6, <1>7 DEF Events

\* The guardian itself only adds to what was examined.
LEMMA GuardianPulls ==
    ASSUME Typed,
           \/ Step \/ BeginWatch \/ FaultStep \/ Clock \/ \E p \in Pr : BeginRun(p)
    PROVE  /\ GithubTyped' /\ CountsTyped'
           /\ UNCHANGED <<pulls, reopened>>
           /\ examined \subseteq examined'
<1> USE DEF GithubTyped, CountsTyped
<1>0. GithubTyped /\ CountsTyped
  BY DEF Typed, TypeOK
<1>1. CASE EnqueueStep \/ PassStep \/ Sync \/ Record \/ BeginWatch \/ Clock \/ Finish
  BY <1>0, <1>1
     DEF EnqueueStep, Create, Reuse, Merge, Remove, PassStep, BeginTerminal, BeginObserve,
         BeginExpire, BeginStart, NextLoop, EndPass, TerminalMerged, TerminalSkip, ObserveClosed,
         ObserveSame, ObserveReactivate, ExpireAbandoned, Start, Sync, Record, BeginWatch,
         Clock, GoesStale, Finish, github, counts
<1>2. CASE InspectMerged \/ InspectAudited \/ InspectOther \/ AgentFails \/ SettleFirst
           \/ SettleStable \/ SettleMoved
  BY <1>0, <1>2
     DEF InspectMerged, InspectAudited, InspectOther, AgentFails, SettleFirst, SettleStable,
         SettleMoved, Result, Look, Work, Again, Continue, counts
<1>3. CASE AgentDone
  <2>1. pc = "agent" /\ examined' = examined \cup {<<MyPr, pulls[MyPr].head>>}
    BY <1>3 DEF AgentDone
  <2>2. UNCHANGED <<pulls, reopened, counts>>
    BY <1>3 DEF AgentDone, Look, Again, Continue
  <2>3. <<MyPr, pulls[MyPr].head>> \in Id
    <3>1. pass.job \in Live
      BY <2>1 DEF Typed, Control, Working
    <3>2. MyPr \in Pr
      BY <3>1 DEF MyPr, Live, Id
    <3> QED
      BY <1>0, <3>2 DEF PullRequest, Id
  <2> QED
    BY <1>0, <2>1, <2>2, <2>3 DEF counts
<1>4. CASE FaultStep \/ \E p \in Pr : BeginRun(p)
  BY <1>0, <1>4, EventCounts
     DEF FaultStep, ObserveFails, InspectFails, Crash, BeginRun, github, counts
<1> QED
  BY <1>1, <1>2, <1>3, <1>4 DEF Step, SkillStep

LEMMA InitTyped == Init => Typed
<1> SUFFICES ASSUME Init PROVE Typed
  OBVIOUS
<1> USE GuardianAssumption DEF GuardianAssumption
<1>1. pulls \in [Pr -> PullRequest] /\ examined \subseteq Id /\ reopened \subseteq Pr
  BY DEF Init, PullRequest
<1>2. jobs \in [Id -> Job \cup {NoJob}] /\ newer \subseteq Id \X Id /\ saved \in Saved
  BY DEF Init, Saved, Phase
<1>3. pc = "idle" /\ pass = NoPass /\ pc \in PC /\ pass \in Pass
  BY Values DEF Init, PC
<1>4. events \in 0 .. MaxEvents /\ crashed \in BOOLEAN
  <2>1. MaxEvents \in Nat
    BY DEF Init
  <2>2. events \in 0 .. MaxEvents
    BY <2>1 DEF Init
  <2>3. crashed \in BOOLEAN
    BY Zenon DEF Init
  <2> QED
    BY <2>2, <2>3
<1>5. Live = {}
  BY DEF Init, Live, NoJob
<1>6. TypeOK
  BY <1>1, <1>2, <1>3, <1>4 DEF TypeOK
<1>7. Control /\ JobsOfIssue /\ PassOfIssue
  BY <1>3, <1>5 DEF Control, JobsOfIssue, PassOfIssue, NoPass, Loops, Working
<1> QED
  BY <1>6, <1>7 DEF Typed

\* Every step keeps the types, and what they rest on.
LEMMA NextTyped ==
    ASSUME Typed, [Next]_vars
    PROVE  Typed'
<1>1. CASE UNCHANGED vars
  BY <1>1 DEF vars, github, files, counts, Typed, TypeOK, Control, JobsOfIssue, PassOfIssue, Live
<1>2. CASE Next
  <2>1. FilesInv' /\ PassTyped'
    BY <1>2, JobStepTyped, SkillStepTyped, ProcessStepTyped, BeginTyped, EventTyped
       DEF Next, Step, EnqueueStep, PassStep, SkillStep, FaultStep, Clock, Others, Events
  <2>2. GithubTyped' /\ CountsTyped'
    BY <1>2, PullsTyped, GuardianPulls DEF Next, Others, Events, Typed
  <2> QED
    BY <2>1, <2>2 DEF Typed, TypeOK, FilesInv, Files, PassTyped, GithubTyped, CountsTyped
<1> QED
  BY <1>1, <1>2

\* The job files, the issue's state and the memory of the process keep their types, among
\* them that the agent is started at most maxAttempts times within one attempt of a job.
THEOREM GuardianTyped == Safety => []TypeOK
<1>1. Typed => TypeOK
  BY DEF Typed
<1> QED
  BY <1>1, InitTyped, NextTyped, PTL DEF Safety

-----------------------------------------------------------------------------
(* The budget *)

\* Jobs that are not written keep their budget.
LEMMA OneJobBudget ==
    ASSUME PendingHasBudget, NEW id \in Id, OneJob(id),
           jobs'[id].status = "pending" => jobs'[id].attempts < Budget
    PROVE  PendingHasBudget'
<1>1. \A k \in Live' : k = id \/ (k \in Live /\ jobs'[k] = jobs[k])
  BY DEF OneJob, Live
<1> QED
  BY <1>1 DEF PendingHasBudget, HasBudget

\* Consolidation gives the job the most attempts of any, and blocks it where they are all.
LEMMA MergeBudget ==
    ASSUME Typed, PendingHasBudget, NEW id \in pass.todo, Merge(id)
    PROVE  PendingHasBudget'
<1>1. PICK c \in SameHead(id), most \in Nat, s \in Status :
         /\ OneJob(c)
         /\ jobs'[c].status = s /\ s \in MergedStatus(c, SameHead(id), most)
         /\ jobs'[c].attempts = most
  BY MergeWrites DEF Typed
<1>2. c \in Id
  BY DEF SameHead, JobsOf, Live
<1>3. s = "pending" => most < Budget
  BY <1>1, GuardianAssumption DEF MergedStatus, GuardianAssumption
<1> QED
  BY <1>1, <1>2, <1>3, OneJobBudget

\* The steps that write no job.
NoJobStep ==
    \/ Sync \/ Record \/ BeginTerminal \/ BeginObserve \/ BeginExpire \/ BeginStart \/ EndPass
    \/ BeginWatch \/ InspectFails \/ Crash \/ Others
    \/ InspectMerged \/ InspectAudited \/ InspectOther \/ AgentDone \/ AgentFails
    \/ SettleFirst \/ SettleStable \/ SettleMoved

LEMMA NoJobStepFiles ==
    ASSUME NoJobStep
    PROVE  UNCHANGED jobs
<1>1. CASE \/ Sync \/ Record \/ BeginTerminal \/ BeginObserve \/ BeginExpire \/ BeginStart \/ EndPass
           \/ BeginWatch \/ InspectFails \/ Crash \/ Others
  BY <1>1
     DEF Sync, Record, BeginTerminal, BeginObserve, BeginExpire, BeginStart, NextLoop, EndPass,
         BeginWatch, InspectFails, Crash, Others, BeginRun, OpenPr, Checkpoint, Resume,
         OpenSync, Push, Talk, Drift, Vet, Close, MergePr, Reopen, Promote, Elsewhere, files
<1>2. CASE \/ InspectMerged \/ InspectAudited \/ InspectOther \/ AgentDone \/ AgentFails
           \/ SettleFirst \/ SettleStable \/ SettleMoved
  BY <1>2
     DEF InspectMerged, InspectAudited, InspectOther, AgentDone, AgentFails, SettleFirst,
         SettleStable, SettleMoved, Result, Look, Work, Again, Continue, files
<1> QED
  BY <1>1, <1>2 DEF NoJobStep

\* Every step keeps the budget.
LEMMA NextBudget ==
    ASSUME Typed, PendingHasBudget, [Next]_vars
    PROVE  PendingHasBudget'
<1>0. TypeOK /\ (pc \in Loops \cup Working => pass.todo \subseteq Live)
  BY DEF Typed, Control
<1>1. CASE UNCHANGED jobs
  BY <1>1 DEF PendingHasBudget, HasBudget, Live
<1>2. ASSUME NEW id \in pass.todo, Create(id) PROVE PendingHasBudget'
  BY <1>0, <1>2, CreateWrites, TodoIds, OneJobBudget, GuardianAssumption DEF GuardianAssumption
<1>3. ASSUME NEW id \in pass.todo, Merge(id) PROVE PendingHasBudget'
  BY <1>3, MergeBudget
<1>4. CASE Remove
  <2> DEFINE S == SameHead(<<pass.job[1], jobs[pass.job].head>>) \ {pass.job}
  <2>1. S \in SUBSET Id
    BY DEF SameHead, JobsOf, Live
  <2>2. Forget(S)
    BY <1>4 DEF Remove
  <2> HIDE DEF S
  <2>3. Live' = Live \ S /\ (\A j \in Id \ S : jobs'[j] = jobs[j]) /\ Live \subseteq Id
    BY <1>0, <2>1, <2>2, FilesTyped, ForgetFiles DEF Live
  <2> QED
    BY <2>3 DEF PendingHasBudget, HasBudget
<1>5. ASSUME NEW id \in pass.todo,
             \/ TerminalMerged(id) \/ ObserveClosed(id) \/ ObserveSame(id) \/ ObserveReactivate(id)
      PROVE  PendingHasBudget'
  <2>1. pc \in Loops
    BY <1>5 DEF TerminalMerged, ObserveClosed, ObserveSame, ObserveReactivate, Visible, Turn, Loops
  <2>2. id \in Live /\ id \in Id
    BY <1>0, <2>1, TodoIds
  <2>3. OneJob(id) /\ (jobs'[id].status = "pending" => jobs'[id].attempts < Budget)
    <3>1. CASE TerminalMerged(id)
      BY <1>0, <2>2, <3>1, TerminalMergedWrites
    <3>2. CASE ObserveClosed(id) \/ ObserveSame(id)
      BY <1>0, <2>2, <3>2, ObserveClosedWrites, ObserveSameWrites DEF PendingHasBudget, HasBudget
    <3>3. CASE ObserveReactivate(id)
      BY <1>0, <2>2, <3>3, ObserveReactivateWrites DEF HasBudget
    <3> QED
      BY <1>5, <3>1, <3>2, <3>3
  <2> QED
    BY <2>2, <2>3, OneJobBudget
<1>6. ASSUME NEW id \in Live, ExpireAbandoned(id) \/ GoesStale(id) \/ Start(id)
      PROVE  PendingHasBudget'
  <2>1. OneJob(id) /\ jobs'[id].status \in {"blocked", "stale", "running"} /\ id \in Id
    BY <1>0, <1>6, OtherStatusWrites DEF Live
  <2> QED
    BY <2>1, OneJobBudget
<1>7. CASE Finish
  <2>1. pass.job \in Live /\ pass.job \in Id
    BY <1>7 DEF Finish, Typed, Control, Working, Live
  <2>2. OneJob(pass.job) /\ jobs'[pass.job].status # "pending"
    BY <1>0, <1>7, <2>1, OtherStatusWrites, SuccessWrites
  <2> QED
    BY <2>1, <2>2, OneJobBudget
<1>8. ASSUME NEW id \in Id, GoesStale(id) PROVE id \in Live
  BY <1>8 DEF GoesStale, Live
<1>9. ASSUME NEW id \in pass.todo, ExpireAbandoned(id) \/ Start(id) PROVE id \in Live
  BY <1>0, <1>9 DEF ExpireAbandoned, Start, Turn, Loops
<1>10. ASSUME NEW id \in pass.todo, Reuse(id) \/ TerminalSkip(id) \/ ObserveFails(id)
       PROVE  UNCHANGED jobs
  BY <1>10 DEF Reuse, TerminalSkip, ObserveFails, files
<1>11. ASSUME NoJobStep PROVE UNCHANGED jobs
  BY <1>11, NoJobStepFiles
<1> QED
  BY <1>1, <1>2, <1>3, <1>4, <1>5, <1>6, <1>7, <1>8, <1>9, <1>10, <1>11
     DEF vars, files, Next, Step, EnqueueStep, PassStep, SkillStep, FaultStep, Clock, NoJobStep

\* No job waits without budget, so that no job waits for ever unseen: every filter of
\* runPendingPrGuardianJobs leaves out a pending job that has used up its retryBudget.
THEOREM BudgetKept == Safety => []PendingHasBudget
<1>1. Init => PendingHasBudget
  BY DEF Init, PendingHasBudget, Live, NoJob
<1>2. Init => Typed /\ PendingHasBudget
  BY <1>1, InitTyped
<1>3. Typed /\ PendingHasBudget /\ [Next]_vars => (Typed /\ PendingHasBudget)'
  BY NextTyped, NextBudget
<1> QED
  BY <1>2, <1>3, PTL DEF Safety

-----------------------------------------------------------------------------
(* Successes are about heads that somebody went through *)

\* What is known of a head stays known: a merge is final.
LEMMA GithubMoves ==
    ASSUME Typed, [Next]_vars
    PROVE  /\ examined \subseteq examined' /\ reopened \subseteq reopened'
           /\ \A p \in Pr : pulls[p].state = "merged" => pulls'[p].state = "merged"
           /\ \A p \in Pr \ reopened' : pulls[p].state \in {"closed", "merged"}
                                           => pulls'[p].state \in {"closed", "merged"}
<1>0. pulls \in [Pr -> PullRequest]
  BY DEF Typed, TypeOK
<1>1. CASE UNCHANGED vars \/ Step \/ BeginWatch \/ FaultStep \/ Clock \/ \E p \in Pr : BeginRun(p)
  BY <1>1, GuardianPulls DEF vars, github
<1>2. ASSUME NEW p \in Pr, OpenPr(p) \/ OpenSync(p) \/ Checkpoint(p) \/ Resume(p) \/ Promote(p)
      PROVE  /\ UNCHANGED <<examined, reopened>>
             /\ pulls[p].state \in {"unused", "draft", "open"}
             /\ \A q \in Pr \ {p} : pulls'[q] = pulls[q]
  BY <1>0, <1>2 DEF OpenPr, OpenSync, Checkpoint, Resume, Promote, Opens, Unexamined
<1>3. ASSUME NEW p \in Pr, Push(p) \/ Close(p) \/ MergePr(p)
      PROVE  /\ UNCHANGED <<examined, reopened>>
             /\ pulls[p].state \in {"unused", "draft", "open"}
             /\ \A q \in Pr \ {p} : pulls'[q] = pulls[q]
  BY <1>0, <1>3 DEF Push, Close, MergePr, Unexamined
<1>4. ASSUME NEW p \in Pr, Talk(p) \/ Drift(p) \/ Vet(p)
      PROVE  /\ examined \subseteq examined' /\ UNCHANGED reopened
             /\ \A q \in Pr : pulls'[q].state = pulls[q].state
  <2>1. CASE Talk(p) \/ Vet(p)
    BY <2>1, TalkEffect DEF Typed, Talk, Vet, Unexamined
  <2>2. CASE Drift(p)
    BY <1>0, <2>2 DEF Drift, Unexamined
  <2> QED
    BY <1>4, <2>1, <2>2
<1>5. ASSUME NEW p \in Pr, Reopen(p)
      PROVE  /\ UNCHANGED examined /\ reopened' = reopened \cup {p}
             /\ pulls[p].state = "closed"
             /\ \A q \in Pr \ {p} : pulls'[q] = pulls[q]
  BY <1>0, <1>5 DEF Reopen
<1> QED
  BY <1>1, <1>2, <1>3, <1>4, <1>5 DEF Next, Others

LEMMA KnownStays ==
    ASSUME Typed, [Next]_vars, NEW p \in Pr, NEW h, Known(p, h)
    PROVE  Known(p, h)'
BY GithubMoves DEF Known

\* A vetted head was gone through.
LEMMA NextVetted ==
    ASSUME Typed, VettedKnown, [Next]_vars
    PROVE  VettedKnown'
<1>0. pulls \in [Pr -> PullRequest]
  BY DEF Typed, TypeOK
<1>1. CASE UNCHANGED vars \/ Step \/ BeginWatch \/ FaultStep \/ Clock \/ \E p \in Pr : BeginRun(p)
  BY <1>1, GuardianPulls DEF vars, github, VettedKnown
<1>2. ASSUME NEW p \in Pr, \/ OpenPr(p) \/ OpenSync(p) \/ Checkpoint(p) \/ Resume(p) \/ Promote(p)
                           \/ Drift(p) \/ Close(p) \/ MergePr(p) \/ Reopen(p)
      PROVE  VettedKnown'
  <2>1. UNCHANGED examined
    BY <1>2 DEF OpenPr, OpenSync, Checkpoint, Resume, Promote, Drift, Close, MergePr, Reopen, Unexamined
  <2>2. \A q \in Pr : pulls'[q].vetted = pulls[q].vetted /\ pulls'[q].head = pulls[q].head
    BY <1>0, <1>2 DEF OpenPr, OpenSync, Checkpoint, Resume, Promote, Drift, Close, MergePr, Reopen,
                      PullRequest
  <2> QED
    BY <2>1, <2>2 DEF VettedKnown
<1>3. ASSUME NEW p \in Pr, Push(p) PROVE VettedKnown'
  <2>1. PICK h \in Head, r \in BOOLEAN :
          pulls' = [pulls EXCEPT ![p].head = h, ![p].ready = r, ![p].vetted = FALSE]
    BY <1>3 DEF Push
  <2>2. ~pulls'[p].vetted /\ \A q \in Pr \ {p} : pulls'[q] = pulls[q]
    BY <1>0, <2>1
  <2> QED
    BY <1>3, <2>2 DEF VettedKnown, Push, Unexamined
<1>4. ASSUME NEW p \in Pr, Talk(p) \/ Vet(p) PROVE VettedKnown'
  <2>1. /\ \A q \in Pr \ {p} : pulls'[q] = pulls[q]
        /\ pulls'[p].head = pulls[p].head
        /\ Talk(p) => ~pulls'[p].vetted
    BY <1>4, TalkEffect DEF Typed
  <2>2. /\ Talk(p) => UNCHANGED examined
        /\ ~Talk(p) => examined' = examined \cup {<<p, pulls[p].head>>}
    BY <1>4 DEF Talk, Vet, Unexamined
  <2> QED
    BY <2>1, <2>2 DEF VettedKnown
<1> QED
  BY <1>1, <1>2, <1>3, <1>4 DEF Next, Others

\* What the process looks at when it looks for the last time was gone through.
LEMMA NextLook ==
    ASSUME Typed, VettedKnown, LookKnown, [Next]_vars
    PROVE  LookKnown'
<1> DEFINE Looking == {"settle", "confirm", "finish"}
<1>0. /\ pc \in Working \cup {"sync", "remove"} => pass.job \in Live /\ MyPr \in Pr
      /\ pass \in Pass
  BY DEF Typed, TypeOK, Control, Live, MyPr, Id
<1>1. CASE UNCHANGED <<pc, pass>>
  <2>1. MyPr' = MyPr
    BY <1>1 DEF MyPr
  <2>2. CASE pc \in Looking
    BY <1>0, <1>1, <2>1, <2>2, KnownStays DEF LookKnown, Working
  <2>3. CASE pc \notin Looking
    BY <1>1, <2>3 DEF LookKnown
  <2> QED
    BY <2>2, <2>3
<1>2. ASSUME pc' \notin Looking PROVE LookKnown'
  BY <1>2 DEF LookKnown
<1>3. ASSUME NEW l \in Fingerprint, pc \in Working, pass'.look = l, pass'.job = pass.job,
             Known(MyPr, l[1])
      PROVE  LookKnown'
  <2>1. MyPr' = MyPr /\ MyPr \in Pr
    BY <1>0, <1>3 DEF MyPr
  <2>2. Known(MyPr, l[1])'
    BY <1>3, <2>1, KnownStays
  <2> QED
    BY <1>3, <2>1, <2>2, Values DEF LookKnown
<1>4. ASSUME pc' = "finish", pass'.look = NoFingerprint PROVE LookKnown'
  BY <1>4 DEF LookKnown
<1>5. ASSUME pc \in Working
      PROVE  /\ FingerprintOf(MyPr) \in Fingerprint
             /\ FingerprintOf(MyPr)[1] = pulls[MyPr].head
             /\ Audited(MyPr) => Known(MyPr, pulls[MyPr].head)
  BY <1>0, <1>5, LooksTyped DEF Typed, Audited, Known, VettedKnown
<1>6. ASSUME NEW p \in Pass, Again(p) PROVE LookKnown'
  <2>1. pc' = "inspect" \/ (pc' = "finish" /\ pass'.look = NoFingerprint)
    BY <1>6 DEF Again, Continue, Pass
  <2> QED
    BY <1>2, <1>4, <2>1
<1>7. ASSUME Work PROVE LookKnown'
  BY <1>2, <1>7 DEF Work, Continue
<1>8. ASSUME InspectMerged PROVE LookKnown'
  <2>1. /\ pc \in Working /\ pulls[MyPr].state = "merged"
        /\ pass' = [pass EXCEPT !.look = FingerprintOf(MyPr)]
    BY <1>8 DEF InspectMerged, Inspecting, Result, Continue, Working
  <2>2. pass'.look = FingerprintOf(MyPr) /\ pass'.job = pass.job
    BY <1>0, <2>1 DEF Pass
  <2> QED
    BY <1>3, <1>5, <2>1, <2>2 DEF Known
<1>9. ASSUME InspectAudited PROVE LookKnown'
  <2>1. /\ pc \in Working /\ Audited(MyPr)
        /\ pass' = [pass EXCEPT !.look = FingerprintOf(MyPr), !.need = "audited"]
    BY <1>9 DEF InspectAudited, Inspecting, Look, Continue, Working
  <2>2. pass'.look = FingerprintOf(MyPr) /\ pass'.job = pass.job
    BY <1>0, <2>1 DEF Pass
  <2> QED
    BY <1>3, <1>5, <2>1, <2>2
<1>10. ASSUME InspectOther PROVE LookKnown'
  BY <1>7, <1>10 DEF InspectOther
<1>11. ASSUME AgentDone PROVE LookKnown'
  <2>1. pc \in Working /\ <<MyPr, pulls[MyPr].head>> \in examined'
    BY <1>11 DEF AgentDone, Working
  <2>2. CASE Again(Passed)
    <3>1. pc' = "inspect" \/ (pc' = "finish" /\ pass'.look = NoFingerprint)
      BY <1>0, <2>2 DEF Again, Continue, Passed, Pass
    <3> QED
      BY <1>2, <1>4, <3>1
  <2>3. CASE Look("ready", Passed)
    <3>1. /\ pass' = [Passed EXCEPT !.look = FingerprintOf(MyPr), !.need = "ready"]
          /\ pulls' = pulls
      BY <2>3 DEF Look, Continue
    <3>2. pass'.look = FingerprintOf(MyPr) /\ pass'.job = pass.job
      BY <1>0, <3>1 DEF Passed, Pass
    <3>3. MyPr' = MyPr
      BY <3>2 DEF MyPr
    <3> QED
      BY <1>5, <2>1, <3>1, <3>2, <3>3, Values DEF LookKnown, Known
  <2> QED
    BY <1>11, <2>2, <2>3 DEF AgentDone
<1>12. ASSUME AgentFails PROVE LookKnown'
  <2> DEFINE last == [pass EXCEPT !.attempt = Budget]
  <2>0. Budget \in 0 .. Budget
    BY GuardianAssumption DEF GuardianAssumption
  <2>1. last \in Pass /\ last.job = pass.job
    BY <1>0, <2>0 DEF Pass
  <2>2. pc \in Working /\ ((Audited(MyPr) /\ Look("audited", last)) \/ Again(last))
    BY <1>12 DEF AgentFails, Working
  <2> HIDE DEF last
  <2>3. CASE Look("audited", last) /\ Audited(MyPr)
    <3>1. pass' = [last EXCEPT !.look = FingerprintOf(MyPr), !.need = "audited"]
      BY <2>3 DEF Look, Continue
    <3>2. pass'.look = FingerprintOf(MyPr) /\ pass'.job = pass.job
      BY <2>1, <3>1 DEF Pass
    <3> QED
      BY <1>3, <1>5, <2>2, <2>3, <3>2
  <2> QED
    BY <1>6, <2>1, <2>2, <2>3
<1>13. ASSUME SettleFirst \/ SettleStable PROVE LookKnown'
  <2>1. /\ pc \in {"settle", "confirm"} /\ pass.look # NoFingerprint
        /\ Known(MyPr, pass.look[1])
    BY <1>13 DEF SettleFirst, SettleStable, LookKnown
  <2>2. pulls[MyPr].head = pass.look[1]
    BY <1>5, <1>13, <2>1 DEF SettleFirst, SettleStable, SameHeadStill, Stable, Working
  <2>3. pass' = [pass EXCEPT !.look = FingerprintOf(MyPr)]
    BY <1>13 DEF SettleFirst, SettleStable, Result, Continue
  <2>4. pass'.look = FingerprintOf(MyPr) /\ pass'.job = pass.job
    BY <1>0, <2>3 DEF Pass
  <2> QED
    BY <1>3, <1>5, <2>1, <2>2, <2>4 DEF Working
<1>14. ASSUME SettleMoved PROVE LookKnown'
  BY <1>0, <1>6, <1>7, <1>14 DEF SettleMoved
<1>15. ASSUME InspectFails PROVE LookKnown'
  BY <1>0, <1>4, <1>15 DEF InspectFails, Pass
<1>16. ASSUME NEW id \in pass.todo,
              \/ TerminalMerged(id) \/ TerminalSkip(id) \/ ObserveFails(id) \/ ObserveClosed(id)
              \/ ObserveSame(id) \/ ObserveReactivate(id) \/ ExpireAbandoned(id) \/ Start(id)
       PROVE  LookKnown'
  <2>1. pc' \notin Looking
    BY <1>16 DEF TerminalMerged, TerminalSkip, ObserveFails, ObserveClosed, ObserveSame,
       ObserveReactivate, ExpireAbandoned, Start, Visible, Turn, Skip, SyncThen
  <2> QED
    BY <1>2, <2>1
<1>17. EnqueuedOf(pass.mode) \notin Looking
  BY DEF EnqueuedOf
<1>18. ASSUME NEW id \in pass.todo, Create(id) \/ Reuse(id) \/ Merge(id) PROVE LookKnown'
  <2>1. pc' \notin Looking
    BY <1>17, <1>18 DEF Create, Reuse, Merge, Enqueued, SyncThen
  <2> QED
    BY <1>2, <2>1
<1>19. ASSUME Remove \/ Record \/ Finish \/ Crash \/ BeginTerminal \/ BeginObserve \/ BeginExpire
              \/ BeginStart \/ EndPass \/ BeginWatch
       PROVE  LookKnown'
  <2>1. pc' \notin Looking
    BY <1>17, <1>19 DEF Remove, Record, Finish, Crash, BeginTerminal, BeginObserve, BeginExpire,
       BeginStart, NextLoop, EndPass, BeginWatch, SyncThen
  <2> QED
    BY <1>2, <2>1
<1>20. ASSUME Sync PROVE LookKnown'
  <2>1. pc' \notin Looking
    BY <1>20 DEF Sync, Typed, Control, Loops
  <2> QED
    BY <1>2, <2>1
<1>21. ASSUME NEW p \in Pr, BeginRun(p) \/ OpenPr(p) \/ Resume(p) PROVE LookKnown'
  <2>1. pc' \notin Looking
    BY <1>21 DEF BeginRun, OpenPr, Resume, Enqueueing
  <2> QED
    BY <1>2, <2>1
<1>22. ASSUME UNCHANGED vars \/ Events \/ Clock \/ \E p \in Pr : Checkpoint(p) PROVE LookKnown'
  <2>1. UNCHANGED <<pc, pass>>
    BY <1>22 DEF vars, Events, OpenSync, Push, Talk, Drift, Vet, Close, MergePr, Reopen, Promote,
       Elsewhere, Clock, GoesStale, Checkpoint
  <2> QED
    BY <1>1, <2>1
<1> HIDE DEF Looking
<1> QED
  BY <1>8, <1>9, <1>10, <1>11, <1>12, <1>13, <1>14, <1>15, <1>16, <1>18, <1>19, <1>20, <1>21, <1>22
     DEF Next, Step, EnqueueStep, PassStep, SkillStep, FaultStep, Others, Events

\* A success whose job is not written stays good.
LEMMA SuccessStays ==
    ASSUME Typed, [Next]_vars, NEW k \in Live, SuccessOk(k), jobs'[k] = jobs[k]
    PROVE  SuccessOk(k)'
<1>1. k[1] \in Pr
  BY DEF Live, Id
<1>2. /\ examined \subseteq examined' /\ reopened \subseteq reopened'
      /\ pulls[k[1]].state = "merged" => pulls'[k[1]].state = "merged"
      /\ k[1] \notin reopened' /\ pulls[k[1]].state \in {"closed", "merged"}
            => pulls'[k[1]].state \in {"closed", "merged"}
  BY <1>1, GithubMoves
<1> QED
  BY <1>2 DEF SuccessOk, Known

\* The jobs that are not written stay as they were; the one that is must be as it should.
LEMMA OneJobSuccess ==
    ASSUME Typed, SuccessKnown, [Next]_vars, NEW id \in Id, OneJob(id), SuccessOk(id)'
    PROVE  SuccessKnown'
<1>1. \A k \in Live' : k = id \/ (k \in Live /\ jobs'[k] = jobs[k])
  BY DEF OneJob, Live
<1>2. \A k \in Live : jobs'[k] = jobs[k] => SuccessOk(k)'
  BY SuccessStays DEF SuccessKnown
<1> QED
  BY <1>1, <1>2 DEF SuccessKnown

\* A success that is written is good.
LEMMA NextSuccess ==
    ASSUME Inv, [Next]_vars
    PROVE  SuccessKnown'
<1>0. /\ Typed /\ TypeOK /\ SuccessKnown
      /\ pc \in Loops \cup Working => pass.todo \subseteq Live
  BY DEF Inv, Typed, Control
<1>1. CASE UNCHANGED jobs
  <2>1. Live' = Live
    BY <1>1 DEF Live
  <2>2. \A k \in Live : SuccessOk(k)'
    BY <1>0, <1>1, SuccessStays DEF SuccessKnown
  <2> QED
    BY <2>1, <2>2 DEF SuccessKnown
<1>2. ASSUME NEW id \in pass.todo, Create(id) PROVE SuccessKnown'
  BY <1>0, <1>2, CreateWrites, TodoIds, OneJobSuccess DEF SuccessOk
<1>3. ASSUME NEW id \in pass.todo, Merge(id) PROVE SuccessKnown'
  <2>1. PICK c \in SameHead(id), most \in Nat, s \in Status :
          /\ OneJob(c)
          /\ jobs'[c].status = s /\ s \in MergedStatus(c, SameHead(id), most)
          /\ jobs'[c].head = jobs[c].head /\ jobs'[c].seen = jobs[c].seen
    BY <1>0, <1>3, MergeWrites
  <2>2. c \in Live /\ c \in Id /\ c[1] \in Pr
    BY DEF SameHead, JobsOf, Live, Id
  <2>3. s = "success" => jobs[c].status = "success"
    BY <2>1 DEF MergedStatus
  <2>4. /\ examined \subseteq examined' /\ reopened \subseteq reopened'
        /\ UNCHANGED pulls
    BY <1>0, <1>3, GithubMoves DEF Merge, github
  <2>5. SuccessOk(c)
    BY <1>0, <2>2 DEF SuccessKnown
  <2>6. SuccessOk(c)'
    BY <2>1, <2>3, <2>4, <2>5 DEF SuccessOk, Known
  <2> QED
    BY <1>0, <2>1, <2>2, <2>6, OneJobSuccess
<1>4. CASE Remove
  <2> DEFINE S == SameHead(<<pass.job[1], jobs[pass.job].head>>) \ {pass.job}
  <2>1. S \in SUBSET Id
    BY DEF SameHead, JobsOf, Live
  <2>2. Forget(S)
    BY <1>4 DEF Remove
  <2> HIDE DEF S
  <2>3. Live' = Live \ S /\ (\A j \in Id \ S : jobs'[j] = jobs[j]) /\ Live \subseteq Id
    BY <1>0, <2>1, <2>2, FilesTyped, ForgetFiles DEF Live
  <2>4. \A k \in Live' : k \in Live /\ jobs'[k] = jobs[k]
    BY <2>3
  <2>5. \A k \in Live : jobs'[k] = jobs[k] => SuccessOk(k)'
    BY <1>0, SuccessStays DEF SuccessKnown
  <2> QED
    BY <2>4, <2>5 DEF SuccessKnown
<1>5. ASSUME NEW id \in pass.todo,
             \/ TerminalMerged(id) \/ ObserveClosed(id) \/ ObserveSame(id) \/ ObserveReactivate(id)
      PROVE  SuccessKnown'
  <2>1. pc \in Loops /\ UNCHANGED <<pulls, examined, reopened>>
    BY <1>5 DEF TerminalMerged, ObserveClosed, ObserveSame, ObserveReactivate, Visible, Turn, Loops,
                github
  <2>2. id \in Live /\ id \in Id
    BY <1>0, <2>1, TodoIds
  <2>3. SuccessOk(id) /\ id[1] \in Pr
    BY <1>0, <2>2 DEF SuccessKnown, Id
  <2>4. CASE TerminalMerged(id)
    <3>1. OneJob(id) /\ pulls[id[1]].state = "merged"
      BY <1>0, <2>2, <2>4, TerminalMergedWrites DEF TerminalMerged
    <3>2. SuccessOk(id)'
      BY <2>1, <3>1 DEF SuccessOk, Known
    <3> QED
      BY <1>0, <2>2, <3>1, <3>2, OneJobSuccess
  <2>5. CASE ObserveClosed(id)
    <3>1. /\ OneJob(id) /\ pulls[id[1]].state \in {"closed", "merged"}
          /\ jobs'[id].status = jobs[id].status /\ jobs'[id].head = jobs[id].head
      BY <1>0, <2>2, <2>5, ObserveClosedWrites DEF ObserveClosed
    <3>2. SuccessOk(id)'
      BY <2>1, <2>3, <3>1 DEF SuccessOk, Known
    <3> QED
      BY <1>0, <2>2, <3>1, <3>2, OneJobSuccess
  <2>6. CASE ObserveSame(id)
    <3>1. /\ OneJob(id) /\ pulls[id[1]].state \in {"open", "draft"}
          /\ jobs'[id].status = jobs[id].status /\ jobs'[id].seen = jobs[id].seen
          /\ jobs'[id].head = pulls[id[1]].head
          /\ jobs[id].seen = FingerprintOf(id[1])
      BY <1>0, <2>2, <2>6, ObserveSameWrites DEF ObserveSame, Visible, Unchanged
    <3>2. jobs[id].seen[1] = pulls[id[1]].head
      BY <1>0, <2>3, <3>1, LooksTyped
    <3>3. SuccessOk(id)'
      BY <2>1, <2>3, <3>1, <3>2 DEF SuccessOk, Known
    <3> QED
      BY <1>0, <2>2, <3>1, <3>3, OneJobSuccess
  <2>7. CASE ObserveReactivate(id)
    <3>1. OneJob(id) /\ jobs'[id].status # "success"
      BY <1>0, <2>2, <2>7, ObserveReactivateWrites
    <3>2. SuccessOk(id)'
      BY <3>1 DEF SuccessOk
    <3> QED
      BY <1>0, <2>2, <3>1, <3>2, OneJobSuccess
  <2> QED
    BY <1>5, <2>4, <2>5, <2>6, <2>7
<1>6. ASSUME NEW id \in Live, ExpireAbandoned(id) \/ GoesStale(id) \/ Start(id)
      PROVE  SuccessKnown'
  <2>1. OneJob(id) /\ jobs'[id].status \in {"blocked", "stale", "running"} /\ id \in Id
    BY <1>0, <1>6, OtherStatusWrites DEF Live
  <2>2. SuccessOk(id)'
    BY <2>1 DEF SuccessOk
  <2> QED
    BY <1>0, <2>1, <2>2, OneJobSuccess
<1>7. CASE Finish
  <2>1. pass.job \in Live /\ pass.job \in Id /\ pc = "finish"
    BY <1>0, <1>7 DEF Finish, Typed, Control, Working, Live
  <2>2. CASE pass.look = NoFingerprint
    <3>1. OneJob(pass.job) /\ jobs'[pass.job].status # "success"
      BY <1>0, <1>7, <2>1, <2>2, OtherStatusWrites
    <3>2. \A i \in Id : i = pass.job => SuccessOk(i)'
      BY <3>1 DEF SuccessOk
    <3>3. \A i \in Id : i = pass.job /\ OneJob(i) => SuccessKnown'
      BY <1>0, <3>2, OneJobSuccess
    <3> QED
      BY <2>1, <3>1, <3>3
  <2>3. CASE pass.look # NoFingerprint
    <3> DEFINE id == pass.job
    <3>1. /\ OneJob(id)
          /\ jobs'[id].head = pass.look[1] /\ jobs'[id].seen = pass.look
          /\ pass.look \in Fingerprint
      BY <1>0, <1>7, <2>1, <2>3, SuccessWrites
    <3>2. Known(id[1], pass.look[1])
      BY <2>1, <2>3 DEF Inv, LookKnown, MyPr
    <3>3. UNCHANGED <<pulls, examined, reopened>>
      BY <1>7 DEF Finish, github
    <3>4. \A i \in Id : i = id => SuccessOk(i)'
      BY <3>1, <3>2, <3>3 DEF SuccessOk, Known
    <3>5. \A i \in Id : i = id /\ OneJob(i) => SuccessKnown'
      BY <1>0, <3>4, OneJobSuccess
    <3> QED
      BY <2>1, <3>1, <3>5
  <2> QED
    BY <2>2, <2>3
<1>8. ASSUME NEW id \in Id, GoesStale(id) PROVE id \in Live
  BY <1>8 DEF GoesStale, Live
<1>9. ASSUME NEW id \in pass.todo, ExpireAbandoned(id) \/ Start(id) PROVE id \in Live
  BY <1>0, <1>9 DEF ExpireAbandoned, Start, Turn, Loops
<1>10. ASSUME NEW id \in pass.todo, Reuse(id) \/ TerminalSkip(id) \/ ObserveFails(id)
       PROVE  UNCHANGED jobs
  BY <1>10 DEF Reuse, TerminalSkip, ObserveFails, files
<1>11. ASSUME NoJobStep PROVE UNCHANGED jobs
  BY <1>11, NoJobStepFiles
<1> QED
  BY <1>1, <1>2, <1>3, <1>4, <1>5, <1>6, <1>7, <1>8, <1>9, <1>10, <1>11
     DEF vars, files, Next, Step, EnqueueStep, PassStep, SkillStep, FaultStep, Clock, NoJobStep

LEMMA NextInv ==
    ASSUME Inv, [Next]_vars
    PROVE  Inv'
BY NextTyped, NextVetted, NextLook, NextSuccess DEF Inv

LEMMA InitInv == Init => Inv
<1> SUFFICES ASSUME Init PROVE Inv
  OBVIOUS
<1>1. Typed
  BY InitTyped
<1>2. VettedKnown
  BY Zenon DEF Init, VettedKnown
<1>3. Live = {} /\ pc = "idle"
  BY DEF Init, Live, NoJob
<1> QED
  BY <1>1, <1>2, <1>3 DEF Inv, LookKnown, SuccessKnown

\* A success names a head that the agent or the review bot went through, or its pull
\* request is merged, whatever is pushed between the looks, the passes and the crashes;
\* only reopening a pull request can break it (see SuccessExamined).
THEOREM SuccessIsExamined == Safety => []SuccessExamined
<1>1. Inv => SuccessExamined
  BY DEF Inv, SuccessKnown, SuccessOk, Known, SuccessExamined, Examined
<1> QED
  BY <1>1, InitInv, NextInv, PTL DEF Safety

-----------------------------------------------------------------------------
(* What was given up is on record *)

\* Files that are not there any more when the process goes on: the duplicates of the job
\* at hand.
Duplicates ==
    IF pc = "remove" \/ (pc = "sync" /\ pass.next = "remove")
    THEN SameHead(<<pass.job[1], jobs[pass.job].head>>) \ {pass.job} ELSE {}

OfIssue(id) == id \in Live /\ jobs[id].issue

\* Neither the jobs nor the work ahead are about a pull request that is not open yet;
\* between two passes nothing is ahead; and the pipeline only enqueues and records.
Used == \A id \in Live \cup pass.todo : pulls[id[1]].state # "unused"
Between == pc = "idle" => pass = NoPass
Publishing == pass.mode = "publish" => \/ pc \in {"enqueue", "remove", "record"}
                                       \/ pc = "sync" /\ pass.next = "remove"
Places == Used /\ Between /\ Publishing

\* A pull request has one job that belongs to the issue, ...
Sole == \A id, k \in Id : OfIssue(id) /\ OfIssue(k) /\ id[1] = k[1] /\ id # k
                              => id \in Duplicates \/ k \in Duplicates

\* ... which it gets when it is published, ...
Unpublished ==
    /\ pass.mode = "publish" /\ pc = "enqueue" =>
           \A id \in Id, k \in pass.todo : OfIssue(id) => id[1] # k[1]
    /\ saved.phase = "failed" => \A id \in Id : OfIssue(id) /\ id[1] = saved.pr
           => pass.mode = "publish" /\ pc # "enqueue"

\* ... and what was given up is on record, or will be next.
GivenUp(id) == jobs[id].status = "blocked" /\ ~HasBudget(id)
Told(id) == saved = [phase |-> "guardian", pr |-> id[1]] \/ saved.pr \in IssuePr \ {id[1]}
GivenUpTold ==
    \A id \in Id : OfIssue(id) /\ GivenUp(id) =>
        Told(id) \/ (pc = "sync" /\ pass.job = id) \/ id \in Duplicates

Story == Sole /\ Unpublished /\ GivenUpTold

-----------------------------------------------------------------------------

\* A pull request that is open stays on GitHub.
LEMMA StaysUsed ==
    ASSUME TypeOK, [Next]_vars, NEW p \in Pr, pulls[p].state # "unused", Typed
    PROVE  pulls'[p].state # "unused"
<1>0. pulls \in [Pr -> PullRequest]
  BY DEF TypeOK
<1>1. CASE \/ UNCHANGED vars \/ Step \/ BeginWatch \/ FaultStep \/ Clock \/ \E q \in Pr : BeginRun(q)
  BY <1>1, GuardianPulls DEF vars, github
<1>2. ASSUME NEW q \in Pr, OpenPr(q) \/ Checkpoint(q) \/ Resume(q) \/ OpenSync(q)
      PROVE  pulls'[p].state # "unused"
  BY <1>0, <1>2 DEF OpenPr, Checkpoint, Resume, OpenSync, PullRequest
<1>3. ASSUME NEW q \in Pr, Push(q) PROVE pulls'[p].state # "unused"
  <2>1. PICK h \in Head, r \in BOOLEAN :
          pulls' = [pulls EXCEPT ![q].head = h, ![q].ready = r, ![q].vetted = FALSE]
    BY <1>3 DEF Push
  <2> QED
    BY <1>0, <2>1 DEF PullRequest
<1>4. ASSUME NEW q \in Pr, Drift(q) PROVE pulls'[p].state # "unused"
  <2>1. PICK r \in BOOLEAN : pulls' = [pulls EXCEPT ![q].ready = r]
    BY <1>4 DEF Drift
  <2> QED
    BY <1>0, <2>1 DEF PullRequest
<1>5. ASSUME NEW q \in Pr, Talk(q) \/ Vet(q) PROVE pulls'[p].state # "unused"
  BY <1>5, TalkEffect
<1>6. ASSUME NEW q \in Pr, Close(q) \/ MergePr(q) \/ Reopen(q) \/ Promote(q)
      PROVE  pulls'[p].state # "unused"
  BY <1>0, <1>6 DEF Close, MergePr, Reopen, Promote, PullRequest
<1> QED
  BY <1>1, <1>2, <1>3, <1>4, <1>5, <1>6 DEF Next, Others

\* A crash is never forgotten.
LEMMA CalmBefore ==
    ASSUME [Next]_vars, Calm'
    PROVE  Calm /\ ~Crash
<1>1. ~Crash
  BY DEF Crash, Calm
<1>2. CASE UNCHANGED crashed
  BY <1>1, <1>2 DEF Calm
<1>3. CASE EnqueueStep \/ PassStep \/ Sync \/ Record \/ BeginWatch \/ Clock \/ Finish \/ UNCHANGED vars
  <2>1. UNCHANGED crashed
    BY <1>3
     DEF EnqueueStep, Create, Reuse, Merge, Remove, PassStep, BeginTerminal, BeginObserve,
         BeginExpire, BeginStart, NextLoop, EndPass, TerminalMerged, TerminalSkip, ObserveClosed,
         ObserveSame, ObserveReactivate, ExpireAbandoned, Start, Sync, Record, BeginWatch,
         Clock, GoesStale, Finish, counts, vars
  <2> QED
    BY <1>2, <2>1
<1>4. CASE InspectMerged \/ InspectAudited \/ InspectOther \/ AgentDone \/ AgentFails \/ SettleFirst
           \/ SettleStable \/ SettleMoved
  <2>1. UNCHANGED crashed
    BY <1>4
     DEF InspectMerged, InspectAudited, InspectOther, AgentDone, AgentFails, SettleFirst, SettleStable,
         SettleMoved, Result, Look, Work, Again, Continue, counts
  <2> QED
    BY <1>2, <2>1
<1>5. CASE (\E id \in pass.todo : ObserveFails(id)) \/ InspectFails \/ Others
  <2>1. UNCHANGED crashed
    BY <1>5
     DEF ObserveFails, InspectFails, Others, BeginRun, OpenPr, Checkpoint, Resume, counts,
         OpenSync, Push, Talk, Drift, Vet, Close, MergePr, Reopen, Promote, Elsewhere
  <2> QED
    BY <1>2, <2>1
<1> QED
  BY <1>1, <1>3, <1>4, <1>5 DEF Next, Step, SkillStep, FaultStep

\* Steps that leave the files alone, outside of the pipeline's publication and of a
\* consolidation.
LEMMA PlainStep ==
    ASSUME Story, UNCHANGED <<jobs, saved>>, pc \notin {"sync", "remove"}, pc' \notin {"sync", "remove"},
           pass.mode # "publish", pass'.mode # "publish"
    PROVE  Story'
<1>1. Duplicates = {} /\ Duplicates' = {} /\ Live' = Live
  BY DEF Duplicates, Live
<1> QED
  BY <1>1 DEF Story, Sole, Unpublished, GivenUpTold, OfIssue, GivenUp, HasBudget, Told

\* Steps that write one job and keep whose it is: what it gives up is recorded next.
LEMMA WriteStep ==
    ASSUME Story, NEW w \in Live, OneJob(w), jobs'[w].issue = jobs[w].issue,
           saved' = saved, pc \notin {"sync", "remove"}, pc' # "remove",
           pass.mode # "publish", pass'.mode # "publish",
           pc' = "sync" => pass'.job = w /\ pass'.next # "remove",
           pc' = "sync" \/ (GivenUp(w)' => GivenUp(w))
    PROVE  Story'
<1>1. Duplicates = {} /\ Duplicates' = {}
  BY DEF Duplicates
<1>2. Live \subseteq Id /\ Live' = Live /\ \A k \in Id \ {w} : jobs'[k] = jobs[k]
  BY DEF OneJob, Live
<1>3. \A k \in Id : OfIssue(k)' <=> OfIssue(k)
  BY <1>2 DEF OfIssue
<1>4. Sole'
  BY <1>1, <1>3 DEF Story, Sole
<1>5. Unpublished'
  BY <1>3 DEF Story, Unpublished
<1>6. ASSUME NEW k \in Id, OfIssue(k)', GivenUp(k)' PROVE Told(k)' \/ (pc' = "sync" /\ pass'.job = k)
  <2>1. k = w \/ GivenUp(k)
    BY <1>2, <1>6 DEF GivenUp, HasBudget
  <2>2. CASE GivenUp(k)
    <3>1. Told(k)
      BY <1>1, <1>3, <1>6, <2>2 DEF Story, GivenUpTold
    <3> QED
      BY <3>1 DEF Told
  <2>3. CASE k = w /\ ~GivenUp(w)
    BY <1>6, <2>3
  <2> QED
    BY <2>1, <2>2, <2>3
<1> QED
  BY <1>4, <1>5, <1>6 DEF Story, GivenUpTold

-----------------------------------------------------------------------------
(* Where the process is *)

\* Jobs come from the work ahead, and that from the jobs and from open pull requests.
LEMMA NextUsed ==
    ASSUME Typed, Used, [Next]_vars
    PROVE  Used'
<1>0. TypeOK /\ Live \subseteq Id /\ pass.todo \subseteq Id /\ pass \in Pass
  BY TodoIds DEF Typed, TypeOK, Live
<1>1. ASSUME Live' \cup pass'.todo \subseteq Live \cup pass.todo PROVE Used'
  <2>1. \A id \in Live \cup pass.todo : id[1] \in Pr
    BY <1>0 DEF Id
  <2>2. \A id \in Live \cup pass.todo : pulls'[id[1]].state # "unused"
    BY <1>0, <2>1, StaysUsed DEF Used
  <2> QED
    BY <1>1, <2>2 DEF Used
<1>2. ASSUME Live' = Live, pass' = pass \/ pass'.todo \subseteq Live PROVE Used'
  BY <1>1, <1>2
<1>3. ASSUME NEW id \in Live \cup pass.todo, OneJob(id), pass'.todo \subseteq Live \cup pass.todo
      PROVE  Used'
  BY <1>1, <1>3 DEF OneJob
<1>4. ASSUME pass' = NoPass, Live' = Live PROVE Used'
  BY <1>1, <1>4 DEF NoPass
<1>5. ASSUME NEW id \in Id, pass'.todo = pass.todo \ {id}, Live' = Live PROVE Used'
  BY <1>1, <1>5
<1>6. ASSUME NEW id \in pass.todo, Create(id) \/ Reuse(id) \/ Merge(id) PROVE Used'
  <2>1. CASE Create(id)
    <3>1. pass'.todo \subseteq Live \cup pass.todo
      BY <1>0, <2>1 DEF Create, Enqueued, Pass
    <3> QED
      BY <1>0, <1>3, <2>1, <3>1, CreateWrites
  <2>2. CASE Reuse(id)
    <3>1. pass'.todo \subseteq Live \cup pass.todo /\ Live' = Live
      BY <1>0, <2>2 DEF Reuse, Enqueued, Pass, SameHead, JobsOf, files, Live
    <3> QED
      BY <1>1, <3>1
  <2>3. CASE Merge(id)
    <3>1. PICK c \in SameHead(id) :
            OneJob(c) /\ SyncThen(c, "remove", [pass EXCEPT !.todo = @ \ {id}])
      BY <1>0, <2>3, MergeWrites
    <3>2. c \in Live /\ pass'.todo \subseteq pass.todo
      BY <1>0, <3>1 DEF SyncThen, SameHead, JobsOf, Pass
    <3> QED
      BY <1>3, <3>1, <3>2
  <2> QED
    BY <1>6, <2>1, <2>2, <2>3
<1>7. ASSUME Remove PROVE Used'
  <2> DEFINE S == SameHead(<<pass.job[1], jobs[pass.job].head>>) \ {pass.job}
  <2>1. S \in SUBSET Id /\ pass.job \in Live
    BY <1>7 DEF SameHead, JobsOf, Live, Remove, Typed, Control
  <2>2. Forget(S)
    BY <1>7 DEF Remove
  <2> HIDE DEF S
  <2>3. Live' \subseteq Live
    BY <1>0, <2>1, <2>2, FilesTyped, ForgetFiles
  <2>4. pass'.todo \subseteq pass.todo \cup {pass.job}
    BY <1>0, <1>7 DEF Remove, Pass
  <2> QED
    BY <1>1, <2>1, <2>3, <2>4
<1>8. ASSUME NEW id \in pass.todo,
             \/ TerminalMerged(id) \/ TerminalSkip(id) \/ ObserveFails(id) \/ ObserveClosed(id)
             \/ ObserveSame(id) \/ ObserveReactivate(id) \/ ExpireAbandoned(id) \/ Start(id)
      PROVE  Used'
  <2>1. pass'.todo \subseteq pass.todo
    BY <1>0, <1>8 DEF TerminalMerged, TerminalSkip, ObserveFails, ObserveClosed, ObserveSame,
          ObserveReactivate, ExpireAbandoned, Start, Skip, SyncThen, After, Pass
  <2>2. id \in Live
    BY <1>8 DEF TerminalMerged, TerminalSkip, ObserveFails, ObserveClosed, ObserveSame,
          ObserveReactivate, ExpireAbandoned, Start, Visible, Turn, Typed, Control, Loops
  <2>3. OneJob(id) \/ Live' = Live
    BY <1>0, <1>8, <2>2, TerminalMergedWrites, ObserveClosedWrites, ObserveSameWrites,
       ObserveReactivateWrites, OtherStatusWrites DEF TerminalSkip, ObserveFails, files, Live
  <2> QED
    BY <1>1, <1>3, <2>1, <2>2, <2>3
<1>9. ASSUME NEW id \in Id, GoesStale(id) PROVE Used'
  <2>1. id \in Live /\ pass' = pass
    BY <1>9 DEF GoesStale, Live
  <2> QED
    BY <1>0, <1>3, <1>9, <2>1, OtherStatusWrites
<1>10. ASSUME Finish PROVE Used'
  <2>1. pass.job \in Live /\ pass'.todo \subseteq pass.todo
    BY <1>0, <1>10 DEF Finish, SyncThen, Pass, Typed, Control, Working
  <2>2. OneJob(pass.job)
    BY <1>0, <1>10, <2>1, OtherStatusWrites, SuccessWrites
  <2> QED
    BY <1>1, <2>1, <2>2 DEF OneJob
<1>11. ASSUME NoJobStep PROVE Live' = Live
  BY <1>11, NoJobStepFiles DEF Live
<1>12. ASSUME Sync \/ Record \/ Crash \/ EndPass PROVE Used'
  <2>1. CASE Sync
    <3> DEFINE next == [NoPass EXCEPT !.mode = pass.mode, !.todo = pass.todo, !.done = pass.done]
    <3>1. next.todo = pass.todo /\ NoPass.todo = {}
      BY DEF NoPass
    <3>2. pass' = NoPass \/ pass' = pass \/ pass' = next
      BY <2>1 DEF Sync
    <3> HIDE DEF next
    <3>3. pass'.todo \subseteq pass.todo
      BY <3>1, <3>2
    <3> QED
      BY <1>1, <1>11, <2>1, <3>3 DEF NoJobStep
  <2>2. CASE ~Sync
    <3>1. pass' = NoPass
      BY <1>12, <2>2 DEF Record, Crash, EndPass
    <3> QED
      BY <1>4, <1>11, <1>12, <3>1 DEF NoJobStep
  <2> QED
    BY <2>1, <2>2
<1>13. ASSUME BeginTerminal \/ BeginObserve \/ BeginExpire \/ BeginStart PROVE Used'
  <2>1. pass'.todo \subseteq Live
    BY <1>13 DEF BeginTerminal, BeginObserve, BeginExpire, BeginStart, NextLoop, NoPass,
          Exhausted, Succeeded, Abandoned, Runnable, Live
  <2> QED
    BY <1>2, <1>11, <1>13, <2>1 DEF NoJobStep
<1>14. ASSUME \/ InspectMerged \/ InspectAudited \/ InspectOther \/ AgentDone \/ AgentFails
              \/ SettleFirst \/ SettleStable \/ SettleMoved \/ InspectFails
       PROVE  Used'
  <2>1. pass'.todo = pass.todo
    BY <1>0, <1>14 DEF InspectMerged, InspectAudited, InspectOther, AgentDone, AgentFails, SettleFirst,
          SettleStable, SettleMoved, InspectFails, Result, Look, Work, Again, Continue, Passed, Pass
  <2> QED
    BY <1>1, <1>11, <1>14, <2>1 DEF NoJobStep
<1>15. ASSUME NEW p \in Pr, NEW h \in Head, pulls'[p].state # "unused", pass'.todo = {<<p, h>>},
              Live' = Live
       PROVE  Used'
  <2>1. \A id \in Live : pulls'[id[1]].state # "unused"
    BY <1>0, StaysUsed DEF Used, Id
  <2> QED
    BY <1>15, <2>1 DEF Used
<1>16. ASSUME BeginWatch PROVE Used'
  <2>1. /\ \A id \in pass'.todo : id[1] \in Pr /\ pulls[id[1]].state # "unused"
        /\ pulls' = pulls /\ Live' = Live
    BY <1>11, <1>16 DEF BeginWatch, NoPass, github, NoJobStep, Pr
  <2> QED
    BY <2>1 DEF Used
<1>17. ASSUME NEW p \in Pr, BeginRun(p) PROVE Used'
  <2>1. Live' = Live /\ pulls' = pulls /\ pulls[p].state # "unused" /\ pulls[p].head \in Head
    BY <1>0, <1>11, <1>17, LooksTyped DEF BeginRun, github, NoJobStep, Others
  <2>2. pass'.todo \subseteq Live \/ pass'.todo = {<<p, pulls[p].head>>}
    BY <1>17 DEF BeginRun, NoPass, JobsOf
  <2> QED
    BY <1>2, <1>15, <2>1, <2>2
<1>18. ASSUME NEW p \in Pr, OpenPr(p) \/ Resume(p) PROVE Used'
  <2>1. Live' = Live /\ pass'.todo = {<<p, pulls[p].head>>} /\ pulls[p].head \in Head
    BY <1>0, <1>11, <1>18, LooksTyped DEF OpenPr, Resume, Enqueueing, NoPass, NoJobStep, Others
  <2>2. pulls'[p].state # "unused"
    BY <1>0, <1>18 DEF OpenPr, Resume, TypeOK, PullRequest
  <2> QED
    BY <1>15, <2>1, <2>2
<1>19. ASSUME Events \/ (\E p \in Pr : Checkpoint(p)) \/ UNCHANGED vars PROVE Used'
  <2>1. pass' = pass /\ Live' = Live
    BY <1>19 DEF Events, OpenSync, Push, Talk, Drift, Vet, Close, MergePr, Reopen, Promote, Elsewhere,
          Checkpoint, vars, files, Live
  <2> QED
    BY <1>2, <2>1
<1> QED
  BY <1>6, <1>7, <1>8, <1>9, <1>10, <1>12, <1>13, <1>14, <1>16, <1>17, <1>18, <1>19
     DEF Next, Step, EnqueueStep, PassStep, SkillStep, FaultStep, Clock, Others, Events

\* Between two passes nothing is kept in memory, and the pipeline does nothing but enqueue,
\* consolidate and record.
LEMMA NextPlaces ==
    ASSUME Typed, Places, [Next]_vars
    PROVE  Places'
<1>0. TypeOK /\ pass \in Pass /\ pc \in PC
  BY DEF Typed, TypeOK
<1>1. Used'
  BY NextUsed DEF Places
<1>2. ASSUME pc' # "idle", pass'.mode = "publish" => Publishing' PROVE Places'
  BY <1>1, <1>2 DEF Places, Between, Publishing
<1>3. ASSUME pass' = NoPass PROVE Places'
  BY <1>1, <1>3 DEF Places, Between, Publishing, NoPass
<1>4. ASSUME pass.mode # "publish", pass'.mode = pass.mode, pc' # "idle" PROVE Places'
  BY <1>2, <1>4
<1>5. ASSUME UNCHANGED <<pc, pass>> PROVE Places'
  BY <1>1, <1>5 DEF Places, Between, Publishing
<1>6. /\ pc \in Loops \cup Working => pass.mode # "publish"
      /\ pc = "sync" /\ pass.next # "remove" => pass.mode # "publish"
      /\ pc # "idle" => pass.mode # "none"
  BY DEF Places, Publishing, Loops, Working, Typed, Control
<1>7. /\ pass.mode = "publish" => EnqueuedOf(pass.mode) = "record"
      /\ EnqueuedOf(pass.mode) # "idle"
  BY DEF EnqueuedOf
<1>8. ASSUME NEW id \in pass.todo, Create(id) \/ Reuse(id) \/ Merge(id) PROVE Places'
  <2>1. CASE Create(id) \/ Reuse(id)
    <3>1. pc' = EnqueuedOf(pass.mode) /\ pass'.mode = pass.mode
      BY <1>0, <2>1 DEF Create, Reuse, Enqueued, Pass
    <3> QED
      BY <1>2, <1>7, <3>1 DEF Publishing
  <2>2. CASE Merge(id)
    <3>1. pc' = "sync" /\ pass'.next = "remove"
      BY <1>0, <2>2 DEF Merge, SyncThen, Pass
    <3> QED
      BY <1>2, <3>1 DEF Publishing
  <2> QED
    BY <1>8, <2>1, <2>2
<1>9. ASSUME Remove PROVE Places'
  <2>1. pc' = EnqueuedOf(pass.mode) /\ pass'.mode = pass.mode
    BY <1>0, <1>9 DEF Remove, Pass
  <2> QED
    BY <1>2, <1>7, <2>1 DEF Publishing
<1>10. ASSUME NEW id \in pass.todo,
             \/ TerminalMerged(id) \/ TerminalSkip(id) \/ ObserveFails(id) \/ ObserveClosed(id)
             \/ ObserveSame(id) \/ ObserveReactivate(id) \/ ExpireAbandoned(id) \/ Start(id)
       PROVE  Places'
  <2>1. pc \in Loops
    BY <1>10 DEF TerminalMerged, TerminalSkip, ObserveFails, ObserveClosed, ObserveSame,
          ObserveReactivate, ExpireAbandoned, Start, Visible, Turn, Loops
  <2>2. pass'.mode = pass.mode /\ pc' \in Loops \cup {"sync", "inspect"}
    BY <1>0, <1>10, <2>1 DEF TerminalMerged, TerminalSkip, ObserveFails, ObserveClosed, ObserveSame,
          ObserveReactivate, ExpireAbandoned, Start, Skip, SyncThen, After, Pass
  <2> QED
    BY <1>4, <1>6, <2>1, <2>2 DEF Loops
<1>11. ASSUME Finish PROVE Places'
  <2>1. pc \in Working /\ pass'.mode = pass.mode /\ pc' = "sync"
    BY <1>0, <1>11 DEF Finish, SyncThen, Pass, Working
  <2> QED
    BY <1>4, <1>6, <2>1
<1>12. ASSUME Sync PROVE Places'
  <2>1. CASE pass.next = "idle"
    BY <1>3, <1>12, <2>1 DEF Sync
  <2>2. CASE pass.next = "remove"
    BY <1>2, <1>12, <2>2 DEF Sync, Publishing
  <2>3. CASE pass.next \notin {"idle", "remove"}
    <3>1. pass' = [NoPass EXCEPT !.mode = pass.mode, !.todo = pass.todo, !.done = pass.done]
      BY <1>12, <2>3 DEF Sync
    <3>2. pass'.mode = pass.mode /\ pc' # "idle"
      BY <1>12, <2>3, <3>1 DEF NoPass, Sync
    <3> QED
      BY <1>4, <1>6, <1>12, <2>3, <3>2 DEF Sync
  <2> QED
    BY <2>1, <2>2, <2>3
<1>13. ASSUME Record \/ Crash \/ EndPass PROVE Places'
  BY <1>3, <1>13 DEF Record, Crash, EndPass
<1>14. ASSUME BeginTerminal \/ BeginObserve \/ BeginExpire \/ BeginStart \/ BeginWatch PROVE Places'
  <2>1. pass'.mode = "watch" /\ pc' # "idle"
    BY <1>14 DEF BeginTerminal, BeginObserve, BeginExpire, BeginStart, NextLoop, BeginWatch, NoPass
  <2> QED
    BY <1>2, <2>1
<1>15. ASSUME \/ InspectMerged \/ InspectAudited \/ InspectOther \/ AgentDone \/ AgentFails
              \/ SettleFirst \/ SettleStable \/ SettleMoved \/ InspectFails
       PROVE  Places'
  <2>1. pc \in Working
    BY <1>15 DEF InspectMerged, InspectAudited, InspectOther, Inspecting, AgentDone, AgentFails,
          SettleFirst, SettleStable, SettleMoved, InspectFails, Working
  <2>2. pass'.mode = pass.mode /\ pc' # "idle"
    BY <1>0, <1>15 DEF InspectMerged, InspectAudited, InspectOther, AgentDone, AgentFails, SettleFirst,
          SettleStable, SettleMoved, InspectFails, Result, Look, Work, Again, Continue, Passed, Pass
  <2> QED
    BY <1>4, <1>6, <2>1, <2>2
<1>16. ASSUME NEW p \in Pr, BeginRun(p) \/ OpenPr(p) \/ Resume(p) PROVE Places'
  <2>1. CASE BeginRun(p)
    <3>1. pass'.mode = "run" /\ pc' # "idle"
      BY <2>1 DEF BeginRun, NoPass
    <3> QED
      BY <1>2, <3>1
  <2>2. CASE OpenPr(p) \/ Resume(p)
    <3>1. pc' = "enqueue"
      BY <2>2 DEF OpenPr, Resume, Enqueueing
    <3> QED
      BY <1>2, <3>1 DEF Publishing
  <2> QED
    BY <1>16, <2>1, <2>2
<1>17. ASSUME Events \/ (\E p \in Pr : Checkpoint(p)) \/ UNCHANGED vars \/ Clock PROVE Places'
  <2>1. UNCHANGED <<pc, pass>>
    BY <1>17 DEF Events, OpenSync, Push, Talk, Drift, Vet, Close, MergePr, Reopen, Promote, Elsewhere,
          Checkpoint, vars, Clock, GoesStale
  <2> QED
    BY <1>5, <2>1
<1> QED
  BY <1>8, <1>9, <1>10, <1>11, <1>12, <1>13, <1>14, <1>15, <1>16, <1>17
     DEF Next, Step, EnqueueStep, PassStep, SkillStep, FaultStep, Others, Events

-----------------------------------------------------------------------------
(* Nothing that was given up goes unrecorded *)

\* A job comes into being, for the issue when the pipeline publishes.
LEMMA StoryCreate ==
    ASSUME Typed, Places, Story, NEW id \in pass.todo, Create(id)
    PROVE  Story'
<1>0. TypeOK /\ id \in Id /\ pass \in Pass /\ Live \subseteq Id
  BY TodoIds DEF Typed, TypeOK, Live
<1>1. /\ OneJob(id)
      /\ jobs'[id].status = "pending"
      /\ jobs'[id].issue => IssueKnown \/ (id \in Live /\ jobs[id].issue)
  BY <1>0, CreateWrites
<1>2. /\ pc = "enqueue" /\ saved' = saved
      /\ pc' = EnqueuedOf(pass.mode) /\ pass'.mode = pass.mode
  BY <1>0 DEF Create, Enqueued, Pass
<1>3. pc' \in {"enqueue", "start", "record"} /\ (pass.mode = "publish" => pc' = "record")
  BY <1>2 DEF EnqueuedOf
<1>4. Duplicates = {} /\ Duplicates' = {}
  BY <1>2, <1>3 DEF Duplicates
<1>5. /\ \A k \in Id \ {id} : OfIssue(k)' <=> OfIssue(k)
      /\ OfIssue(id)' => pass.mode = "publish" \/ OfIssue(id)
  BY <1>0, <1>1 DEF OneJob, OfIssue, IssueKnown
<1>6. pass.mode = "publish" => \A k \in Id : OfIssue(k) => k[1] # id[1]
  BY <1>2 DEF Story, Unpublished
<1>7. Sole'
  BY <1>4, <1>5, <1>6 DEF Story, Sole
<1>8. Unpublished'
  BY <1>2, <1>3, <1>5 DEF Story, Unpublished
<1>9. ASSUME NEW k \in Id, OfIssue(k)', GivenUp(k)' PROVE Told(k)'
  <2>1. k # id
    BY <1>1, <1>9 DEF GivenUp
  <2>2. jobs'[k] = jobs[k]
    BY <1>1, <2>1 DEF OneJob
  <2>3. OfIssue(k) /\ GivenUp(k)
    BY <1>5, <1>9, <2>1, <2>2 DEF GivenUp, HasBudget
  <2>4. Told(k)
    BY <1>2, <1>4, <2>3 DEF Story, GivenUpTold
  <2> QED
    BY <1>2, <2>4 DEF Told
<1> QED
  BY <1>7, <1>8, <1>9 DEF Story, GivenUpTold

\* The pipeline publishes a pull request without a job.
LEMMA StoryReuse ==
    ASSUME Typed, Story, NEW id \in pass.todo, Reuse(id)
    PROVE  Story'
<1>0. TypeOK /\ id \in Id /\ pass \in Pass
  BY TodoIds DEF Typed, TypeOK
<1>1. PICK j \in SameHead(id) : Sufficient(id, j) /\ Enqueued(id, j)
  BY DEF Reuse
<1>2. j \in Id /\ j \in Live /\ j[1] = id[1]
  BY DEF SameHead, JobsOf, Live
<1>3. pc = "enqueue" /\ UNCHANGED <<jobs, saved>>
  BY DEF Reuse, files
<1>4. pass.mode # "publish"
  BY <1>1, <1>2, <1>3 DEF Sufficient, IssueKnown, Story, Unpublished, OfIssue
<1>5. pass'.mode = pass.mode /\ pc' = EnqueuedOf(pass.mode)
  BY <1>0, <1>1 DEF Enqueued, Pass
<1>6. pc' \notin {"sync", "remove"}
  BY <1>5 DEF EnqueuedOf
<1> QED
  BY <1>3, <1>4, <1>5, <1>6, PlainStep

LEMMA StoryMerge ==
    ASSUME Typed, Places, Story, NEW id \in pass.todo, Merge(id)
    PROVE  Story'
<1>0. TypeOK /\ id \in Id /\ pass \in Pass /\ Live \subseteq Id
  BY TodoIds DEF Typed, TypeOK, Live
<1> DEFINE S == SameHead(id)
<1>1. PICK c \in S :
        /\ OneJob(c)
        /\ jobs'[c].issue => IssueKnown \/ \E j \in S : jobs[j].issue
        /\ jobs'[c].head = jobs[c].head
        /\ SyncThen(c, "remove", [pass EXCEPT !.todo = @ \ {id}])
  BY <1>0, MergeWrites
<1>2. /\ S \subseteq Live /\ c \in Live /\ c \in Id
      /\ \A k \in S : k[1] = id[1] /\ jobs[k].head = id[2]
      /\ \A k \in Live : k[1] = id[1] /\ jobs[k].head = id[2] => k \in S
  BY <1>0 DEF SameHead, JobsOf
<1>3. /\ pc = "enqueue" /\ saved' = saved /\ pc' = "sync"
      /\ pass'.job = c /\ pass'.next = "remove" /\ pass'.mode = pass.mode
  BY <1>0, <1>1 DEF Merge, SyncThen, Pass
<1>4. Live' = Live /\ \A k \in Id \ {c} : jobs'[k] = jobs[k]
  BY <1>1, <1>2 DEF OneJob
<1>5. Duplicates = {}
  BY <1>3 DEF Duplicates
<1>6. \A k \in S \ {c} : k \in Duplicates'
  <2>1. Duplicates' = {j \in Live' : j[1] = c[1] /\ jobs'[j].head = jobs'[c].head} \ {c}
    BY <1>3 DEF Duplicates, SameHead, JobsOf
  <2>2. \A k \in S \ {c} : k[1] = c[1] /\ jobs'[k].head = jobs'[c].head /\ k \in Live'
    BY <1>0, <1>1, <1>2, <1>4
  <2> QED
    BY <2>1, <2>2
<1>7. /\ \A k \in Id \ {c} : OfIssue(k)' <=> OfIssue(k)
      /\ OfIssue(c)' => pass.mode = "publish" \/ \E j \in S : OfIssue(j)
  BY <1>1, <1>2, <1>4 DEF OfIssue, IssueKnown
<1> HIDE DEF S
<1>8. pass.mode = "publish" => \A k \in Id : OfIssue(k) => k[1] # id[1]
  BY <1>3 DEF Story, Unpublished
<1>9. \A k, j \in Id : OfIssue(k) /\ OfIssue(j) /\ k[1] = j[1] => k = j
  BY <1>5 DEF Story, Sole
<1>10. ASSUME NEW k \in Id, OfIssue(k)', OfIssue(c)', k[1] = c[1], k # c PROVE k \in Duplicates'
  <2>1. OfIssue(k) /\ k[1] = id[1]
    BY <1>2, <1>7, <1>10
  <2>2. PICK j \in S : OfIssue(j)
    BY <1>7, <1>8, <1>10, <2>1
  <2>3. k = j
    BY <1>0, <1>2, <1>9, <2>1, <2>2
  <2> QED
    BY <1>6, <1>10, <2>3
<1>11. Sole'
  BY <1>5, <1>7, <1>9, <1>10 DEF Sole
<1>12. Unpublished'
  <2>1. ASSUME saved.phase = "failed", NEW k \in Id, OfIssue(k)', k[1] = saved.pr
        PROVE  pass.mode = "publish"
    <3>1. CASE OfIssue(k)
      BY <1>3, <2>1, <3>1 DEF Story, Unpublished
    <3>2. CASE ~OfIssue(k) /\ pass.mode # "publish"
      <4>1. PICK j \in S : OfIssue(j) /\ k = c
        BY <1>7, <2>1, <3>2
      <4>2. j \in Id /\ j[1] = saved.pr
        BY <1>0, <1>2, <2>1, <4>1
      <4> QED
        BY <1>3, <2>1, <4>1, <4>2 DEF Story, Unpublished
    <3> QED
      BY <3>1, <3>2
  <2> QED
    BY <1>3, <2>1 DEF Unpublished
<1>13. ASSUME NEW k \in Id, OfIssue(k)', GivenUp(k)', k # c PROVE Told(k)'
  <2>1. OfIssue(k) /\ GivenUp(k)
    BY <1>4, <1>7, <1>13 DEF GivenUp, HasBudget
  <2>2. Told(k)
    BY <1>3, <1>5, <2>1 DEF Story, GivenUpTold
  <2> QED
    BY <1>3, <2>2 DEF Told
<1> QED
  BY <1>3, <1>11, <1>12, <1>13 DEF Story, GivenUpTold

LEMMA StoryRemove ==
    ASSUME Typed, Story, Remove
    PROVE  Story'
<1>0. TypeOK /\ pass \in Pass /\ Live \subseteq Id
  BY DEF Typed, TypeOK, Live
<1>1. /\ pc = "remove" /\ saved' = saved /\ Forget(Duplicates)
      /\ pc' = EnqueuedOf(pass.mode) /\ pass'.mode = pass.mode
  BY <1>0 DEF Remove, Duplicates, Pass
<1>2. Duplicates \in SUBSET Id
  BY <1>1 DEF Duplicates, SameHead, JobsOf, Live
<1>3. Live' = Live \ Duplicates /\ \A j \in Id \ Duplicates : jobs'[j] = jobs[j]
  BY <1>0, <1>1, <1>2, FilesTyped, ForgetFiles
<1>4. pc' \in {"enqueue", "start", "record"} /\ (pass.mode = "publish" => pc' = "record")
  BY <1>1 DEF EnqueuedOf
<1>5. Duplicates' = {}
  BY <1>4 DEF Duplicates
<1>6. \A k \in Id : OfIssue(k)' => OfIssue(k) /\ k \notin Duplicates /\ jobs'[k] = jobs[k]
  BY <1>0, <1>3 DEF OfIssue
<1>7. Sole'
  BY <1>6 DEF Story, Sole
<1>8. Unpublished'
  BY <1>1, <1>4, <1>6 DEF Story, Unpublished
<1>9. ASSUME NEW k \in Id, OfIssue(k)', GivenUp(k)' PROVE Told(k)'
  <2>1. OfIssue(k) /\ GivenUp(k) /\ k \notin Duplicates
    BY <1>6, <1>9 DEF GivenUp, HasBudget
  <2>2. Told(k)
    BY <1>1, <2>1 DEF Story, GivenUpTold
  <2> QED
    BY <1>1, <2>2 DEF Told
<1> QED
  BY <1>7, <1>8, <1>9 DEF Story, GivenUpTold

\* The sync of a job tells what was given up of it, or it is about another pull request.
LEMMA StorySync ==
    ASSUME Typed, Places, Story, Sync
    PROVE  Story'
<1>0. /\ TypeOK /\ pass \in Pass /\ Live \subseteq Id /\ saved \in Saved
      /\ pass.job \in Live /\ pass.job \in Id
      /\ pass.next \in Loops \cup {"remove", "idle"}
  BY DEF Typed, TypeOK, Live, Sync, Control
<1>1. pc = "sync" /\ jobs' = jobs /\ pc' = pass.next
  BY DEF Sync
<1> DEFINE j == pass.job
<1>2. Live' = Live /\ \A k \in Id : OfIssue(k)' <=> OfIssue(k)
  BY <1>1 DEF Live, OfIssue
<1>3. Duplicates' = Duplicates /\ j \notin Duplicates
  <2>1. CASE pass.next = "remove"
    <3>1. pass' = pass
      BY <2>1 DEF Sync
    <3> QED
      BY <1>1, <1>2, <2>1, <3>1 DEF Duplicates, SameHead, JobsOf
  <2>2. CASE pass.next # "remove"
    BY <1>0, <1>1, <2>2 DEF Duplicates, Loops
  <2> QED
    BY <2>1, <2>2
<1>4. Sole'
  BY <1>2, <1>3 DEF Story, Sole
<1>5. jobs[j].issue => /\ saved' = [phase |-> PhaseOf(jobs[j].status), pr |-> j[1]]
                       /\ j[1] \in IssuePr /\ OfIssue(j)
  BY <1>0 DEF Sync, Typed, JobsOfIssue, OfIssue
<1>6. ~jobs[j].issue => saved' = saved
  BY DEF Sync
<1>7. Unpublished'
  <2>1. pc' # "enqueue"
    BY <1>0, <1>1 DEF Loops
  <2>2. saved'.phase = "failed" => ~jobs[j].issue
    BY <1>5 DEF PhaseOf
  <2>3. ASSUME saved'.phase = "failed", NEW k \in Id, OfIssue(k), k[1] = saved'.pr
        PROVE  pass'.mode = "publish"
    <3>1. pass.mode = "publish"
      BY <1>6, <2>2, <2>3 DEF Story, Unpublished
    <3>2. pass' = pass
      BY <1>1, <3>1 DEF Places, Publishing, Sync
    <3> QED
      BY <3>1, <3>2
  <2> QED
    BY <1>2, <2>1, <2>3 DEF Unpublished
<1>8. ASSUME NEW k \in Id, OfIssue(k), GivenUp(k) PROVE Told(k)' \/ k \in Duplicates
  <2>1. CASE jobs[j].issue /\ k = j
    <3>1. PhaseOf(jobs[j].status) = "guardian"
      BY <1>8, <2>1 DEF GivenUp, PhaseOf
    <3> QED
      BY <1>5, <2>1, <3>1 DEF Told
  <2>2. CASE jobs[j].issue /\ k # j /\ k[1] = j[1]
    BY <1>0, <1>3, <1>5, <1>8, <2>2 DEF Story, Sole
  <2>3. CASE jobs[j].issue /\ k[1] # j[1]
    <3>1. saved'.pr = j[1]
      BY <1>5, <2>3
    <3> QED
      BY <1>5, <2>3, <3>1 DEF Told
  <2>4. CASE ~jobs[j].issue
    <3>1. k # j
      BY <1>8, <2>4 DEF OfIssue
    <3>2. Told(k) \/ k \in Duplicates
      BY <1>8, <3>1 DEF Story, GivenUpTold
    <3> QED
      BY <1>6, <2>4, <3>2 DEF Told
  <2> QED
    BY <2>1, <2>2, <2>3, <2>4
<1>9. \A k \in Id : GivenUp(k)' <=> GivenUp(k)
  BY <1>1 DEF GivenUp, HasBudget
<1>10. GivenUpTold'
  BY <1>2, <1>3, <1>8, <1>9 DEF GivenUpTold
<1> QED
  BY <1>4, <1>7, <1>10 DEF Story

LEMMA StoryGoesStale ==
    ASSUME Typed, Story, NEW w \in Id, GoesStale(w)
    PROVE  Story'
<1>1. /\ w \in Live /\ UNCHANGED <<saved, pc, pass>>
      /\ jobs' = [jobs EXCEPT ![w] = [jobs[w] EXCEPT !.status = "stale"]]
  BY DEF GoesStale, Amend, Live
<1>2. /\ jobs \in [Id -> Job \cup {NoJob}] /\ jobs[w] \in Job
  BY <1>1, JobFields DEF Typed, TypeOK
<1> DEFINE job == [jobs[w] EXCEPT !.status = "stale"]
<1>3. job.head = jobs[w].head /\ job.issue = jobs[w].issue /\ job.status = "stale"
  BY <1>2 DEF Job
<1>4. jobs'[w] = job /\ \A k \in Id \ {w} : jobs'[k] = jobs[k]
  BY <1>1, <1>2
<1> HIDE DEF job
<1>5. Live' = Live
  BY <1>1, <1>3, <1>4 DEF Live
<1>6. \A k \in Live : jobs'[k].head = jobs[k].head /\ jobs'[k].issue = jobs[k].issue
  BY <1>3, <1>4 DEF Live
<1>7. Duplicates' = Duplicates
  <2>1. CASE pc = "remove" \/ (pc = "sync" /\ pass.next = "remove")
    <3>1. pass.job \in Live
      BY <2>1 DEF Typed, Control
    <3>2. SameHead(<<pass.job[1], jobs[pass.job].head>>)'
            = SameHead(<<pass.job[1], jobs[pass.job].head>>)
      BY <1>1, <1>5, <1>6, <3>1 DEF SameHead, JobsOf
    <3> QED
      BY <1>1, <2>1, <3>2 DEF Duplicates
  <2>2. CASE ~(pc = "remove" \/ (pc = "sync" /\ pass.next = "remove"))
    BY <1>1, <2>2 DEF Duplicates
  <2> QED
    BY <2>1, <2>2
<1>8. \A k \in Id : OfIssue(k)' <=> OfIssue(k)
  BY <1>5, <1>6 DEF OfIssue
<1>9. \A k \in Id : GivenUp(k)' => GivenUp(k)
  BY <1>3, <1>4 DEF GivenUp, HasBudget
<1>10. \A k \in Id : Told(k)' <=> Told(k)
  BY <1>1 DEF Told
<1> QED
  BY <1>1, <1>7, <1>8, <1>9, <1>10 DEF Story, Sole, Unpublished, GivenUpTold

\* A pass that takes a job from a loop, or ends one.
LEMMA StoryJob ==
    ASSUME Typed, Places, Story, NEW id \in pass.todo,
           \/ TerminalMerged(id) \/ TerminalSkip(id) \/ ObserveFails(id) \/ ObserveClosed(id)
           \/ ObserveSame(id) \/ ObserveReactivate(id) \/ ExpireAbandoned(id) \/ Start(id)
    PROVE  Story'
<1>0. TypeOK /\ pass \in Pass /\ After(id) \in Pass /\ After(id).mode = pass.mode
  BY DEF Typed, TypeOK, After, Pass
<1>1. pc \in Loops /\ saved' = saved
  BY DEF TerminalMerged, TerminalSkip, ObserveFails, ObserveClosed, ObserveSame,
         ObserveReactivate, ExpireAbandoned, Start, Visible, Turn, Loops, files
<1>2. id \in Live /\ pass.mode # "publish" /\ pc \notin {"sync", "remove"}
  BY <1>1 DEF Typed, Control, Places, Publishing, Loops
<1>3. ASSUME Skip(id) PROVE pc' = pc /\ pass'.mode # "publish"
  BY <1>0, <1>2, <1>3 DEF Skip
<1>4. CASE TerminalSkip(id) \/ ObserveFails(id)
  <2>1. Skip(id) /\ UNCHANGED <<jobs, saved>>
    BY <1>4 DEF TerminalSkip, ObserveFails, files
  <2> QED
    BY <1>2, <1>3, <2>1, PlainStep
<1>5. CASE TerminalMerged(id)
  <2>1. OneJob(id) /\ jobs'[id].status = "success" /\ jobs'[id].issue = jobs[id].issue
    BY <1>0, <1>2, <1>5, TerminalMergedWrites
  <2>2. pc' = "sync" /\ pass'.job = id /\ pass'.next = "terminal" /\ pass'.mode = pass.mode
    BY <1>0, <1>5 DEF TerminalMerged, SyncThen, Pass
  <2> QED
    BY <1>1, <1>2, <2>1, <2>2, WriteStep
<1>6. CASE ObserveClosed(id) \/ ObserveSame(id)
  <2>1. /\ OneJob(id) /\ jobs'[id].status = jobs[id].status /\ jobs'[id].issue = jobs[id].issue
        /\ jobs'[id].attempts = jobs[id].attempts
    BY <1>0, <1>2, <1>6, ObserveClosedWrites, ObserveSameWrites
  <2>2. Skip(id) /\ (GivenUp(id)' => GivenUp(id))
    BY <1>6, <2>1 DEF ObserveClosed, ObserveSame, GivenUp, HasBudget
  <2> QED
    BY <1>1, <1>2, <1>3, <2>1, <2>2, WriteStep
<1>7. CASE ObserveReactivate(id)
  <2>1. /\ OneJob(id) /\ jobs'[id].issue = jobs[id].issue
        /\ jobs'[id].status = IF HasBudget(id) THEN "pending" ELSE "blocked"
    BY <1>0, <1>2, <1>7, ObserveReactivateWrites
  <2>2. CASE HasBudget(id)
    <3>1. Skip(id) /\ ~GivenUp(id)'
      BY <1>7, <2>1, <2>2 DEF ObserveReactivate, GivenUp
    <3> QED
      BY <1>1, <1>2, <1>3, <2>1, <3>1, WriteStep
  <2>3. CASE ~HasBudget(id)
    <3>1. pc' = "sync" /\ pass' = [After(id) EXCEPT !.job = id, !.next = "observe"]
      BY <1>7, <2>3 DEF ObserveReactivate, SyncThen
    <3>2. pass'.job = id /\ pass'.next = "observe" /\ pass'.mode = pass.mode
      BY <1>0, <3>1 DEF Pass
    <3> QED
      BY <1>1, <1>2, <2>1, <3>1, <3>2, WriteStep
  <2> QED
    BY <2>2, <2>3
<1>8. CASE ExpireAbandoned(id)
  <2>1. OneJob(id) /\ jobs'[id].issue = jobs[id].issue
    BY <1>0, <1>2, <1>8, OtherStatusWrites
  <2>2. pc' = "sync" /\ pass' = [After(id) EXCEPT !.job = id, !.next = "expire"]
    BY <1>8 DEF ExpireAbandoned, SyncThen
  <2>3. pass'.job = id /\ pass'.next = "expire" /\ pass'.mode = pass.mode
    BY <1>0, <2>2 DEF Pass
  <2> QED
    BY <1>1, <1>2, <2>1, <2>2, <2>3, WriteStep
<1>9. CASE Start(id)
  <2>1. OneJob(id) /\ jobs'[id].issue = jobs[id].issue
    BY <1>0, <1>2, <1>9, OtherStatusWrites
  <2>2. jobs'[id].status = "running"
    <3>1. jobs' = [jobs EXCEPT ![id] = [jobs[id] EXCEPT !.status = "running", !.attempts = @ + 1]]
      BY <1>9 DEF Start, Stamp
    <3>2. jobs'[id] = [jobs[id] EXCEPT !.status = "running", !.attempts = @ + 1]
      BY <1>0, <1>2, <3>1, JobFields DEF TypeOK
    <3>3. [jobs[id] EXCEPT !.status = "running", !.attempts = @ + 1].status = "running"
      BY <1>0, <1>2, JobFields DEF Job
    <3> QED
      BY <3>2, <3>3
  <2>3. pc' = "inspect" /\ pass' = [After(id) EXCEPT !.job = id, !.attempt = 0]
    BY <1>9 DEF Start
  <2>4. pass'.mode = pass.mode /\ ~GivenUp(id)'
    BY <1>0, <2>2, <2>3 DEF Pass, GivenUp
  <2> QED
    BY <1>1, <1>2, <2>1, <2>3, <2>4, WriteStep
<1> QED
  BY <1>4, <1>5, <1>6, <1>7, <1>8, <1>9

LEMMA StoryFinish ==
    ASSUME Typed, Places, Story, Finish
    PROVE  Story'
<1>0. TypeOK /\ pass \in Pass
  BY DEF Typed, TypeOK
<1>1. /\ pc = "finish" /\ saved' = saved /\ pc' = "sync"
      /\ pass' = [pass EXCEPT !.job = pass.job, !.next = IF pass.mode = "watch" THEN "start" ELSE "idle"]
  BY DEF Finish, SyncThen
<1>2. pass'.job = pass.job /\ pass'.next \in {"start", "idle"} /\ pass'.mode = pass.mode
  BY <1>0, <1>1 DEF Pass
<1>3. pass.job \in Live /\ pass.mode # "publish"
  BY <1>1 DEF Typed, Control, Places, Publishing, Working
<1>4. OneJob(pass.job) /\ jobs'[pass.job].issue = jobs[pass.job].issue
  BY <1>0, <1>3, OtherStatusWrites, SuccessWrites
<1>5. \A w \in Live : w = pass.job /\ OneJob(w) /\ jobs'[w].issue = jobs[w].issue => Story'
  BY <1>1, <1>2, <1>3, WriteStep
<1> QED
  BY <1>3, <1>4, <1>5

LEMMA StoryRecord ==
    ASSUME Typed, Story, Record
    PROVE  Story'
<1>1. /\ pc = "record" /\ pc' = "idle" /\ jobs' = jobs /\ pass.job[1] \in IssuePr
      /\ saved' = [phase |-> "guardian", pr |-> pass.job[1]]
  BY DEF Record, Typed, Control, PassOfIssue
<1>2. Duplicates = {} /\ Duplicates' = {} /\ Live' = Live
  BY <1>1 DEF Duplicates, Live
<1>3. \A k \in Id : Told(k)'
  BY <1>1 DEF Told
<1> QED
  BY <1>1, <1>2, <1>3 DEF Story, Sole, Unpublished, GivenUpTold, OfIssue

\* The pipeline opens a pull request or takes up a checkpoint: neither has a job.
LEMMA StoryPublish ==
    ASSUME Typed, Places, Story, NEW p \in Pr, OpenPr(p) \/ Resume(p) \/ Checkpoint(p)
    PROVE  Story'
<1>1. pc = "idle" /\ pass = NoPass /\ pass.mode = "none" /\ jobs' = jobs
  BY DEF OpenPr, Resume, Checkpoint, files, Places, Between, NoPass
<1>2. pc' \in {"idle", "enqueue"}
  BY <1>1 DEF OpenPr, Resume, Checkpoint, Enqueueing
<1>3. Duplicates = {} /\ Duplicates' = {} /\ Live' = Live
  BY <1>1, <1>2 DEF Duplicates, Live
<1>4. \A k \in Id : OfIssue(k) => k[1] # p
  <2>1. CASE OpenPr(p) \/ Checkpoint(p)
    BY <2>1 DEF OpenPr, Checkpoint, Opens, Places, Used, OfIssue
  <2>2. CASE Resume(p)
    BY <1>1, <2>2 DEF Resume, Story, Unpublished
  <2> QED
    BY <2>1, <2>2
<1>5. \A k \in Id : (OfIssue(k)' <=> OfIssue(k)) /\ (GivenUp(k)' <=> GivenUp(k))
  BY <1>1, <1>3 DEF OfIssue, GivenUp, HasBudget
<1>6. Sole'
  BY <1>3, <1>5 DEF Story, Sole
<1>7. CASE OpenPr(p) \/ Resume(p)
  <2>0. PICK h \in {pulls[p].head} :
          /\ pc' = "enqueue" /\ saved' = saved
          /\ pass' = [NoPass EXCEPT !.mode = "publish", !.todo = {<<p, h>>}]
    BY <1>7 DEF OpenPr, Resume, Enqueueing, files
  <2>1. pc' = "enqueue" /\ pass'.mode = "publish" /\ (\A k \in pass'.todo : k[1] = p) /\ saved' = saved
    BY <2>0 DEF NoPass
  <2>2. Unpublished'
    BY <1>1, <1>4, <1>5, <2>1 DEF Story, Unpublished
  <2>3. GivenUpTold'
    BY <1>1, <1>3, <1>5, <2>1 DEF Story, GivenUpTold, Told
  <2> QED
    BY <1>6, <2>2, <2>3 DEF Story
<1>8. CASE Checkpoint(p)
  <2>1. pc' = "idle" /\ pass' = pass /\ saved' = [phase |-> "failed", pr |-> p] /\ p \in IssuePr
    BY <1>8 DEF Checkpoint
  <2>2. Unpublished'
    BY <1>1, <1>4, <1>5, <2>1 DEF Unpublished
  <2>3. \A k \in Id : OfIssue(k) => Told(k)'
    BY <1>4, <2>1 DEF Told
  <2>4. GivenUpTold'
    BY <1>5, <2>3 DEF GivenUpTold
  <2> QED
    BY <1>6, <2>2, <2>4 DEF Story
<1> QED
  BY <1>7, <1>8

LEMMA NextStory ==
    ASSUME Typed, Places, Story, [Next]_vars, ~Crash
    PROVE  Story'
<1>0. TypeOK /\ pass \in Pass
  BY DEF Typed, TypeOK
<1>1. CASE EnqueueStep \/ Sync \/ Record \/ Clock \/ Finish
  BY <1>1, StoryCreate, StoryReuse, StoryMerge, StoryRemove, StorySync, StoryRecord, StoryGoesStale,
     StoryFinish DEF EnqueueStep, Clock
<1>2. CASE \E id \in pass.todo :
             \/ TerminalMerged(id) \/ TerminalSkip(id) \/ ObserveFails(id) \/ ObserveClosed(id)
             \/ ObserveSame(id) \/ ObserveReactivate(id) \/ ExpireAbandoned(id) \/ Start(id)
  BY <1>2, StoryJob
<1>3. CASE BeginTerminal \/ BeginObserve \/ BeginExpire \/ BeginStart \/ EndPass
  <2>1. /\ UNCHANGED <<jobs, saved>>
        /\ pc \in Loops \/ (pc = "enqueue" /\ pass.mode = "watch")
        /\ pc' \in Loops \cup {"idle"}
    BY <1>3 DEF BeginTerminal, BeginObserve, BeginExpire, BeginStart, NextLoop, EndPass, Loops, files
  <2>3. pass'.mode # "publish"
    <3>1. CASE EndPass
      BY <3>1 DEF EndPass, NoPass
    <3>2. CASE ~EndPass
      <4>1. pass'.mode = "watch"
        BY <1>3, <3>2 DEF BeginTerminal, BeginObserve, BeginExpire, BeginStart, NextLoop, NoPass
      <4> QED
        BY <4>1
    <3> QED
      BY <3>1, <3>2
  <2>2. pass.mode # "publish"
    BY <2>1 DEF Places, Publishing, Loops
  <2> QED
    BY <2>1, <2>2, <2>3, PlainStep DEF Loops
<1>4. CASE BeginWatch \/ \E p \in Pr : BeginRun(p)
  <2>1. /\ UNCHANGED <<jobs, saved>> /\ pc = "idle"
        /\ pc' \in {"enqueue", "start"} /\ pass'.mode # "publish"
    BY <1>4 DEF BeginWatch, BeginRun, NoPass, files
  <2>2. pass.mode # "publish"
    BY <2>1 DEF Places, Publishing
  <2> QED
    BY <2>1, <2>2, PlainStep
<1>5. CASE \/ InspectMerged \/ InspectAudited \/ InspectOther \/ AgentDone \/ AgentFails
           \/ SettleFirst \/ SettleStable \/ SettleMoved \/ InspectFails
  <2>1. pc \in Working /\ UNCHANGED <<jobs, saved>>
    BY <1>5 DEF InspectMerged, InspectAudited, InspectOther, Inspecting, AgentDone, AgentFails,
          SettleFirst, SettleStable, SettleMoved, InspectFails, Working,
          Result, Look, Work, Again, Continue, files
  <2>2. pass'.mode = pass.mode /\ pc' \in Working
    BY <1>0, <1>5 DEF InspectMerged, InspectAudited, InspectOther, AgentDone, AgentFails, SettleFirst,
          SettleStable, SettleMoved, InspectFails, Result, Look, Work, Again, Continue, Passed, Pass,
          Working
  <2>3. pass.mode # "publish"
    BY <2>1 DEF Places, Publishing, Working
  <2> QED
    BY <2>1, <2>2, <2>3, PlainStep DEF Working
<1>6. CASE \E p \in Pr : OpenPr(p) \/ Resume(p) \/ Checkpoint(p)
  BY <1>6, StoryPublish
<1>7. CASE Events \/ UNCHANGED vars
  <2>1. UNCHANGED <<jobs, saved, pc, pass>>
    BY <1>7 DEF Events, OpenSync, Push, Talk, Drift, Vet, Close, MergePr, Reopen, Promote, Elsewhere,
          vars, files
  <2>2. Duplicates' = Duplicates /\ Live' = Live
    BY <2>1 DEF Duplicates, SameHead, JobsOf, Live
  <2> QED
    BY <2>1, <2>2 DEF Story, Sole, Unpublished, GivenUpTold, OfIssue, GivenUp, HasBudget, Told
<1> QED
  BY <1>1, <1>2, <1>3, <1>4, <1>5, <1>6, <1>7
     DEF Next, Step, PassStep, SkillStep, FaultStep, Others, Events

\* When the guardian has given up a pull request of the issue and no process died, the
\* implementation state says so, or it is about another pull request of the issue by
\* then, for any number of either.
THEOREM GivenUpIsTold == Safety => []GivenUpIsRecorded
<1> DEFINE I == Typed /\ Places /\ (Calm => Story)
<1>1. Init => I
  <2> SUFFICES ASSUME Init PROVE I
    OBVIOUS
  <2>1. Live = {} /\ pc = "idle" /\ pass = NoPass /\ saved.phase = "none"
    BY DEF Init, Live, NoJob
  <2>2. Places
    BY <2>1 DEF Places, Used, Between, Publishing, NoPass
  <2>3. Story
    BY <2>1 DEF Story, Sole, Unpublished, GivenUpTold, OfIssue
  <2> QED
    BY <2>2, <2>3, InitTyped
<1>2. I /\ [Next]_vars => I'
  BY NextTyped, NextPlaces, NextStory, CalmBefore
<1>3. I => GivenUpIsRecorded
  <2> SUFFICES ASSUME Story, pc = "idle",
                      NEW id \in Exhausted, jobs[id].status = "blocked", jobs[id].issue
               PROVE  Told(id)
    BY DEF GivenUpIsRecorded, Told
  <2>1. id \in Id /\ OfIssue(id) /\ GivenUp(id)
    BY DEF Exhausted, Live, OfIssue, GivenUp
  <2>2. Duplicates = {}
    BY DEF Duplicates
  <2> QED
    BY <2>1, <2>2 DEF Story, GivenUpTold
<1> HIDE DEF I
<1> QED
  BY <1>1, <1>2, <1>3, PTL DEF Safety
=============================================================================
