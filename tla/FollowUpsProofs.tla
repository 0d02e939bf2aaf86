--------------------------- MODULE FollowUpsProofs ---------------------------
(***************************************************************************)
(* Proofs about FollowUps, for any number of workers, repositories, labels *)
(* and runs, any reports, and any issues that people have filed before.    *)
(*                                                                         *)
(* None of the three properties is inductive.  That an issue is filed once *)
(* needs that what a worker has filed is among its keys and what it is     *)
(* about to file is not; that its labels are the ones it needs, that the   *)
(* labels in hand are; that a bug has one issue, that what the last look   *)
(* left unrecognized stays so, and that whatever came after it was filed   *)
(* by a run.                                                               *)
(***************************************************************************)
EXTENDS FollowUps, TLAPS, SequenceTheorems

Asking == {"marker", "title", "list", "create"}
Busy == Asking \cup {"repair", "edit"}

TaskRecord == [report : Report \cup {Nothing}, repo : Repo \cup {Nothing}, labels : SUBSET Label,
               found : Nat, seen : Nat]

KeyRecord == Repo \X (Title \cup (Evidence \X BOOLEAN))

WorkRecord == [at : {"build", "pick"} \cup Busy, round : Nat, todo : SUBSET Report,
               task : TaskRecord, keys : SUBSET KeyRecord]

Typed == /\ issues \in Seq(IssueRecord)
         /\ worker \in [Worker -> WorkRecord]
         /\ run \in Nat

(* Labels that a follow-up issue may have. *)
Allowed(labels) == Required \subseteq labels /\ (Auth \in labels => Auth \in Required)

(* What a worker has in hand: a report for a repository, the issue it found *)
(* or created, a key that was not filed, labels, and the result of its last *)
(* look.                                                                    *)
Subjected(w) == worker[w].at \in Busy => Subject(w) \in Report /\ Task(w).repo \in Repo
Pointed(w) == worker[w].at \in {"repair", "edit"} => Task(w).found \in DOMAIN issues
Unfiled(w) == worker[w].at \in Asking => Key(Subject(w), Task(w).repo) \notin worker[w].keys
Labelled(w) == worker[w].at = "create" => Allowed(Task(w).labels)
Looked(w) ==
    worker[w].at = "create" =>
        /\ Task(w).seen <= Len(issues)
        /\ \A n \in DOMAIN issues :
               IF n <= Task(w).seen
               THEN issues[n].open /\ issues[n].repo = Task(w).repo => ~Listed(n, Subject(w))
               ELSE issues[n].by[1] \in Worker

InHand(w) == Subjected(w) /\ Pointed(w) /\ Unfiled(w) /\ Labelled(w) /\ Looked(w)

(* What a run has filed. *)
Signed == \A n \in DOMAIN issues :
              issues[n].by[1] \in Worker =>
                  /\ issues[n].by[2] <= run
                  /\ Allowed(issues[n].labels)
                  /\ issues[n].marker = Nothing => issues[n].evidence = Nothing

Noted == \A n \in DOMAIN issues : \A w \in Worker :
             issues[n].by = <<w, run>> /\ ~issues[n].lost => IssueKey(n) \in worker[w].keys

(* What becomes of an issue: people close it, it is repaired. *)
Kept(n) == /\ issues'[n].repo = issues[n].repo /\ issues'[n].title = issues[n].title
           /\ issues'[n].marker = issues[n].marker /\ issues'[n].evidence = issues[n].evidence
           /\ issues'[n].labels = issues[n].labels /\ issues'[n].by = issues[n].by
           /\ issues'[n].lost = issues[n].lost /\ issues'[n].blind = issues[n].blind
           /\ issues'[n].open => issues[n].open

AllKept == Len(issues') = Len(issues) /\ \A n \in DOMAIN issues : Kept(n)

(* And where one comes from. *)
Files(w, lost) == At(w, "create") /\ issues' = Append(issues, NewIssue(w, lost))

-----------------------------------------------------------------------------
(* The identity of reports. *)
LEMMA ReportTyped ==
    ASSUME NEW r \in Report
    PROVE  /\ r \in Reports
           /\ Marker(r) \in (Evidence \X BOOLEAN) \cup {Nothing}
           /\ Marker(r) = Nothing <=> r.evidence = Nothing
           /\ Targets(r) \subseteq Repo
           /\ \A repo \in Repo : Key(r, repo) \in KeyRecord
<1>1. r \in Reports /\ Nothing \notin Evidence \X BOOLEAN
  BY FollowUpAssumption DEF FollowUpAssumption
<1>2. r.evidence \in Evidence \cup {Nothing} /\ r.class \in BOOLEAN /\ r.repo \in Repo \cup {Nothing} /\ r.title \in Title
  BY <1>1 DEF Reports
<1>3. /\ Marker(r) \in (Evidence \X BOOLEAN) \cup {Nothing}
      /\ Marker(r) = Nothing <=> r.evidence = Nothing
  BY <1>1, <1>2 DEF Marker
<1>4. Targets(r) \subseteq Repo
  BY <1>2, FollowUpAssumption DEF FollowUpAssumption, Targets, Inferred, Reported
<1>5. \A repo \in Repo : Key(r, repo) \in KeyRecord
  BY <1>2, <1>3 DEF Key, KeyRecord
<1> QED
  BY <1>1, <1>3, <1>4, <1>5

(* The issue a worker writes. *)
LEMMA NewIssueTyped ==
    ASSUME Typed, NEW w \in Worker, At(w, "create"), Subjected(w), NEW lost \in BOOLEAN
    PROVE  NewIssue(w, lost) \in IssueRecord
<1>1. Subject(w) \in Reports /\ Task(w).repo \in Repo
      /\ Marker(Subject(w)) \in (Evidence \X BOOLEAN) \cup {Nothing}
  BY ReportTyped DEF At, Subjected, Busy, Asking
<1>2. Task(w).labels \in SUBSET Label /\ run \in Nat
  BY DEF Typed, WorkRecord, TaskRecord, Task
<1>3. Blind(w) \in BOOLEAN
  BY DEF Blind
<1> QED
  BY <1>1, <1>2, <1>3 DEF NewIssue, IssueRecord, Reports

(* A single issue is changed. *)
LEMMA ChangeTyped ==
    ASSUME Typed, NEW n \in DOMAIN issues
    PROVE  /\ issues' = [issues EXCEPT ![n].linked = TRUE] => issues' \in Seq(IssueRecord) /\ AllKept
           /\ issues' = [issues EXCEPT ![n].open = FALSE] => issues' \in Seq(IssueRecord) /\ AllKept
<1>1. n \in 1 .. Len(issues) /\ issues \in Seq(IssueRecord) /\ DOMAIN issues = 1 .. Len(issues)
  BY DEF Typed
<1>2. ASSUME NEW e \in IssueRecord, issues' = [issues EXCEPT ![n] = e],
             e \in {[issues[n] EXCEPT !.linked = TRUE], [issues[n] EXCEPT !.open = FALSE]}
      PROVE  issues' \in Seq(IssueRecord) /\ AllKept
  <2>1. /\ issues' \in Seq(IssueRecord) /\ Len(issues') = Len(issues)
        /\ \A j \in 1 .. Len(issues) : issues'[j] = IF j = n THEN e ELSE issues[j]
    BY <1>1, <1>2, ExceptSeq
  <2>2. \A j \in 1 .. Len(issues) : issues[j] \in IssueRecord
    BY <1>1
  <2>3. \A j \in DOMAIN issues : Kept(j)
    BY <1>1, <1>2, <2>1, <2>2 DEF Kept, IssueRecord
  <2> QED
    BY <2>1, <2>3 DEF AllKept
<1>3. issues[n] \in IssueRecord
  BY <1>1
<1>4. [issues[n] EXCEPT !.linked = TRUE] \in IssueRecord /\ [issues[n] EXCEPT !.open = FALSE] \in IssueRecord
  BY <1>3 DEF IssueRecord
<1> QED
  BY <1>2, <1>4

(* An issue is added at the end. *)
LEMMA FilesTyped ==
    ASSUME Typed, NEW w \in Worker, Subjected(w), NEW lost \in BOOLEAN, Files(w, lost)
    PROVE  /\ issues' \in Seq(IssueRecord) /\ Len(issues') = Len(issues) + 1
           /\ DOMAIN issues' = DOMAIN issues \cup {Len(issues) + 1}
           /\ \A n \in DOMAIN issues : issues'[n] = issues[n] /\ n # Len(issues) + 1
           /\ issues'[Len(issues) + 1] = NewIssue(w, lost)
<1>1. NewIssue(w, lost) \in IssueRecord /\ issues \in Seq(IssueRecord)
  BY NewIssueTyped DEF Files, Typed
<1>2. issues' = Append(issues, NewIssue(w, lost))
  BY DEF Files
<1> HIDE DEF NewIssue, IssueRecord
<1>3. issues' \in Seq(IssueRecord) /\ Len(issues') = Len(issues) + 1 /\ Len(issues) \in Nat
  BY <1>1, <1>2
<1>4. /\ \A n \in 1 .. Len(issues) : issues'[n] = issues[n]
      /\ issues'[Len(issues) + 1] = NewIssue(w, lost)
  BY <1>1, <1>2
<1>5. DOMAIN issues = 1 .. Len(issues) /\ DOMAIN issues' = 1 .. Len(issues')
  BY <1>1, <1>3
<1> QED
  BY <1>3, <1>4, <1>5

(* What a step does to the issues. *)
LEMMA IssueSteps ==
    ASSUME Typed, \A w \in Worker : InHand(w), [Next]_vars
    PROVE  \/ issues' \in Seq(IssueRecord) /\ AllKept
           \/ \E w \in Worker, lost \in BOOLEAN : Files(w, lost) /\ run' = run /\ (lost \/ Create(w))
<1>1. ASSUME UNCHANGED issues
      PROVE  issues' \in Seq(IssueRecord) /\ AllKept
  BY <1>1 DEF Typed, AllKept, Kept
<1>2. ASSUME NEW n \in DOMAIN issues, HumanCloses(n)
      PROVE  issues' \in Seq(IssueRecord) /\ AllKept
  BY <1>2, ChangeTyped DEF HumanCloses
<1>3. ASSUME NEW w \in Worker, Repair(w) \/ Edit(w)
      PROVE  issues' \in Seq(IssueRecord) /\ AllKept
  BY <1>1, <1>3, ChangeTyped DEF Repair, Edit, At, InHand, Pointed
<1>4. ASSUME NEW w \in Worker, Create(w) \/ CreateLost(w)
      PROVE  \E lost \in BOOLEAN : Files(w, lost) /\ run' = run /\ (lost \/ Create(w))
  BY <1>4 DEF Create, CreateLost, Files
<1> QED
  BY <1>1, <1>2, <1>3, <1>4 DEF Next, File, Build, Pick, FindMarker, FindTitle, FindInList, Searches, Finds,
     Relabel, Through, CallFails, NextRun, vars

(* What the last look left unrecognized stays so. *)
LEMMA LookStands ==
    ASSUME Typed, \A v \in Worker : InHand(v), [Next]_vars,
           NEW w \in Worker, worker[w].at = "create",
           Task(w)'.seen = Task(w).seen, Task(w)'.repo = Task(w).repo, Subject(w)' = Subject(w)
    PROVE  Looked(w)'
<1>1. DOMAIN issues = 1 .. Len(issues) /\ Len(issues) \in Nat
  BY DEF Typed
<1>2. Task(w).seen \in Nat /\ Task(w).seen <= Len(issues)
  BY DEF InHand, Looked, Typed, WorkRecord, TaskRecord, Task
<1>3. CASE issues' \in Seq(IssueRecord) /\ AllKept
  <2>1. DOMAIN issues' = DOMAIN issues /\ Len(issues') = Len(issues)
    BY <1>1, <1>3 DEF AllKept
  <2> QED
    BY <1>3, <2>1 DEF InHand, Looked, AllKept, Kept, Listed, Marked, SameEvidence, SameMonitor
<1>4. ASSUME NEW v \in Worker, NEW lost \in BOOLEAN, Files(v, lost) PROVE Looked(w)'
  <2>1. /\ Len(issues') = Len(issues) + 1 /\ DOMAIN issues' = DOMAIN issues \cup {Len(issues) + 1}
        /\ \A n \in DOMAIN issues : issues'[n] = issues[n] /\ n # Len(issues) + 1
        /\ issues'[Len(issues) + 1] = NewIssue(v, lost)
    BY <1>4, FilesTyped DEF InHand
  <2>2. NewIssue(v, lost).by[1] = v
    BY DEF NewIssue
  <2>3. \A n \in DOMAIN issues :
            IF n <= Task(w).seen
            THEN issues'[n].open /\ issues'[n].repo = Task(w).repo => ~Listed(n, Subject(w))'
            ELSE issues'[n].by[1] \in Worker
    BY <2>1 DEF InHand, Looked, Listed, Marked, SameEvidence, SameMonitor
  <2>4. ~(Len(issues) + 1 <= Task(w).seen)
    BY <1>1, <1>2
  <2> QED
    BY <1>1, <1>2, <2>1, <2>2, <2>3, <2>4 DEF Looked
<1> QED
  BY <1>3, <1>4, IssueSteps

(* What another worker has in hand is not touched. *)
LEMMA OthersInHand ==
    ASSUME Typed, \A v \in Worker : InHand(v), [Next]_vars,
           NEW w \in Worker, worker'[w] = worker[w]
    PROVE  InHand(w)'
<1>1. Subject(w)' = Subject(w) /\ Task(w)' = Task(w)
  BY DEF Subject, Task
<1>2. Subjected(w)' /\ Unfiled(w)' /\ Labelled(w)'
  BY <1>1 DEF InHand, Subjected, Unfiled, Labelled
<1>3. DOMAIN issues \subseteq DOMAIN issues'
  <2>1. CASE issues' \in Seq(IssueRecord) /\ AllKept
    BY <2>1 DEF Typed, AllKept
  <2>2. ASSUME NEW v \in Worker, NEW lost \in BOOLEAN, Files(v, lost)
        PROVE  DOMAIN issues \subseteq DOMAIN issues'
    BY <2>2, FilesTyped DEF InHand
  <2> QED
    BY <2>1, <2>2, IssueSteps
<1>4. Pointed(w)'
  BY <1>1, <1>3 DEF InHand, Pointed
<1>5. Looked(w)'
  BY <1>1, LookStands DEF Looked
<1> QED
  BY <1>2, <1>4, <1>5 DEF InHand

(* Only optional labels are given up. *)
LEMMA LabelsTyped ==
    /\ \A r \in Report : Allowed(LabelsOf(r)) /\ LabelsOf(r) \subseteq Label
    /\ \A labels \in SUBSET Label : Allowed(labels) =>
           \A left \in LabelsAfter(labels) : Allowed(left) /\ left \subseteq Label
<1>1. Required \subseteq Label /\ \A r \in Report : r.labels \subseteq Label
  BY FollowUpAssumption DEF FollowUpAssumption, Reports
<1> QED
  BY <1>1 DEF LabelsOf, LabelsAfter, Allowed

-----------------------------------------------------------------------------
(* A worker between two reports, or between two attempts, has nothing in    *)
(* hand.                                                                    *)
LEMMA NothingInHand ==
    ASSUME NEW w \in Worker, worker'[w].at \notin Busy
    PROVE  InHand(w)'
BY DEF InHand, Subjected, Pointed, Unfiled, Labelled, Looked, Busy, Asking

(* What a step of a worker makes of its record. *)
Works(w) == /\ worker'[w] \in WorkRecord /\ InHand(w)'
            /\ worker' \in [Worker -> WorkRecord]
            /\ \A v \in Worker : v # w => worker'[v] = worker[v]
            /\ worker[w].keys \subseteq worker'[w].keys

(* The next report, with what was filed. *)
LEMMA NextReportWorks ==
    ASSUME Typed, NEW w \in Worker, NEW keys \in SUBSET KeyRecord, worker[w].keys \subseteq keys,
           NextReport(w, keys)
    PROVE  Works(w) /\ worker'[w].keys = keys
<1>1. worker \in [Worker -> WorkRecord] /\ NoTask \in TaskRecord
  BY DEF Typed, NoTask, TaskRecord
<1>2. worker'[w] = [worker[w] EXCEPT !.at = "pick", !.task = NoTask, !.keys = keys]
      /\ \A v \in Worker : v # w => worker'[v] = worker[v]
  BY <1>1 DEF NextReport, Becomes
<1>3. worker'[w] \in WorkRecord /\ worker'[w].at = "pick" /\ worker'[w].keys = keys
  BY <1>1, <1>2 DEF WorkRecord
<1>4. worker' \in [Worker -> WorkRecord]
  BY <1>1, <1>2, <1>3 DEF NextReport, Becomes
<1>5. InHand(w)'
  BY <1>3, NothingInHand DEF Busy, Asking
<1> QED
  BY <1>2, <1>3, <1>4, <1>5 DEF Works

LEMMA SkipsWorks ==
    ASSUME Typed, NEW w \in Worker, Skips(w)
    PROVE  Works(w) /\ worker'[w].keys = worker[w].keys
<1>1. worker[w].keys \in SUBSET KeyRecord
  BY DEF Typed, WorkRecord
<1> QED
  BY <1>1, NextReportWorks DEF Skips

(* What is filed is a key. *)
LEMMA FiledTyped ==
    ASSUME Typed, NEW w \in Worker, Subjected(w), worker[w].at \in Busy
    PROVE  Filed(w) \in SUBSET KeyRecord /\ worker[w].keys \subseteq Filed(w)
<1>1. worker[w].keys \in SUBSET KeyRecord /\ Subject(w) \in Report /\ Task(w).repo \in Repo
  BY DEF Typed, WorkRecord, Subjected
<1>2. Key(Subject(w), Task(w).repo) \in KeyRecord
  BY <1>1, ReportTyped
<1> QED
  BY <1>1, <1>2 DEF Filed

(* An attempt starts, ends, or takes up a report. *)
LEMMA PickWorks ==
    ASSUME Typed, NEW w \in Worker, Build(w) \/ Pick(w) \/ Through(w)
    PROVE  Works(w) /\ worker'[w].keys = worker[w].keys
<1>1. worker \in [Worker -> WorkRecord] /\ worker[w] \in WorkRecord
  BY DEF Typed
<1>2. ASSUME NEW new \in WorkRecord, Becomes(w, new), new.keys = worker[w].keys, InHand(w)'
      PROVE  Works(w) /\ worker'[w].keys = worker[w].keys
  <2>1. worker'[w] = new /\ \A v \in Worker : v # w => worker'[v] = worker[v]
    BY <1>1, <1>2 DEF Becomes
  <2>2. worker' \in [Worker -> WorkRecord]
    BY <1>1, <1>2 DEF Becomes
  <2> QED
    BY <1>2, <2>1, <2>2 DEF Works
<1>3. CASE Build(w)
  <2>1. PICK todo \in Yields : Becomes(w, [worker[w] EXCEPT !.at = "pick", !.todo = todo, !.round = @ + 1])
    BY <1>3 DEF Build
  <2>2. todo \in SUBSET Report
    BY FollowUpAssumption DEF FollowUpAssumption
  <2> DEFINE new == [worker[w] EXCEPT !.at = "pick", !.todo = todo, !.round = @ + 1]
  <2> DEFINE round == worker[w].round + 1
  <2>6. round \in Nat /\ new = [worker[w] EXCEPT !.at = "pick", !.todo = todo, !.round = round]
    BY <1>1 DEF WorkRecord
  <2> HIDE DEF round, new
  <2>3. new \in WorkRecord /\ new.keys = worker[w].keys /\ new.at = "pick"
    BY <1>1, <2>2, <2>6 DEF WorkRecord
  <2>7. Becomes(w, new)
    BY <2>1 DEF new
  <2>4. worker'[w].at = "pick"
    BY <1>1, <2>3, <2>7 DEF Becomes
  <2>5. InHand(w)'
    BY <2>4, NothingInHand DEF Busy, Asking
  <2> QED
    BY <1>2, <2>3, <2>5, <2>7
<1>4. CASE Through(w)
  <2> DEFINE new == [worker[w] EXCEPT !.at = "build"]
  <2>1. Becomes(w, new) /\ new \in WorkRecord /\ new.keys = worker[w].keys /\ new.at = "build"
    BY <1>1, <1>4 DEF Through, WorkRecord
  <2>2. worker'[w].at = "build"
    BY <1>1, <2>1 DEF Becomes
  <2>3. InHand(w)'
    BY <2>2, NothingInHand DEF Busy, Asking
  <2> QED
    BY <1>2, <2>1, <2>3
<1>5. CASE Pick(w)
  <2> DEFINE Picked(r, repo) ==
                 Becomes(w, IF Key(r, repo) \in worker[w].keys
                            THEN [worker[w] EXCEPT !.todo = @ \ {r}]
                            ELSE [[worker[w] EXCEPT !.todo = @ \ {r}] EXCEPT
                                      !.at = IF Marker(r) = Nothing THEN "title" ELSE "marker",
                                      !.task = [NoTask EXCEPT !.report = r, !.repo = repo]])
  <2>0. PICK r \in worker[w].todo : \E repo \in Targets(r) : Picked(r, repo)
    BY <1>5 DEF Pick
  <2>1. PICK repo \in Targets(r) : Picked(r, repo)
    BY <2>0
  <2>2. r \in Report /\ repo \in Repo /\ worker[w].at = "pick"
    BY <1>1, <1>5, <2>1, ReportTyped DEF WorkRecord, Pick, At
  <2>3. CASE Key(r, repo) \in worker[w].keys
    <3> DEFINE new == [worker[w] EXCEPT !.todo = @ \ {r}]
    <3>1. Becomes(w, new) /\ new \in WorkRecord /\ new.keys = worker[w].keys /\ new.at = "pick"
      BY <1>1, <2>1, <2>2, <2>3 DEF WorkRecord
    <3>2. worker'[w].at = "pick"
      BY <1>1, <3>1 DEF Becomes
    <3>3. InHand(w)'
      BY <3>2, NothingInHand DEF Busy, Asking
    <3> QED
      BY <1>2, <3>1, <3>3
  <2>4. CASE Key(r, repo) \notin worker[w].keys
    <3> DEFINE task == [NoTask EXCEPT !.report = r, !.repo = repo]
               new == [[worker[w] EXCEPT !.todo = @ \ {r}] EXCEPT
                           !.at = IF Marker(r) = Nothing THEN "title" ELSE "marker", !.task = task]
    <3>1. task \in TaskRecord /\ task.report = r /\ task.repo = repo
      BY <2>2 DEF NoTask, TaskRecord
    <3> HIDE DEF task
    <3>2. /\ new \in WorkRecord /\ new.keys = worker[w].keys /\ new.task = task
          /\ new.at \in {"title", "marker"}
      BY <1>1, <3>1 DEF WorkRecord, Busy, Asking
    <3>3. Becomes(w, new)
      BY <2>1, <2>4 DEF task
    <3>4. worker'[w] = new
      BY <1>1, <3>3 DEF Becomes
    <3> HIDE DEF new
    <3>5. InHand(w)'
      BY <2>2, <2>4, <3>1, <3>2, <3>4 DEF InHand, Subjected, Pointed, Unfiled, Labelled, Looked, Subject, Task, Busy, Asking
    <3> QED
      BY <1>2, <3>2, <3>3, <3>5
  <2> QED
    BY <2>3, <2>4
<1> QED
  BY <1>3, <1>4, <1>5

(* A look. *)
LEMMA FindWorks ==
    ASSUME Typed, NEW w \in Worker, InHand(w), FindMarker(w) \/ FindTitle(w) \/ FindInList(w)
    PROVE  Works(w)
<1>1. /\ worker \in [Worker -> WorkRecord] /\ worker[w] \in WorkRecord /\ Task(w) \in TaskRecord
      /\ worker[w].at \in Asking /\ Subject(w) \in Report /\ Task(w).repo \in Repo
      /\ Key(Subject(w), Task(w).repo) \notin worker[w].keys
  BY DEF Typed, WorkRecord, Task, FindMarker, FindTitle, FindInList, At, InHand, Subjected, Unfiled, Busy, Asking
<1>0. UNCHANGED issues
  BY DEF FindMarker, FindTitle, FindInList, Searches, Finds
<1>2. DOMAIN issues = 1 .. Len(issues) /\ Len(issues) \in Nat /\ UNCHANGED issues
  BY <1>0 DEF Typed
<1>3. PICK matches, next :
          /\ matches \subseteq Open(w)
          /\ next \in Asking
          /\ next = "create" => matches = {n \in Open(w) : Listed(n, Subject(w))}
          /\ Finds(w, matches, next)
  <2>1. CASE FindMarker(w)
    <3>1. PICK found \in SUBSET {n \in Open(w) : Marked(n, Subject(w))} : Finds(w, found, "title")
      BY <2>1 DEF FindMarker, Searches
    <3> QED
      BY <3>1 DEF Asking
  <2>2. CASE FindTitle(w)
    <3>1. PICK found \in SUBSET {n \in Open(w) : issues[n].title = Subject(w).title} : Finds(w, found, "list")
      BY <2>2 DEF FindTitle, Searches
    <3> QED
      BY <3>1 DEF Asking
  <2>3. CASE FindInList(w)
    BY <2>3 DEF FindInList, Asking
  <2> QED
    BY <2>1, <2>2, <2>3
<1>4. CASE NextReport(w, Filed(w))
  BY <1>1, <1>4, FiledTyped, NextReportWorks DEF Busy, InHand
<1>5. ASSUME NEW n \in matches, Becomes(w, [worker[w] EXCEPT !.at = "repair", !.task.found = n])
      PROVE  Works(w)
  <2> DEFINE task == [worker[w].task EXCEPT !.found = n]
             new == [worker[w] EXCEPT !.at = "repair", !.task = task]
  <2>1. n \in DOMAIN issues /\ n \in Nat
    BY <1>2, <1>3 DEF Open
  <2>2. /\ task \in TaskRecord /\ task.report = Subject(w) /\ task.repo = Task(w).repo /\ task.found = n
    BY <1>1, <2>1 DEF TaskRecord, Task, Subject
  <2>3. Becomes(w, new)
    BY <1>1, <1>5 DEF WorkRecord
  <2> HIDE DEF task
  <2>4. new \in WorkRecord /\ new.keys = worker[w].keys /\ new.task = task /\ new.at = "repair"
    BY <1>1, <2>2 DEF WorkRecord, Busy
  <2>5. /\ worker'[w] = new /\ (\A v \in Worker : v # w => worker'[v] = worker[v])
        /\ worker' \in [Worker -> WorkRecord]
    BY <1>1, <2>3, <2>4 DEF Becomes
  <2> HIDE DEF new
  <2>6. InHand(w)'
    BY <1>1, <1>2, <2>1, <2>2, <2>4, <2>5
       DEF InHand, Subjected, Pointed, Unfiled, Labelled, Looked, Subject, Task, Asking
  <2> QED
    BY <2>4, <2>5, <2>6 DEF Works
<1>6. ASSUME matches = {},
             Becomes(w, [worker[w] EXCEPT !.at = next, !.task.seen = Len(issues),
                                          !.task.labels = LabelsOf(Subject(w))])
      PROVE  Works(w)
  <2> DEFINE task == [[worker[w].task EXCEPT !.seen = Len(issues)] EXCEPT !.labels = LabelsOf(Subject(w))]
             new == [worker[w] EXCEPT !.at = next, !.task = task]
  <2>1. LabelsOf(Subject(w)) \in SUBSET Label /\ Allowed(LabelsOf(Subject(w)))
    BY <1>1, LabelsTyped
  <2>2. /\ task \in TaskRecord /\ task.report = Subject(w) /\ task.repo = Task(w).repo
        /\ task.seen = Len(issues) /\ task.labels = LabelsOf(Subject(w))
    BY <1>1, <1>2, <2>1 DEF TaskRecord, Task, Subject
  <2>3. Becomes(w, new)
    BY <1>1, <1>6 DEF WorkRecord
  <2> HIDE DEF task
  <2>4. new \in WorkRecord /\ new.keys = worker[w].keys /\ new.task = task /\ new.at = next
    BY <1>1, <1>3, <2>2 DEF WorkRecord, Busy
  <2>5. /\ worker'[w] = new /\ (\A v \in Worker : v # w => worker'[v] = worker[v])
        /\ worker' \in [Worker -> WorkRecord]
    BY <1>1, <2>3, <2>4 DEF Becomes
  <2> HIDE DEF new
  <2>6. Task(w)' = task /\ Subject(w)' = Subject(w) /\ worker'[w].at = next /\ worker'[w].keys = worker[w].keys
    BY <2>2, <2>4, <2>5 DEF Task, Subject
  <2>7. Looked(w)'
    <3>1. ASSUME next = "create", NEW n \in DOMAIN issues, issues[n].open, issues[n].repo = Task(w).repo
          PROVE  ~Listed(n, Subject(w))
      BY <1>3, <1>6, <3>1 DEF Open
    <3>2. \A n \in DOMAIN issues : Listed(n, Subject(w))' <=> Listed(n, Subject(w))
      BY <1>2, <2>6 DEF Listed, Marked, SameEvidence, SameMonitor
    <3> QED
      BY <1>2, <2>2, <2>6, <3>1, <3>2 DEF Looked
  <2>8. Subjected(w)' /\ Pointed(w)' /\ Unfiled(w)' /\ Labelled(w)'
    BY <1>1, <1>3, <2>1, <2>2, <2>6 DEF Subjected, Pointed, Unfiled, Labelled, Asking
  <2> QED
    BY <2>4, <2>5, <2>7, <2>8 DEF Works, InHand
<1> QED
  BY <1>3, <1>4, <1>5, <1>6 DEF Finds

(* Labels are given up, or the report is. *)
LEMMA RetriesWorks ==
    ASSUME Typed, \A v \in Worker : InHand(v), [Next]_vars,
           NEW w \in Worker, At(w, "create"), Retries(w) \/ Skips(w)
    PROVE  Works(w) /\ worker'[w].keys = worker[w].keys
<1>1. /\ worker \in [Worker -> WorkRecord] /\ worker[w] \in WorkRecord /\ worker[w].at = "create"
      /\ Task(w) \in TaskRecord
  BY DEF Typed, WorkRecord, Task, At
<1>2. CASE Skips(w)
  BY <1>2, SkipsWorks
<1>3. ASSUME NEW left \in LabelsAfter(Task(w).labels), Becomes(w, [worker[w] EXCEPT !.task.labels = left])
      PROVE  Works(w) /\ worker'[w].keys = worker[w].keys
  <2> DEFINE task == [worker[w].task EXCEPT !.labels = left]
             new == [worker[w] EXCEPT !.task = task]
  <2>1. left \in SUBSET Label /\ Allowed(left)
    BY <1>1, <1>3, LabelsTyped DEF TaskRecord, InHand, Labelled
  <2>2. /\ task \in TaskRecord /\ task.report = Subject(w) /\ task.repo = Task(w).repo
        /\ task.seen = Task(w).seen /\ task.labels = left
    BY <1>1, <2>1 DEF TaskRecord, Task, Subject
  <2>3. Becomes(w, new)
    BY <1>1, <1>3 DEF WorkRecord
  <2> HIDE DEF task
  <2>4. new \in WorkRecord /\ new.keys = worker[w].keys /\ new.task = task /\ new.at = "create"
    BY <1>1, <2>2 DEF WorkRecord
  <2>5. /\ worker'[w] = new /\ (\A v \in Worker : v # w => worker'[v] = worker[v])
        /\ worker' \in [Worker -> WorkRecord]
    BY <1>1, <2>3, <2>4 DEF Becomes
  <2> HIDE DEF new
  <2>6. Task(w)' = task /\ Subject(w)' = Subject(w) /\ worker'[w].at = "create" /\ worker'[w].keys = worker[w].keys
    BY <2>2, <2>4, <2>5 DEF Task, Subject
  <2>7. Looked(w)'
    BY <1>1, <2>2, <2>6, LookStands
  <2>8. Subjected(w)' /\ Pointed(w)' /\ Unfiled(w)' /\ Labelled(w)'
    BY <1>1, <2>1, <2>2, <2>6 DEF InHand, Subjected, Pointed, Unfiled, Labelled, Asking, Busy
  <2> QED
    BY <2>4, <2>5, <2>6, <2>7, <2>8 DEF Works, InHand
<1> QED
  BY <1>2, <1>3 DEF Retries

(* The end of a report. *)
LEMMA EndWorks ==
    ASSUME Typed, \A v \in Worker : InHand(v), [Next]_vars,
           NEW w \in Worker, Repair(w) \/ Edit(w) \/ Relabel(w) \/ CreateLost(w) \/ CallFails(w)
    PROVE  Works(w)
<1>1. CASE Repair(w)
  BY <1>1, FiledTyped, NextReportWorks DEF Repair, At, Busy, InHand
<1>2. CASE Edit(w)
  BY <1>2, SkipsWorks DEF Edit
<1>3. CASE Relabel(w)
  BY <1>3, RetriesWorks DEF Relabel
<1>4. CASE CreateLost(w)
  BY <1>4, RetriesWorks DEF CreateLost, GivesUp
<1>5. CASE CallFails(w)
  BY <1>5, RetriesWorks, SkipsWorks DEF CallFails, GivesUp
<1> QED
  BY <1>1, <1>2, <1>3, <1>4, <1>5

(* The creation. *)
LEMMA CreateWorks ==
    ASSUME Typed, \A v \in Worker : InHand(v), [Next]_vars, NEW w \in Worker, Create(w)
    PROVE  Works(w) /\ worker'[w].keys = Filed(w)
<1>1. /\ worker \in [Worker -> WorkRecord] /\ worker[w] \in WorkRecord /\ worker[w].at = "create"
      /\ Task(w) \in TaskRecord /\ Subject(w) \in Report /\ Task(w).repo \in Repo
  BY DEF Typed, WorkRecord, Task, At, Create, InHand, Subjected, Busy, Asking
<1>2. Len(issues) + 1 \in Nat /\ Len(issues) + 1 \in DOMAIN issues'
  BY FilesTyped DEF Create, Files, InHand, Typed
<1>3. Filed(w) \in SUBSET KeyRecord /\ worker[w].keys \subseteq Filed(w)
  BY <1>1, FiledTyped DEF InHand, Busy, Asking
<1> DEFINE task == [worker[w].task EXCEPT !.found = Len(issues) + 1]
           new == [worker[w] EXCEPT !.at = "edit", !.task = task, !.keys = Filed(w)]
<1>4. task \in TaskRecord /\ task.report = Subject(w) /\ task.repo = Task(w).repo /\ task.found = Len(issues) + 1
  BY <1>1, <1>2 DEF TaskRecord, Task, Subject
<1>5. Becomes(w, new)
  BY <1>1 DEF Create, WorkRecord
<1> HIDE DEF task
<1>6. new \in WorkRecord /\ new.keys = Filed(w) /\ new.task = task /\ new.at = "edit"
  BY <1>1, <1>3, <1>4 DEF WorkRecord, Busy
<1>7. /\ worker'[w] = new /\ (\A v \in Worker : v # w => worker'[v] = worker[v])
      /\ worker' \in [Worker -> WorkRecord]
  BY <1>1, <1>5, <1>6 DEF Becomes
<1> HIDE DEF new
<1>8. InHand(w)'
  BY <1>1, <1>2, <1>4, <1>6, <1>7
     DEF InHand, Subjected, Pointed, Unfiled, Labelled, Looked, Subject, Task, Asking
<1> QED
  BY <1>3, <1>6, <1>7, <1>8 DEF Works

(* The workers of a run, one by one, or the next run. *)
LEMMA WorkSteps ==
    ASSUME Typed, \A v \in Worker : InHand(v), [Next]_vars
    PROVE  \/ \E w \in Worker : Works(w) /\ run' = run
           \/ UNCHANGED <<worker, run>>
           \/ worker' = [w \in Worker |-> Fresh] /\ run' = run + 1
<1>1. ASSUME NEW w \in Worker, Build(w) \/ File(w) \/ CreateLost(w) \/ CallFails(w)
      PROVE  Works(w) /\ run' = run
  <2>1. Works(w)
    BY <1>1, PickWorks, FindWorks, EndWorks, CreateWorks DEF File
  <2>2. run' = run
    BY <1>1 DEF File, Build, Pick, FindMarker, FindTitle, FindInList, Searches, Finds, Repair, Create, Relabel,
       Edit, Through, CreateLost, CallFails
  <2> QED
    BY <2>1, <2>2
<1>2. ASSUME NextRun
      PROVE  worker' = [w \in Worker |-> Fresh] /\ run' = run + 1
  BY <1>2 DEF NextRun
<1>3. ASSUME (\E n \in DOMAIN issues : HumanCloses(n)) \/ UNCHANGED vars
      PROVE  UNCHANGED <<worker, run>>
  BY <1>3 DEF HumanCloses, vars
<1>4. \/ \E w \in Worker : Build(w) \/ File(w) \/ CreateLost(w) \/ CallFails(w)
      \/ NextRun
      \/ (\E n \in DOMAIN issues : HumanCloses(n)) \/ UNCHANGED vars
  BY DEF Next
<1> QED
  BY <1>1, <1>2, <1>3, <1>4

(* The records of all workers, after any step. *)
LEMMA StepInHand ==
    ASSUME Typed, \A v \in Worker : InHand(v), [Next]_vars
    PROVE  /\ Typed'
           /\ \A v \in Worker : InHand(v)'
           /\ \/ run' = run /\ \A v \in Worker : worker[v].keys \subseteq worker'[v].keys
              \/ run' = run + 1
<1>1. issues' \in Seq(IssueRecord)
  <2>1. ASSUME NEW w \in Worker, NEW lost \in BOOLEAN, Files(w, lost)
        PROVE  issues' \in Seq(IssueRecord)
    BY <2>1, FilesTyped DEF InHand
  <2> QED
    BY <2>1, IssueSteps
<1>2. ASSUME NEW w \in Worker, Works(w), run' = run
      PROVE  /\ worker' \in [Worker -> WorkRecord]
             /\ \A v \in Worker : InHand(v)' /\ worker[v].keys \subseteq worker'[v].keys
  BY <1>2, OthersInHand DEF Works
<1>3. CASE UNCHANGED <<worker, run>>
  BY <1>1, <1>3, OthersInHand DEF Typed
<1>4. CASE worker' = [w \in Worker |-> Fresh] /\ run' = run + 1
  <2>1. Fresh \in WorkRecord /\ Fresh.at = "build"
    BY DEF Fresh, WorkRecord, NoTask, TaskRecord
  <2>2. \A v \in Worker : InHand(v)'
    BY <1>4, <2>1, NothingInHand DEF Busy, Asking
  <2> QED
    BY <1>1, <1>4, <2>1, <2>2 DEF Typed
<1> QED
  BY <1>1, <1>2, <1>3, <1>4, WorkSteps DEF Typed

-----------------------------------------------------------------------------
(* What the runs have filed. *)
Invariant == Typed /\ (\A w \in Worker : InHand(w)) /\ Signed /\ Noted

(* The issue that is created, by its fields. *)
LEMMA CreatedIssue ==
    ASSUME NEW w \in Worker, NEW lost \in BOOLEAN, InHand(w), Files(w, lost), NEW issue, issue = NewIssue(w, lost)
    PROVE  /\ issue.repo = Task(w).repo /\ issue.labels = Task(w).labels /\ Allowed(issue.labels)
           /\ issue.title = Subject(w).title
           /\ issue.marker = Marker(Subject(w)) /\ issue.evidence = Subject(w).evidence
           /\ issue.by = <<w, run>> /\ issue.lost = lost /\ issue.blind = Blind(w)
           /\ Subject(w) \in Report
<1>1. At(w, "create") /\ Allowed(Task(w).labels) /\ Subject(w) \in Report
  BY DEF Files, InHand, Labelled, At, Subjected, Busy, Asking
<1> QED
  BY <1>1 DEF NewIssue

LEMMA InitInvariant == Init => Invariant
<1> SUFFICES ASSUME Init PROVE Invariant
  OBVIOUS
<1>1. issues \in Seq(IssueRecord) /\ \A n \in DOMAIN issues : issues[n].by[1] \notin Worker
  <2>1. /\ Legacy \in Seq(IssueRecord) /\ Nothing \notin Worker
        /\ \A n \in DOMAIN Legacy : Legacy[n].by[1] = Nothing
    BY FollowUpAssumption DEF FollowUpAssumption
  <2>2. CASE issues = Legacy
    BY <2>1, <2>2
  <2>3. CASE issues = <<>>
    BY <2>3
  <2> QED
    BY <2>2, <2>3 DEF Init
<1>2. Fresh \in WorkRecord /\ Fresh.at = "build"
  BY DEF Fresh, WorkRecord, NoTask, TaskRecord
<1>3. Typed /\ \A w \in Worker : worker[w].at = "build"
  BY <1>1, <1>2 DEF Init, Typed
<1>4. \A w \in Worker : InHand(w)
  BY <1>3 DEF InHand, Subjected, Pointed, Unfiled, Labelled, Looked, Busy, Asking
<1>5. Signed
  BY <1>1 DEF Signed
<1>6. ASSUME NEW n \in DOMAIN issues, NEW w \in Worker PROVE issues[n].by # <<w, run>>
  BY <1>1, <1>6
<1>7. Noted
  BY <1>6 DEF Noted
<1> QED
  BY <1>3, <1>4, <1>5, <1>7 DEF Invariant

LEMMA StepSigned == ASSUME Invariant, [Next]_vars PROVE Signed'
<1>1. Typed /\ (\A w \in Worker : InHand(w)) /\ Signed /\ (run' = run \/ run' = run + 1)
  BY StepInHand DEF Invariant
<1>2. run \in Nat /\ run <= run' /\ DOMAIN issues = 1 .. Len(issues)
  BY <1>1 DEF Typed
<1>3. \A n \in DOMAIN issues : issues[n].by[2] \in Nat
  <2>1. \A n \in DOMAIN issues : issues[n] \in IssueRecord
    BY <1>1, <1>2 DEF Typed
  <2> QED
    BY <2>1 DEF IssueRecord
<1>4. CASE issues' \in Seq(IssueRecord) /\ AllKept
  <2>1. DOMAIN issues' = DOMAIN issues
    BY <1>2, <1>4 DEF AllKept
  <2> QED
    BY <1>1, <1>2, <1>3, <1>4, <2>1 DEF Signed, AllKept, Kept
<1>5. ASSUME NEW w \in Worker, NEW lost \in BOOLEAN, Files(w, lost), run' = run PROVE Signed'
  <2>1. /\ DOMAIN issues' = DOMAIN issues \cup {Len(issues) + 1}
        /\ \A n \in DOMAIN issues : issues'[n] = issues[n]
        /\ issues'[Len(issues) + 1] = NewIssue(w, lost)
    BY <1>1, <1>5, FilesTyped DEF InHand
  <2> DEFINE issue == issues'[Len(issues) + 1]
  <2>2. /\ Allowed(issue.labels) /\ issue.by = <<w, run>>
        /\ issue.marker = Marker(Subject(w)) /\ issue.evidence = Subject(w).evidence /\ Subject(w) \in Report
    BY <1>1, <1>5, <2>1, CreatedIssue
  <2>3. issue.by[2] <= run /\ (issue.marker = Nothing => issue.evidence = Nothing)
    BY <1>2, <2>2, ReportTyped
  <2> QED
    BY <1>1, <1>5, <2>1, <2>2, <2>3 DEF Signed
<1> QED
  BY <1>1, <1>4, <1>5, IssueSteps

LEMMA StepNoted == ASSUME Invariant, [Next]_vars PROVE Noted'
<1>1. /\ Typed /\ (\A w \in Worker : InHand(w)) /\ Signed /\ Noted
      /\ \/ run' = run /\ \A v \in Worker : worker[v].keys \subseteq worker'[v].keys
         \/ run' = run + 1
  BY StepInHand DEF Invariant
<1>2. run \in Nat /\ DOMAIN issues = 1 .. Len(issues)
  BY <1>1 DEF Typed
<1>3. ASSUME NEW n \in DOMAIN issues, issues'[n].by = issues[n].by, issues'[n].lost = issues[n].lost,
             IssueKey(n)' = IssueKey(n), NEW w \in Worker, issues'[n].by = <<w, run'>>, ~issues'[n].lost
      PROVE  IssueKey(n)' \in worker'[w].keys
  <2>1. CASE run' = run
    <3>1. worker[w].keys \subseteq worker'[w].keys
      BY <1>1, <1>2, <2>1
    <3>2. issues[n].by = <<w, run>> /\ ~issues[n].lost
      BY <1>3, <2>1
    <3>3. IssueKey(n) \in worker[w].keys
      BY <1>1, <3>2 DEF Noted
    <3> QED
      BY <1>3, <3>1, <3>3
  <2>2. CASE run' = run + 1
    <3>1. issues[n].by[1] \in Worker /\ issues[n].by[2] = run + 1
      BY <1>3, <2>2
    <3>2. issues[n].by[2] <= run
      BY <1>1, <3>1 DEF Signed
    <3> QED
      BY <1>2, <3>1, <3>2
  <2> QED
    BY <1>1, <2>1, <2>2
<1>4. CASE issues' \in Seq(IssueRecord) /\ AllKept
  <2>1. DOMAIN issues' = DOMAIN issues
    BY <1>2, <1>4 DEF AllKept
  <2>2. \A n \in DOMAIN issues : issues'[n].by = issues[n].by /\ issues'[n].lost = issues[n].lost
                                 /\ IssueKey(n)' = IssueKey(n)
    BY <1>4 DEF AllKept, Kept, IssueKey
  <2> QED
    BY <1>3, <2>1, <2>2 DEF Noted
<1>5. ASSUME NEW w \in Worker, NEW lost \in BOOLEAN, Files(w, lost), run' = run, lost \/ Create(w) PROVE Noted'
  <2>1. PICK k : /\ DOMAIN issues' = DOMAIN issues \cup {k}
                 /\ \A n \in DOMAIN issues : issues'[n] = issues[n]
                 /\ issues'[k] = NewIssue(w, lost)
    BY <1>1, <1>5, FilesTyped DEF InHand
  <2> DEFINE issue == issues'[k]
  <2>2. /\ issue.by = <<w, run>> /\ issue.lost = lost /\ issue.title = Subject(w).title
        /\ issue.marker = Marker(Subject(w)) /\ issue.repo = Task(w).repo
    BY <1>1, <1>5, <2>1, CreatedIssue
  <2>3. IssueKey(k)' = Key(Subject(w), Task(w).repo)
    BY <2>2 DEF IssueKey, Key
  <2>4. ASSUME NEW v \in Worker, issue.by = <<v, run'>>, ~issue.lost
        PROVE  IssueKey(k)' \in worker'[v].keys
    <3>1. v = w /\ Create(w)
      BY <1>5, <2>2, <2>4
    <3>2. worker'[w].keys = Filed(w)
      BY <1>1, <3>1, CreateWorks
    <3> QED
      BY <2>3, <3>1, <3>2 DEF Filed
  <2>5. ASSUME NEW n \in DOMAIN issues, NEW v \in Worker, issues'[n].by = <<v, run'>>, ~issues'[n].lost
        PROVE  IssueKey(n)' \in worker'[v].keys
    BY <1>3, <2>1, <2>5 DEF IssueKey
  <2> QED
    BY <2>1, <2>4, <2>5 DEF Noted
<1> QED
  BY <1>1, <1>4, <1>5, IssueSteps

LEMMA StepInvariant == Invariant /\ [Next]_vars => Invariant'
BY StepInHand, StepSigned, StepNoted DEF Invariant

LEMMA InvariantHolds == Spec => []Invariant
BY InitInvariant, StepInvariant, PTL DEF Spec

-----------------------------------------------------------------------------
(* A run files an issue with all the labels it needs or not at all, and a   *)
(* builder cannot authorize the work on what it reports                     *)
(* (labelsAfterMissingLabelError and labelsForDiscoveredIssue), whichever   *)
(* labels the repositories lack and however many calls fail.                *)
THEOREM LabelsAreGranted == Spec => []LabelsGranted
<1>1. Invariant => LabelsGranted
  BY DEF Invariant, Signed, LabelsGranted, Allowed
<1> QED
  BY <1>1, InvariantHolds, PTL

LEMMA StepFiledOnce == ASSUME Invariant, FiledOnce, [Next]_vars PROVE FiledOnce'
<1>1. Typed /\ (\A w \in Worker : InHand(w)) /\ Noted /\ DOMAIN issues = 1 .. Len(issues)
  BY DEF Invariant, Typed
<1>2. CASE issues' \in Seq(IssueRecord) /\ AllKept
  <2>1. DOMAIN issues' = DOMAIN issues
    BY <1>1, <1>2 DEF AllKept
  <2>2. \A n \in DOMAIN issues : issues'[n].by = issues[n].by /\ issues'[n].lost = issues[n].lost
                                 /\ IssueKey(n)' = IssueKey(n)
    BY <1>2 DEF AllKept, Kept, IssueKey
  <2> QED
    BY <2>1, <2>2 DEF FiledOnce
<1>3. ASSUME NEW w \in Worker, NEW lost \in BOOLEAN, Files(w, lost) PROVE FiledOnce'
  <2>1. PICK k : /\ DOMAIN issues' = DOMAIN issues \cup {k}
                 /\ \A n \in DOMAIN issues : issues'[n] = issues[n]
                 /\ issues'[k] = NewIssue(w, lost)
    BY <1>1, <1>3, FilesTyped DEF InHand
  <2> DEFINE issue == issues'[k]
  <2>2. /\ issue.by = <<w, run>> /\ issue.title = Subject(w).title
        /\ issue.marker = Marker(Subject(w)) /\ issue.repo = Task(w).repo
    BY <1>1, <1>3, <2>1, CreatedIssue
  <2>3. IssueKey(k)' = Key(Subject(w), Task(w).repo)
    BY <2>2 DEF IssueKey, Key
  <2>4. IssueKey(k)' \notin worker[w].keys
    BY <1>1, <1>3, <2>3 DEF InHand, Unfiled, Files, At, Asking
  <2>5. \A n \in DOMAIN issues : IssueKey(n)' = IssueKey(n)
    BY <2>1 DEF IssueKey
  <2>6. \A n \in DOMAIN issues : ~issues'[n].lost /\ issues'[n].by = issue.by => IssueKey(n)' # IssueKey(k)'
    BY <1>1, <2>1, <2>2, <2>4, <2>5 DEF Noted
  <2> QED
    BY <2>1, <2>5, <2>6 DEF FiledOnce
<1> QED
  BY <1>1, <1>2, <1>3, IssueSteps

(* The work on an issue files a report once over all its attempts           *)
(* (filedKeys of fileDiscoveredIssues), unless the answer to its creation   *)
(* is lost.                                                                 *)
THEOREM ReportsAreFiledOnce == Spec => []FiledOnce
<1>1. Init => FiledOnce
  BY FollowUpAssumption DEF FollowUpAssumption, Init, FiledOnce
<1>2. Invariant /\ FiledOnce /\ [Next]_vars => FiledOnce'
  BY StepFiledOnce
<1> QED
  BY <1>1, <1>2, InvariantHolds, PTL DEF Spec

(* A new issue is not about the bug of another that is open. *)
LEMMA NewBug ==
    ASSUME Invariant, NEW w \in Worker, NEW lost \in BOOLEAN, Files(w, lost), ~Blind(w), NEW n \in DOMAIN issues,
           issues[n].open, issues[n].repo = Task(w).repo
    PROVE  /\ Marker(Subject(w)) # Nothing =>
                  /\ issues[n].marker # Marker(Subject(w))
                  /\ issues[n].marker = Nothing => Marker(Subject(w)) # <<issues[n].evidence, TRUE>>
           /\ issues[n].marker # Nothing =>
                  /\ Marker(Subject(w)) # issues[n].marker
                  /\ Marker(Subject(w)) = Nothing => issues[n].marker # <<Subject(w).evidence, TRUE>>
<1>1. /\ Subject(w) \in Report /\ Typed /\ Signed /\ Looked(w) /\ worker[w].at = "create"
      /\ n \in 1 .. Len(issues) /\ issues[n] \in IssueRecord
  BY DEF Invariant, InHand, Subjected, Files, At, Busy, Asking, Typed
<1>2. Marker(Subject(w)) = Nothing <=> Subject(w).evidence = Nothing
  BY <1>1, ReportTyped
<1>3. ASSUME Marker(Subject(w)) # Nothing
      PROVE  /\ issues[n].marker # Marker(Subject(w))
             /\ issues[n].marker = Nothing => Marker(Subject(w)) # <<issues[n].evidence, TRUE>>
  <2>1. Subject(w).evidence # Nothing /\ Marker(Subject(w)) = <<Subject(w).evidence, Subject(w).class>>
    BY <1>2, <1>3 DEF Marker
  <2>4. ASSUME Marker(Subject(w)) = <<issues[n].evidence, TRUE>>
        PROVE  issues[n].evidence = Subject(w).evidence /\ Subject(w).class = TRUE
    <3>1. Marker(Subject(w))[1] = Subject(w).evidence /\ Marker(Subject(w))[2] = Subject(w).class
      BY <2>1
    <3>2. Marker(Subject(w))[1] = issues[n].evidence /\ Marker(Subject(w))[2] = TRUE
      BY <2>4
    <3> QED
      BY <3>1, <3>2
  <2>2. CASE n <= Task(w).seen
    <3>1. ~Listed(n, Subject(w))
      BY <1>1, <2>2 DEF Looked
    <3> QED
      BY <1>3, <2>1, <2>4, <3>1 DEF Listed, Marked, SameEvidence
  <2>3. CASE ~(n <= Task(w).seen)
    <3>1. issues[n].by[1] \in Worker
      BY <1>1, <2>3 DEF Looked
    <3>2. issues[n].marker = Nothing => issues[n].evidence = Nothing
      BY <1>1, <3>1 DEF Signed
    <3>3. Task(w).seen \in Nat
      BY <1>1 DEF Typed, WorkRecord, TaskRecord, Task
    <3>4. n \in Task(w).seen + 1 .. Len(issues)
      BY <1>1, <2>3, <3>3
    <3>5. ~Marked(n, Subject(w))
      BY <3>4 DEF Blind
    <3> QED
      BY <1>3, <2>1, <2>4, <3>2, <3>5 DEF Marked
  <2> QED
    BY <2>2, <2>3
<1>4. ASSUME issues[n].marker # Nothing, Marker(Subject(w)) = Nothing
      PROVE  issues[n].marker # <<Subject(w).evidence, TRUE>>
  <2>1. issues[n].marker \in Evidence \X BOOLEAN /\ Nothing \notin Evidence /\ Subject(w).evidence = Nothing
    BY <1>1, <1>2, <1>4, FollowUpAssumption DEF FollowUpAssumption, IssueRecord
  <2>2. issues[n].marker[1] \in Evidence
    BY <2>1
  <2>3. ASSUME issues[n].marker = <<Subject(w).evidence, TRUE>>
        PROVE  issues[n].marker[1] = Subject(w).evidence
    BY <2>3
  <2> QED
    BY <2>1, <2>2, <2>3
<1> QED
  BY <1>3, <1>4

LEMMA StepOneIssuePerBug == ASSUME Invariant, OneIssuePerBug, [Next]_vars PROVE OneIssuePerBug'
<1>1. Typed /\ (\A w \in Worker : InHand(w)) /\ DOMAIN issues = 1 .. Len(issues)
  BY DEF Invariant, Typed
<1>2. CASE issues' \in Seq(IssueRecord) /\ AllKept
  <2>1. DOMAIN issues' = DOMAIN issues /\ \A n \in DOMAIN issues : Kept(n)
    BY <1>1, <1>2 DEF AllKept
  <2>2. \A m, n \in DOMAIN issues : SameBug(m, n)' => SameBug(m, n)
    BY <2>1 DEF SameBug, Kept
  <2>3. \A n \in DOMAIN issues : /\ issues'[n].open => issues[n].open
                                 /\ issues'[n].blind = issues[n].blind
    BY <2>1 DEF Kept
  <2> QED
    BY <2>1, <2>2, <2>3 DEF OneIssuePerBug
<1>3. ASSUME NEW w \in Worker, NEW lost \in BOOLEAN, Files(w, lost) PROVE OneIssuePerBug'
  <2>1. PICK k : /\ DOMAIN issues' = DOMAIN issues \cup {k}
                 /\ \A n \in DOMAIN issues : issues'[n] = issues[n]
                 /\ issues'[k] = NewIssue(w, lost)
    BY <1>1, <1>3, FilesTyped DEF InHand
  <2> DEFINE issue == issues'[k]
  <2>2. /\ issue.evidence = Subject(w).evidence /\ issue.blind = Blind(w)
        /\ issue.marker = Marker(Subject(w)) /\ issue.repo = Task(w).repo
    BY <1>1, <1>3, <2>1, CreatedIssue
  <2>3. ASSUME ~issue.blind, NEW n \in DOMAIN issues, issues'[n].open
        PROVE  ~SameBug(k, n)' /\ ~SameBug(n, k)'
    <3>1. issues'[n] = issues[n] /\ ~Blind(w)
      BY <2>1, <2>2, <2>3
    <3>2. CASE issues[n].repo # Task(w).repo
      BY <2>2, <3>1, <3>2 DEF SameBug
    <3>3. CASE issues[n].repo = Task(w).repo
      BY <1>3, <2>2, <2>3, <3>1, <3>3, NewBug DEF SameBug
    <3> QED
      BY <3>2, <3>3
  <2>4. \A m, n \in DOMAIN issues : SameBug(m, n)' <=> SameBug(m, n)
    BY <2>1 DEF SameBug
  <2> QED
    BY <2>1, <2>3, <2>4 DEF OneIssuePerBug
<1> QED
  BY <1>1, <1>2, <1>3, IssueSteps

(* A bug has one open issue (findOpenIssueByTitle before createIssue),      *)
(* although answers get lost, runs die and the search lags, unless another  *)
(* was created after the last look.                                         *)
THEOREM BugsHaveOneIssue == Spec => []OneIssuePerBug
<1>1. Init => OneIssuePerBug
  BY FollowUpAssumption DEF FollowUpAssumption, Init, OneIssuePerBug, SameBug
<1>2. Invariant /\ OneIssuePerBug /\ [Next]_vars => OneIssuePerBug'
  BY StepOneIssuePerBug
<1> QED
  BY <1>1, <1>2, InvariantHolds, PTL DEF Spec
=============================================================================
