------------------------------ MODULE FollowUps ------------------------------
(***************************************************************************)
(* The follow-up issues of a run: bugs that a builder reports beside the   *)
(* one it was given, and that the run files (fileDiscoveredIssues of       *)
(* orchestrator/run.ts, findOpenIssueByTitle and createIssue of            *)
(* github/client.ts, discovered-issue-fingerprint.ts).                     *)
(*                                                                         *)
(* The issues of a run are worked on at the same time, each in attempts;   *)
(* every attempt may report, and what it reports goes to the repository it *)
(* is about, once per fingerprint of its evidence.  Nothing but the open   *)
(* issues on GitHub tells one run what another has filed.  One action is   *)
(* one call of GitHub, which may fail with or without its effect; searches *)
(* go by an index that lags, the plain list of issues does not.            *)
(***************************************************************************)
EXTENDS Naturals, FiniteSets, Sequences

CONSTANTS
    Worker,      \* the issues that a run works on
    Repo, Home,  \* the repositories, and the one of the project
    Registered,  \* those with projects on this machine
    Title, Evidence,
    Report,      \* what builders may report
    Yields,      \* what an attempt may report: some of it at once
    Label,       \* the labels an issue can get
    Known,       \* per repository: its labels
    Required,    \* those that a follow-up issue must have
    Auth,        \* the label that authorizes work on an issue
    Monitors,    \* the titles of monitors, alike in words
    Legacy,      \* the issues there may be already, filed by people
    Nothing,     \* no evidence, no repository, no label
    Rounds,      \* config.run.maxVerifyRetries + 1
    Runs,        \* bound: how many runs there are
    Faults       \* bound: how many calls fail and runs die

Reports == [title : Title, evidence : Evidence \cup {Nothing}, class : BOOLEAN, alarming : BOOLEAN,
            repo : Repo \cup {Nothing}, paths : SUBSET Repo, labels : SUBSET Label]

(* An issue on GitHub.  by: who filed it, and in which run; lost: the answer *)
(* to its creation got lost (history); blind: see Blind (history).          *)
IssueRecord ==
    [repo : Repo, title : Title, marker : (Evidence \X BOOLEAN) \cup {Nothing},
     evidence : Evidence \cup {Nothing}, labels : SUBSET Label, open : BOOLEAN, linked : BOOLEAN,
     by : (Worker \cup {Nothing}) \X Nat, lost : BOOLEAN, blind : BOOLEAN]

ASSUME FollowUpAssumption ==
    /\ Home \in Repo /\ Registered \subseteq Repo /\ Report \subseteq Reports /\ Yields \subseteq SUBSET Report
    /\ Known \in [Repo -> SUBSET Label] /\ Required \subseteq Label /\ Monitors \subseteq Title
    /\ Nothing \notin Worker \cup Repo \cup Evidence \cup (Evidence \X BOOLEAN) \cup Report
    /\ Legacy \in Seq(IssueRecord)
    /\ \A n \in DOMAIN Legacy : Legacy[n].by[1] = Nothing /\ Legacy[n].marker = Nothing
    /\ Rounds \in Nat /\ Runs \in Nat /\ Faults \in Nat

VARIABLES
    issues,  \* the issues on GitHub, in the order of their numbers
    worker,  \* per issue of the run: how far its follow-ups are
    run,     \* the number of the run
    faults   \* what has gone wrong so far

vars == <<issues, worker, run, faults>>

(* A report under way: where it goes, with which labels, which issue was     *)
(* found, and how many issues there were at the last look.                  *)
NoTask == [report |-> Nothing, repo |-> Nothing, labels |-> {}, found |-> 0, seen |-> 0]

(* filedKeys starts empty for each issue of a run. *)
Fresh == [at |-> "build", round |-> 0, todo |-> {}, task |-> NoTask, keys |-> {}]

At(w, step) == worker[w].at = step
Becomes(w, new) == worker' = [worker EXCEPT ![w] = new]

Task(w) == worker[w].task
Subject(w) == Task(w).report

(* buildDiscoveredIssueFingerprint: of the repository, the evidence and the *)
(* failure class; none for evidence that says nothing.                      *)
Marker(r) == IF r.evidence = Nothing THEN Nothing ELSE <<r.evidence, r.class>>

(* What tells one report from another within the work on an issue. *)
Key(r, repo) == <<repo, IF Marker(r) = Nothing THEN r.title ELSE Marker(r)>>

\* Mutant: what was filed is not noted.
FiledUnnoted(w) == worker[w].keys

(* filedKeys.add, with the answer at hand. *)
Filed(w) == worker[w].keys \cup {Key(Subject(w), Task(w).repo)}

(* The next report is taken up: this one is filed, or its failure logged. *)
NextReport(w, keys) == Becomes(w, [worker[w] EXCEPT !.at = "pick", !.task = NoTask, !.keys = keys])
Skips(w) == NextReport(w, worker[w].keys)

-----------------------------------------------------------------------------
(* resolveReportedDiscoveredIssueRepo: an alias or a full name; an unknown  *)
(* short name, and none, is the project's own.                              *)
Reported(r) == IF r.repo = Nothing THEN Home ELSE r.repo

(* inferRegisteredRepoFromIssueText, findRegisteredPathMatch: a path of     *)
(* another registered project in the text counts before one of the own,     *)
(* but not against a repository that was named; of several the longest.     *)
Inferred(r) ==
    LET named == Registered \cap r.paths IN
    IF r.repo # Nothing /\ Reported(r) # Home THEN named \cap {Reported(r)}
    ELSE IF named \ {Home} # {} THEN named \ {Home} ELSE named

(* resolveDiscoveredIssueRepo *)
Targets(r) == IF Inferred(r) # {} THEN Inferred(r) ELSE {Reported(r)}

\* Mutant: the builder's labels are taken as they are.
AnyLabels(r) == Required \cup r.labels

(* labelsForDiscoveredIssue: of a report's labels only kaizen and the       *)
(* priorities count.                                                        *)
LabelsOf(r) == Required \cup (r.labels \ {Auth})

-----------------------------------------------------------------------------
(* The builder ends; its result, or if that is invalid the file beside it   *)
(* (readDiscoveredIssues), has reports that the schema lets pass.           *)
Build(w) ==
    /\ At(w, "build") /\ worker[w].round < Rounds
    /\ \E todo \in Yields :
         Becomes(w, [worker[w] EXCEPT !.at = "pick", !.todo = todo, !.round = @ + 1])
    /\ UNCHANGED <<issues, run, faults>>

(* The next report; what has been filed for this issue is left out. *)
Pick(w) ==
    /\ At(w, "pick")
    /\ \E r \in worker[w].todo : \E repo \in Targets(r) :
         LET rest == [worker[w] EXCEPT !.todo = @ \ {r}] IN
         Becomes(w, IF Key(r, repo) \in worker[w].keys THEN rest
                    ELSE [rest EXCEPT !.at = IF Marker(r) = Nothing THEN "title" ELSE "marker",
                                      !.task = [NoTask EXCEPT !.report = r, !.repo = repo]])
    /\ UNCHANGED <<issues, run, faults>>

-----------------------------------------------------------------------------
(* findOpenIssueByTitle: three looks, each at the open issues of the        *)
(* repository.                                                              *)
Open(w) == {n \in DOMAIN issues : issues[n].open /\ issues[n].repo = Task(w).repo}

(* What is found is reported as a duplicate, perhaps after its repair. *)
Finds(w, matches, otherwise) ==
    /\ \/ \E n \in matches : IF issues[n].linked THEN NextReport(w, Filed(w))
                             ELSE Becomes(w, [worker[w] EXCEPT !.at = "repair", !.task.found = n])
       \/ matches = {} /\ Becomes(w, [worker[w] EXCEPT !.at = otherwise, !.task.seen = Len(issues),
                                                        !.task.labels = LabelsOf(Subject(w))])
    /\ UNCHANGED <<issues, run, faults>>

(* A search goes by an index that lags: it finds any part of what there is. *)
Searches(w, matches, otherwise) == \E found \in SUBSET matches : Finds(w, found, otherwise)

(* hasDiscoveredIssueFingerprint *)
Marked(n, r) == Marker(r) # Nothing /\ issues[n].marker = Marker(r)

FindMarker(w) ==
    /\ At(w, "marker")
    /\ Searches(w, {n \in Open(w) : Marked(n, Subject(w))}, "title")

FindTitle(w) ==
    /\ At(w, "title")
    /\ Searches(w, {n \in Open(w) : issues[n].title = Subject(w).title}, "list")

(* isEquivalentLegacyEvidence: an issue without a marker, of the same       *)
(* evidence and the same failure class.                                     *)
SameEvidence(n, r) ==
    r.class /\ r.evidence # Nothing /\ issues[n].marker = Nothing /\ issues[n].evidence = r.evidence

(* isEquivalentOpenIssue *)
SameMonitor(n, r) == issues[n].title \in Monitors /\ r.title \in Monitors

\* Mutant: fingerprints are looked for in the search alone.
ListedUnmarked(n, r) == SameEvidence(n, r) \/ SameMonitor(n, r)

(* What is recognized in the plain list, which does not lag. *)
Listed(n, r) == Marked(n, r) \/ SameEvidence(n, r) \/ SameMonitor(n, r)

FindInList(w) ==
    /\ At(w, "list")
    /\ Finds(w, {n \in Open(w) : Listed(n, Subject(w))}, "create")

-----------------------------------------------------------------------------
(* repairDiscoveredIssueBodyIfNeeded: an issue that the machine wrote gets  *)
(* the guidance that it lacks, or this is left to the next who finds it.    *)
Repair(w) ==
    /\ At(w, "repair")
    /\ \/ UNCHANGED issues
       \/ LET n == Task(w).found IN
          /\ Marked(n, Subject(w)) \/ issues[n].by[1] = w
          /\ issues' = [issues EXCEPT ![n].linked = TRUE]
    /\ NextReport(w, Filed(w))
    /\ UNCHANGED <<run, faults>>

(* What was created since the last look for it. *)
Blind(w) ==
    \E n \in Task(w).seen + 1 .. Len(issues) :
        /\ issues[n].open /\ issues[n].repo = Task(w).repo
        /\ Marked(n, Subject(w))

(* The new issue, as buildDiscoveredIssueBody writes it. *)
NewIssue(w, lost) ==
    [repo |-> Task(w).repo, title |-> Subject(w).title, marker |-> Marker(Subject(w)),
     evidence |-> Subject(w).evidence, labels |-> Task(w).labels, open |-> TRUE,
     linked |-> FALSE, by |-> <<w, run>>, lost |-> lost, blind |-> Blind(w)]

(* gh creates an issue with all its labels or not at all. *)
Granted(w) == Task(w).labels \subseteq Known[Task(w).repo]

(* createIssue *)
Create(w) ==
    /\ At(w, "create") /\ Granted(w)
    /\ issues' = Append(issues, NewIssue(w, FALSE))
    /\ Becomes(w, [worker[w] EXCEPT !.at = "edit", !.task.found = Len(issues) + 1, !.keys = Filed(w)])
    /\ UNCHANGED <<run, faults>>

\* Mutant: any label is given up for the issue.
LabelsDropped(labels) == {labels \ {l} : l \in labels}

(* labelsAfterMissingLabelError, with required labels: the message repeats  *)
(* the command, and so names every label, whichever is missing.  The first  *)
(* of the optional ones goes; if there is none it is over.                  *)
LabelsAfter(labels) ==
    IF labels \subseteq Required THEN {labels} ELSE {labels \ {l} : l \in labels \ Required}

(* Again with fewer labels, or not at all. *)
Retries(w) ==
    \E left \in LabelsAfter(Task(w).labels) :
        IF left = Task(w).labels THEN Skips(w) ELSE Becomes(w, [worker[w] EXCEPT !.task.labels = left])

(* gh refuses the issue, for a label is missing. *)
Relabel(w) ==
    /\ At(w, "create") /\ ~Granted(w)
    /\ Retries(w)
    /\ UNCHANGED <<issues, run, faults>>

(* Another failure reads like a missing label when the text of the issue,   *)
(* which is in the message too, has the words for it; otherwise there is no *)
(* retry (noRetry).                                                         *)
GivesUp(w) == IF Subject(w).alarming THEN Retries(w) ELSE Skips(w)

(* The issue is there, but its creator does not learn of it. *)
CreateLost(w) ==
    /\ At(w, "create") /\ Granted(w) /\ faults < Faults
    /\ issues' = Append(issues, NewIssue(w, TRUE))
    /\ faults' = faults + 1
    /\ GivesUp(w)
    /\ UNCHANGED run

(* updateIssueBody, with the number that is known by now. *)
Edit(w) ==
    /\ At(w, "edit")
    /\ issues' \in {issues, [issues EXCEPT ![Task(w).found].linked = TRUE]}
    /\ Skips(w)
    /\ UNCHANGED <<run, faults>>

(* A look or a creation fails without effect. *)
CallFails(w) ==
    /\ worker[w].at \in {"marker", "title", "list", "create"} /\ faults < Faults
    /\ faults' = faults + 1
    /\ IF At(w, "create") THEN GivesUp(w) ELSE Skips(w)
    /\ UNCHANGED <<issues, run>>

(* All reports are through; the source issue gets a comment about what was  *)
(* filed, or the log an error.  There may be another attempt.               *)
Through(w) ==
    /\ At(w, "pick") /\ worker[w].todo = {}
    /\ Becomes(w, [worker[w] EXCEPT !.at = "build"])
    /\ UNCHANGED <<issues, run, faults>>

-----------------------------------------------------------------------------
(* The next run, of the same issues; this one has ended, or dies. *)
NextRun ==
    /\ run < Runs /\ run' = run + 1
    /\ \/ (\A w \in Worker : At(w, "build")) /\ UNCHANGED faults
       \/ faults < Faults /\ faults' = faults + 1
    /\ worker' = [w \in Worker |-> Fresh]
    /\ UNCHANGED issues

HumanCloses(n) ==
    /\ n \in DOMAIN issues /\ issues[n].open
    /\ issues' = [issues EXCEPT ![n].open = FALSE]
    /\ UNCHANGED <<worker, run, faults>>

File(w) == \/ Pick(w) \/ FindMarker(w) \/ FindTitle(w) \/ FindInList(w) \/ Repair(w)
           \/ Create(w) \/ Relabel(w) \/ Edit(w) \/ Through(w)

Init == /\ issues \in {<<>>, Legacy}
        /\ worker = [w \in Worker |-> Fresh]
        /\ run = 1 /\ faults = 0

Next == \/ \E w \in Worker : Build(w) \/ File(w) \/ CreateLost(w) \/ CallFails(w)
        \/ NextRun
        \/ \E n \in DOMAIN issues : HumanCloses(n)

Spec == Init /\ [][Next]_vars

-----------------------------------------------------------------------------
(* Two issues about one bug: of the same fingerprint, or one filed by a     *)
(* person with the evidence of the other.                                   *)
SameBug(m, n) ==
    /\ issues[m].repo = issues[n].repo
    /\ issues[m].marker # Nothing
    /\ \/ issues[n].marker = issues[m].marker
       \/ issues[n].marker = Nothing /\ issues[m].marker = <<issues[n].evidence, TRUE>>

(* A bug has one open issue in its repository, whichever issues of whatever *)
(* runs it was met in, under whatever title, and although answers get lost, *)
(* runs die and the search lags; unless another was created after the look  *)
(* that preceded its creation.                                              *)
OneIssuePerBug ==
    \A m, n \in DOMAIN issues :
        (/\ issues[m].open /\ issues[n].open /\ SameBug(m, n)
         /\ ~issues[m].blind /\ ~issues[n].blind)
        => m = n

(* The work on an issue files a report once over all its attempts, closed   *)
(* or not, and with evidence or only a title, unless the answer to its      *)
(* creation is lost.                                                        *)
IssueKey(n) == <<issues[n].repo, IF issues[n].marker = Nothing THEN issues[n].title ELSE issues[n].marker>>

FiledOnce ==
    \A m, n \in DOMAIN issues :
        (/\ issues[m].by[1] \in Worker
         /\ issues[m].by = issues[n].by /\ IssueKey(m) = IssueKey(n)
         /\ ~issues[m].lost /\ ~issues[n].lost)
        => m = n

(* A run files an issue with all the labels it needs or not at all,         *)
(* whichever of them its repository lacks and whatever fails meanwhile; and *)
(* a builder cannot authorize the work on what it has reported.             *)
LabelsGranted ==
    \A n \in DOMAIN issues :
        issues[n].by[1] \in Worker => /\ Required \subseteq issues[n].labels
                                      /\ Auth \in issues[n].labels => Auth \in Required
=============================================================================
