------------------------------ MODULE RunBatch ------------------------------
(***************************************************************************)
(* The runs of one project, one after the other: runKaizen                 *)
(* (orchestrator/run.ts), from the run lock to the summary.  A run secures *)
(* the workspace (WorkspaceTrust), closes what was merged, selects issues  *)
(* within the limits on open pull requests, gives each a worktree and      *)
(* works on all of them at the same time.                                  *)
(*                                                                         *)
(* IssuePipeline is about one issue in all its steps; here work on an      *)
(* issue has a beginning and an outcome, and there are several issues.     *)
(* Calls fail, the process dies, and humans act on GitHub between any two  *)
(* steps.  The workspace's access changes while no run uses the workspace: *)
(* a run that uses it does not look at what WorkspaceTrust is about again, *)
(* but for WorkspaceManager.ensure, which can fail in BaseFails.           *)
(***************************************************************************)
EXTENDS WorkspaceTrust, FiniteSets

CONSTANTS
    Issues,     \* how many issues there are; their numbers are their priorities
    MaxIssues,  \* config.run.maxIssuesPerNight
    MaxOpen,    \* config.run.maxOpenPullRequests
    WipLimit    \* config.safety.wipLimit

ASSUME BatchAssumption == Issues \in Nat /\ MaxIssues \in Nat /\ MaxOpen \in Nat /\ WipLimit \in Nat

Issue == 1 .. Issues

VARIABLES
    issue,     \* the issues on GitHub, each with the pull request of its branch
    saved,     \* the issues whose implementation state is resumable
    pc,        \* the next step of the run, "off" before it uses the workspace
    run,       \* what the run has selected
    worktree,  \* the issues whose worktree of this run is there
    work,      \* what has become of the work on each issue
    held       \* the run lock is held for this run

batch == <<issue, saved, pc, run, worktree, work, held>>
vars == <<trust, batch>>

IssueStates == [open : BOOLEAN, label : {"none", "claim", "terminal"},
                pr : {"none", "draft", "ready", "merged", "closed"}]
PC == {"off", "list", "reconcile", "pulls", "select", "wip", "intake", "verifier", "base",
       "worktrees", "work", "cleanup", "summary"}

(* todo: the issues the present step has still to see; sel: those selected; *)
(* resumed: those of them that go on with a checkpoint; open, ready: the    *)
(* pull requests listed.                                                    *)
Runs == [auto : BOOLEAN, todo : SUBSET Issue, sel : SUBSET Issue, resumed : SUBSET Issue,
         open : SUBSET Issue, ready : SUBSET Issue]

NoRun == [auto |-> FALSE, todo |-> {}, sel |-> {}, resumed |-> {}, open |-> {}, ready |-> {}]

TypeOK == /\ TrustTypeOK
          /\ issue \in [Issue -> IssueStates] /\ saved \subseteq Issue
          /\ pc \in PC /\ run \in Runs /\ worktree \subseteq Issue
          /\ work \in [Issue -> {"none", "working", "done", "threw"}] /\ held \in BOOLEAN

Init == /\ TrustInit
        /\ issue = [i \in Issue |-> [open |-> TRUE, label |-> "none", pr |-> "none"]]
        /\ saved = {} /\ pc = "off" /\ run = NoRun
        /\ worktree = {} /\ work = [i \in Issue |-> "none"] /\ held = FALSE

Goto(l) == pc' = l

(* The k most urgent of a set of issues. *)
First(k, s) == {i \in s : Cardinality({j \in s : j < i}) < k}

HasPull(states) == {i \in Issue : issue[i].pr \in states}

Relabelled(s, label) == [i \in Issue |-> IF i \in s THEN [issue[i] EXCEPT !.label = label] ELSE issue[i]]

(* The run is over, in whatever way: what it leaves on disk is not its own  *)
(* any more, and the lock is released, or stale.                            *)
Over == /\ Goto("off") /\ Leave
        /\ run' = NoRun /\ worktree' = {} /\ work' = [i \in Issue |-> "none"] /\ held' = FALSE
        /\ UNCHANGED <<dir, marker, tainted, marked, doctor>>

-----------------------------------------------------------------------------
(* The lock, and the workspace; a throw from there releases the lock. *)
Acquire == /\ Lock /\ held' = TRUE
           /\ UNCHANGED <<issue, saved, pc, run, worktree, work>>

Secure == /\ Securing \/ Stop
          /\ held' = (step' # "idle")
          /\ UNCHANGED <<issue, saved, pc, run, worktree, work>>

(* Others than the run look at the workspace or change the access to it. *)
Around == /\ pc = "off" /\ step # "use"
          /\ Doctor \/ Operator \/ OperatorRemoves
          /\ UNCHANGED batch

(* loadOperationalConfig, assertJobEnabled, the latest start and the        *)
(* preflight of the publication: the run goes on, or ends here.  It is for  *)
(* all issues, or for those that were asked for.                            *)
Enter == /\ step = "use" /\ pc = "off"
         /\ Goto("list")
         /\ \/ run' = [run EXCEPT !.auto = TRUE, !.todo = Issue]
            \/ \E asked \in SUBSET Issue \ {{}} : run' = [run EXCEPT !.todo = asked]
         /\ UNCHANGED <<trust, issue, saved, worktree, work, held>>

Refuse == /\ step = "use" /\ pc = "off" /\ Over
          /\ UNCHANGED <<issue, saved>>

(* listIssues has the open ones; what is labelled is skipped. *)
List == /\ pc = "list" /\ Goto("reconcile")
        /\ LET listed == {i \in run.todo : run.auto => issue[i].open} IN
           run' = [run EXCEPT !.todo = listed, !.sel = {i \in listed : issue[i].label = "none"}]
        /\ UNCHANGED <<trust, issue, saved, worktree, work, held>>

(* reconcileMergedPullRequestIssues: the issue of a merged pull request is  *)
(* closed, its labels are removed, and it is not selected.  When one of the *)
(* calls fails it stays among those to select, closed or not; so it does    *)
(* when the pull request does not close it.                                 *)
Reconcile(i) ==
  /\ pc = "reconcile" /\ i \in run.todo
  /\ \/ /\ issue[i].pr = "merged"
        /\ \/ /\ issue' = [issue EXCEPT ![i].open = FALSE, ![i].label = "none"]
              /\ run' = [run EXCEPT !.todo = @ \ {i}, !.sel = @ \ {i}]
           \/ /\ issue' = [issue EXCEPT ![i].open = FALSE]
              /\ run' = [run EXCEPT !.todo = @ \ {i}]
     \/ /\ run' = [run EXCEPT !.todo = @ \ {i}]
        /\ UNCHANGED issue
  /\ UNCHANGED <<trust, saved, pc, worktree, work, held>>

Reconciled == /\ pc = "reconcile" /\ run.todo = {} /\ Goto("pulls")
              /\ UNCHANGED <<trust, issue, saved, run, worktree, work, held>>

(* listOpenPullRequests: in a run for given issues only when one of them    *)
(* has a result with a pull request.                                        *)
Pulls == /\ pc = "pulls" /\ Goto("select")
         /\ IF run.auto \/ \E i \in run.sel : issue[i].pr \in {"ready", "merged", "closed"}
            THEN run' = [run EXCEPT !.open = HasPull({"draft", "ready"}), !.ready = HasPull({"ready"})]
            ELSE UNCHANGED run
         /\ UNCHANGED <<trust, issue, saved, worktree, work, held>>

-----------------------------------------------------------------------------
(* openCheckpointStates: of the resumable ones, those whose draft is open. *)
Checkpoints(resumable) == resumable \cap (run.open \ run.ready)

(* applyOpenPullRequestLimit: what it leaves of a selection when the limit  *)
(* has so much room.                                                        *)
Within(room, sel, resumable) ==
  IF Cardinality(sel) <= room THEN sel ELSE resumable \cup First(room, sel \ resumable)

\* Mutant: only other people's pull requests count.
RoomBesides(others, resumable) == IF others < MaxOpen THEN MaxOpen - others ELSE 0

(* The pull requests of the repository, other people's as well, without     *)
(* those of the checkpoints that are resumed.                               *)
Room(others, resumable) ==
  LET count == others + Cardinality(run.open \ Checkpoints(resumable)) IN
  IF count < MaxOpen THEN MaxOpen - count ELSE 0

(* checkExecutionAuthorization: the label, who has set it last, and what    *)
(* that person may do: any of the issues may lack one of them.              *)
Authorized == SUBSET run.sel

(* selectIssues, the authorization and the budget, then the limit. *)
Select ==
  /\ pc = "select" /\ Goto("wip")
  /\ \E authorized \in Authorized, others \in 0 .. 1 :
       LET sel == IF run.auto THEN First(MaxIssues, authorized \ run.ready) ELSE authorized
           resumable == sel \cap saved
       IN run' = [run EXCEPT !.resumed = resumable,
                             !.sel = IF run.auto THEN Within(Room(others, resumable), sel, resumable) ELSE sel,
                             !.open = {}]
  /\ UNCHANGED <<trust, issue, saved, worktree, work, held>>

(* summarizeGeneratedPullRequestBacklog: the pull requests of all           *)
(* registered repositories count, so the limit may be reached whatever      *)
(* there is in this one.                                                    *)
MustWait == Cardinality(HasPull({"draft", "ready"})) >= WipLimit

(* applyGeneratedPullRequestWipLimit *)
Wip == /\ pc = "wip" /\ Goto("intake")
       /\ \/ run.auto /\ run' = [run EXCEPT !.sel = @ \cap run.resumed]
          \/ ~(run.auto /\ MustWait) /\ UNCHANGED run
       /\ UNCHANGED <<trust, issue, saved, worktree, work, held>>

(* evaluateIssueIntake: nothing to go by, another repository's affair, a    *)
(* step back, a matter for a person; any of the issues may be one of these. *)
Refusals == SUBSET (run.sel \ run.ready)

(* applyIssueIntakeGate: what has a pull request already is left out, and   *)
(* what is refused gets a label, one after the other; a call may fail.      *)
Intake ==
  /\ pc = "intake"
  /\ \E refused \in Refusals :
       /\ issue' = Relabelled(refused, "terminal")
       /\ LET sel == run.sel \ (refused \cup run.ready) IN
          \/ /\ Goto(IF sel = {} THEN "summary" ELSE "verifier")
             /\ run' = [run EXCEPT !.sel = sel, !.ready = {}]
          \/ Goto("summary") /\ run' = NoRun
  /\ UNCHANGED <<trust, saved, worktree, work, held>>

(* preflightVerifier, and prepareBaseWorkspace. *)
Prepare == /\ \/ pc = "verifier" /\ Goto("base") /\ UNCHANGED run
              \/ pc = "base" /\ Goto("worktrees") /\ run' = [run EXCEPT !.todo = run.sel]
           /\ UNCHANGED <<trust, issue, saved, worktree, work, held>>

BaseFails == /\ pc \in {"verifier", "base"} /\ Goto("summary") /\ run' = NoRun
             /\ UNCHANGED <<trust, issue, saved, worktree, work, held>>

-----------------------------------------------------------------------------
NextUp(i) == pc = "worktrees" /\ run.todo # {} /\ First(1, run.todo) = {i}

CreateWorktree(i) == /\ NextUp(i)
                     /\ worktree' = worktree \cup {i}
                     /\ run' = [run EXCEPT !.todo = @ \ {i}]
                     /\ UNCHANGED <<trust, issue, saved, pc, work, held>>

(* The branch of a checkpoint is missing or has diverged: recovery-needed,  *)
(* which stays resumable, and the issue is blocked; nothing is left of it   *)
(* for this run.                                                            *)
Recover(i) == /\ NextUp(i) /\ i \in saved
              /\ issue' = Relabelled({i}, "terminal")
              /\ run' = [run EXCEPT !.todo = @ \ {i}]
              /\ UNCHANGED <<trust, saved, pc, worktree, work, held>>

(* The deadline, the disk, git or GitHub: nothing is worked on. *)
WorktreeFails == /\ pc = "worktrees" /\ Goto("cleanup")
                 /\ run' = NoRun
                 /\ UNCHANGED <<trust, issue, saved, worktree, work, held>>

Work == /\ pc = "worktrees" /\ run.todo = {} /\ Goto("work")
        /\ work' = [i \in Issue |-> IF i \in worktree THEN "working" ELSE "none"]
        /\ UNCHANGED <<trust, issue, saved, run, worktree, held>>

Claim(i) == /\ pc = "work" /\ work[i] = "working" /\ issue[i].label # "claim"
            /\ issue' = Relabelled({i}, "claim")
            /\ UNCHANGED <<trust, saved, pc, run, worktree, work, held>>

Working(i) == pc = "work" /\ work[i] = "working" /\ issue[i].label = "claim"

Outcome(i, new, resumable) ==
  /\ issue' = [issue EXCEPT ![i] = new]
  /\ saved' = IF resumable THEN saved \cup {i} ELSE saved \ {i}
  /\ work' = [work EXCEPT ![i] = "done"]
  /\ UNCHANGED <<trust, pc, run, worktree, held>>

(* A ready pull request: a new one, or the draft of the checkpoint. *)
Delivered(i) == /\ Working(i) /\ issue[i].pr # "ready"
                /\ Outcome(i, [issue[i] EXCEPT !.label = "none", !.pr = "ready"], FALSE)

(* On the default branch, which a run of several issues does not do, or     *)
(* found to be fixed already.                                               *)
Landed(i) == /\ Working(i) /\ issue[i].pr = "none" /\ Cardinality(run.sel) <= 1
             /\ Outcome(i, [issue[i] EXCEPT !.label = "none", !.open = FALSE], FALSE)

Fixed(i) == /\ Working(i)
            /\ Outcome(i, [issue[i] EXCEPT !.label = "none", !.open = FALSE], FALSE)

(* Failed or blocked, with a draft for the checkpoint or without. *)
Undelivered(i) ==
  /\ Working(i)
  /\ \E label \in {"none", "terminal"} :
       \/ Outcome(i, [issue[i] EXCEPT !.label = label,
                                      !.pr = IF @ = "ready" THEN @ ELSE "draft"], TRUE)
       \/ Outcome(i, [issue[i] EXCEPT !.label = label], TRUE)

(* processIssue throws, before or after its claim. *)
Threw(i) == /\ pc = "work" /\ work[i] = "working"
            /\ work' = [work EXCEPT ![i] = "threw"]
            /\ UNCHANGED <<trust, issue, saved, pc, run, worktree, held>>

\* Mutant: Promise.all, which does not wait for the others when one rejects.
FirstRejects == \/ \E i \in Issue : work[i] = "threw"
                \/ \A i \in Issue : work[i] # "working"

(* Promise.allSettled *)
AllSettled == \A i \in Issue : work[i] # "working"

Settle == /\ pc = "work" /\ AllSettled /\ Goto("cleanup") /\ run' = NoRun
          /\ UNCHANGED <<trust, issue, saved, worktree, work, held>>

(* removeIssueWorktree, one after the other; where one fails the rest stay. *)
Remove1(i) == /\ pc = "cleanup" /\ i \in worktree /\ First(1, worktree) = {i}
              /\ worktree' = worktree \ {i}
              /\ UNCHANGED <<trust, issue, saved, pc, run, work, held>>

Cleaned == /\ pc = "cleanup" /\ Goto("summary")
           /\ UNCHANGED <<trust, issue, saved, run, worktree, work, held>>

(* The summary is written, or not; the lock is released. *)
Summary == /\ pc = "summary" /\ Over
           /\ UNCHANGED <<issue, saved>>

(* A call that throws outside of the work on the issues, or the process     *)
(* dies.                                                                    *)
Throws == /\ pc \in {"list", "pulls", "select", "wip"} /\ Goto("summary") /\ run' = NoRun
          /\ UNCHANGED <<trust, issue, saved, worktree, work, held>>

Crash == /\ pc # "off" /\ Over
         /\ UNCHANGED <<issue, saved>>

-----------------------------------------------------------------------------
Human(i, new) == /\ issue[i] # new /\ issue' = [issue EXCEPT ![i] = new]
                 /\ UNCHANGED <<trust, saved, pc, run, worktree, work, held>>

HumanMerges(i) == /\ issue[i].pr = "ready"
                  /\ \E open \in {issue[i].open, FALSE} :
                       Human(i, [issue[i] EXCEPT !.pr = "merged", !.open = open])

HumanCloses(i) == issue[i].pr \in {"draft", "ready"} /\ Human(i, [issue[i] EXCEPT !.pr = "closed"])

HumanPromotes(i) == issue[i].pr = "draft" /\ Human(i, [issue[i] EXCEPT !.pr = "ready"])

(* A terminal label is taken away; a claim only while no run works. *)
HumanClears(i) == /\ issue[i].label = "terminal" \/ (issue[i].label = "claim" /\ pc = "off")
                  /\ Human(i, [issue[i] EXCEPT !.label = "none"])

OnIssue(i) == \/ Reconcile(i) \/ CreateWorktree(i) \/ Recover(i) \/ Claim(i)
              \/ Delivered(i) \/ Landed(i) \/ Fixed(i) \/ Undelivered(i) \/ Threw(i) \/ Remove1(i)

Humans(i) == HumanMerges(i) \/ HumanCloses(i) \/ HumanPromotes(i) \/ HumanClears(i)

Next == \/ Acquire \/ Secure \/ Around \/ Enter \/ Refuse \/ List \/ Reconciled \/ Pulls \/ Select
        \/ Wip \/ Intake \/ Prepare \/ BaseFails \/ WorktreeFails \/ Work \/ Settle \/ Cleaned
        \/ Summary \/ Throws \/ Crash
        \/ \E i \in Issue : OnIssue(i) \/ Humans(i)

Spec == Init /\ [][Next]_vars

-----------------------------------------------------------------------------
(* While an issue is worked on its worktree is there and the run holds the  *)
(* lock, whatever has become of the other issues of the run.                *)
WorkCovered == \A i \in Issue : work[i] = "working" => i \in worktree /\ held

(* While an automatic run works on issues without a checkpoint, these and   *)
(* all the pull requests that are open, but for those of the checkpoints it *)
(* has set out to resume, are within the limit on open pull requests: the   *)
(* list it was decided on is older than the work.                           *)
NewWork == run.sel \ run.resumed

NewWorkWithinLimit ==
  run.auto /\ pc \in {"worktrees", "work"} /\ NewWork # {} =>
    Cardinality(NewWork \cup (HasPull({"draft", "ready"}) \ run.resumed)) <= MaxOpen

=============================================================================
