----------------------------- MODULE GoalRunner -----------------------------
(***************************************************************************)
(* A goal (src/src/goals): `kaizen goal run` works in iterations, each of  *)
(* which plans an issue, creates it on GitHub, lets the pipeline process   *)
(* it, and has the outcome evaluated by a command (goal.evaluation) and an *)
(* agent.  The goal's file, goal.json, is loaded once under goal.lock and  *)
(* from then on written from memory.  Beside the runners, `kaizen goal     *)
(* stop` reads and writes the file without the lock, people close issues,  *)
(* GitHub's search finds an issue some time after it was created, and      *)
(* processes die.                                                          *)
(***************************************************************************)
EXTENDS Naturals, Sequences

CONSTANTS
    Runner,         \* `kaizen goal run` processes
    NoOne,          \* no goal.lock
    Gone,           \* a goal.lock whose process has ended
    MaxIterations,  \* of the goal
    GateOn,         \* config.goal.evaluation.command is set
    Overlap,        \* `goal stop` is used while a runner works
    MaxFaults       \* bound on failing calls, failing writes and crashes

ASSUME GoalAssumption ==
    /\ NoOne \notin Runner /\ Gone \notin Runner /\ NoOne # Gone
    /\ MaxIterations \in Nat \ {0}
    /\ GateOn \in BOOLEAN /\ Overlap \in BOOLEAN
    /\ MaxFaults \in Nat

VARIABLES
    goal,      \* goal.json
    issues,    \* the issues with the goal's marker on GitHub, in order of their numbers
    missed,    \* (history) those a search for their marker did not find
    lock,      \* the process that goal.lock names
    pc,        \* the next step of each runner
    mem,       \* the goal as each runner has it in memory
    issue,     \* the issue each runner is at
    stopper,   \* the goal as `goal stop` has loaded it
    faults

vars == <<goal, issues, missed, lock, pc, mem, issue, stopper, faults>>
github == <<issues, missed>>

-----------------------------------------------------------------------------
(* Types *)

Status == {"active", "succeeded", "blocked", "failed", "stopped"}

\* goesOn: the evaluation is to continue, with the next issue.  gate: mechanicalEvaluation.ok.
Iteration == [issue : Nat, outcome : {"planned", "processed", "succeeded", "blocked", "failed"},
              goesOn : BOOLEAN, gate : {"none", "passed", "failed"}]
Goal == [status : Status, iterations : Seq(Iteration)]
NoGoal == <<>>

\* iteration: the one in the marker.  indexed: GitHub's search finds it.  unheard (history):
\* the answer to its creation was lost, and the creation was sent once more.
Issue == [iteration : Nat, open : BOOLEAN, indexed : BOOLEAN, unheard : BOOLEAN]

PC == {"idle", "lock", "load", "plan", "search", "create", "again", "record", "run",
       "judge", "store", "end", "release"}

TypeOK ==
    /\ goal \in Goal
    /\ issues \in Seq(Issue) /\ missed \subseteq Nat
    /\ lock \in Runner \cup {NoOne, Gone}
    /\ pc \in [Runner -> PC]
    /\ mem \in [Runner -> Goal \cup {NoGoal}]
    /\ issue \in [Runner -> Nat]
    /\ stopper \in Goal \cup {NoGoal}
    /\ faults \in 0 .. MaxFaults

\* createGoalState.
Init ==
    /\ goal = [status |-> "active", iterations |-> <<>>]
    /\ issues = <<>> /\ missed = {}
    /\ lock = NoOne
    /\ pc = [r \in Runner |-> "idle"]
    /\ mem = [r \in Runner |-> NoGoal]
    /\ issue = [r \in Runner |-> 0]
    /\ stopper = NoGoal
    /\ faults = 0

-----------------------------------------------------------------------------
Goto(r, s) == pc' = [pc EXCEPT ![r] = s]
Remember(r, g) == mem' = [mem EXCEPT ![r] = g]
At(r, s) == pc[r] = s
Fault == faults < MaxFaults /\ faults' = faults + 1

\* The runner has loaded the goal under the lock.
Working(r) == pc[r] \notin {"idle", "lock", "load"}

History(r) == mem[r].iterations
Current(r) == Len(History(r))
Last(r) == History(r)[Current(r)]

\* finishGoal: in memory; the write is the step "end".
Finish(r, status) == Remember(r, [mem[r] EXCEPT !.status = status]) /\ Goto(r, "end")

\* The last iteration in memory becomes it.
Concluded(r, it) == [mem[r] EXCEPT !.iterations[Current(r)] = it]

-----------------------------------------------------------------------------
(* runGoal up to the loop *)

Begin(r) ==
    /\ At(r, "idle") /\ goal.status = "active"
    /\ Goto(r, "lock")
    /\ UNCHANGED <<goal, github, lock, mem, issue, stopper, faults>>

\* Mutant: a stale lock is not removed before the next try.
AcquireFresh(r) ==
    /\ At(r, "lock") /\ lock = NoOne
    /\ lock' = r
    /\ Goto(r, "load")
    /\ UNCHANGED <<goal, github, mem, issue, stopper, faults>>

\* GoalLock.acquire, with the removal of a stale lock.
Acquire(r) ==
    /\ At(r, "lock") /\ lock \in {NoOne, Gone}
    /\ lock' = r
    /\ Goto(r, "load")
    /\ UNCHANGED <<goal, github, mem, issue, stopper, faults>>

Refused(r) ==
    /\ At(r, "lock") /\ lock \in Runner
    /\ Goto(r, "idle")
    /\ UNCHANGED <<goal, github, lock, mem, issue, stopper, faults>>

\* Without Overlap no `goal stop` is under way when a runner gets to work.
Undisturbed == Overlap \/ stopper = NoGoal

\* Mutant: that it was active before the lock is enough.
LoadUnchecked(r) ==
    /\ At(r, "load") /\ Undisturbed
    /\ Remember(r, goal)
    /\ Goto(r, "plan")
    /\ UNCHANGED <<goal, github, lock, issue, stopper, faults>>

\* The goal is loaded again: it may have ended since Begin.
Load(r) ==
    /\ At(r, "load") /\ Undisturbed
    /\ Remember(r, goal)
    /\ Goto(r, IF goal.status = "active" THEN "plan" ELSE "release")
    /\ UNCHANGED <<goal, github, lock, issue, stopper, faults>>

-----------------------------------------------------------------------------
(* One iteration *)

\* Mutant: the loop ends, and nothing says why.
LimitSilently(r) ==
    /\ At(r, "plan") /\ Current(r) >= MaxIterations
    /\ Goto(r, "release")
    /\ UNCHANGED <<goal, github, lock, mem, issue, stopper, faults>>

LimitReached(r) ==
    /\ At(r, "plan") /\ Current(r) >= MaxIterations
    /\ Finish(r, "blocked")
    /\ UNCHANGED <<goal, github, lock, issue, stopper, faults>>

\* The last evaluation has named the next issue, or the planner does, or it concludes
\* that there is none.  It may fail, twice.
NextIsKnown(r) ==
    Current(r) > 0 /\ Last(r).goesOn

Plan(r) ==
    /\ At(r, "plan") /\ Current(r) < MaxIterations
    /\ Goto(r, "search")
    /\ UNCHANGED <<goal, github, lock, mem, issue, stopper, faults>>

PlanEnds(r) ==
    /\ At(r, "plan") /\ Current(r) < MaxIterations /\ ~NextIsKnown(r)
    /\ \E status \in {"succeeded", "blocked", "failed"} : Finish(r, status)
    /\ UNCHANGED <<goal, github, lock, issue, stopper, faults>>

\* Mutant: the marker does not say which iteration.
FoundAny(n) == {i \in DOMAIN issues : issues[i].open /\ issues[i].indexed}

\* findOpenIssuesByBodyMarker.
Found(n) == {i \in DOMAIN issues : issues[i].iteration = n /\ issues[i].open /\ issues[i].indexed}

IsFirst(i, S) == i \in S /\ \A j \in S : i <= j
Closed(S) == [i \in DOMAIN issues |-> IF i \in S THEN [issues[i] EXCEPT !.open = FALSE] ELSE issues[i]]

\* The open issues of iteration n but own that a search does not find now.
Overlooked(n, own) ==
    {i \in DOMAIN issues : issues[i].iteration = n /\ issues[i].open} \ (Found(n) \cup {own})

Coming(r) == Current(r) + 1

\* An issue of this iteration is there, from a runner that died.
Reuse(r) ==
    /\ At(r, "search")
    /\ \E i \in Found(Coming(r)) :
         /\ IsFirst(i, Found(Coming(r)))
         /\ issues' = Closed(Found(Coming(r)) \ {i})
         /\ issue' = [issue EXCEPT ![r] = i]
    /\ missed' = missed \cup Overlooked(Coming(r), 0)
    /\ Goto(r, "record")
    /\ UNCHANGED <<goal, lock, mem, stopper, faults>>

\* Mutant: it is not looked for.
SearchNot(r) ==
    /\ At(r, "search")
    /\ Goto(r, "create")
    /\ UNCHANGED <<goal, github, lock, mem, issue, stopper, faults>>

SearchEmpty(r) ==
    /\ At(r, "search") /\ Found(Coming(r)) = {}
    /\ missed' = missed \cup Overlooked(Coming(r), 0)
    /\ Goto(r, "create")
    /\ UNCHANGED <<goal, issues, lock, mem, issue, stopper, faults>>

NewIssue(n, unheard) == [iteration |-> n, open |-> TRUE, indexed |-> FALSE, unheard |-> unheard]

Create(r) ==
    /\ At(r, "create")
    /\ issues' = Append(issues, NewIssue(Coming(r), FALSE))
    /\ issue' = [issue EXCEPT ![r] = Len(issues) + 1]
    /\ Goto(r, "again")
    /\ UNCHANGED <<goal, missed, lock, mem, stopper, faults>>

\* createIssue sends the creation again, with a label less, when the error reads like a
\* missing label: the error repeats the whole command, labels and text, so that a lost answer
\* can read like one.  (Without effect it is no step.  The labels outlast MaxFaults.)
Resend(r) ==
    /\ At(r, "create")
    /\ Fault
    /\ issues' = Append(issues, NewIssue(Coming(r), TRUE))
    /\ Goto(r, "create")
    /\ UNCHANGED <<goal, missed, lock, mem, issue, stopper>>

\* The second look, 250 ms later: the first issue found counts, the others are closed.
Again(r) ==
    LET S == Found(Coming(r))
    IN  /\ At(r, "again")
        /\ \E i \in S \cup {issue[r]} :
             /\ IF S = {} THEN i = issue[r] ELSE IsFirst(i, S)
             /\ issues' = Closed(S \ {i})
             /\ issue' = [issue EXCEPT ![r] = i]
        /\ missed' = missed \cup Overlooked(Coming(r), issue[r])
        /\ Goto(r, "record")
        /\ UNCHANGED <<goal, lock, mem, stopper, faults>>

\* A call to GitHub throws, whether or not it had its effect.
CallFails(r) ==
    /\ pc[r] \in {"search", "create", "again"}
    /\ Fault
    /\ \/ UNCHANGED issues
       \/ At(r, "create") /\ issues' = Append(issues, NewIssue(Coming(r), FALSE))
       \/ ~At(r, "create") /\ \E i \in Found(Coming(r)) :
            ~IsFirst(i, Found(Coming(r))) /\ issues' = Closed({i})
    /\ Finish(r, "failed")
    /\ UNCHANGED <<goal, missed, lock, issue, stopper>>

Record(r) ==
    /\ At(r, "record")
    /\ LET it == [issue |-> issue[r], outcome |-> "planned", goesOn |-> FALSE, gate |-> "none"]
           new == [mem[r] EXCEPT !.iterations = Append(@, it)]
       IN  Remember(r, new) /\ goal' = new
    /\ Goto(r, "run")
    /\ UNCHANGED <<github, lock, issue, stopper, faults>>

\* runKaizen comes to an end for the issue (it may close it): published, or not.
RunDone(r) ==
    /\ At(r, "run")
    /\ issues' \in {issues, Closed({issue[r]})}
    /\ Goto(r, "judge")
    /\ UNCHANGED <<goal, missed, lock, mem, issue, stopper, faults>>

RunUnsuccessful(r) ==
    /\ At(r, "run")
    /\ \E o \in {"blocked", "failed"} : Remember(r, Concluded(r, [Last(r) EXCEPT !.outcome = o]))
    /\ Goto(r, "store")
    /\ UNCHANGED <<goal, github, lock, issue, stopper, faults>>

\* enforceMechanicalEvaluation, outcomeForEvaluation.
Outcome(status, gate) ==
    IF status = "continue" \/ (status = "succeeded" /\ gate = "failed") THEN "processed" ELSE status

\* The command first, then the evaluator.
Judge(r) ==
    /\ At(r, "judge")
    /\ \E gate \in IF GateOn THEN {"passed", "failed"} ELSE {"none"},
          status \in {"succeeded", "continue", "blocked", "failed"}, next \in BOOLEAN :
         LET o == Outcome(status, gate)
         IN  Remember(r, Concluded(r, [Last(r) EXCEPT !.outcome = o, !.gate = gate,
                                                      !.goesOn = next /\ o = "processed"]))
    /\ Goto(r, "store")
    /\ UNCHANGED <<goal, github, lock, issue, stopper, faults>>

\* failCurrentIteration: the run lock is taken, the command's checkout or the evaluator fails.
IterationFails(r) ==
    /\ pc[r] \in {"run", "judge"}
    /\ Remember(r, [Concluded(r, [Last(r) EXCEPT !.outcome = "failed"]) EXCEPT !.status = "failed"])
    /\ Goto(r, "end")
    /\ UNCHANGED <<goal, github, lock, issue, stopper, faults>>

\* The iteration is written; unless it goes on, the goal will be, next.
Store(r) ==
    /\ At(r, "store")
    /\ goal' = mem[r]
    /\ IF Last(r).outcome = "processed" THEN Goto(r, "plan") /\ UNCHANGED mem
                                        ELSE Finish(r, Last(r).outcome)
    /\ UNCHANGED <<github, lock, issue, stopper, faults>>

End(r) ==
    /\ At(r, "end")
    /\ goal' = mem[r]
    /\ Goto(r, "release")
    /\ UNCHANGED <<github, lock, mem, issue, stopper, faults>>

\* saveGoalState throws: out of the loop, and to the release of the lock.
SaveFails(r) ==
    /\ pc[r] \in {"record", "store", "end"}
    /\ Fault
    /\ Goto(r, "release")
    /\ UNCHANGED <<goal, github, lock, mem, issue, stopper>>

Forget(r) ==
    /\ Goto(r, "idle")
    /\ Remember(r, NoGoal)
    /\ issue' = [issue EXCEPT ![r] = 0]

Release(r) ==
    /\ At(r, "release")
    /\ lock' = NoOne
    /\ Forget(r)
    /\ UNCHANGED <<goal, github, stopper, faults>>

Crash(r) ==
    /\ ~At(r, "idle")
    /\ Fault
    /\ lock' = IF lock = r THEN Gone ELSE lock
    /\ Forget(r)
    /\ UNCHANGED <<goal, github, stopper>>

-----------------------------------------------------------------------------
(* stopGoal *)

StopLoad ==
    /\ stopper = NoGoal /\ goal.status = "active"
    /\ Overlap \/ \A r \in Runner : ~Working(r)
    /\ stopper' = goal
    /\ UNCHANGED <<goal, github, lock, pc, mem, issue, faults>>

StopSave ==
    /\ stopper # NoGoal
    /\ goal' = [stopper EXCEPT !.status = "stopped"]
    /\ stopper' = NoGoal
    /\ UNCHANGED <<github, lock, pc, mem, issue, faults>>

StopFails ==
    /\ stopper # NoGoal
    /\ Fault
    /\ stopper' = NoGoal
    /\ UNCHANGED <<goal, github, lock, pc, mem, issue>>

-----------------------------------------------------------------------------
(* GitHub *)

Change(i, x) ==
    /\ issues' = [issues EXCEPT ![i] = x]
    /\ UNCHANGED <<goal, missed, lock, pc, mem, issue, stopper, faults>>

Index(i) == ~issues[i].indexed /\ Change(i, [issues[i] EXCEPT !.indexed = TRUE])
Close(i) == issues[i].open /\ Change(i, [issues[i] EXCEPT !.open = FALSE])

-----------------------------------------------------------------------------
Step(r) ==
    \/ Acquire(r) \/ Refused(r) \/ Load(r)
    \/ LimitReached(r) \/ Plan(r) \/ PlanEnds(r)
    \/ Reuse(r) \/ SearchEmpty(r) \/ Create(r) \/ Again(r) \/ Record(r)
    \/ RunDone(r) \/ RunUnsuccessful(r) \/ Judge(r) \/ IterationFails(r)
    \/ Store(r) \/ End(r) \/ Release(r)

Next ==
    \/ \E r \in Runner : Begin(r) \/ Step(r) \/ Resend(r) \/ CallFails(r) \/ SaveFails(r) \/ Crash(r)
    \/ StopLoad \/ StopSave \/ StopFails
    \/ \E i \in DOMAIN issues : Index(i) \/ Close(i)

Safety == Init /\ [][Next]_vars

\* A runner that was started goes on, since every command it waits for has a timeout;
\* so does `goal stop`.
Spec == Safety /\ (\A r \in Runner : WF_vars(Step(r))) /\ WF_vars(StopSave)

-----------------------------------------------------------------------------
(* Properties *)

\* Each iteration on record is about an issue of its own: the one with its marker, also
\* after runners that died on the way.
RecordedIssues ==
    \A n \in DOMAIN goal.iterations :
        LET i == goal.iterations[n].issue
        IN  i \in DOMAIN issues /\ issues[i].iteration = n

\* An iteration that is done again after a crash or a failing write does not get a second
\* issue while its first one is open, unless GitHub's search missed that one, or the answer to
\* its creation was lost and the creation sent again.  Even then the second look leaves the
\* runner with the first open issue there is, unless it was missed.
OneOpenIssue ==
    /\ \A i, j \in DOMAIN issues :
         i < j /\ issues[i].open /\ issues[j].open /\ issues[i].iteration = issues[j].iteration
             => i \in missed \/ issues[i].unheard
    /\ \A r \in Runner : At(r, "record") =>
         \A i \in DOMAIN issues :
             i < issue[r] /\ issues[i].open /\ issues[i].iteration = Coming(r) => i \in missed

\* When a runner is done, so is the goal (docs/11-goals.md: an iteration is followed by the
\* next one, or the goal ends), unless something failed.
RunLeavesEnd ==
    faults = 0 => \A r \in Runner : At(r, "release") => goal.status # "active"

\* A runner comes to an end, with the goal or refused.
RunnerSettles == \A r \in Runner : ~At(r, "idle") ~> At(r, "idle")

\* Under the lock, with nobody stopping the goal meanwhile, the file keeps the promises
\* of GoalLife: no runner writes over what another one or `goal stop` has recorded.
Outcomes == [n \in DOMAIN goal.iterations |-> goal.iterations[n].outcome]
Life == INSTANCE GoalLife WITH status <- goal.status, outcomes <- Outcomes
GoalLifeSpec == Life!Spec
=============================================================================
