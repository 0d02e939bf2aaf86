-------------------------- MODULE GoalRunnerProofs --------------------------
(***************************************************************************)
(* What GoalRunner keeps for every value of its constants: its types, with *)
(* what each runner has in memory (Typed); that the history names issues   *)
(* with the right markers (AllRecorded); that goal.json implements         *)
(* GoalLife as long as stops do not overlap with runners (Alone); that an  *)
(* iteration gets no second issue (Searched); and that a runner leaves the *)
(* goal ended (Ending).                                                    *)
(***************************************************************************)
EXTENDS GoalRunner, TLAPS

\* What a runner has in memory where it is.
Local(r) ==
    /\ Working(r) => mem[r] \in Goal
    /\ pc[r] \in {"run", "judge", "store"} => Current(r) > 0
    /\ pc[r] = "store" => Last(r).outcome # "planned"

Typed == TypeOK /\ \A r \in Runner : Local(r)

-----------------------------------------------------------------------------

LEMMA GoalTypes ==
    ASSUME NEW g \in Goal
    PROVE  /\ \A s \in Status : [g EXCEPT !.status = s] \in Goal
           /\ \A it \in Iteration : [g EXCEPT !.iterations = Append(@, it)] \in Goal
           /\ \A it \in Iteration :
                Len(g.iterations) > 0 =>
                    /\ [g EXCEPT !.iterations[Len(g.iterations)] = it] \in Goal
                    /\ Len([g EXCEPT !.iterations[Len(g.iterations)] = it].iterations) = Len(g.iterations)
                    /\ [g EXCEPT !.iterations[Len(g.iterations)] = it].iterations[Len(g.iterations)] = it
           /\ Len(g.iterations) \in Nat
           /\ Len(g.iterations) > 0 => g.iterations[Len(g.iterations)] \in Iteration
<1>. g.iterations \in Seq(Iteration)
  BY DEF Goal
<1>. QED
  BY DEF Goal

LEMMA IssueTypes ==
    ASSUME issues \in Seq(Issue)
    PROVE  /\ \A n \in Nat, b \in BOOLEAN : Append(issues, NewIssue(n, b)) \in Seq(Issue)
           /\ \A S : Closed(S) \in Seq(Issue)
           /\ \A i \in DOMAIN issues : issues[i] \in Issue
           /\ DOMAIN issues \subseteq Nat
           /\ \A i \in DOMAIN issues, x \in Issue : [issues EXCEPT ![i] = x] \in Seq(Issue)
<1>1. \A n \in Nat, b \in BOOLEAN : NewIssue(n, b) \in Issue
  BY DEF NewIssue, Issue
<1>2. \A S : Closed(S) \in Seq(Issue)
  <2>. SUFFICES ASSUME NEW S PROVE Closed(S) \in Seq(Issue)
    OBVIOUS
  <2>1. DOMAIN issues = 1 .. Len(issues) /\ Len(issues) \in Nat
    OBVIOUS
  <2>2. \A i \in DOMAIN issues : issues[i] \in Issue
    OBVIOUS
  <2>3. \A x \in Issue : [x EXCEPT !.open = FALSE] \in Issue
    BY DEF Issue
  <2>4. Closed(S) \in [DOMAIN issues -> Issue]
    BY <2>2, <2>3 DEF Closed
  <2>5. \A n \in Nat : \A q \in [1 .. n -> Issue] : q \in Seq(Issue)
    OBVIOUS
  <2>. QED
    BY <2>1, <2>4, <2>5
<1>. QED
  BY <1>1, <1>2

LEMMA InitTyped == Init => Typed
<1>. SUFFICES ASSUME Init PROVE Typed
  OBVIOUS
<1>. USE GoalAssumption DEF GoalAssumption
<1>1. TypeOK
  BY DEF Init, TypeOK, Goal, Status, PC
<1>. QED
  BY <1>1 DEF Init, Typed, Local, Working

\* Steps of a runner that leave the others' state alone.
LEMMA OthersTyped ==
    ASSUME Typed, NEW r \in Runner,
           \E s \in PC : Goto(r, s),
           UNCHANGED mem \/ \E g \in Goal \cup {NoGoal} : Remember(r, g),
           Local(r)'
    PROVE  /\ pc' \in [Runner -> PC]
           /\ mem' \in [Runner -> Goal \cup {NoGoal}]
           /\ (\A p \in Runner : Local(p))'
<1>1. \A p \in Runner \ {r} : pc'[p] = pc[p] /\ mem'[p] = mem[p]
  BY DEF Typed, TypeOK, Goto, Remember
<1>2. \A p \in Runner \ {r} : Local(p)'
  BY <1>1 DEF Typed, Local, Working, Current, History, Last
<1>. QED
  BY <1>2 DEF Typed, TypeOK, Goto, Remember

\* What a step of runner r has to keep.
Rest ==
    /\ goal \in Goal
    /\ issues \in Seq(Issue) /\ missed \subseteq Nat
    /\ lock \in Runner \cup {NoOne, Gone}
    /\ issue \in [Runner -> Nat]
    /\ stopper \in Goal \cup {NoGoal}
    /\ faults \in 0 .. MaxFaults

LEMMA StepTyped ==
    ASSUME Typed, NEW r \in Runner,
           Begin(r) \/ Step(r) \/ Resend(r) \/ CallFails(r) \/ SaveFails(r) \/ Crash(r)
    PROVE  Typed'
<1>. USE GoalAssumption DEF GoalAssumption
<1>. SUFFICES /\ \E s \in PC : Goto(r, s)
              /\ UNCHANGED mem \/ \E g \in Goal \cup {NoGoal} : Remember(r, g)
              /\ Local(r)'
              /\ Rest'
  BY OthersTyped DEF Typed, TypeOK, Rest
<1>. DEFINE Done == /\ \E s \in PC : Goto(r, s)
                    /\ UNCHANGED mem \/ \E g \in Goal \cup {NoGoal} : Remember(r, g)
                    /\ Local(r)'
                    /\ Rest'
<1>t. /\ Rest
      /\ pc \in [Runner -> PC] /\ mem \in [Runner -> Goal \cup {NoGoal}]
      /\ Local(r)
  BY DEF Typed, TypeOK, Rest
<1>g. /\ Working(r) => Current(r) \in Nat /\ Coming(r) \in Nat
      /\ Working(r) /\ Current(r) > 0 => Last(r) \in Iteration
  BY <1>t, GoalTypes DEF Local, Current, History, Last, Coming
<1>f. /\ \A s \in Status : Working(r) => [mem[r] EXCEPT !.status = s] \in Goal
      /\ \A s \in Status : [mem[r] EXCEPT !.status = s].iterations = mem[r].iterations \/ ~Working(r)
  BY <1>t, GoalTypes DEF Local, Goal
<1>c. \A it \in Iteration : Working(r) /\ Current(r) > 0 =>
        /\ Concluded(r, it) \in Goal
        /\ Len(Concluded(r, it).iterations) = Current(r)
        /\ Concluded(r, it).iterations[Current(r)] = it
  BY <1>t, GoalTypes DEF Local, Concluded, Current, History
<1>i. /\ \A n \in Nat, b \in BOOLEAN : Append(issues, NewIssue(n, b)) \in Seq(Issue)
      /\ \A S : Closed(S) \in Seq(Issue)
      /\ DOMAIN issues \subseteq Nat
      /\ \A n : Found(n) \subseteq Nat
      /\ \A n, i : Overlooked(n, i) \subseteq Nat
      /\ Len(issues) \in Nat
  BY <1>t, IssueTypes DEF Found, Overlooked, Rest
\* The steps that only go on.
<1>1. ASSUME NEW s \in PC, Goto(r, s), UNCHANGED mem,
             s \in {"idle", "lock", "load"} \/ Working(r),
             s \in {"run", "judge"} => Current(r) > 0, s # "store"
      PROVE  /\ \E x \in PC : Goto(r, x)
             /\ UNCHANGED mem \/ \E g \in Goal \cup {NoGoal} : Remember(r, g)
             /\ Local(r)'
  BY <1>1, <1>t DEF Local, Goto, Working, Current, History
\* The steps that change what is in memory.
<1>2. ASSUME NEW s \in PC, Goto(r, s), NEW g \in Goal, Remember(r, g),
             s \in {"run", "judge", "store"} => Len(g.iterations) > 0,
             s = "store" => g.iterations[Len(g.iterations)].outcome # "planned"
      PROVE  /\ \E x \in PC : Goto(r, x)
             /\ UNCHANGED mem \/ \E x \in Goal \cup {NoGoal} : Remember(r, x)
             /\ Local(r)'
  BY <1>2, <1>t DEF Local, Goto, Remember, Working, Current, History, Last
<1>3. CASE Begin(r) \/ Acquire(r) \/ Refused(r)
  BY <1>3, <1>1, <1>t DEF Begin, Acquire, Refused, Rest, PC, github, At
<1>4. CASE Load(r)
  BY <1>4, <1>2, <1>t DEF Load, Rest, PC, github
<1>5. CASE LimitReached(r) \/ PlanEnds(r)
  BY <1>5, <1>2, <1>t, <1>f DEF LimitReached, PlanEnds, Finish, Rest, PC, Status, Working, At, github
<1>6. CASE Plan(r) \/ SearchEmpty(r)
  BY <1>6, <1>1, <1>t, <1>i DEF Plan, SearchEmpty, Rest, PC, Working, At, github
<1>7. CASE Reuse(r)
  <2>1. Rest'
    <3>1. issues' \in Seq(Issue) /\ issue' \in [Runner -> Nat] /\ missed' \subseteq Nat
      BY <1>7, <1>t, <1>i DEF Reuse, Rest
    <3>. QED
      BY <1>7, <1>t, <3>1 DEF Reuse, Rest
  <2>. QED
    BY <1>7, <1>1, <1>t, <2>1 DEF Reuse, PC, Working, At
<1>8. CASE Create(r)
  <2>1. Working(r)
    BY <1>8 DEF Create, At, Working
  <2>2. Append(issues, NewIssue(Coming(r), FALSE)) \in Seq(Issue)
    BY <1>i, <1>g, <2>1
  <2>3. issues' \in Seq(Issue)
    BY <1>8, <2>2 DEF Create
  <2>4. issue' \in [Runner -> Nat]
    <3>1. Len(issues) + 1 \in Nat
      BY <1>i
    <3>. QED
      BY <1>8, <1>t, <3>1 DEF Create, Rest
  <2>5. Rest'
    BY <1>8, <1>t, <2>3, <2>4 DEF Create, Rest
  <2>. QED
    BY <1>8, <1>1, <2>1, <2>5 DEF Create, PC
<1>9. CASE Again(r)
  <2>1. Rest'
    <3>1. issues' \in Seq(Issue) /\ issue' \in [Runner -> Nat] /\ missed' \subseteq Nat
      <4>1. PICK i \in Found(Coming(r)) \cup {issue[r]} :
              /\ issues' = Closed(Found(Coming(r)) \ {i})
              /\ issue' = [issue EXCEPT ![r] = i]
        BY <1>9 DEF Again
      <4>2. i \in Nat
        BY <1>t, <1>i DEF Rest
      <4>3. missed' = missed \cup Overlooked(Coming(r), issue[r])
        BY <1>9 DEF Again
      <4>. QED
        BY <4>1, <4>2, <4>3, <1>t, <1>i DEF Rest
    <3>. QED
      BY <1>9, <1>t, <3>1 DEF Again, Rest
  <2>. QED
    BY <1>9, <1>1, <1>t, <2>1 DEF Again, PC, Working, At
<1>10. CASE CallFails(r)
  <2>1. Working(r)
    BY <1>10 DEF CallFails, Working
  <2>2. issues' \in Seq(Issue)
    BY <1>10, <1>t, <1>i, <1>g, <2>1 DEF CallFails, Rest
  <2>3. Rest'
    BY <1>10, <1>t, <2>2 DEF CallFails, Fault, Rest
  <2>. QED
    BY <1>10, <1>2, <1>f, <2>1, <2>3 DEF CallFails, Finish, PC, Status
<1>11. CASE Record(r)
  <2>. DEFINE it == [issue |-> issue[r], outcome |-> "planned", goesOn |-> FALSE, gate |-> "none"]
              new == [mem[r] EXCEPT !.iterations = Append(@, it)]
  <2>1. it \in Iteration
    BY <1>t DEF Iteration, Rest
  <2>2. mem[r] \in Goal
    BY <1>11, <1>t DEF Record, At, Local, Working
  <2>3. new \in Goal /\ Len(new.iterations) > 0
    BY <2>1, <2>2, GoalTypes DEF Goal
  <2>. QED
    BY <1>11, <1>2, <1>t, <2>3 DEF Record, Rest, PC, github
<1>12. CASE RunDone(r)
  BY <1>12, <1>1, <1>t, <1>i DEF RunDone, Rest, PC, Working, At, Local
<1>13. CASE RunUnsuccessful(r)
  <2>. PICK o \in {"blocked", "failed"} : Remember(r, Concluded(r, [Last(r) EXCEPT !.outcome = o]))
    BY <1>13 DEF RunUnsuccessful
  <2>1. Working(r) /\ Current(r) > 0
    BY <1>13, <1>t DEF RunUnsuccessful, At, Working, Local
  <2>2. [Last(r) EXCEPT !.outcome = o] \in Iteration
    BY <2>1, <1>g DEF Iteration
  <2>. DEFINE it == [Last(r) EXCEPT !.outcome = o]
  <2>3. /\ Concluded(r, it) \in Goal
        /\ Concluded(r, it).iterations[Len(Concluded(r, it).iterations)].outcome # "planned"
        /\ Len(Concluded(r, it).iterations) > 0
    BY <1>c, <1>g, <2>1, <2>2 DEF Iteration
  <2>4. Rest'
    BY <1>13, <1>t DEF RunUnsuccessful, Rest, github
  <2>. QED
    BY <1>13, <1>2, <2>3, <2>4 DEF RunUnsuccessful, PC
<1>14. CASE Judge(r)
  <2>. PICK gate \in IF GateOn THEN {"passed", "failed"} ELSE {"none"},
            status \in {"succeeded", "continue", "blocked", "failed"}, next \in BOOLEAN :
         Remember(r, Concluded(r, [Last(r) EXCEPT !.outcome = Outcome(status, gate), !.gate = gate,
                                     !.goesOn = next /\ Outcome(status, gate) = "processed"]))
    BY <1>14 DEF Judge
  <2>g. gate \in {"none", "passed", "failed"}
    OBVIOUS
  <2>1. Working(r) /\ Current(r) > 0
    BY <1>14, <1>t DEF Judge, At, Working, Local
  <2>. DEFINE it == [Last(r) EXCEPT !.outcome = Outcome(status, gate), !.gate = gate,
                                    !.goesOn = next /\ Outcome(status, gate) = "processed"]
  <2>2. it \in Iteration
    BY <2>1, <2>g, <1>g DEF Iteration, Outcome
  <2>3. it.outcome # "planned"
    BY <1>g, <2>1 DEF Iteration, Outcome
  <2>4. /\ Concluded(r, it) \in Goal
        /\ Concluded(r, it).iterations[Len(Concluded(r, it).iterations)].outcome # "planned"
        /\ Len(Concluded(r, it).iterations) > 0
    <3>. HIDE DEF it
    <3>. QED
      BY <1>c, <1>g, <2>1, <2>2, <2>3
  <2>5. Rest'
    BY <1>14, <1>t DEF Judge, Rest, github
  <2>6. Remember(r, Concluded(r, it))
    OBVIOUS
  <2>. HIDE DEF it
  <2>. QED
    BY <1>14, <1>2, <2>4, <2>5, <2>6 DEF Judge, PC
<1>15. CASE IterationFails(r)
  <2>1. Working(r) /\ Current(r) > 0
    BY <1>15, <1>t DEF IterationFails, Working, Local
  <2>2. [Last(r) EXCEPT !.outcome = "failed"] \in Iteration
    BY <2>1, <1>g DEF Iteration
  <2>3. Concluded(r, [Last(r) EXCEPT !.outcome = "failed"]) \in Goal
    BY <2>1, <2>2, <1>c
  <2>4. [Concluded(r, [Last(r) EXCEPT !.outcome = "failed"]) EXCEPT !.status = "failed"] \in Goal
    BY <2>3, GoalTypes DEF Status
  <2>. QED
    BY <1>15, <1>2, <1>t, <2>4 DEF IterationFails, Rest, PC, github
<1>16. CASE Store(r)
  <2>2. Working(r) /\ Current(r) > 0 /\ mem[r] \in Goal
    BY <1>16, <1>t DEF Store, At, Working, Local
  <2>3. CASE Last(r).outcome = "processed"
    BY <1>16, <1>1, <1>t, <2>2, <2>3 DEF Store, Rest, PC, github
  <2>4. CASE Last(r).outcome # "processed"
    <3>1. Last(r).outcome \in {"succeeded", "blocked", "failed"}
      BY <1>16, <1>t, <1>g, <2>2, <2>4 DEF Store, At, Local, Iteration
    <3>2. Finish(r, Last(r).outcome)
      BY <1>16, <2>4 DEF Store
    <3>3. [mem[r] EXCEPT !.status = Last(r).outcome] \in Goal
      BY <1>f, <2>2, <3>1 DEF Status
    <3>4. Rest'
      BY <1>16, <1>t, <2>2 DEF Store, Rest, github
    <3>. QED
      BY <1>2, <3>2, <3>3, <3>4 DEF Finish, PC
  <2>. QED
    BY <1>16, <2>3, <2>4
<1>17. CASE End(r)
  BY <1>17, <1>1, <1>t DEF End, Rest, PC, github, Working, At, Local
<1>18. CASE SaveFails(r)
  BY <1>18, <1>1, <1>t DEF SaveFails, Fault, Rest, PC, github, Working, At
<1>19. CASE Release(r) \/ Crash(r)
  <2>1. Forget(r) /\ lock' \in {lock, NoOne, Gone}
    BY <1>19 DEF Release, Crash
  <2>2. Goto(r, "idle") /\ Remember(r, NoGoal) /\ issue' \in [Runner -> Nat]
    BY <2>1, <1>t DEF Forget, Rest
  <2>3. Local(r)'
    BY <2>2, <1>t DEF Goto, Local, Working
  <2>4. /\ UNCHANGED <<goal, github, stopper>>
        /\ faults' \in 0 .. MaxFaults
    BY <1>19, <1>t DEF Release, Crash, Fault, Rest
  <2>5. Rest'
    BY <1>t, <2>1, <2>2, <2>4 DEF Rest, github
  <2>. QED
    BY <2>2, <2>3, <2>5 DEF PC
<1>20. CASE Resend(r)
  <2>1. Working(r)
    BY <1>20 DEF Resend, At, Working
  <2>2. Append(issues, NewIssue(Coming(r), TRUE)) \in Seq(Issue)
    BY <1>i, <1>g, <2>1
  <2>3. issues' \in Seq(Issue)
    BY <1>20, <2>2 DEF Resend
  <2>4. faults' \in 0 .. MaxFaults
    <3>1. faults < MaxFaults /\ faults' = faults + 1
      BY <1>20 DEF Resend, Fault
    <3>. QED
      BY <1>t, <3>1 DEF Rest
  <2>5. Rest'
    BY <1>20, <1>t, <2>3, <2>4 DEF Resend, Rest
  <2>6. Goto(r, "create") /\ UNCHANGED mem /\ "create" \in PC
    BY <1>20 DEF Resend, PC
  <2>. QED
    BY <1>1, <2>1, <2>5, <2>6
<1>. QED
  BY <1>3, <1>4, <1>5, <1>6, <1>7, <1>8, <1>9, <1>10, <1>11, <1>12, <1>13, <1>14, <1>15,
     <1>16, <1>17, <1>18, <1>19, <1>20 DEF Step

LEMMA OtherTyped ==
    ASSUME Typed,
           StopLoad \/ StopSave \/ StopFails \/ (\E i \in DOMAIN issues : Index(i) \/ Close(i))
    PROVE  Typed'
<1>1. CASE StopLoad \/ StopSave \/ StopFails
  <2>1. goal' \in Goal /\ stopper' \in Goal \cup {NoGoal} /\ faults' \in 0 .. MaxFaults
    <3>. goal \in Goal /\ stopper \in Goal \cup {NoGoal} /\ faults \in 0 .. MaxFaults
      BY DEF Typed, TypeOK
    <3>1. CASE StopLoad
      BY <3>1 DEF StopLoad
    <3>2. CASE StopSave
      BY <3>2, GoalTypes DEF StopSave, Status
    <3>3. CASE StopFails
      BY <3>3, GoalAssumption DEF GoalAssumption, StopFails, Fault
    <3>. QED
      BY <1>1, <3>1, <3>2, <3>3
  <2>2. UNCHANGED <<issues, missed, lock, pc, mem, issue>>
    BY <1>1 DEF StopLoad, StopSave, StopFails, github
  <2>. QED
    BY <2>1, <2>2 DEF Typed, TypeOK, Local, Working, Current, History, Last
<1>2. ASSUME NEW i \in DOMAIN issues, Index(i) \/ Close(i)
      PROVE  Typed'
  <2>1. issues[i] \in Issue
    BY IssueTypes DEF Typed, TypeOK
  <2>2. /\ [issues[i] EXCEPT !.indexed = TRUE] \in Issue
        /\ [issues[i] EXCEPT !.open = FALSE] \in Issue
    BY <2>1 DEF Issue
  <2>3. issues' \in Seq(Issue)
    <3>1. issues \in Seq(Issue)
      BY DEF Typed, TypeOK
    <3>2. \E x \in Issue : issues' = [issues EXCEPT ![i] = x]
      BY <1>2, <2>2 DEF Index, Close, Change
    <3>. QED
      BY <3>1, <3>2, IssueTypes
  <2>4. UNCHANGED <<goal, missed, lock, pc, mem, issue, stopper, faults>>
    BY <1>2 DEF Index, Close, Change
  <2>. QED
    BY <2>3, <2>4 DEF Typed, TypeOK, Local, Working, Current, History, Last
<1>. QED
  BY <1>1, <1>2

LEMMA NextTyped == Typed /\ [Next]_vars => Typed'
<1>1. Typed /\ Next => Typed'
  BY StepTyped, OtherTyped DEF Next
<1>2. Typed /\ UNCHANGED vars => Typed'
  BY DEF vars, github, Typed, TypeOK, Local, Working, Current, History, Last
<1>. QED
  BY <1>1, <1>2

\* Every goal file, issue and step of a runner is of its type, in every behaviour of
\* runGoal and stopGoal.
THEOREM GoalTyped == Safety => []TypeOK
<1>1. Safety => []Typed
  BY InitTyped, NextTyped, PTL DEF Safety
<1>. QED
  BY <1>1, PTL DEF Typed

-----------------------------------------------------------------------------
(* RecordedIssues *)

RecordedIn(g, S) ==
    \A n \in DOMAIN g.iterations :
        LET i == g.iterations[n].issue IN i \in DOMAIN S /\ S[i].iteration = n

\* The runner's issue is the one of the iteration it will record.
AtIssue(r) ==
    pc[r] \in {"again", "record"} =>
        issue[r] \in DOMAIN issues /\ issues[issue[r]].iteration = Coming(r)

AllRecorded ==
    /\ RecordedIn(goal, issues)
    /\ stopper # NoGoal => RecordedIn(stopper, issues)
    /\ \A r \in Runner : (Working(r) => RecordedIn(mem[r], issues)) /\ AtIssue(r)

\* An issue keeps its number and its marker.
IssuesStay ==
    /\ DOMAIN issues \subseteq DOMAIN issues'
    /\ \A i \in DOMAIN issues : issues'[i].iteration = issues[i].iteration

LEMMA IssuesOnlyGrow == Typed /\ [Next]_vars => IssuesStay
<1>. SUFFICES ASSUME Typed, [Next]_vars PROVE IssuesStay
  OBVIOUS
<1>t. issues \in Seq(Issue)
  BY DEF Typed, TypeOK
<1>1. issues' = issues => IssuesStay
  BY DEF IssuesStay
<1>2. \A S : issues' = Closed(S) => IssuesStay
  BY <1>t, IssueTypes DEF Closed, IssuesStay, Issue
<1>3. \A x : issues' = Append(issues, x) => IssuesStay
  BY <1>t DEF IssuesStay
<1>4. ASSUME NEW i \in DOMAIN issues, Index(i) \/ Close(i)
      PROVE  IssuesStay
  <2>1. issues[i] \in Issue
    BY <1>t, IssueTypes
  <2>2. PICK x : issues' = [issues EXCEPT ![i] = x] /\ x.iteration = issues[i].iteration
    BY <1>4, <2>1 DEF Index, Close, Change, Issue
  <2>. QED
    BY <2>2 DEF IssuesStay
<1>5. ASSUME NEW r \in Runner, Begin(r) \/ Step(r) \/ Resend(r) \/ CallFails(r) \/ SaveFails(r) \/ Crash(r)
      PROVE  IssuesStay
  <2>1. CASE Reuse(r)
    BY <2>1, <1>2 DEF Reuse
  <2>2. CASE Create(r)
    BY <2>2, <1>3 DEF Create
  <2>3. CASE Again(r)
    BY <2>3, <1>2 DEF Again
  <2>4. CASE CallFails(r)
    BY <2>4, <1>1, <1>2, <1>3 DEF CallFails
  <2>5. CASE RunDone(r)
    BY <2>5, <1>1, <1>2 DEF RunDone
  <2>6. CASE Resend(r)
    BY <2>6, <1>3 DEF Resend
  <2>. QED
    BY <1>5, <1>1, <2>1, <2>2, <2>3, <2>4, <2>5, <2>6
       DEF Step, github, Begin, Acquire, Refused, Load, LimitReached, Plan, PlanEnds, SearchEmpty,
           Record, RunUnsuccessful, Judge, IterationFails, Store, End, Release, SaveFails, Crash
<1>. QED
  BY <1>1, <1>4, <1>5 DEF Next, vars, github, StopLoad, StopSave, StopFails

LEMMA RecordStays ==
    ASSUME IssuesStay, NEW g, RecordedIn(g, issues)
    PROVE  RecordedIn(g, issues')
BY DEF IssuesStay, RecordedIn

\* What the steps make of a goal in memory.
LEMMA RecordKept ==
    ASSUME NEW g \in Goal, NEW S, RecordedIn(g, S)
    PROVE  /\ \A s : RecordedIn([g EXCEPT !.status = s], S)
           /\ \A it \in Iteration :
                /\ Len(g.iterations) > 0
                /\ it.issue = g.iterations[Len(g.iterations)].issue
                => RecordedIn([g EXCEPT !.iterations[Len(g.iterations)] = it], S)
           /\ \A it \in Iteration :
                /\ it.issue \in DOMAIN S
                /\ S[it.issue].iteration = Len(g.iterations) + 1
                => RecordedIn([g EXCEPT !.iterations = Append(@, it)], S)
<1>. g.iterations \in Seq(Iteration)
  BY DEF Goal
<1>1. ASSUME NEW s PROVE RecordedIn([g EXCEPT !.status = s], S)
  BY DEF RecordedIn, Goal
<1>2. ASSUME NEW it \in Iteration, Len(g.iterations) > 0,
             it.issue = g.iterations[Len(g.iterations)].issue
      PROVE  RecordedIn([g EXCEPT !.iterations[Len(g.iterations)] = it], S)
  <2>. DEFINE h == [g EXCEPT !.iterations[Len(g.iterations)] = it]
  <2>1. h.iterations = [g.iterations EXCEPT ![Len(g.iterations)] = it]
    BY DEF Goal
  <2>2. DOMAIN h.iterations = DOMAIN g.iterations
    BY <2>1
  <2>3. \A n \in DOMAIN g.iterations : h.iterations[n].issue = g.iterations[n].issue
    BY <1>2, <2>1
  <2>. HIDE DEF h
  <2>4. RecordedIn(h, S)
    BY <2>2, <2>3 DEF RecordedIn
  <2>. QED
    BY <2>4 DEF h
<1>3. ASSUME NEW it \in Iteration, it.issue \in DOMAIN S,
             S[it.issue].iteration = Len(g.iterations) + 1
      PROVE  RecordedIn([g EXCEPT !.iterations = Append(@, it)], S)
  <2>. DEFINE h == [g EXCEPT !.iterations = Append(@, it)]
  <2>1. h.iterations = Append(g.iterations, it)
    BY DEF Goal
  <2>2. /\ DOMAIN h.iterations = DOMAIN g.iterations \cup {Len(g.iterations) + 1}
        /\ \A n \in DOMAIN g.iterations : h.iterations[n] = g.iterations[n]
        /\ h.iterations[Len(g.iterations) + 1] = it
    BY <2>1
  <2>. HIDE DEF h
  <2>3. RecordedIn(h, S)
    BY <1>3, <2>2 DEF RecordedIn
  <2>. QED
    BY <2>3 DEF h
<1>. QED
  BY <1>1, <1>2, <1>3

LEMMA OthersRecorded ==
    ASSUME Typed, AllRecorded, IssuesStay, NEW r \in Runner,
           \E s \in PC : Goto(r, s),
           UNCHANGED mem \/ \E g \in Goal \cup {NoGoal} : Remember(r, g),
           UNCHANGED issue \/ \E i \in Nat : issue' = [issue EXCEPT ![r] = i],
           UNCHANGED stopper,
           RecordedIn(goal', issues'),
           (Working(r) => RecordedIn(mem[r], issues))',
           AtIssue(r)'
    PROVE  AllRecorded'
<1>1. \A p \in Runner \ {r} : pc'[p] = pc[p] /\ mem'[p] = mem[p] /\ issue'[p] = issue[p]
  BY DEF Typed, TypeOK, Goto, Remember
<1>2. \A p \in Runner \ {r} : (Working(p) => RecordedIn(mem[p], issues))'
  BY <1>1, RecordStays DEF AllRecorded, Working
<1>3. \A p \in Runner \ {r} : AtIssue(p)'
  BY <1>1 DEF AllRecorded, AtIssue, IssuesStay, Coming, Current, History
<1>4. (stopper # NoGoal => RecordedIn(stopper, issues))'
  BY RecordStays DEF AllRecorded
<1>. QED
  BY <1>2, <1>3, <1>4 DEF AllRecorded

LEMMA StepRecorded ==
    ASSUME Typed, Typed', AllRecorded, IssuesStay, NEW r \in Runner,
           Begin(r) \/ Step(r) \/ Resend(r) \/ CallFails(r) \/ SaveFails(r) \/ Crash(r)
    PROVE  AllRecorded'
<1>. DEFINE Done == /\ \E s \in PC : Goto(r, s)
                    /\ UNCHANGED mem \/ \E g \in Goal \cup {NoGoal} : Remember(r, g)
                    /\ UNCHANGED issue \/ \E i \in Nat : issue' = [issue EXCEPT ![r] = i]
                    /\ UNCHANGED stopper
                    /\ RecordedIn(goal', issues')
                    /\ (Working(r) => RecordedIn(mem[r], issues))'
                    /\ AtIssue(r)'
<1>. SUFFICES Done
  BY OthersRecorded
<1>t. /\ Local(r)
      /\ pc \in [Runner -> PC] /\ mem \in [Runner -> Goal \cup {NoGoal}]
      /\ issue \in [Runner -> Nat] /\ goal \in Goal /\ issues \in Seq(Issue)
      /\ mem' \in [Runner -> Goal \cup {NoGoal}]
      /\ DOMAIN issues \subseteq Nat /\ DOMAIN issues' \subseteq Nat
  BY IssueTypes DEF Typed, TypeOK
<1>r. /\ RecordedIn(goal, issues')
      /\ Working(r) => RecordedIn(mem[r], issues')
      /\ Working(r) => mem[r] \in Goal
  BY <1>t, RecordStays DEF AllRecorded, Local
<1>l. Working(r) /\ Current(r) > 0 => Last(r) \in Iteration
  BY <1>t, GoalTypes DEF Local, Current, History, Last
\* Steps after which the runner is at no issue, and memory says what it said.
<1>1. ASSUME NEW s \in PC \ {"again", "record"}, Goto(r, s), UNCHANGED <<mem, issue, stopper>>,
             goal' \in {goal, mem[r]}, s \in {"idle", "lock", "load"} \/ Working(r),
             goal' = mem[r] => Working(r) \/ goal' = goal
      PROVE  Done
  BY <1>1, <1>t, <1>r DEF Goto, Working, AtIssue
\* Steps that change what is in memory, and perhaps the file.
<1>2. ASSUME NEW s \in PC \ {"again", "record"}, Goto(r, s), NEW g \in Goal, Remember(r, g),
             RecordedIn(g, issues'), UNCHANGED <<issue, stopper>>,
             RecordedIn(goal', issues')
      PROVE  Done
  BY <1>2, <1>t DEF Goto, Remember, Working, AtIssue
\* Steps that end what the runner knows.
<1>3. ASSUME Forget(r), UNCHANGED <<goal, stopper>> PROVE Done
  BY <1>3, <1>t, <1>r DEF Forget, Goto, Remember, Working, AtIssue, PC
<1>f. \A s : Working(r) => RecordedIn([mem[r] EXCEPT !.status = s], issues')
  BY <1>r, RecordKept
<1>c. \A it \in Iteration :
        Working(r) /\ Current(r) > 0 /\ it.issue = Last(r).issue =>
            /\ Concluded(r, it) \in Goal
            /\ RecordedIn(Concluded(r, it), issues')
  BY <1>r, RecordKept, GoalTypes DEF Concluded, Current, History, Last
<1>4. CASE Begin(r) \/ Acquire(r) \/ Refused(r)
  BY <1>4, <1>1, <1>t DEF Begin, Acquire, Refused, PC
<1>5. CASE Load(r)
  BY <1>5, <1>2, <1>t, <1>r DEF Load, PC
<1>6. ASSUME NEW s \in Status, Finish(r, s), Working(r), UNCHANGED <<issue, stopper>>,
             goal' \in {goal, mem[r]}
      PROVE  Done
  BY <1>6, <1>2, <1>r, <1>f, GoalTypes DEF Finish, PC
<1>7. CASE LimitReached(r) \/ PlanEnds(r)
  BY <1>7, <1>6 DEF LimitReached, PlanEnds, Status, Working, At
<1>8. CASE Plan(r) \/ SearchEmpty(r) \/ Resend(r)
  BY <1>8, <1>1, <1>t DEF Plan, SearchEmpty, Resend, PC, Working, At
<1>9. CASE CallFails(r)
  BY <1>9, <1>6 DEF CallFails, Status, Working
<1>10. CASE RunDone(r)
  BY <1>10, <1>1, <1>t DEF RunDone, PC, Working, At
<1>11. CASE End(r)
  BY <1>11, <1>1, <1>t DEF End, PC, Working, At
<1>12. CASE SaveFails(r)
  BY <1>12, <1>1, <1>t DEF SaveFails, PC, Working
<1>13. CASE Release(r) \/ Crash(r)
  BY <1>13, <1>3 DEF Release, Crash
<1>14. ASSUME NEW s \in {"again", "record"}, Goto(r, s), UNCHANGED <<mem, stopper, goal>>, Working(r),
              NEW i \in DOMAIN issues', issue' = [issue EXCEPT ![r] = i],
              issues'[i].iteration = Coming(r)
       PROVE  Done
  BY <1>14, <1>t, <1>r DEF Goto, Working, AtIssue, Coming, Current, History, PC
<1>15. \A i \in Found(Coming(r)) : i \in DOMAIN issues' /\ issues'[i].iteration = Coming(r)
  BY DEF Found, IssuesStay
<1>16. CASE Reuse(r)
  BY <1>16, <1>14, <1>15 DEF Reuse, Working, At
<1>17. CASE Create(r)
  <2>1. /\ Len(issues) + 1 \in DOMAIN issues'
        /\ issues'[Len(issues) + 1].iteration = Coming(r)
    BY <1>17, <1>t DEF Create, NewIssue
  <2>. QED
    BY <1>17, <1>14, <2>1 DEF Create, Working, At
<1>18. CASE Again(r)
  <2>1. issue[r] \in DOMAIN issues' /\ issues'[issue[r]].iteration = Coming(r)
    BY <1>18 DEF Again, At, AllRecorded, AtIssue, IssuesStay
  <2>. QED
    BY <1>18, <1>14, <1>15, <2>1 DEF Again, Working, At
<1>19. CASE Record(r)
  <2>. DEFINE it == [issue |-> issue[r], outcome |-> "planned", goesOn |-> FALSE, gate |-> "none"]
              new == [mem[r] EXCEPT !.iterations = Append(@, it)]
  <2>1. it \in Iteration
    BY <1>t DEF Iteration
  <2>2. Working(r) /\ UNCHANGED issues
    BY <1>19 DEF Record, At, Working, github
  <2>3. it.issue \in DOMAIN issues' /\ issues'[it.issue].iteration = Len(mem[r].iterations) + 1
    BY <1>19, <2>2 DEF Record, At, AllRecorded, AtIssue, Coming, Current, History
  <2>4. new \in Goal /\ RecordedIn(new, issues')
    BY <1>r, <2>1, <2>2, <2>3, RecordKept, GoalTypes
  <2>5. Goto(r, "run") /\ Remember(r, new) /\ goal' = new /\ UNCHANGED <<issue, stopper>>
    BY <1>19 DEF Record
  <2>. HIDE DEF new
  <2>. QED
    BY <1>2, <2>4, <2>5 DEF PC
<1>20. CASE RunUnsuccessful(r)
  <2>1. Working(r) /\ Current(r) > 0
    BY <1>20, <1>t DEF RunUnsuccessful, At, Working, Local
  <2>2. PICK o \in {"blocked", "failed"} : Remember(r, Concluded(r, [Last(r) EXCEPT !.outcome = o]))
    BY <1>20 DEF RunUnsuccessful
  <2>. DEFINE it == [Last(r) EXCEPT !.outcome = o]
  <2>3. it \in Iteration /\ it.issue = Last(r).issue
    BY <1>l, <2>1 DEF Iteration
  <2>. HIDE DEF it
  <2>4. Remember(r, Concluded(r, it))
    BY <2>2 DEF it
  <2>. QED
    BY <1>20, <1>2, <1>c, <1>r, <2>1, <2>3, <2>4 DEF RunUnsuccessful, PC
<1>21. CASE Judge(r)
  <2>1. Working(r) /\ Current(r) > 0
    BY <1>21, <1>t DEF Judge, At, Working, Local
  <2>2. PICK gate \in IF GateOn THEN {"passed", "failed"} ELSE {"none"},
             status \in {"succeeded", "continue", "blocked", "failed"}, next \in BOOLEAN :
          Remember(r, Concluded(r, [Last(r) EXCEPT !.outcome = Outcome(status, gate), !.gate = gate,
                                      !.goesOn = next /\ Outcome(status, gate) = "processed"]))
    BY <1>21 DEF Judge
  <2>. DEFINE it == [Last(r) EXCEPT !.outcome = Outcome(status, gate), !.gate = gate,
                                    !.goesOn = next /\ Outcome(status, gate) = "processed"]
  <2>g. gate \in {"none", "passed", "failed"}
    OBVIOUS
  <2>3. it \in Iteration /\ it.issue = Last(r).issue
    BY <1>l, <2>1, <2>g DEF Iteration, Outcome
  <2>4. Remember(r, Concluded(r, it))
    BY <2>2
  <2>. HIDE DEF it
  <2>. QED
    BY <1>21, <1>2, <1>c, <1>r, <2>1, <2>3, <2>4 DEF Judge, PC
<1>22. CASE IterationFails(r)
  <2>1. Working(r) /\ Current(r) > 0
    BY <1>22, <1>t DEF IterationFails, Working, Local
  <2>. DEFINE it == [Last(r) EXCEPT !.outcome = "failed"]
  <2>2. it \in Iteration /\ it.issue = Last(r).issue
    BY <1>l, <2>1 DEF Iteration
  <2>3. Concluded(r, it) \in Goal /\ RecordedIn(Concluded(r, it), issues')
    BY <1>c, <2>1, <2>2
  <2>4. Remember(r, [Concluded(r, it) EXCEPT !.status = "failed"])
    BY <1>22 DEF IterationFails
  <2>. HIDE DEF it
  <2>5. /\ [Concluded(r, it) EXCEPT !.status = "failed"] \in Goal
        /\ RecordedIn([Concluded(r, it) EXCEPT !.status = "failed"], issues')
    BY <2>3, GoalTypes, RecordKept DEF Status
  <2>. QED
    BY <1>22, <1>2, <1>r, <2>4, <2>5 DEF IterationFails, PC
<1>23. CASE Store(r)
  <2>1. Working(r) /\ goal' = mem[r] /\ UNCHANGED <<issue, stopper>>
    BY <1>23 DEF Store, At, Working
  <2>2. CASE Last(r).outcome = "processed"
    BY <1>23, <1>1, <1>t, <2>1, <2>2 DEF Store, PC
  <2>3. CASE Last(r).outcome # "processed"
    <3>1. Last(r).outcome \in Status
      BY <1>23, <1>t, <1>l, <2>3 DEF Store, At, Local, Working, Iteration, Status
    <3>2. Finish(r, Last(r).outcome)
      BY <1>23, <2>3 DEF Store
    <3>. QED
      BY <1>6, <2>1, <3>1, <3>2
  <2>. QED
    BY <2>2, <2>3
<1>. QED
  BY <1>4, <1>5, <1>7, <1>8, <1>9, <1>10, <1>11, <1>12, <1>13, <1>16, <1>17, <1>18, <1>19,
     <1>20, <1>21, <1>22, <1>23 DEF Step

LEMMA NextRecorded == Typed /\ AllRecorded /\ [Next]_vars => AllRecorded'
<1>. SUFFICES ASSUME Typed, AllRecorded, [Next]_vars PROVE AllRecorded'
  OBVIOUS
<1>1. Typed' /\ IssuesStay
  BY NextTyped, IssuesOnlyGrow
<1>2. ASSUME NEW r \in Runner, Begin(r) \/ Step(r) \/ Resend(r) \/ CallFails(r) \/ SaveFails(r) \/ Crash(r)
      PROVE  AllRecorded'
  BY <1>1, <1>2, StepRecorded
\* The runners do not move.
<1>3. ASSUME UNCHANGED <<pc, mem, issue>>, RecordedIn(goal', issues'),
             stopper' # NoGoal => RecordedIn(stopper', issues')
      PROVE  AllRecorded'
  <2>1. \A r \in Runner : (Working(r) => RecordedIn(mem[r], issues))'
    BY <1>1, <1>3, RecordStays DEF AllRecorded, Working
  <2>2. \A r \in Runner : AtIssue(r)'
    BY <1>1, <1>3 DEF AllRecorded, AtIssue, IssuesStay, Coming, Current, History
  <2>. QED
    BY <1>3, <2>1, <2>2 DEF AllRecorded
<1>r. RecordedIn(goal, issues') /\ (stopper # NoGoal => RecordedIn(stopper, issues'))
  BY <1>1, RecordStays DEF AllRecorded
<1>4. CASE StopLoad \/ StopFails
  BY <1>3, <1>4, <1>r DEF StopLoad, StopFails
<1>5. CASE StopSave
  <2>1. stopper \in Goal
    BY <1>5 DEF StopSave, Typed, TypeOK
  <2>2. RecordedIn([stopper EXCEPT !.status = "stopped"], issues')
    BY <1>5, <1>r, <2>1, RecordKept DEF StopSave
  <2>. QED
    BY <1>3, <1>5, <2>2 DEF StopSave
<1>6. ASSUME NEW i \in DOMAIN issues, Index(i) \/ Close(i) PROVE AllRecorded'
  BY <1>3, <1>6, <1>r DEF Index, Close, Change
<1>7. CASE UNCHANGED vars
  BY <1>3, <1>7, <1>r DEF vars, github
<1>. QED
  BY <1>2, <1>4, <1>5, <1>6, <1>7 DEF Next

\* Whatever fails or crashes, and whenever the goal is stopped, the history of the goal
\* names for each iteration an issue with its marker (runGoal, createGoalIssue).
THEOREM IssuesMatch == Safety => []RecordedIssues
<1>1. Init => AllRecorded
  BY DEF Init, AllRecorded, RecordedIn, AtIssue, Working
<1>2. AllRecorded => RecordedIssues
  BY DEF AllRecorded, RecordedIn, RecordedIssues
<1>. QED
  BY <1>1, <1>2, InitTyped, NextTyped, NextRecorded, PTL DEF Safety

-----------------------------------------------------------------------------
(* GoalLife *)

Outs(g) == [n \in DOMAIN g.iterations |-> g.iterations[n].outcome]

\* The last iteration of g is under way, and has the outcome o in h.
Comes(g, h, o) ==
    /\ Len(Outs(g)) > 0 /\ Outs(g)[Len(Outs(g))] = "planned"
    /\ Outs(h) = [Outs(g) EXCEPT ![Len(Outs(g))] = o]

\* Only one runner has the goal.lock.
Locked == \A r \in Runner : pc[r] \notin {"idle", "lock"} => lock = r

\* What is in memory is the file, or what the next write makes of it.
Mirror(r) ==
    /\ pc[r] \in {"plan", "search", "create", "again", "record", "run", "judge"} =>
         mem[r] = goal /\ goal.status = "active"
    /\ pc[r] \in {"search", "create", "again", "record"} => Current(r) < MaxIterations
    /\ pc[r] \in {"run", "judge"} => Last(r).outcome = "planned"
    /\ pc[r] = "store" =>
         /\ goal.status = "active" /\ mem[r].status = "active"
         /\ \E o \in Life!Outcome : Comes(goal, mem[r], o)
    /\ pc[r] = "end" =>
         /\ goal.status = "active" /\ mem[r].status \in Life!End
         /\ \/ Outs(mem[r]) = Outs(goal)
            \/ mem[r].status = "failed" /\ Comes(goal, mem[r], "failed")

\* `goal stop` has the file to itself.
StopperAlone ==
    stopper # NoGoal =>
        /\ stopper = goal /\ goal.status = "active"
        /\ \A r \in Runner : ~Working(r)

Alone == Locked /\ (\A r \in Runner : Mirror(r)) /\ StopperAlone

LEMMA OutsTypes ==
    ASSUME NEW g \in Goal
    PROVE  /\ Len(Outs(g)) = Len(g.iterations)
           /\ DOMAIN Outs(g) = 1 .. Len(g.iterations)
           /\ \A n \in 1 .. Len(g.iterations) : Outs(g)[n] = g.iterations[n].outcome
           /\ Outs(g) \in Seq({"planned", "processed", "succeeded", "blocked", "failed"})
<1>1. g.iterations \in Seq(Iteration)
  BY DEF Goal
<1>2. DOMAIN g.iterations = 1 .. Len(g.iterations) /\ Len(g.iterations) \in Nat
  BY <1>1
<1>3. \A n \in DOMAIN g.iterations : g.iterations[n] \in Iteration
  BY <1>1
<1>4. Outs(g) \in [1 .. Len(g.iterations) -> {"planned", "processed", "succeeded", "blocked", "failed"}]
  BY <1>2, <1>3 DEF Outs, Iteration
<1>5. \A S, n \in Nat : \A q \in [1 .. n -> S] : q \in Seq(S) /\ Len(q) = n
  OBVIOUS
<1>. QED
  BY <1>2, <1>4, <1>5 DEF Outs

LEMMA OutsAppend ==
    ASSUME NEW g \in Goal, NEW it \in Iteration
    PROVE  Outs([g EXCEPT !.iterations = Append(@, it)]) = Append(Outs(g), it.outcome)
<1>. DEFINE h == [g EXCEPT !.iterations = Append(@, it)]
<1>1. h \in Goal /\ h.iterations = Append(g.iterations, it) /\ g.iterations \in Seq(Iteration)
  BY GoalTypes DEF Goal
<1>. HIDE DEF h
<1>2. /\ Len(h.iterations) = Len(g.iterations) + 1
      /\ \A n \in 1 .. Len(g.iterations) : h.iterations[n] = g.iterations[n]
      /\ h.iterations[Len(g.iterations) + 1] = it
      /\ Len(g.iterations) \in Nat
  BY <1>1
<1>3. \A n \in 1 .. Len(g.iterations) + 1 : Outs(h)[n] = Append(Outs(g), it.outcome)[n]
  <2>1. \A S, q : q \in Seq(S) => /\ \A n \in 1 .. Len(q) : Append(q, it.outcome)[n] = q[n]
                                 /\ Append(q, it.outcome)[Len(q) + 1] = it.outcome
    OBVIOUS
  <2>2. /\ \A n \in 1 .. Len(g.iterations) : Append(Outs(g), it.outcome)[n] = g.iterations[n].outcome
        /\ Append(Outs(g), it.outcome)[Len(g.iterations) + 1] = it.outcome
    BY <2>1, OutsTypes
  <2>3. \A n \in 1 .. Len(g.iterations) + 1 : Outs(h)[n] = h.iterations[n].outcome
    BY <1>1, <1>2, OutsTypes
  <2>. SUFFICES ASSUME NEW n \in 1 .. Len(g.iterations) + 1
                PROVE  Outs(h)[n] = Append(Outs(g), it.outcome)[n]
    OBVIOUS
  <2>4. CASE n \in 1 .. Len(g.iterations)
    BY <1>2, <2>2, <2>3, <2>4
  <2>5. CASE n = Len(g.iterations) + 1
    BY <1>2, <2>2, <2>3, <2>5
  <2>6. n \in 1 .. Len(g.iterations) \/ n = Len(g.iterations) + 1
    BY <1>2
  <2>. QED
    BY <2>4, <2>5, <2>6
<1>4. Outs(h) = Append(Outs(g), it.outcome)
  <2>1. /\ DOMAIN Outs(h) = 1 .. Len(g.iterations) + 1
        /\ DOMAIN Append(Outs(g), it.outcome) = 1 .. Len(g.iterations) + 1
    BY <1>1, <1>2, OutsTypes
  <2>2. Outs(h) = [n \in 1 .. Len(g.iterations) + 1 |-> Outs(h)[n]]
    BY <2>1 DEF Outs
  <2>3. Append(Outs(g), it.outcome) = [n \in 1 .. Len(g.iterations) + 1 |-> Append(Outs(g), it.outcome)[n]]
    BY <2>1, OutsTypes
  <2>. QED
    BY <2>2, <2>3, <1>3
<1>. QED
  BY <1>4 DEF h

LEMMA OutsConclude ==
    ASSUME NEW g \in Goal, NEW it \in Iteration, Len(g.iterations) > 0,
           g.iterations[Len(g.iterations)].outcome = "planned"
    PROVE  Comes(g, [g EXCEPT !.iterations[Len(g.iterations)] = it], it.outcome)
<1>. DEFINE h == [g EXCEPT !.iterations[Len(g.iterations)] = it]
            N == Len(g.iterations)
<1>1. h.iterations = [g.iterations EXCEPT ![N] = it] /\ N \in Nat /\ DOMAIN g.iterations = 1 .. N
  BY DEF Goal
<1>2. DOMAIN h.iterations = 1 .. N
  BY <1>1
<1>3. \A n \in 1 .. N : h.iterations[n] = IF n = N THEN it ELSE g.iterations[n]
  BY <1>1
<1>. HIDE DEF h
<1>4. Outs(h) = [Outs(g) EXCEPT ![N] = it.outcome]
  BY <1>1, <1>2, <1>3 DEF Outs
<1>5. N \in 1 .. N /\ Outs(g)[N] = "planned" /\ Len(Outs(g)) = N
  BY <1>1, OutsTypes
<1>6. Comes(g, h, it.outcome)
  BY <1>4, <1>5 DEF Comes
<1>. QED
  BY <1>6 DEF h

LEMMA OutsStatus ==
    ASSUME NEW g \in Goal, NEW s
    PROVE  Outs([g EXCEPT !.status = s]) = Outs(g) /\ [g EXCEPT !.status = s].status = s
BY DEF Outs, Goal

LEMMA NextLocked == Typed /\ Locked /\ [Next]_vars => Locked'
<1>. SUFFICES ASSUME Typed, Locked, [Next]_vars PROVE Locked'
  OBVIOUS
<1>t. pc \in [Runner -> PC] /\ NoOne \notin Runner /\ Gone \notin Runner
  BY GoalAssumption DEF GoalAssumption, Typed, TypeOK
<1>1. CASE UNCHANGED <<pc, lock>>
  BY <1>1 DEF Locked
<1>2. ASSUME NEW r \in Runner, Begin(r) \/ Step(r) \/ Resend(r) \/ CallFails(r) \/ SaveFails(r) \/ Crash(r)
      PROVE  Locked'
  <2>1. CASE \E s \in PC : Goto(r, s) /\ UNCHANGED lock /\ (pc[r] \in {"idle", "lock"} => s \in {"idle", "lock"})
    BY <2>1, <1>t DEF Locked, Goto
  <2>2. CASE Acquire(r)
    BY <2>2, <1>t DEF Acquire, Locked, Goto
  <2>3. CASE Release(r)
    BY <2>3, <1>t DEF Release, Forget, Locked, Goto, At
  <2>4. CASE Crash(r)
    BY <2>4, <1>t DEF Crash, Forget, Locked, Goto
  <2>5. CASE Begin(r) \/ Refused(r) \/ Load(r) \/ LimitReached(r) \/ Plan(r) \/ PlanEnds(r)
    BY <2>5, <2>1 DEF Begin, Refused, Load, LimitReached, Plan, PlanEnds, Finish, PC, At
  <2>6. CASE Reuse(r) \/ SearchEmpty(r) \/ Create(r) \/ Resend(r) \/ Again(r) \/ CallFails(r) \/ Record(r)
    BY <2>6, <2>1, <1>t DEF Reuse, SearchEmpty, Create, Resend, Again, CallFails, Record, Finish, PC, At, github
  <2>7. CASE RunDone(r) \/ RunUnsuccessful(r) \/ Judge(r) \/ IterationFails(r)
    BY <2>7, <2>1, <1>t DEF RunDone, RunUnsuccessful, Judge, IterationFails, PC, At
  <2>8. CASE Store(r) \/ End(r) \/ SaveFails(r)
    BY <2>8, <2>1, <1>t DEF Store, End, SaveFails, Finish, PC, At
  <2>. QED
    BY <1>2, <2>2, <2>3, <2>4, <2>5, <2>6, <2>7, <2>8 DEF Step
<1>. QED
  BY <1>1, <1>2 DEF Next, vars, StopLoad, StopSave, StopFails, Index, Close, Change

\* A step of a runner as the file and the others see it.
Effect(r) ==
    /\ pc' = [pc EXCEPT ![r] = pc'[r]] /\ mem' = [mem EXCEPT ![r] = mem'[r]]
    /\ UNCHANGED goal \/ Working(r)
    /\ UNCHANGED stopper
    /\ Mirror(r)'
    /\ Working(r)' => Working(r) \/ stopper = NoGoal
    /\ UNCHANGED <<goal.status, Outcomes>> \/ Life!Next

LEMMA StepEffect ==
    ASSUME Typed, Typed', Alone, ~Overlap, NEW r \in Runner,
           Begin(r) \/ Step(r) \/ Resend(r) \/ CallFails(r) \/ SaveFails(r) \/ Crash(r)
    PROVE  Effect(r)
<1>t. /\ Local(r) /\ Mirror(r) /\ goal \in Goal
      /\ pc \in [Runner -> PC] /\ mem \in [Runner -> Goal \cup {NoGoal}]
      /\ Outcomes = Outs(goal)
      /\ MaxIterations \in Nat
  BY GoalAssumption DEF GoalAssumption, Typed, TypeOK, Alone, Outcomes, Outs
<1>w. Working(r) => mem[r] \in Goal /\ stopper = NoGoal
  BY <1>t DEF Local, Alone, StopperAlone
<1>l. Working(r) /\ Current(r) > 0 =>
        /\ Last(r) \in Iteration
        /\ Current(r) = Len(mem[r].iterations) /\ Last(r) = mem[r].iterations[Len(mem[r].iterations)]
  BY <1>w, GoalTypes DEF Current, History, Last
\* Steps that only go on, to a place where nothing more is known.
<1>1. ASSUME NEW s \in PC, Goto(r, s), UNCHANGED <<goal, mem, stopper>>,
             \/ s \in {"idle", "lock", "load", "release"}
             \/ /\ s \in {"plan", "search", "create", "again", "record"}
                /\ pc[r] \in {"plan", "search", "create", "again", "record"}
                /\ s # "plan" => Current(r) < MaxIterations
             \/ pc[r] = "run" /\ s = "judge",
             s \notin {"idle", "lock", "load"} => Working(r)
      PROVE  Effect(r)
  BY <1>1, <1>t, <1>w DEF Goto, Effect, Working, Mirror, Current, History, Last, Outcomes
\* Steps that change memory, and not the file.
<1>2. ASSUME NEW s \in PC, Goto(r, s), NEW g, Remember(r, g), UNCHANGED <<goal, stopper>>,
             s \in {"idle", "release", "store", "end"}, s # "idle" => Working(r),
             s = "store" => /\ goal.status = "active" /\ g.status = "active"
                            /\ \E o \in Life!Outcome : Comes(goal, g, o),
             s = "end" => /\ goal.status = "active" /\ g.status \in Life!End
                          /\ \/ Outs(g) = Outs(goal)
                             \/ g.status = "failed" /\ Comes(goal, g, "failed")
      PROVE  Effect(r)
  BY <1>2, <1>t, <1>w DEF Goto, Remember, Effect, Working, Mirror, Outcomes
<1>3. ASSUME NEW s \in Life!End, Finish(r, s), UNCHANGED <<goal, stopper>>, Working(r),
             mem[r] = goal, goal.status = "active"
      PROVE  Effect(r)
  <2>. DEFINE g == [mem[r] EXCEPT !.status = s]
  <2>1. Goto(r, "end") /\ Remember(r, g)
    BY <1>3 DEF Finish
  <2>2. Outs(g) = Outs(goal) /\ g.status = s
    BY <1>3, <1>t, OutsStatus
  <2>. HIDE DEF g
  <2>. QED
    BY <1>2, <1>3, <2>1, <2>2 DEF PC
<1>4. CASE Begin(r) \/ Acquire(r) \/ Refused(r)
  BY <1>4, <1>1, <1>t DEF Begin, Acquire, Refused, PC
<1>5. CASE Load(r)
  BY <1>5, <1>t DEF Load, Undisturbed, Goto, Remember, Effect, Working, Mirror, Outcomes
<1>6. CASE LimitReached(r) \/ PlanEnds(r)
  BY <1>6, <1>3, <1>t DEF LimitReached, PlanEnds, Life!End, Working, At, Mirror
<1>7. CASE Plan(r) \/ SearchEmpty(r)
  BY <1>7, <1>1, <1>t DEF Plan, SearchEmpty, PC, Working, At, Mirror
<1>8. CASE Reuse(r) \/ Create(r) \/ Resend(r) \/ Again(r)
  BY <1>8, <1>1, <1>t DEF Reuse, Create, Resend, Again, PC, Working, At, Mirror
<1>9. CASE CallFails(r)
  BY <1>9, <1>3, <1>t DEF CallFails, Life!End, Working, Mirror
<1>10. CASE RunDone(r)
  BY <1>10, <1>1, <1>t DEF RunDone, PC, Working, At
<1>11. CASE SaveFails(r)
  BY <1>11, <1>1, <1>t DEF SaveFails, PC, Working
<1>12. CASE Release(r) \/ Crash(r)
  BY <1>12, <1>2, <1>t DEF Release, Crash, Forget, PC
<1>13. CASE Record(r)
  <2>. DEFINE it == [issue |-> issue[r], outcome |-> "planned", goesOn |-> FALSE, gate |-> "none"]
              new == [mem[r] EXCEPT !.iterations = Append(@, it)]
  <2>1. /\ Working(r) /\ mem[r] = goal /\ goal.status = "active"
        /\ Len(goal.iterations) < MaxIterations
    BY <1>13, <1>t DEF Record, At, Working, Mirror, Current, History
  <2>2. it \in Iteration
    BY DEF Iteration, Typed, TypeOK
  <2>3. Outs(new) = Append(Outs(goal), "planned") /\ new.status = "active"
    BY <2>1, <2>2, <1>t, OutsAppend DEF Goal
  <2>4. Len(new.iterations) > 0 /\ new.iterations[Len(new.iterations)].outcome = "planned"
    BY <2>1, <2>2, <1>t DEF Goal
  <2>5. Goto(r, "run") /\ Remember(r, new) /\ goal' = new /\ UNCHANGED stopper
    BY <1>13 DEF Record
  <2>. HIDE DEF new
  <2>6. Life!Next
    <3>1. Outcomes' = Append(Outcomes, "planned")
      BY <2>3, <2>5, <1>t DEF Outcomes, Outs
    <3>2. Len(Outcomes) < MaxIterations
      BY <2>1, <1>t, OutsTypes
    <3>. QED
      BY <3>1, <3>2, <2>1, <2>3, <2>5 DEF Life!Next, Life!Begin
  <2>7. Mirror(r)'
    BY <2>3, <2>4, <2>5, <1>t DEF Goto, Remember, Mirror, Last, Current, History
  <2>. QED
    BY <2>1, <2>5, <2>6, <2>7, <1>t, <1>w DEF Effect, Goto, Remember
<1>p. pc[r] \in {"run", "judge"} =>
        \A it \in Iteration :
          /\ Comes(goal, Concluded(r, it), it.outcome)
          /\ Concluded(r, it) \in Goal /\ Concluded(r, it).status = "active"
          /\ goal.status = "active" /\ Working(r) /\ Last(r) \in Iteration
  <2>. SUFFICES ASSUME pc[r] \in {"run", "judge"}, NEW it \in Iteration
                PROVE  /\ Comes(goal, Concluded(r, it), it.outcome)
                       /\ Concluded(r, it) \in Goal /\ Concluded(r, it).status = "active"
                       /\ goal.status = "active" /\ Working(r) /\ Last(r) \in Iteration
    OBVIOUS
  <2>1. /\ Working(r) /\ Current(r) > 0 /\ mem[r] = goal /\ goal.status = "active"
        /\ Last(r).outcome = "planned"
    BY <1>t DEF Local, Mirror, Working
  <2>2. Len(goal.iterations) > 0 /\ goal.iterations[Len(goal.iterations)].outcome = "planned"
    BY <2>1, <1>l
  <2>3. Concluded(r, it) = [goal EXCEPT !.iterations[Len(goal.iterations)] = it]
    BY <2>1, <1>l DEF Concluded
  <2>. QED
    BY <1>t, <1>l, <2>1, <2>2, <2>3, OutsConclude, GoalTypes DEF Goal
<1>14. ASSUME pc[r] \in {"run", "judge"}, NEW it \in Iteration, it.outcome \in Life!Outcome,
              Remember(r, Concluded(r, it)), Goto(r, "store"), UNCHANGED <<goal, stopper>>
       PROVE  Effect(r)
  BY <1>14, <1>p, <1>2 DEF PC
<1>15. CASE RunUnsuccessful(r)
  <2>1. PICK o \in {"blocked", "failed"} : Remember(r, Concluded(r, [Last(r) EXCEPT !.outcome = o]))
    BY <1>15 DEF RunUnsuccessful
  <2>. DEFINE it == [Last(r) EXCEPT !.outcome = o]
  <2>2. pc[r] = "run" /\ Goto(r, "store") /\ UNCHANGED <<goal, stopper>>
    BY <1>15 DEF RunUnsuccessful, At
  <2>3. Last(r) \in Iteration
    BY <1>l, <1>t, <2>2 DEF Local, Working
  <2>4. it \in Iteration /\ it.outcome \in Life!Outcome
    BY <2>3 DEF Iteration, Life!Outcome
  <2>5. Remember(r, Concluded(r, it))
    BY <2>1
  <2>. HIDE DEF it
  <2>. QED
    BY <1>14, <2>2, <2>4, <2>5
<1>16. CASE Judge(r)
  <2>1. PICK gate \in IF GateOn THEN {"passed", "failed"} ELSE {"none"},
             status \in {"succeeded", "continue", "blocked", "failed"}, next \in BOOLEAN :
          Remember(r, Concluded(r, [Last(r) EXCEPT !.outcome = Outcome(status, gate), !.gate = gate,
                                      !.goesOn = next /\ Outcome(status, gate) = "processed"]))
    BY <1>16 DEF Judge
  <2>. DEFINE it == [Last(r) EXCEPT !.outcome = Outcome(status, gate), !.gate = gate,
                                    !.goesOn = next /\ Outcome(status, gate) = "processed"]
  <2>2. pc[r] = "judge" /\ Goto(r, "store") /\ UNCHANGED <<goal, stopper>>
    BY <1>16 DEF Judge, At
  <2>3. Last(r) \in Iteration /\ gate \in {"none", "passed", "failed"}
    BY <1>l, <1>t, <2>2 DEF Local, Working
  <2>4. it \in Iteration /\ it.outcome \in Life!Outcome
    BY <2>3 DEF Iteration, Life!Outcome, Outcome
  <2>5. Remember(r, Concluded(r, it))
    BY <2>1
  <2>. HIDE DEF it
  <2>. QED
    BY <1>14, <2>2, <2>4, <2>5
<1>17. CASE IterationFails(r)
  <2>. DEFINE it == [Last(r) EXCEPT !.outcome = "failed"]
              g == [Concluded(r, it) EXCEPT !.status = "failed"]
  <2>1. /\ pc[r] \in {"run", "judge"} /\ Goto(r, "end") /\ Remember(r, g)
        /\ UNCHANGED <<goal, stopper>>
    BY <1>17 DEF IterationFails
  <2>2. Last(r) \in Iteration
    BY <1>l, <1>t, <2>1 DEF Local, Working
  <2>3. it \in Iteration /\ it.outcome = "failed"
    BY <2>2 DEF Iteration
  <2>. HIDE DEF it
  <2>4. Comes(goal, Concluded(r, it), "failed") /\ Concluded(r, it) \in Goal
    BY <1>p, <2>1, <2>3
  <2>5. Comes(goal, g, "failed") /\ g.status = "failed"
    BY <2>4, OutsStatus DEF Comes
  <2>6. goal.status = "active" /\ Working(r)
    BY <1>p, <2>1, <2>3
  <2>. HIDE DEF g
  <2>. QED
    BY <1>2, <2>1, <2>5, <2>6 DEF PC, Life!End
<1>18. CASE Store(r)
  <2>1. /\ Working(r) /\ goal' = mem[r] /\ UNCHANGED stopper /\ mem[r] \in Goal
        /\ goal.status = "active" /\ mem[r].status = "active" /\ Last(r).outcome # "planned"
        /\ Current(r) > 0
    BY <1>18, <1>t, <1>w DEF Store, At, Working, Mirror, Local
  <2>2. Life!Next
    <3>1. PICK o \in Life!Outcome : Comes(goal, mem[r], o)
      BY <1>18, <1>t DEF Store, At, Mirror
    <3>2. Outcomes' = Outs(mem[r])
      BY <2>1 DEF Outcomes, Outs
    <3>3. /\ Outcomes' = [Outcomes EXCEPT ![Len(Outcomes)] = o]
          /\ Len(Outcomes) > 0 /\ Outcomes[Len(Outcomes)] = "planned"
      BY <3>1, <3>2, <1>t DEF Comes
    <3>4. Outcomes # <<>>
      BY <3>3
    <3>. QED
      BY <2>1, <3>3, <3>4 DEF Life!Next, Life!Conclude
  <2>3. CASE Last(r).outcome = "processed"
    <3>1. Goto(r, "plan") /\ UNCHANGED mem
      BY <1>18, <2>3 DEF Store
    <3>2. Mirror(r)'
      BY <2>1, <3>1, <1>t DEF Goto, Mirror
    <3>. QED
      BY <2>1, <2>2, <3>1, <3>2, <1>t, <1>w DEF Effect, Goto
  <2>4. CASE Last(r).outcome # "processed"
    <3>1. Finish(r, Last(r).outcome)
      BY <1>18, <2>4 DEF Store
    <3>2. Last(r).outcome \in Life!End
      BY <2>1, <2>4, <1>l DEF Iteration, Life!End
    <3>. DEFINE g == [mem[r] EXCEPT !.status = Last(r).outcome]
    <3>3. Outs(g) = Outs(mem[r]) /\ g.status \in Life!End
      BY <2>1, <3>2, OutsStatus
    <3>4. Goto(r, "end") /\ Remember(r, g)
      BY <3>1 DEF Finish
    <3>. HIDE DEF g
    <3>5. Mirror(r)'
      BY <2>1, <3>3, <3>4, <1>t DEF Goto, Remember, Mirror
    <3>. QED
      BY <2>1, <2>2, <3>4, <3>5, <1>t, <1>w DEF Effect, Goto, Remember
  <2>. QED
    BY <2>3, <2>4
<1>19. CASE End(r)
  <2>1. /\ Working(r) /\ goal' = mem[r] /\ UNCHANGED <<mem, stopper>> /\ Goto(r, "release")
        /\ goal.status = "active" /\ mem[r].status \in Life!End
        /\ \/ Outs(mem[r]) = Outs(goal)
           \/ mem[r].status = "failed" /\ Comes(goal, mem[r], "failed")
    BY <1>19, <1>t DEF End, At, Working, Mirror
  <2>2. Outcomes' = Outs(mem[r])
    BY <2>1 DEF Outcomes, Outs
  <2>3. ASSUME Outs(mem[r]) = Outs(goal) PROVE Life!Next
    BY <2>1, <2>2, <2>3, <1>t DEF Life!Next, Life!Finish
  <2>4. ASSUME mem[r].status = "failed", Comes(goal, mem[r], "failed") PROVE Life!Next
    <3>1. /\ Outcomes' = [Outcomes EXCEPT ![Len(Outcomes)] = "failed"]
          /\ Len(Outcomes) > 0 /\ Outcomes[Len(Outcomes)] = "planned"
      BY <2>2, <2>4, <1>t DEF Comes
    <3>2. Outcomes # <<>>
      BY <3>1
    <3>3. goal'.status = "failed" /\ goal.status = "active"
      BY <2>1, <2>4
    <3>. QED
      BY <3>1, <3>2, <3>3 DEF Life!Next, Life!Conclude, Life!Outcome
  <2>5. Life!Next
    BY <2>1, <2>3, <2>4
  <2>6. Mirror(r)'
    BY <2>1, <1>t DEF Goto, Mirror
  <2>. QED
    BY <2>1, <2>5, <2>6, <1>t, <1>w DEF Effect, Goto
<1>. QED
  BY <1>4, <1>5, <1>6, <1>7, <1>8, <1>9, <1>10, <1>11, <1>12, <1>13, <1>15, <1>16, <1>17,
     <1>18, <1>19 DEF Step

LEMMA NextAlone ==
    ASSUME Typed, Typed', Alone, ~Overlap, [Next]_vars
    PROVE  Alone' /\ [Life!Next]_<<goal.status, Outcomes>>
<1>t. goal \in Goal /\ pc \in [Runner -> PC] /\ mem \in [Runner -> Goal \cup {NoGoal}]
  BY DEF Typed, TypeOK
<1>1. Locked'
  BY NextLocked DEF Alone
<1>2. ASSUME NEW r \in Runner, Begin(r) \/ Step(r) \/ Resend(r) \/ CallFails(r) \/ SaveFails(r) \/ Crash(r)
      PROVE  Alone' /\ [Life!Next]_<<goal.status, Outcomes>>
  <2>1. Effect(r)
    BY <1>2, StepEffect
  <2>2. ASSUME NEW p \in Runner, p # r PROVE Mirror(p)' /\ (Working(p)' => Working(p))
    <3>1. pc'[p] = pc[p] /\ mem'[p] = mem[p]
      BY <1>t, <2>1, <2>2 DEF Effect
    <3>2. Mirror(p)
      BY DEF Alone
    <3>3. CASE UNCHANGED goal
      BY <3>1, <3>2, <3>3 DEF Mirror, Working, Current, Last, History
    <3>4. CASE Working(r)
      <4>1. ~Working(p)
        BY <2>2, <3>4, <1>t DEF Alone, Locked, Working
      <4>. QED
        BY <3>1, <4>1 DEF Mirror, Working
    <3>. QED
      BY <2>1, <3>3, <3>4 DEF Effect
  <2>3. \A p \in Runner : Mirror(p)'
    BY <2>1, <2>2 DEF Effect
  <2>4. StopperAlone'
    <3>. SUFFICES ASSUME stopper # NoGoal
                  PROVE  stopper' = goal' /\ goal'.status = "active" /\ \A p \in Runner : ~Working(p)'
      BY <2>1 DEF StopperAlone, Effect
    <3>1. stopper = goal /\ goal.status = "active" /\ \A p \in Runner : ~Working(p)
      BY DEF Alone, StopperAlone
    <3>2. goal' = goal /\ stopper' = stopper /\ ~Working(r)'
      BY <2>1, <3>1 DEF Effect
    <3>. QED
      BY <2>2, <3>1, <3>2
  <2>. QED
    BY <1>1, <2>1, <2>3, <2>4 DEF Alone, Effect
\* The runners do not move.
<1>3. ASSUME UNCHANGED <<goal, pc, mem>>, StopperAlone'
      PROVE  Alone' /\ [Life!Next]_<<goal.status, Outcomes>>
  <2>1. \A r \in Runner : Mirror(r)'
    BY <1>3 DEF Alone, Mirror, Current, Last, History
  <2>2. UNCHANGED <<goal.status, Outcomes>>
    BY <1>3 DEF Outcomes
  <2>. QED
    BY <1>1, <1>3, <2>1, <2>2 DEF Alone
<1>4. CASE StopLoad
  BY <1>3, <1>4 DEF StopLoad, StopperAlone, Working
<1>5. CASE StopFails
  BY <1>3, <1>5 DEF StopFails, StopperAlone
<1>6. CASE StopSave
  <2>1. /\ stopper = goal /\ goal.status = "active" /\ \A r \in Runner : ~Working(r)
        /\ goal' = [goal EXCEPT !.status = "stopped"] /\ stopper' = NoGoal /\ pc' = pc /\ mem' = mem
    BY <1>6 DEF StopSave, Alone, StopperAlone
  <2>2. \A r \in Runner : Mirror(r)'
    BY <2>1 DEF Working, Mirror
  <2>3. Outcomes' = Outcomes /\ goal'.status = "stopped"
    BY <2>1, <1>t, OutsStatus DEF Outcomes, Outs
  <2>4. Life!Next
    BY <2>1, <2>3 DEF Life!Next, Life!Finish, Life!End
  <2>. QED
    BY <1>1, <2>1, <2>2, <2>4 DEF Alone, StopperAlone
<1>7. ASSUME NEW i \in DOMAIN issues, Index(i) \/ Close(i)
      PROVE  Alone' /\ [Life!Next]_<<goal.status, Outcomes>>
  BY <1>3, <1>7 DEF Index, Close, Change, Alone, StopperAlone, Working
<1>8. CASE UNCHANGED vars
  BY <1>3, <1>8 DEF vars, Alone, StopperAlone, Working
<1>. QED
  BY <1>2, <1>4, <1>5, <1>6, <1>7, <1>8 DEF Next

\* When nobody stops the goal while a runner works, the file keeps the promises of GoalLife,
\* whatever fails or crashes: the status is read again under goal.lock, and what is written
\* from memory is what the file had, and the one change (runGoal, saveGoalState).
THEOREM KeepsPromises == ASSUME ~Overlap PROVE Safety => GoalLifeSpec
<1>1. Init => Alone /\ Life!Init
  <2>. SUFFICES ASSUME Init PROVE Alone /\ Life!Init
    OBVIOUS
  <2>1. Alone
    BY DEF Init, Alone, Locked, Mirror, StopperAlone
  <2>2. Outcomes = <<>>
    BY DEF Init, Outcomes
  <2>. QED
    BY <2>1, <2>2 DEF Init, Life!Init
<1>2. Typed /\ Typed' /\ Alone /\ [Next]_vars => Alone' /\ [Life!Next]_<<goal.status, Outcomes>>
  BY NextAlone
<1>. QED
  BY <1>1, <1>2, InitTyped, NextTyped, PTL DEF Safety, GoalLifeSpec, Life!Spec

-----------------------------------------------------------------------------
(* OneOpenIssue *)

\* The search found no open issue of the coming iteration, or it is noted what it missed,
\* or the answer to its creation was lost, and it is being sent again.
Searched(r) ==
    At(r, "create") =>
        \A i \in DOMAIN issues : issues[i].open /\ issues[i].iteration = Coming(r)
            => i \in missed \/ issues[i].unheard

\* Nobody creates an issue between a runner's own and its second look.
Newest(r) == At(r, "again") => \A i \in DOMAIN issues : i <= issue[r]

\* The two halves of OneOpenIssue.
FirstStays ==
    \A i, j \in DOMAIN issues :
        i < j /\ issues[i].open /\ issues[j].open /\ issues[i].iteration = issues[j].iteration
            => i \in missed \/ issues[i].unheard

AtFirst(r) ==
    At(r, "record") =>
        \A i \in DOMAIN issues :
            i < issue[r] /\ issues[i].open /\ issues[i].iteration = Coming(r) => i \in missed

\* No issue is opened again, and none is forgotten that a search missed.
NoneReopened ==
    /\ \A i \in DOMAIN issues : /\ issues'[i].iteration = issues[i].iteration
                                /\ issues'[i].unheard = issues[i].unheard
                                /\ issues'[i].open => issues[i].open
    /\ missed \subseteq missed'

\* A new issue is that of the coming iteration of a runner that is to create it.
Comer == \E r \in Runner, b \in BOOLEAN :
            At(r, "create") /\ issues' = Append(issues, NewIssue(Coming(r), b))

LEMMA IssuesMove ==
    ASSUME Typed, [Next]_vars
    PROVE  NoneReopened /\ (DOMAIN issues' = DOMAIN issues \/ Comer)
<1>. DEFINE Same == NoneReopened /\ DOMAIN issues' = DOMAIN issues
<1>t. issues \in Seq(Issue) /\ \A i \in DOMAIN issues : issues[i] \in Issue
  BY IssueTypes DEF Typed, TypeOK
<1>1. ASSUME UNCHANGED issues, missed \subseteq missed' PROVE Same
  BY <1>1 DEF NoneReopened
<1>2. ASSUME NEW S, issues' = Closed(S), missed \subseteq missed' PROVE Same
  BY <1>2, <1>t DEF NoneReopened, Closed, Issue
<1>3. ASSUME NEW r \in Runner, NEW b \in BOOLEAN, At(r, "create"),
             issues' = Append(issues, NewIssue(Coming(r), b)), missed \subseteq missed'
      PROVE  NoneReopened /\ Comer
  <2>1. Comer
    BY <1>3 DEF Comer
  <2>2. \A i \in DOMAIN issues : issues'[i] = issues[i]
    BY <1>3, <1>t
  <2>. QED
    BY <1>3, <2>1, <2>2 DEF NoneReopened
<1>4. ASSUME NEW i \in DOMAIN issues, Index(i) \/ Close(i) PROVE Same
  <2>1. PICK x : /\ issues' = [issues EXCEPT ![i] = x] /\ UNCHANGED missed
                 /\ x.iteration = issues[i].iteration /\ (x.open => issues[i].open)
                 /\ x.unheard = issues[i].unheard
    BY <1>4, <1>t DEF Index, Close, Change, Issue
  <2>. QED
    BY <2>1 DEF NoneReopened
<1>5. ASSUME NEW r \in Runner, Begin(r) \/ Step(r) \/ Resend(r) \/ CallFails(r) \/ SaveFails(r) \/ Crash(r)
      PROVE  NoneReopened /\ (DOMAIN issues' = DOMAIN issues \/ Comer)
  <2>1. CASE Reuse(r)
    BY <2>1, <1>2 DEF Reuse
  <2>2. CASE Create(r)
    BY <2>2, <1>3 DEF Create
  <2>3. CASE Again(r)
    BY <2>3, <1>2 DEF Again
  <2>4. CASE CallFails(r)
    BY <2>4, <1>1, <1>2, <1>3 DEF CallFails
  <2>5. CASE RunDone(r)
    BY <2>5, <1>1, <1>2 DEF RunDone
  <2>6. CASE SearchEmpty(r)
    BY <2>6, <1>1 DEF SearchEmpty
  <2>7. CASE Resend(r)
    BY <2>7, <1>3 DEF Resend
  <2>. QED
    BY <1>5, <1>1, <2>1, <2>2, <2>3, <2>4, <2>5, <2>6, <2>7
       DEF Step, github, Begin, Acquire, Refused, Load, LimitReached, Plan, PlanEnds,
           Record, RunUnsuccessful, Judge, IterationFails, Store, End, Release, SaveFails, Crash
<1>. QED
  BY <1>1, <1>4, <1>5 DEF Next, vars, github, StopLoad, StopSave, StopFails

\* How a runner comes to these places; while others move it stays there, and no issue comes.
LEMMA Whence ==
    ASSUME Typed, Locked, [Next]_vars, NEW r \in Runner, pc'[r] \in {"create", "again", "record"}
    PROVE  /\ mem'[r] = mem[r]
           /\ \/ SearchEmpty(r) \/ Reuse(r) \/ Create(r) \/ Resend(r) \/ Again(r)
              \/ pc'[r] = pc[r] /\ issue'[r] = issue[r] /\ DOMAIN issues' = DOMAIN issues
<1>. DEFINE Stays == pc'[r] = pc[r] /\ mem'[r] = mem[r] /\ issue'[r] = issue[r]
<1>t. /\ pc \in [Runner -> PC] /\ mem \in [Runner -> Goal \cup {NoGoal}]
      /\ issue \in [Runner -> Nat] /\ issues \in Seq(Issue)
  BY DEF Typed, TypeOK
<1>1. ASSUME NEW p \in Runner, p # r,
             Begin(p) \/ Step(p) \/ Resend(p) \/ CallFails(p) \/ SaveFails(p) \/ Crash(p)
      PROVE  Stays /\ UNCHANGED issues
  <2>1. Stays /\ (UNCHANGED issues \/ Working(p))
    BY <1>1, <1>t DEF Step, github, Begin, Acquire, Refused, Load, LimitReached, Plan, PlanEnds, Reuse, SearchEmpty,
       Create, Resend, Again, CallFails, Record, RunDone, RunUnsuccessful, Judge, IterationFails, Store, End, Release,
       SaveFails, Crash, Forget, Finish, Goto, Remember, At, Working
  <2>2. Working(r)
    BY <2>1 DEF Working
  <2>. QED
    BY <1>1, <2>1, <2>2 DEF Locked, Working
<1>2. ASSUME Begin(r) \/ Step(r) \/ Resend(r) \/ CallFails(r) \/ SaveFails(r) \/ Crash(r)
      PROVE  /\ mem'[r] = mem[r]
             /\ SearchEmpty(r) \/ Reuse(r) \/ Create(r) \/ Resend(r) \/ Again(r)
  <2>1. SearchEmpty(r) \/ Reuse(r) \/ Create(r) \/ Resend(r) \/ Again(r)
    BY <1>2, <1>t DEF Step, Begin, Acquire, Refused, Load, LimitReached, Plan, PlanEnds,
       CallFails, Record, RunDone, RunUnsuccessful, Judge, IterationFails, Store, End, Release,
       SaveFails, Crash, Forget, Finish, Goto, At
  <2>. QED
    BY <2>1 DEF SearchEmpty, Reuse, Create, Resend, Again
<1>3. ASSUME NEW i \in DOMAIN issues, Index(i) \/ Close(i)
      PROVE  Stays /\ DOMAIN issues' = DOMAIN issues
  BY <1>3, <1>t DEF Index, Close, Change
<1>4. ASSUME StopLoad \/ StopSave \/ StopFails \/ UNCHANGED vars
      PROVE  Stays /\ UNCHANGED issues
  BY <1>4 DEF StopLoad, StopSave, StopFails, github, vars
<1>. QED
  BY <1>1, <1>2, <1>3, <1>4 DEF Next

\* The runner has the first issue that a look found: what comes before, the look has missed.
LEMMA FirstFound ==
    ASSUME Typed, NEW r \in Runner, Newest(r), NoneReopened, DOMAIN issues' = DOMAIN issues,
           Reuse(r) \/ Again(r)
    PROVE  AtFirst(r)'
<1>t. issue \in [Runner -> Nat] /\ issues \in Seq(Issue) /\ DOMAIN issues \subseteq Nat \ {0}
  BY DEF Typed, TypeOK
<1>1. Coming(r)' = Coming(r)
  BY DEF Reuse, Again, Coming, Current, History
<1>. SUFFICES ASSUME NEW j \in DOMAIN issues, j < issue'[r], issues[j].open, issues[j].iteration = Coming(r)
              PROVE  j \in missed'
  BY <1>1 DEF AtFirst, NoneReopened
<1>2. CASE Reuse(r)
  <2>1. PICK i \in Found(Coming(r)) : IsFirst(i, Found(Coming(r))) /\ issue' = [issue EXCEPT ![r] = i]
    BY <1>2 DEF Reuse
  <2>2. i \in Nat /\ j \in Nat /\ j < i
    BY <1>t, <2>1 DEF Found
  <2>3. j \notin Found(Coming(r)) /\ j # 0
    BY <1>t, <2>1, <2>2 DEF IsFirst
  <2>. QED
    BY <1>2, <2>3 DEF Reuse, Overlooked
<1>3. CASE Again(r)
  <2>. DEFINE S == Found(Coming(r))
  <2>1. PICK i \in S \cup {issue[r]} :
          /\ IF S = {} THEN i = issue[r] ELSE IsFirst(i, S)
          /\ issue' = [issue EXCEPT ![r] = i]
    BY <1>3 DEF Again
  <2>2. i \in Nat /\ j \in Nat /\ j < i /\ i <= issue[r]
    BY <1>3, <1>t, <2>1 DEF Found, Newest, Again
  <2>3. j \notin S /\ j # issue[r]
    BY <1>t, <2>1, <2>2 DEF IsFirst
  <2>. QED
    BY <1>3, <2>3 DEF Again, Overlooked
<1>. QED
  BY <1>2, <1>3

LEMMA NextSearched ==
    ASSUME Typed, Locked, \A r \in Runner : Searched(r) /\ Newest(r) /\ AtFirst(r), FirstStays, [Next]_vars
    PROVE  (\A r \in Runner : Searched(r) /\ Newest(r) /\ AtFirst(r))' /\ FirstStays'
<1>t. /\ issues \in Seq(Issue) /\ DOMAIN issues = 1 .. Len(issues) /\ Len(issues) \in Nat
      /\ issue \in [Runner -> Nat]
  BY DEF Typed, TypeOK
<1>1. NoneReopened /\ (DOMAIN issues' = DOMAIN issues \/ Comer)
  BY IssuesMove
<1>2. ASSUME NEW r \in Runner, NEW b \in BOOLEAN, issues' = Append(issues, NewIssue(Coming(r), b))
      PROVE  /\ DOMAIN issues' = DOMAIN issues \cup {Len(issues) + 1}
             /\ issues'[Len(issues) + 1].iteration = Coming(r)
             /\ issues'[Len(issues) + 1].unheard = b
  BY <1>2, <1>t DEF NewIssue
<1>3. FirstStays'
  <2>. SUFFICES ASSUME NEW i \in DOMAIN issues', NEW j \in DOMAIN issues', i < j,
                       issues'[i].open, issues'[j].open, issues'[i].iteration = issues'[j].iteration
                PROVE  i \in missed' \/ issues'[i].unheard
    BY DEF FirstStays
  <2>1. CASE j \in DOMAIN issues
    <3>1. i \in DOMAIN issues
      <4>1. i \in DOMAIN issues \/ i = Len(issues) + 1
        BY <1>1, <1>2 DEF Comer
      <4>. QED
        BY <1>t, <2>1, <4>1
    <3>. QED
      BY <1>1, <2>1, <3>1 DEF NoneReopened, FirstStays
  <2>2. CASE j \notin DOMAIN issues
    <3>1. PICK r \in Runner, b \in BOOLEAN :
            At(r, "create") /\ issues' = Append(issues, NewIssue(Coming(r), b))
      BY <1>1, <2>2 DEF Comer
    <3>2. j = Len(issues) + 1 /\ issues'[j].iteration = Coming(r)
      BY <1>2, <2>2, <3>1
    <3>3. i \in DOMAIN issues
      BY <1>2, <1>t, <3>1, <3>2
    <3>. QED
      BY <1>1, <3>1, <3>2, <3>3 DEF NoneReopened, Searched
  <2>. QED
    BY <2>1, <2>2
<1>4. ASSUME NEW r \in Runner, pc'[r] \in {"create", "again", "record"} PROVE Coming(r)' = Coming(r)
  BY <1>4, Whence DEF Coming, Current, History
<1>5. ASSUME NEW r \in Runner, pc'[r] = pc[r], pc[r] \in {"create", "again", "record"},
             issue'[r] = issue[r], DOMAIN issues' = DOMAIN issues
      PROVE  Searched(r)' /\ Newest(r)' /\ AtFirst(r)'
  BY <1>1, <1>4, <1>5 DEF Searched, Newest, AtFirst, NoneReopened, At
<1>6. ASSUME NEW r \in Runner, At(r, "create")' PROVE Searched(r)'
  <2>1. CASE SearchEmpty(r)
    <3>1. Found(Coming(r)) = {} /\ missed' = missed \cup Overlooked(Coming(r), 0) /\ UNCHANGED issues
      BY <2>1 DEF SearchEmpty
    <3>2. \A i \in DOMAIN issues : i # 0
      BY <1>t
    <3>. QED
      BY <1>4, <1>6, <3>1, <3>2 DEF Searched, Overlooked, At
  <2>2. CASE Resend(r)
    <3>1. At(r, "create") /\ issues' = Append(issues, NewIssue(Coming(r), TRUE))
      BY <2>2 DEF Resend
    <3>. QED
      BY <1>1, <1>2, <1>4, <1>6, <3>1 DEF Searched, NoneReopened, At
  <2>3. ASSUME Reuse(r) \/ Create(r) \/ Again(r) PROVE FALSE
    BY <1>6, <2>3 DEF Reuse, Create, Again, Goto, At, Typed, TypeOK
  <2>. QED
    BY <1>5, <1>6, <2>1, <2>2, <2>3, Whence DEF At
<1>7. ASSUME NEW r \in Runner, At(r, "again")' PROVE Newest(r)'
  <2>1. CASE Create(r)
    <3>1. issues' = Append(issues, NewIssue(Coming(r), FALSE)) /\ issue'[r] = Len(issues) + 1
      BY <2>1, <1>t DEF Create
    <3>. QED
      BY <1>2, <1>t, <3>1 DEF Newest
  <2>2. ASSUME SearchEmpty(r) \/ Reuse(r) \/ Resend(r) \/ Again(r) PROVE FALSE
    BY <1>7, <2>2 DEF SearchEmpty, Reuse, Resend, Again, Goto, At, Typed, TypeOK
  <2>. QED
    BY <1>5, <1>7, <2>1, <2>2, Whence DEF At
<1>8. ASSUME NEW r \in Runner, At(r, "record")' PROVE AtFirst(r)'
  <2>1. CASE Reuse(r) \/ Again(r)
    <3>1. DOMAIN issues' = DOMAIN issues
      BY <2>1 DEF Reuse, Again, Closed
    <3>. QED
      BY <1>1, <2>1, <3>1, FirstFound
  <2>2. ASSUME SearchEmpty(r) \/ Create(r) \/ Resend(r) PROVE FALSE
    BY <1>8, <2>2 DEF SearchEmpty, Create, Resend, Goto, At, Typed, TypeOK
  <2>. QED
    BY <1>5, <1>8, <2>1, <2>2, Whence DEF At
<1>. QED
  BY <1>3, <1>6, <1>7, <1>8 DEF Searched, Newest, AtFirst

\* An iteration that is done again after a crash or a failing write gets no second issue
\* while its first one is open, unless GitHub's search missed it or createIssue sent the
\* creation again after a lost answer; and what goes on record then is the first one that is
\* open, unless missed (createGoalIssue, findOpenIssuesByBodyMarker, createIssue).
THEOREM IssuesAreFoundAgain == Safety => []OneOpenIssue
<1>. DEFINE I == /\ Typed /\ Locked /\ FirstStays
                 /\ \A r \in Runner : Searched(r) /\ Newest(r) /\ AtFirst(r)
<1>1. Init => I
  BY InitTyped DEF Init, Locked, Searched, Newest, AtFirst, At, FirstStays
<1>2. I /\ [Next]_vars => I'
  BY NextTyped, NextLocked, NextSearched
<1>3. I => OneOpenIssue
  BY DEF FirstStays, AtFirst, OneOpenIssue
<1>. QED
  BY <1>1, <1>2, <1>3, PTL DEF Safety

-----------------------------------------------------------------------------
(* RunLeavesEnd *)

\* What is written last ends the goal; what was written last has ended it.
Ending(r) ==
    /\ At(r, "end") => mem[r].status # "active"
    /\ faults = 0 /\ At(r, "release") => goal.status # "active"

LEMMA StepEnding ==
    ASSUME Typed, NEW r \in Runner, Ending(r),
           Begin(r) \/ Step(r) \/ Resend(r) \/ CallFails(r) \/ SaveFails(r) \/ Crash(r)
    PROVE  /\ Ending(r)'
           /\ \A p \in Runner \ {r} : pc'[p] = pc[p] /\ mem'[p] = mem[p]
           /\ faults' = 0 => faults = 0
           /\ UNCHANGED goal \/ Working(r)
<1>t. /\ pc \in [Runner -> PC] /\ mem \in [Runner -> Goal \cup {NoGoal}] /\ Local(r)
      /\ faults \in Nat
  BY GoalAssumption DEF GoalAssumption, Typed, TypeOK
<1>m. Working(r) => mem[r] \in Goal
  BY <1>t DEF Local
<1>1. \A p \in Runner \ {r} : pc'[p] = pc[p] /\ mem'[p] = mem[p]
  BY <1>t DEF Step, Begin, Acquire, Refused, Load, LimitReached, Plan, PlanEnds, Reuse, SearchEmpty,
     Create, Resend, Again, CallFails, Record, RunDone, RunUnsuccessful, Judge, IterationFails, Store, End, Release,
     SaveFails, Crash, Forget, Finish, Goto, Remember
<1>2. UNCHANGED faults \/ faults' = faults + 1
  BY DEF Step, Begin, Acquire, Refused, Load, LimitReached, Plan, PlanEnds, Reuse, SearchEmpty,
     Create, Resend, Again, CallFails, Record, RunDone, RunUnsuccessful, Judge, IterationFails, Store, End, Release,
     SaveFails, Crash, Fault
<1>w. UNCHANGED goal \/ Working(r)
  BY DEF Step, Begin, Acquire, Refused, Load, LimitReached, Plan, PlanEnds, Reuse, SearchEmpty,
     Create, Resend, Again, CallFails, Record, RunDone, RunUnsuccessful, Judge, IterationFails, Store, End, Release,
     SaveFails, Crash, At, Working
<1>. SUFFICES Ending(r)'
  BY <1>t, <1>1, <1>2, <1>w
\* Steps to other places.
<1>3. ASSUME NEW s \in PC \ {"end", "release"}, Goto(r, s) PROVE Ending(r)'
  BY <1>3, <1>t DEF Ending, Goto, At
<1>4. ASSUME NEW s \in Status \ {"active"}, Finish(r, s), Working(r) PROVE Ending(r)'
  <2>1. mem'[r].status = s /\ pc'[r] = "end"
    BY <1>4, <1>t, <1>m DEF Finish, Goto, Remember, Goal
  <2>. QED
    BY <1>4, <2>1 DEF Ending, At
<1>5. CASE Begin(r) \/ Acquire(r) \/ Refused(r) \/ Plan(r) \/ Reuse(r) \/ SearchEmpty(r) \/ Create(r) \/ Resend(r) \/ Again(r)
           \/ Record(r) \/ RunDone(r) \/ RunUnsuccessful(r) \/ Judge(r) \/ Release(r) \/ Crash(r)
  BY <1>5, <1>3 DEF Begin, Acquire, Refused, Plan, Reuse, SearchEmpty, Create, Resend, Again, Record, RunDone,
     RunUnsuccessful, Judge, Release, Crash, Forget, PC
<1>6. CASE LimitReached(r) \/ PlanEnds(r) \/ CallFails(r)
  BY <1>6, <1>4 DEF LimitReached, PlanEnds, CallFails, Working, At, Status
<1>7. CASE Load(r)
  BY <1>7, <1>t DEF Load, Goto, Ending, At
<1>8. CASE IterationFails(r)
  <2>1. Working(r) /\ Current(r) > 0
    BY <1>8, <1>t DEF IterationFails, Working, Local
  <2>2. Last(r) \in Iteration
    BY <1>m, <2>1, GoalTypes DEF Current, History, Last
  <2>. DEFINE it == [Last(r) EXCEPT !.outcome = "failed"]
  <2>3. it \in Iteration
    BY <2>2 DEF Iteration
  <2>. HIDE DEF it
  <2>4. Concluded(r, it) \in Goal
    BY <1>m, <2>1, <2>3, GoalTypes DEF Concluded, Current, History
  <2>5. Remember(r, [Concluded(r, it) EXCEPT !.status = "failed"]) /\ Goto(r, "end")
    BY <1>8 DEF IterationFails, it
  <2>6. mem'[r].status = "failed" /\ pc'[r] = "end"
    BY <1>t, <2>4, <2>5 DEF Remember, Goto, Goal
  <2>. QED
    BY <2>6 DEF Ending, At
<1>9. CASE Store(r)
  <2>1. Working(r) /\ Current(r) > 0 /\ Last(r).outcome # "planned"
    BY <1>9, <1>t DEF Store, At, Working, Local
  <2>2. Last(r) \in Iteration
    BY <1>m, <2>1, GoalTypes DEF Current, History, Last
  <2>3. Last(r).outcome # "processed" => Last(r).outcome \in Status \ {"active"}
    BY <2>1, <2>2 DEF Iteration, Status
  <2>. QED
    BY <1>9, <1>3, <1>4, <2>1, <2>3 DEF Store, PC
<1>10. CASE End(r)
  BY <1>10, <1>t DEF End, Ending, Goto, At
<1>11. CASE SaveFails(r)
  BY <1>11, <1>t DEF SaveFails, Fault, Ending, Goto, At
<1>. QED
  BY <1>5, <1>6, <1>7, <1>8, <1>9, <1>10, <1>11 DEF Step

LEMMA NextEnding ==
    ASSUME Typed, Locked, \A r \in Runner : Ending(r), [Next]_vars
    PROVE  \A r \in Runner : Ending(r)'
<1>1. ASSUME NEW r \in Runner, Begin(r) \/ Step(r) \/ Resend(r) \/ CallFails(r) \/ SaveFails(r) \/ Crash(r),
             NEW p \in Runner
      PROVE  Ending(p)'
  <2>1. CASE p = r
    BY <1>1, <2>1, StepEnding
  <2>2. CASE p # r
    <3>1. /\ pc'[p] = pc[p] /\ mem'[p] = mem[p] /\ (faults' = 0 => faults = 0)
          /\ UNCHANGED goal \/ Working(r)
      BY <1>1, <2>2, StepEnding
    <3>2. Working(r) => ~At(p, "release")
      BY <2>2 DEF Locked, Working, At
    <3>. QED
      BY <3>1, <3>2 DEF Ending, At
  <2>. QED
    BY <2>1, <2>2
<1>2. CASE StopSave
  <2>1. stopper \in Goal /\ goal' = [stopper EXCEPT !.status = "stopped"] /\ UNCHANGED <<pc, mem>>
    BY <1>2 DEF StopSave, Typed, TypeOK
  <2>2. goal'.status = "stopped"
    BY <2>1 DEF Goal
  <2>. QED
    BY <2>1, <2>2 DEF Ending, At
<1>3. ASSUME \/ StopLoad \/ StopFails \/ UNCHANGED vars
             \/ \E i \in DOMAIN issues : Index(i) \/ Close(i)
      PROVE  \A r \in Runner : Ending(r)'
  <2>1. UNCHANGED <<goal, pc, mem>> /\ (faults' = 0 => faults = 0)
    BY <1>3, GoalAssumption DEF GoalAssumption, StopLoad, StopFails, Fault, vars, Index, Close, Change, Typed, TypeOK
  <2>. QED
    BY <2>1 DEF Ending, At
<1>. QED
  BY <1>1, <1>2, <1>3 DEF Next

\* When a runner is done and nothing has failed, the goal has ended: by what it wrote, or
\* before it had the lock, or by `goal stop` (runGoal, finishGoal).
THEOREM RunnersEndGoals == Safety => []RunLeavesEnd
<1>. DEFINE I == Typed /\ Locked /\ \A r \in Runner : Ending(r)
<1>1. Init => I
  BY InitTyped DEF Init, Locked, Ending, At
<1>2. I /\ [Next]_vars => I'
  BY NextTyped, NextLocked, NextEnding
<1>3. I => RunLeavesEnd
  BY DEF Ending, RunLeavesEnd
<1>. QED
  BY <1>1, <1>2, <1>3, PTL DEF Safety
=============================================================================
