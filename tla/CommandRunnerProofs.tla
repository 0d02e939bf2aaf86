------------------------ MODULE CommandRunnerProofs ------------------------
(***************************************************************************)
(* Proofs about CommandRunner, for any calls: types, that a command leaves *)
(* nobody behind, and that its timers end with it.                         *)
(***************************************************************************)
EXTENDS CommandRunner, TLAPS

(* Before its spawn and after its end a command has nobody in its group,    *)
(* and of its timers only that of a shutdown may be left.                   *)
Quiet(c) == At(c, {"idle", "env", "ok", "failed"})
Empty(g) == g.leader # "alive" /\ g.kid = "none"

NoGroup == \A c \in Spawned : Quiet(c) => Empty(group[c])
TimersGone == \A c \in Call : Quiet(c) => call[c].timers \subseteq {"shutdown"}

(* There is no number to be given away before the spawn. *)
StrangersLate == \A c \in Call : group[c].strangers => Settled(c) \/ Active(c)

ShutdownTimers == \A c \in Call : "shutdown" \in call[c].timers => shutdown

Inv == TypeOK /\ NoGroup /\ TimersGone /\ StrangersLate /\ ShutdownTimers /\ NoLateSignal

-----------------------------------------------------------------------------
LEMMA StruckType ==
  ASSUME NEW g \in Groups, NEW signal
  PROVE  /\ Struck(g, signal) \in Groups
         /\ Struck(g, signal).strangers = g.strangers
         /\ Empty(g) => Empty(Struck(g, signal))
BY DEF Struck, Groups, Empty

LEMMA EmptyGroup == ASSUME NEW g \in Groups, ~Exists(g) PROVE Empty(g)
BY DEF Exists, Empty

(* Whom a signal hits, and when: after a command's end only in a shutdown. *)
LEMMA HitMoments ==
  ASSUME NEW calls, \A d \in calls : group[d].strangers /\ Settled(d) => shutdown
  PROVE  Hit(calls) \subseteq Moments /\ "settled" \notin Hit(calls)
<1>1. \A d \in calls : group[d].strangers => Moment(d) \in {"open", "shutdown"}
  BY DEF Moment
<1> QED
  BY <1>1 DEF Hit, Moments

LEMMA SignalSafe ==
  ASSUME Inv, NEW c \in Call, NEW signal, Signal(c, signal),
         group[c].strangers /\ Settled(c) => shutdown
  PROVE  /\ group' \in [Call -> Groups]
         /\ astray' \subseteq Moments /\ NoLateSignal'
         /\ \A d \in Call : group'[d].strangers = group[d].strangers
         /\ \A d \in Call : Empty(group[d]) => Empty(group'[d])
<1>1. group \in [Call -> Groups] /\ group[c] \in Groups /\ astray \subseteq Moments /\ "settled" \notin astray
  BY DEF Inv, TypeOK, NoLateSignal
<1>2. group' = [group EXCEPT ![c] = Struck(group[c], signal)]
  BY DEF Signal
<1>3. \A d \in Call : group'[d] = IF d = c THEN Struck(group[c], signal) ELSE group[d]
  BY <1>1, <1>2
<1>4. group' \in [Call -> Groups]
  BY <1>1, <1>2, StruckType
<1>5. astray' \subseteq Moments /\ NoLateSignal'
  <2>1. Hit({c}) \subseteq Moments /\ "settled" \notin Hit({c})
    BY HitMoments
  <2> QED
    BY <1>1, <2>1 DEF Signal, NoLateSignal
<1> QED
  BY <1>1, <1>3, <1>4, <1>5, StruckType

LEMMA InitInv == Init => Inv
<1> SUFFICES ASSUME Init PROVE Inv
  OBVIOUS
<1>1. \A c \in Call : /\ call[c] = Ended("idle")
                      /\ group[c].leader = "none" /\ group[c].kid = "none"
                      /\ group[c].strangers = FALSE
  BY DEF Init
<1>2. Ended("idle") \in Calls /\ Ended("idle").timers = {}
  BY DEF Ended, Calls, Stages, Timers
<1>3. [leader |-> "none", kid |-> "none", left |-> FALSE, strangers |-> FALSE] \in Groups
  BY DEF Groups
<1>4. TypeOK
  BY <1>2, <1>3 DEF Init, TypeOK, BrokerStates
<1>5. NoGroup
  BY <1>1 DEF NoGroup, Empty, Spawned
<1>6. TimersGone /\ ShutdownTimers
  BY <1>1, <1>2 DEF TimersGone, ShutdownTimers
<1>7. StrangersLate
  BY <1>1 DEF StrangersLate
<1>8. NoLateSignal
  BY DEF Init, NoLateSignal
<1> QED
  BY <1>4, <1>5, <1>6, <1>7, <1>8 DEF Inv, Init

LEMMA CallsType ==
  ASSUME Inv, NEW c \in Call
  PROVE  /\ call \in [Call -> Calls] /\ call[c] \in Calls
         /\ call[c].at \in Stages /\ call[c].timed \in BOOLEAN
         /\ call[c].timers \in SUBSET Timers /\ call[c].bad \in BOOLEAN
         /\ group \in [Call -> Groups] /\ group[c] \in Groups
         /\ Spawned \subseteq Call
BY DEF Inv, TypeOK, Calls, Spawned

(* What a step that changes one call, and no group but by a signal, has to  *)
(* keep.                                                                    *)
LEMMA OneCall ==
  ASSUME Inv, NEW c \in Call, NEW new \in Calls, Becomes(c, new),
         UNCHANGED <<broker, shutdown>>,
         group' \in [Call -> Groups], astray' \subseteq Moments, NoLateSignal',
         \A d \in Call : group'[d].strangers = group[d].strangers,
         \A d \in Call : Empty(group[d]) => Empty(group'[d]),
         c \in Spawned /\ new.at \in {"idle", "env", "ok", "failed"} => Empty(group[c]),
         new.at \in {"idle", "env", "ok", "failed"} => new.timers \subseteq {"shutdown"},
         group[c].strangers => new.at \in {"running", "settling", "killing", "ok", "failed"},
         "shutdown" \in new.timers => shutdown
  PROVE  Inv'
<1>1. call \in [Call -> Calls]
  BY DEF Inv, TypeOK
<1>2. \A d \in Call : call'[d] = IF d = c THEN new ELSE call[d]
  BY <1>1 DEF Becomes
<1>3. TypeOK'
  BY <1>1 DEF Inv, TypeOK, Becomes
<1>4. NoGroup'
  BY <1>2 DEF Inv, NoGroup, Quiet, At, Spawned
<1>5. TimersGone'
  BY <1>2 DEF Inv, TimersGone, Quiet, At
<1>6. StrangersLate'
  BY <1>2 DEF Inv, StrangersLate, Settled, Active, At
<1>7. ShutdownTimers'
  BY <1>2 DEF Inv, ShutdownTimers
<1> QED
  BY <1>3, <1>4, <1>5, <1>6, <1>7 DEF Inv

(* The same for a step that leaves groups alone, or signals one. *)
LEMMA Alone ==
  ASSUME Inv, NEW c \in Call, NEW new \in Calls, Becomes(c, new),
         UNCHANGED <<group, astray, broker, shutdown>>,
         c \in Spawned /\ new.at \in {"idle", "env", "ok", "failed"} => Empty(group[c]),
         new.at \in {"idle", "env", "ok", "failed"} => new.timers \subseteq {"shutdown"},
         group[c].strangers => new.at \in {"running", "settling", "killing", "ok", "failed"},
         "shutdown" \in new.timers => shutdown
  PROVE  Inv'
<1>1. group' \in [Call -> Groups] /\ astray' \subseteq Moments /\ NoLateSignal'
  BY DEF Inv, TypeOK, NoLateSignal
<1> QED
  BY <1>1, OneCall

(* A callback at a command under way: whatever it hits, it is open.         *)
LEMMA Under ==
  ASSUME Inv, NEW c \in Call, Active(c), NEW new \in Calls, NEW signal,
         Becomes(c, new), Signal(c, signal), UNCHANGED <<broker, shutdown>>,
         new.at \in {"running", "settling", "killing"},
         "shutdown" \in new.timers => "shutdown" \in call[c].timers
  PROVE  Inv'
<1>1. ~Settled(c)
  BY DEF Settled, Active, At
<1>2. "shutdown" \in new.timers => shutdown
  BY DEF Inv, ShutdownTimers
<1>3. /\ group' \in [Call -> Groups] /\ astray' \subseteq Moments /\ NoLateSignal'
      /\ \A d \in Call : group'[d].strangers = group[d].strangers
      /\ \A d \in Call : Empty(group[d]) => Empty(group'[d])
  BY <1>1, SignalSafe
<1> QED
  BY <1>1, <1>2, <1>3, OneCall

-----------------------------------------------------------------------------
LEMMA EndedType == \A at \in Stages : Ended(at) \in Calls /\ Ended(at).at = at /\ Ended(at).timers = {}
BY DEF Ended, Calls, Timers

LEMMA BeginKeeps == ASSUME Inv, NEW c \in Call, Begin(c) PROVE Inv'
<1>1. call[c] \in Calls /\ call[c].at = "idle" /\ call[c].timers \in SUBSET Timers
  BY CallsType DEF Begin, At
<1>2. ~group[c].strangers /\ (c \in Spawned => Empty(group[c])) /\ call[c].timers \subseteq {"shutdown"}
  BY <1>1 DEF Inv, StrangersLate, Settled, Active, NoGroup, TimersGone, Quiet, At
<1>3. "shutdown" \in call[c].timers => shutdown
  BY DEF Inv, ShutdownTimers
<1>4. ASSUME NEW timed \in BOOLEAN, Becomes(c, [call[c] EXCEPT !.at = "env", !.timed = timed])
      PROVE  Inv'
  <2> DEFINE new == [call[c] EXCEPT !.at = "env", !.timed = timed]
  <2>1. new \in Calls /\ new.at = "env" /\ new.timers = call[c].timers
    BY <1>1 DEF Calls, Stages
  <2>2. Becomes(c, new) /\ UNCHANGED <<group, astray, broker, shutdown>>
    BY <1>4 DEF Begin
  <2> HIDE DEF new
  <2> QED
    BY <1>2, <1>3, <2>1, <2>2, Alone
<1>5. CASE Becomes(c, Ended("failed"))
  <2>1. Ended("failed") \in Calls /\ Ended("failed").at = "failed" /\ Ended("failed").timers = {}
    BY EndedType DEF Stages
  <2>2. UNCHANGED <<group, astray, broker, shutdown>>
    BY DEF Begin
  <2> QED
    BY <1>2, <1>5, <2>1, <2>2, Alone
<1> QED
  BY <1>4, <1>5 DEF Begin

(* A spawn gives a command its group. *)
LEMMA SpawnKeeps == ASSUME Inv, NEW c \in Call, Spawn(c) PROVE Inv'
<1>1. call[c] \in Calls /\ call[c].at = "env" /\ call[c].timers \in SUBSET Timers /\ c \in Spawned
  BY CallsType DEF Spawn, At
<1>2. ~group[c].strangers /\ Empty(group[c]) /\ call[c].timers \subseteq {"shutdown"}
  BY <1>1 DEF Inv, StrangersLate, Settled, Active, NoGroup, TimersGone, Quiet, At
<1>3. CASE Becomes(c, Ended("failed")) /\ UNCHANGED group
  <2>1. Ended("failed") \in Calls /\ Ended("failed").at = "failed" /\ Ended("failed").timers = {}
    BY EndedType DEF Stages
  <2>2. UNCHANGED <<group, astray, broker, shutdown>>
    BY <1>3 DEF Spawn
  <2> QED
    BY <1>2, <1>3, <2>1, <2>2, Alone
<1>4. CASE /\ Becomes(c, [call[c] EXCEPT !.at = "running",
                                         !.timers = IF call[c].timed THEN {"timeout"} ELSE {}])
           /\ group' = [group EXCEPT ![c].leader = "alive"]
  <2> DEFINE new == [call[c] EXCEPT !.at = "running", !.timers = IF call[c].timed THEN {"timeout"} ELSE {}]
  <2>1. new \in Calls /\ new.at = "running" /\ "shutdown" \notin new.timers
    BY <1>1 DEF Calls, Stages, Timers
  <2>2. UNCHANGED <<broker, shutdown, astray>>
    BY DEF Spawn
  <2>3. call \in [Call -> Calls] /\ group \in [Call -> Groups] /\ Spawned \subseteq Call
    BY CallsType
  <2>4. \A d \in Call : call'[d] = IF d = c THEN new ELSE call[d]
    BY <1>4, <2>3 DEF Becomes
  <2>5. \A d \in Call : group'[d].strangers = group[d].strangers /\ (d # c => group'[d] = group[d])
    BY <1>4, <2>3 DEF Groups
  <2>6. group' \in [Call -> Groups]
    BY <1>4, <2>3 DEF Groups
  <2> HIDE DEF new
  <2>7. TypeOK'
    <3>1. call' \in [Call -> Calls]
      BY <1>4, <2>1, <2>3 DEF Becomes, new
    <3> QED
      BY <2>2, <2>6, <3>1 DEF Inv, TypeOK, Moments
  <2>8. NoGroup'
    BY <2>1, <2>3, <2>4, <2>5 DEF Inv, NoGroup, Quiet, At, Spawned
  <2>9. TimersGone' /\ ShutdownTimers'
    BY <2>1, <2>2, <2>4 DEF Inv, TimersGone, ShutdownTimers, Quiet, At
  <2>10. StrangersLate'
    BY <1>2, <2>4, <2>5 DEF Inv, StrangersLate, Settled, Active, At
  <2> QED
    BY <2>2, <2>7, <2>8, <2>9, <2>10 DEF Inv, NoLateSignal
<1> QED
  BY <1>3, <1>4 DEF Spawn

LEMMA LimitsKeep == ASSUME Inv, NEW c \in Call, TimeOut(c) \/ OutputLimit(c) PROVE Inv'
<1>1. call[c] \in Calls /\ call[c].at = "running" /\ call[c].timers \in SUBSET Timers
  BY CallsType DEF TimeOut, OutputLimit, At
<1>2. \E timers \in SUBSET Timers :
         /\ Becomes(c, [call[c] EXCEPT !.timers = timers, !.bad = TRUE])
         /\ "shutdown" \in timers => "shutdown" \in call[c].timers
  <2>1. CASE TimeOut(c)
    <3> DEFINE timers == {"force"} \cup (call[c].timers \ {"timeout"})
    <3>1. timers \in SUBSET Timers /\ ("shutdown" \in timers => "shutdown" \in call[c].timers)
      BY <1>1 DEF Timers
    <3>2. Becomes(c, [call[c] EXCEPT !.timers = timers, !.bad = TRUE])
      BY <2>1 DEF TimeOut
    <3> HIDE DEF timers
    <3> QED
      BY <3>1, <3>2
  <2>2. CASE OutputLimit(c)
    <3> DEFINE timers == {"force"} \cup call[c].timers
    <3>1. timers \in SUBSET Timers /\ ("shutdown" \in timers => "shutdown" \in call[c].timers)
      BY <1>1 DEF Timers
    <3>2. Becomes(c, [call[c] EXCEPT !.timers = timers, !.bad = TRUE])
      BY <2>2 DEF OutputLimit
    <3> HIDE DEF timers
    <3> QED
      BY <3>1, <3>2
  <2> QED
    BY <2>1, <2>2
<1>3. PICK timers \in SUBSET Timers :
         /\ Becomes(c, [call[c] EXCEPT !.timers = timers, !.bad = TRUE])
         /\ "shutdown" \in timers => "shutdown" \in call[c].timers
  BY <1>2
<1> DEFINE new == [call[c] EXCEPT !.timers = timers, !.bad = TRUE]
<1>4. new \in Calls /\ new.at = "running" /\ new.timers = timers
  BY <1>1 DEF Calls
<1>5. Signal(c, "TERM") /\ UNCHANGED <<broker, shutdown>> /\ Active(c)
  BY <1>1 DEF TimeOut, OutputLimit, Active, At
<1>6. Becomes(c, new)
  BY <1>3
<1> HIDE DEF new
<1> QED
  BY <1>3, <1>4, <1>5, <1>6, Under

(* A timer that is left after the end of a command is that of a shutdown. *)
LEMMA ForceKillKeeps == ASSUME Inv, NEW c \in Call, ForceKill(c) PROVE Inv'
<1>1. call[c] \in Calls /\ call[c].timers \in SUBSET Timers
  BY CallsType
<1>2. PICK t \in call[c].timers \cap {"force", "shutdown"} :
         Becomes(c, [call[c] EXCEPT !.timers = call[c].timers \ {t}])
  BY DEF ForceKill
<1> DEFINE new == [call[c] EXCEPT !.timers = call[c].timers \ {t}]
<1>3. new \in Calls /\ new.at = call[c].at /\ new.timers = call[c].timers \ {t}
  BY <1>1 DEF Calls
<1>4. group[c].strangers /\ Settled(c) => shutdown
  BY <1>2 DEF Inv, TimersGone, ShutdownTimers, Quiet, Settled, At
<1>5. /\ group' \in [Call -> Groups] /\ astray' \subseteq Moments /\ NoLateSignal'
      /\ \A d \in Call : group'[d].strangers = group[d].strangers
      /\ \A d \in Call : Empty(group[d]) => Empty(group'[d])
  <2>1. Signal(c, "KILL")
    BY DEF ForceKill
  <2> QED
    BY <1>4, <2>1, SignalSafe
<1>6. Becomes(c, new) /\ UNCHANGED <<broker, shutdown>>
  BY <1>2 DEF ForceKill
<1> HIDE DEF new
<1>7. /\ c \in Spawned /\ new.at \in {"idle", "env", "ok", "failed"} => Empty(group[c])
      /\ new.at \in {"idle", "env", "ok", "failed"} => new.timers \subseteq {"shutdown"}
      /\ group[c].strangers => new.at \in {"running", "settling", "killing", "ok", "failed"}
      /\ "shutdown" \in new.timers => shutdown
  BY <1>3 DEF Inv, NoGroup, TimersGone, StrangersLate, ShutdownTimers, Quiet, Settled, Active, At
<1> QED
  BY <1>3, <1>5, <1>6, <1>7, OneCall

LEMMA CloseKeeps == ASSUME Inv, NEW c \in Call, Close(c) PROVE Inv'
<1>1. call[c] \in Calls /\ call[c].timers \in SUBSET Timers
  BY CallsType
<1> DEFINE new == [call[c] EXCEPT !.at = "settling", !.timers = call[c].timers \ {"timeout"}]
<1>2. new \in Calls /\ new.at = "settling" /\ new.timers \subseteq call[c].timers
  BY <1>1 DEF Calls, Stages
<1>3. Becomes(c, new) /\ Signal(c, "TERM") /\ UNCHANGED <<broker, shutdown>> /\ Active(c)
  BY DEF Close, Closed, Active, At
<1> HIDE DEF new
<1> QED
  BY <1>2, <1>3, Under

LEMMA GraceKeeps == ASSUME Inv, NEW c \in Call, Grace(c) PROVE Inv'
<1>1. call[c] \in Calls
  BY CallsType
<1> DEFINE new == [call[c] EXCEPT !.at = "killing"]
<1>2. new \in Calls /\ new.at = "killing" /\ new.timers = call[c].timers
  BY <1>1 DEF Calls, Stages
<1>3. Becomes(c, new) /\ Signal(c, "KILL") /\ UNCHANGED <<broker, shutdown>> /\ Active(c)
  BY DEF Grace, Active, At
<1> HIDE DEF new
<1> QED
  BY <1>2, <1>3, Under

(* A command settles when its group is gone, with the timers of a shutdown. *)
LEMMA SettleKeeps == ASSUME Inv, NEW c \in Call, Settle(c) PROVE Inv'
<1>1. call[c] \in Calls /\ call[c].timers \in SUBSET Timers
  BY CallsType
<1>2. PICK to \in {"ok", "failed"} :
         Becomes(c, [Ended(to) EXCEPT !.timers = call[c].timers \cap {"shutdown"}])
  BY DEF Settle, TimersLeft
<1> DEFINE new == [Ended(to) EXCEPT !.timers = call[c].timers \cap {"shutdown"}]
<1>3. new \in Calls /\ new.at = to /\ new.timers = call[c].timers \cap {"shutdown"}
  BY <1>1 DEF Ended, Calls, Stages, Timers
<1>4. Becomes(c, new) /\ UNCHANGED <<group, astray, broker, shutdown>> /\ Empty(group[c])
  BY <1>2, CallsType, EmptyGroup DEF Settle
<1>5. "shutdown" \in new.timers => shutdown
  BY <1>3 DEF Inv, ShutdownTimers
<1> HIDE DEF new
<1> QED
  BY <1>3, <1>4, <1>5, Alone

(* A request has no group. *)
LEMMA AskKeeps == ASSUME Inv, NEW c \in Call, Ask(c) PROVE Inv'
<1>1. call[c] \in Calls /\ call[c].at = "env" /\ c \notin Spawned
  BY CallsType DEF Ask, At, Spawned
<1>2. ~group[c].strangers
  BY <1>1 DEF Inv, StrangersLate, Settled, Active, At
<1>3. call \in [Call -> Calls] /\ UNCHANGED <<group, shutdown, astray>>
  BY CallsType DEF Ask
<1>4. PICK new \in Calls : /\ Becomes(c, new) /\ new.timers \subseteq {"timeout"}
                           /\ new.at = "running" \/ (new.at = "failed" /\ new.timers = {})
  <2>1. Ended("failed") \in Calls /\ Ended("failed").at = "failed" /\ Ended("failed").timers = {}
    BY EndedType DEF Stages
  <2> DEFINE new == [call[c] EXCEPT !.at = "running", !.timers = {"timeout"}]
  <2>2. new \in Calls /\ new.at = "running" /\ new.timers = {"timeout"}
    BY <1>1 DEF Calls, Stages, Timers
  <2>3. Becomes(c, new) \/ Becomes(c, Ended("failed"))
    BY DEF Ask
  <2> HIDE DEF new
  <2> QED
    BY <2>1, <2>2, <2>3
<1>5. broker' \in [Call -> BrokerStates]
  BY DEF Ask, Inv, TypeOK, BrokerStates
<1>6. \A d \in Call : call'[d] = IF d = c THEN new ELSE call[d]
  BY <1>3, <1>4 DEF Becomes
<1>7. TypeOK'
  BY <1>3, <1>4, <1>5 DEF Inv, TypeOK, Becomes
<1>8. NoGroup' /\ TimersGone' /\ ShutdownTimers'
  BY <1>1, <1>3, <1>4, <1>6 DEF Inv, NoGroup, TimersGone, ShutdownTimers, Quiet, At, Spawned
<1>9. StrangersLate'
  BY <1>2, <1>3, <1>6 DEF Inv, StrangersLate, Settled, Active, At
<1> QED
  BY <1>3, <1>7, <1>8, <1>9 DEF Inv, NoLateSignal

LEMMA AnswerKeeps == ASSUME Inv, NEW c \in Call, Answered(c) \/ Unanswered(c) PROVE Inv'
<1>1. PICK at \in {"ok", "failed"} : Becomes(c, Ended(at))
  BY DEF Answered, Unanswered
<1>2. Ended(at) \in Calls /\ Ended(at).at = at /\ Ended(at).timers = {}
  BY EndedType DEF Stages
<1>3. UNCHANGED <<group, astray, broker, shutdown>> /\ c \notin Spawned
  BY DEF Answered, Unanswered, Spawned
<1> QED
  BY <1>1, <1>2, <1>3, Alone

LEMMA ShutdownKeeps == ASSUME Inv, Shutdown PROVE Inv'
<1>1. call \in [Call -> Calls] /\ shutdown' = TRUE /\ UNCHANGED <<group, broker>>
  BY DEF Inv, TypeOK, Shutdown
<1>a. astray' \subseteq Moments /\ NoLateSignal'
  <2> DEFINE active == {c \in Spawned : Active(c)}
  <2>1. \A d \in active : ~Settled(d)
    BY DEF Active, Settled, At
  <2>2. Hit(active) \subseteq Moments /\ "settled" \notin Hit(active)
    BY <2>1, HitMoments
  <2>3. astray' = astray \cup Hit(active)
    BY DEF Shutdown
  <2> QED
    BY <2>2, <2>3 DEF Inv, TypeOK, NoLateSignal
<1>2. \A c \in Call :
         /\ ~Active(c) => call'[c] = call[c]
         /\ Active(c) /\ c \in Brokered => call'[c] = Ended("failed")
         /\ Active(c) /\ c \notin Brokered =>
               call'[c] = [call[c] EXCEPT !.timers = call[c].timers \cup {"shutdown"}]
  BY DEF Shutdown
<1>3. Ended("failed") \in Calls /\ Ended("failed").at = "failed" /\ Ended("failed").timers = {}
  BY EndedType DEF Stages
<1>4. \A c \in Call : /\ [call[c] EXCEPT !.timers = call[c].timers \cup {"shutdown"}] \in Calls
                      /\ [call[c] EXCEPT !.timers = call[c].timers \cup {"shutdown"}].at = call[c].at
  BY <1>1 DEF Calls, Timers
<1>5. \A c \in Call : call'[c] \in Calls
  BY <1>1, <1>2, <1>3, <1>4
<1>6. TypeOK'
  <2>1. call' = [c \in Call |-> call'[c]]
    BY DEF Shutdown
  <2>2. call' \in [Call -> Calls]
    BY <1>5, <2>1
  <2> QED
    BY <1>1, <1>a, <2>2 DEF Inv, TypeOK
<1>7. \A c \in Call : /\ Quiet(c)' => (call'[c] = call[c] /\ Quiet(c)) \/ (c \in Brokered /\ call'[c].timers = {})
                      /\ Settled(c) \/ Active(c) => Settled(c)' \/ Active(c)'
  <2> SUFFICES ASSUME NEW c \in Call
               PROVE  /\ Quiet(c)' => (call'[c] = call[c] /\ Quiet(c)) \/ (c \in Brokered /\ call'[c].timers = {})
                      /\ Settled(c) \/ Active(c) => Settled(c)' \/ Active(c)'
    OBVIOUS
  <2>1. CASE ~Active(c)
    BY <1>2, <2>1 DEF Quiet, Settled, Active, At
  <2>2. CASE Active(c)
    BY <1>2, <1>3, <1>4, <2>2 DEF Quiet, Settled, Active, At
  <2> QED
    BY <2>1, <2>2
<1>8. NoGroup'
  BY <1>1, <1>7 DEF Inv, NoGroup, Spawned
<1>9. TimersGone'
  BY <1>7 DEF Inv, TimersGone
<1>10. StrangersLate' /\ ShutdownTimers'
  BY <1>1, <1>7 DEF Inv, StrangersLate, ShutdownTimers
<1> QED
  BY <1>1, <1>a, <1>6, <1>8, <1>9, <1>10 DEF Inv

-----------------------------------------------------------------------------
(* A program has descendants only while its group is there, which is not    *)
(* before its spawn and not after its end.                                  *)
LEMMA ProgramKeeps ==
  ASSUME Inv, NEW c \in Call, NEW g \in Groups, Program(c, g),
         Empty(group[c]) => Empty(g),
         g.strangers => group[c].strangers \/ Settled(c) \/ Active(c)
  PROVE  Inv'
<1>1. group \in [Call -> Groups] /\ UNCHANGED <<call, broker, shutdown, astray>>
  BY DEF Inv, TypeOK, Program
<1>2. \A d \in Call : group'[d] = IF d = c THEN g ELSE group[d]
  BY <1>1 DEF Program
<1>3. TypeOK'
  BY <1>1 DEF Inv, TypeOK, Program
<1>4. NoGroup'
  BY <1>1, <1>2 DEF Inv, NoGroup, Quiet, At, Spawned
<1>5. TimersGone' /\ ShutdownTimers'
  BY <1>1 DEF Inv, TimersGone, ShutdownTimers, Quiet, At
<1>6. StrangersLate'
  BY <1>1, <1>2 DEF Inv, StrangersLate, Settled, Active, At
<1> QED
  BY <1>1, <1>3, <1>4, <1>5, <1>6 DEF Inv, NoLateSignal

LEMMA ProgramsKeep == ASSUME Inv, NEW c \in Call, Fork(c) \/ Leave(c) \/ Exit(c) \/ Reuse(c) PROVE Inv'
<1>1. group[c] \in Groups
  BY CallsType
<1>2. CASE Fork(c)
  <2>1. PICK kid \in {"holds", "mute"} : Program(c, [group[c] EXCEPT !.kid = kid])
    BY <1>2 DEF Fork
  <2> DEFINE g == [group[c] EXCEPT !.kid = kid]
  <2>2. g \in Groups /\ g.strangers = group[c].strangers
    BY <1>1 DEF Groups
  <2>3. ~Empty(group[c]) /\ Program(c, g)
    BY <1>2, <2>1 DEF Fork, Empty
  <2> HIDE DEF g
  <2> QED
    BY <2>2, <2>3, ProgramKeeps
<1>3. CASE Leave(c)
  <2> DEFINE g == [group[c] EXCEPT !.kid = "none", !.left = TRUE]
  <2>1. g \in Groups /\ g.strangers = group[c].strangers /\ (Empty(group[c]) => Empty(g))
    BY <1>1 DEF Groups, Empty
  <2>2. Program(c, g)
    BY <1>3 DEF Leave
  <2> HIDE DEF g
  <2> QED
    BY <2>1, <2>2, ProgramKeeps
<1>4. CASE Exit(c)
  <2> DEFINE a == [group[c] EXCEPT !.leader = "dead"]
             b == [group[c] EXCEPT !.kid = "none"]
             d == [group[c] EXCEPT !.left = FALSE]
             e == [group[c] EXCEPT !.strangers = FALSE]
  <2>1. /\ a \in Groups /\ a.strangers = group[c].strangers /\ (Empty(group[c]) => Empty(a))
        /\ b \in Groups /\ b.strangers = group[c].strangers /\ (Empty(group[c]) => Empty(b))
        /\ d \in Groups /\ d.strangers = group[c].strangers /\ (Empty(group[c]) => Empty(d))
        /\ e \in Groups /\ ~e.strangers /\ (Empty(group[c]) => Empty(e))
    BY <1>1 DEF Groups, Empty
  <2>2. Program(c, a) \/ Program(c, b) \/ Program(c, d) \/ Program(c, e)
    BY <1>4 DEF Exit
  <2> HIDE DEF a, b, d, e
  <2>3. CASE Program(c, a)
    BY <2>1, <2>3, ProgramKeeps
  <2>4. CASE Program(c, b)
    BY <2>1, <2>4, ProgramKeeps
  <2>5. CASE Program(c, d)
    BY <2>1, <2>5, ProgramKeeps
  <2>6. CASE Program(c, e)
    BY <2>1, <2>6, ProgramKeeps
  <2> QED
    BY <2>2, <2>3, <2>4, <2>5, <2>6
<1>5. CASE Reuse(c)
  <2> DEFINE g == [group[c] EXCEPT !.strangers = TRUE]
  <2>1. g \in Groups /\ (Empty(group[c]) => Empty(g))
    BY <1>1 DEF Groups, Empty
  <2>2. Program(c, g)
    BY <1>5 DEF Reuse
  <2>3. Settled(c) \/ Active(c)
    BY <1>5 DEF Reuse, Active, At
  <2> HIDE DEF g
  <2> QED
    BY <2>1, <2>2, <2>3, ProgramKeeps
<1> QED
  BY <1>2, <1>3, <1>4, <1>5

LEMMA ServeKeeps == ASSUME Inv, NEW c \in Call, Serve(c) PROVE Inv'
<1>1. UNCHANGED <<call, group, shutdown, astray>>
  BY DEF Serve
<1>2. broker' \in [Call -> BrokerStates]
  BY DEF Serve, Inv, TypeOK, BrokerStates
<1> QED
  BY <1>1, <1>2 DEF Inv, TypeOK, NoGroup, TimersGone, StrangersLate, ShutdownTimers, NoLateSignal, Quiet,
     Settled, Active, At

-----------------------------------------------------------------------------
LEMMA Steps == ASSUME Inv, [Next]_vars PROVE Inv'
<1>1. CASE UNCHANGED vars
  BY <1>1 DEF vars, Inv, TypeOK, NoGroup, TimersGone, StrangersLate, ShutdownTimers, NoLateSignal, Quiet,
     Settled, Active, At
<1>2. CASE Shutdown
  BY <1>2, ShutdownKeeps
<1>3. ASSUME NEW c \in Call,
             \/ Begin(c) \/ Loop(c) \/ OutputLimit(c) \/ Fork(c) \/ Leave(c) \/ Exit(c)
             \/ Reuse(c) \/ Serve(c)
      PROVE  Inv'
  BY <1>3, BeginKeeps, SpawnKeeps, LimitsKeep, ForceKillKeeps, CloseKeeps, GraceKeeps, SettleKeeps,
     AskKeeps, AnswerKeeps, ProgramsKeep, ServeKeeps DEF Loop
<1> QED
  BY <1>1, <1>2, <1>3 DEF Next

LEMMA Invariance == Spec => []Inv
<1>1. Init => Inv
  BY InitInv
<1>2. Inv /\ [Next]_vars => Inv'
  BY Steps
<1> QED
  BY <1>1, <1>2, PTL DEF Spec

(* The process's memory of its calls, their groups and the broker keep      *)
(* their types.                                                             *)
THEOREM CommandsTyped == Spec => []TypeOK
<1>1. Inv => TypeOK
  BY DEF Inv
<1> QED
  BY <1>1, Invariance, PTL

(* Whoever calls a command goes on only when its whole group is gone,       *)
(* however it ended.                                                        *)
THEOREM NobodyLeft == Spec => []NothingLeftBehind
<1>1. Inv => NothingLeftBehind
  BY DEF Inv, NoGroup, NothingLeftBehind, Quiet, Settled, At, Empty
<1> QED
  BY <1>1, Invariance, PTL

(* Outside of a shutdown no timer of a command fires after its end at those *)
(* who have the number of its group by now, for any number of calls,        *)
(* whatever they run into.                                                  *)
THEOREM TimersEndWithCommands == Spec => []NoLateSignal
<1>1. Inv => NoLateSignal
  BY DEF Inv
<1> QED
  BY <1>1, Invariance, PTL
=============================================================================
