--------------------------- MODULE CommandRunner ---------------------------
(***************************************************************************)
(* The calls one kaizen process makes of other programs                    *)
(* (utils/command.ts): commands it spawns, each the leader of a process    *)
(* group of its own, and requests it sends to the broker that holds the    *)
(* GitHub credential.  Several are under way at once, each with timers;    *)
(* a run has a deadline; a signal shuts the process down.                  *)
(*                                                                         *)
(* One action is one callback of the event loop, or one step of the        *)
(* operating system or the broker.  SIGTERM promises nothing, for a        *)
(* program may ignore it and any program may end at any time; SIGKILL ends *)
(* every member of the group.  The number of a group that is gone may be   *)
(* given to strangers once its command has settled, and while the command  *)
(* waits for output that somebody holds who has left the group, for that   *)
(* may take any time; not in the milliseconds between an exit and its      *)
(* 'close', nor in the poll of 25 ms before a command settles.  Windows is *)
(* left out.                                                               *)
(***************************************************************************)
EXTENDS Naturals, FiniteSets

CONSTANTS Call,      \* the calls, each made at most once
          Brokered   \* those of them that are requests to the broker

ASSUME CommandAssumption == Brokered \subseteq Call

VARIABLES call,      \* what the process knows of each call
          group,     \* the process group of each command
          broker,    \* what the broker has done with each request
          shutdown,  \* a signal has been received
          astray     \* history: when it was that a group of strangers was signalled

vars == <<call, group, broker, shutdown, astray>>

Spawned == Call \ Brokered

(* env: before the temporary directory is there; settling: closed, SIGTERM  *)
(* sent; killing: SIGKILL sent.                                             *)
Stages == {"idle", "env", "running", "settling", "killing", "ok", "failed"}
Timers == {"timeout", "force", "shutdown"}
Calls == [at: Stages, timed: BOOLEAN, timers: SUBSET Timers, bad: BOOLEAN]

(* The leader; a descendant in the group, which holds the output or not;    *)
(* one that has left the group (setsid) and holds the output; and whether   *)
(* there is a group of strangers with its number.                           *)
Groups == [leader: {"none", "alive", "dead"}, kid: {"none", "holds", "mute"},
           left: BOOLEAN, strangers: BOOLEAN]

BrokerStates == {"none", "asked", "pushed", "acked", "refused"}

(* Before the call has settled; in a shutdown; after the call has settled.  *)
Moments == {"open", "shutdown", "settled"}

TypeOK == /\ call \in [Call -> Calls]
          /\ group \in [Call -> Groups]
          /\ broker \in [Call -> BrokerStates]
          /\ shutdown \in BOOLEAN /\ astray \subseteq Moments

Ended(at) == [at |-> at, timed |-> FALSE, timers |-> {}, bad |-> FALSE]

Init == /\ call = [c \in Call |-> Ended("idle")]
        /\ group = [c \in Call |-> [leader |-> "none", kid |-> "none", left |-> FALSE, strangers |-> FALSE]]
        /\ broker = [c \in Call |-> "none"]
        /\ shutdown = FALSE /\ astray = {}

At(c, stages) == call[c].at \in stages
Settled(c) == At(c, {"ok", "failed"})
Active(c) == At(c, {"running", "settling", "killing"})

\* Mutant: only the leader is waited for.
LeaderExists(g) == g.leader = "alive"

(* processGroupExists: it cannot tell members from strangers. *)
Exists(g) == g.leader = "alive" \/ g.kid # "none" \/ g.strangers

Becomes(c, new) == call' = [call EXCEPT ![c] = new]

-----------------------------------------------------------------------------
(* A signal to the group of c, by its number.  Strangers may be another     *)
(* user's and need not end by it.                                           *)
Struck(g, signal) == IF signal = "KILL" /\ ~g.strangers THEN [g EXCEPT !.leader = "dead", !.kid = "none"] ELSE g

Moment(c) == IF ~Settled(c) THEN "open" ELSE IF shutdown THEN "shutdown" ELSE "settled"
Hit(calls) == {Moment(c) : c \in {d \in calls : group[d].strangers}}

Signal(c, signal) ==
  /\ group' = [group EXCEPT ![c] = Struck(@, signal)]
  /\ astray' = astray \cup Hit({c})

(* throwIfShutdownRequested and, in a run, timeoutWithinDeadline: it throws *)
(* when the deadline is over, and gives every call of the run a limit.      *)
Begin(c) ==
  /\ At(c, {"idle"})
  /\ \/ /\ ~shutdown
        /\ \E ofRun, timed \in BOOLEAN :
             /\ ofRun \/ c \in Brokered => timed
             /\ Becomes(c, [call[c] EXCEPT !.at = "env", !.timed = timed])
     \/ Becomes(c, Ended("failed"))
  /\ UNCHANGED <<group, broker, shutdown, astray>>

(* After envWithKaizenTemp: shut down meanwhile, or spawn, which can fail.  *)
Spawn(c) ==
  /\ c \in Spawned /\ At(c, {"env"})
  /\ \/ /\ ~shutdown
        /\ Becomes(c, [call[c] EXCEPT !.at = "running",
                                      !.timers = IF call[c].timed THEN {"timeout"} ELSE {}])
        /\ group' = [group EXCEPT ![c].leader = "alive"]
     \/ Becomes(c, Ended("failed")) /\ UNCHANGED group
  /\ UNCHANGED <<broker, shutdown, astray>>

\* Mutant: SIGTERM is taken for enough.
TimeOutGently(c) ==
  /\ c \in Spawned /\ At(c, {"running"}) /\ "timeout" \in call[c].timers
  /\ Becomes(c, [call[c] EXCEPT !.timers = @ \ {"timeout"}, !.bad = TRUE])
  /\ Signal(c, "TERM")
  /\ UNCHANGED <<broker, shutdown>>

(* The time limit: SIGTERM, and SIGKILL 10 s later. *)
TimeOut(c) ==
  /\ c \in Spawned /\ At(c, {"running"}) /\ "timeout" \in call[c].timers
  /\ Becomes(c, [call[c] EXCEPT !.timers = {"force"} \cup (@ \ {"timeout"}), !.bad = TRUE])
  /\ Signal(c, "TERM")
  /\ UNCHANGED <<broker, shutdown>>

(* More output than allowed: SIGTERM, and SIGKILL 1 s later. *)
OutputLimit(c) ==
  /\ c \in Spawned /\ At(c, {"running"})
  /\ group[c].leader = "alive" \/ group[c].kid = "holds" \/ group[c].left
  /\ Becomes(c, [call[c] EXCEPT !.timers = {"force"} \cup @, !.bad = TRUE])
  /\ Signal(c, "TERM")
  /\ UNCHANGED <<broker, shutdown>>

ForceKill(c) ==
  /\ \E t \in call[c].timers \cap {"force", "shutdown"} :
       Becomes(c, [call[c] EXCEPT !.timers = @ \ {t}])
  /\ Signal(c, "KILL")
  /\ UNCHANGED <<broker, shutdown>>

(* close: the leader is gone and nobody holds its output. *)
Closed(c) == /\ c \in Spawned /\ At(c, {"running"})
             /\ group[c].leader = "dead" /\ group[c].kid # "holds" /\ ~group[c].left

Close(c) ==
  /\ Closed(c)
  /\ Becomes(c, [call[c] EXCEPT !.at = "settling", !.timers = @ \ {"timeout"}])
  /\ Signal(c, "TERM")
  /\ UNCHANGED <<broker, shutdown>>

(* 250 ms later a member of the group is still there. *)
Grace(c) ==
  /\ At(c, {"settling"}) /\ Exists(group[c])
  /\ Becomes(c, [call[c] EXCEPT !.at = "killing"])
  /\ Signal(c, "KILL")
  /\ UNCHANGED <<broker, shutdown>>

\* Mutant: what was armed for the end of the group stays armed.
TimersKept(timers) == timers

(* clearTimers does not know of those of a shutdown. *)
TimersLeft(timers) == timers \cap {"shutdown"}

(* The group is gone: the command resolves, or rejects for its time, its    *)
(* output or its exit code.                                                 *)
Settle(c) ==
  /\ At(c, {"settling", "killing"}) /\ ~Exists(group[c])
  /\ \E to \in IF call[c].bad THEN {"failed"} ELSE {"ok", "failed"} :
       Becomes(c, [Ended(to) EXCEPT !.timers = TimersLeft(call[c].timers)])
  /\ UNCHANGED <<group, broker, shutdown, astray>>

-----------------------------------------------------------------------------
(* requestBroker, requestBrokerCommand: the frame is sent once connected.   *)
Ask(c) ==
  /\ c \in Brokered /\ At(c, {"env"})
  /\ \/ /\ ~shutdown
        /\ Becomes(c, [call[c] EXCEPT !.at = "running", !.timers = {"timeout"}])
        /\ broker' = [broker EXCEPT ![c] = "asked"]
     \/ Becomes(c, Ended("failed")) /\ UNCHANGED broker
  /\ UNCHANGED <<group, shutdown, astray>>

(* What the answer says once the broker has ended it. *)
Acknowledged(c) == broker[c] = "acked"

(* end with an answer: one JSON object with ok, or a failure. *)
Answered(c) ==
  /\ c \in Brokered /\ At(c, {"running"})
  /\ broker[c] \in {"acked", "refused"}
  /\ Becomes(c, Ended(IF Acknowledged(c) THEN "ok" ELSE "failed"))
  /\ UNCHANGED <<group, broker, shutdown, astray>>

(* The absolute timeout, an error or the close of the socket, or too much   *)
(* data: the socket is destroyed, and nobody hears of what was done by then. *)
Unanswered(c) ==
  /\ c \in Brokered /\ At(c, {"running"})
  /\ Becomes(c, Ended("failed"))
  /\ UNCHANGED <<group, broker, shutdown, astray>>

-----------------------------------------------------------------------------
(* SIGINT or SIGTERM: every active group gets SIGTERM and, 10 s later,      *)
(* SIGKILL; the sockets are destroyed.                                      *)
Shutdown ==
  /\ ~shutdown
  /\ shutdown' = TRUE
  /\ call' = [c \in Call |->
                IF ~Active(c) THEN call[c]
                ELSE IF c \in Brokered THEN Ended("failed")
                ELSE [call[c] EXCEPT !.timers = @ \cup {"shutdown"}]]
  /\ astray' = astray \cup Hit({c \in Spawned : Active(c)})
  /\ UNCHANGED <<group, broker>>

-----------------------------------------------------------------------------
(* What the programs do. *)
Program(c, g) == group' = [group EXCEPT ![c] = g] /\ UNCHANGED <<call, broker, shutdown, astray>>

Fork(c) == /\ group[c].leader = "alive" /\ group[c].kid = "none"
           /\ \E kid \in {"holds", "mute"} : Program(c, [group[c] EXCEPT !.kid = kid])

Leave(c) == group[c].kid = "holds" /\ ~group[c].left
            /\ Program(c, [group[c] EXCEPT !.kid = "none", !.left = TRUE])

Exit(c) == \/ group[c].leader = "alive" /\ Program(c, [group[c] EXCEPT !.leader = "dead"])
           \/ group[c].kid # "none" /\ Program(c, [group[c] EXCEPT !.kid = "none"])
           \/ group[c].left /\ Program(c, [group[c] EXCEPT !.left = FALSE])
           \/ group[c].strangers /\ Program(c, [group[c] EXCEPT !.strangers = FALSE])

(* The number is free, for long enough. *)
Reuse(c) == /\ group[c].leader = "dead" /\ ~Exists(group[c])
            /\ Settled(c) \/ (At(c, {"running"}) /\ group[c].left)
            /\ Program(c, [group[c] EXCEPT !.strangers = TRUE])

(* The broker pushes, then answers; or its answer is a refusal or garbled.  *)
(* It goes no further for a caller that has disconnected.                   *)
Serve(c) ==
  /\ At(c, {"running"})
  /\ \/ broker[c] = "asked" /\ \E to \in {"pushed", "refused"} : broker' = [broker EXCEPT ![c] = to]
     \/ broker[c] = "pushed" /\ \E to \in {"acked", "refused"} : broker' = [broker EXCEPT ![c] = to]
  /\ UNCHANGED <<call, group, shutdown, astray>>

(* The callbacks the event loop comes to by itself. *)
Loop(c) == \/ Spawn(c) \/ TimeOut(c) \/ ForceKill(c) \/ Close(c) \/ Grace(c) \/ Settle(c)
           \/ Ask(c) \/ Answered(c) \/ Unanswered(c)

Next == \/ \E c \in Call : Begin(c) \/ Loop(c) \/ OutputLimit(c) \/ Fork(c) \/ Leave(c) \/ Exit(c)
                           \/ Reuse(c) \/ Serve(c)
        \/ Shutdown

(* Timers fire and callbacks run as long as a call is under way; nobody has *)
(* to call, to signal or to exit.                                           *)
Spec == Init /\ [][Next]_vars /\ \A c \in Call : WF_vars(Loop(c))

-----------------------------------------------------------------------------
(* When a command has settled nobody of its group is left to write into the *)
(* worktree the caller goes on with, however the command ended, be it at    *)
(* its limit, with a deaf descendant, or in a shutdown.                     *)
NothingLeftBehind == \A c \in Spawned : Settled(c) => group[c].leader # "alive" /\ group[c].kid = "none"

(* A command that has settled signals nobody any more: every timer that     *)
(* would hit those who were given the number of its group is cleared in     *)
(* time, but for those of a shutdown.  While it is open they are hit when   *)
(* they come while somebody who has left the group holds its output.        *)
NoLateSignal == "settled" \notin astray

(* A call with a time limit, and in a shutdown every call, comes to its end *)
(* although SIGTERM may be ignored, output held by descendants of the group *)
(* and answers missing; unless a descendant that has left the group holds   *)
(* the output, or strangers have the number of the group before the end.    *)
CallsEnd == \A c \in Call :
  (At(c, Stages \ {"idle", "ok", "failed"}) /\ (call[c].timed \/ shutdown))
    ~> (Settled(c) \/ group[c].left \/ group[c].strangers)
=============================================================================
