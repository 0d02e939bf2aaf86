------------------------------- MODULE RunLock -------------------------------
(***************************************************************************)
(* run.lock, the file that keeps two kaizen processes off one project:     *)
(* RunLock.acquire, isStale and release (src/src/orchestrator/lock.ts) and *)
(* the independent remover of `kaizen fleet repair` (repairStaleRunLock in *)
(* src/src/commands/fleet.ts).                                             *)
(*                                                                         *)
(* The file is created with open(path, 'wx') and written by a second       *)
(* system call, so it exists for a while with no pid in it.  A process     *)
(* that finds the file reads it, probes the pid, and removes the file BY   *)
(* PATH when it judges it stale.  Each of these is a step of its own; a    *)
(* process may die before any of them.                                     *)
(*                                                                         *)
(* A process that starts again does so under a new pid (no pid is reused   *)
(* while a lock file that names it lasts): when p ends, every trace of its *)
(* pid becomes Gone.                                                       *)
(***************************************************************************)
EXTENDS Naturals

CONSTANTS
    Runner,      \* processes that acquire the lock: run, smoke, goal, guardian, doctor --repair, fleet refresh
    Repairer,    \* `kaizen fleet repair` processes
    NoFile,      \* owner when run.lock does not exist
    Gone,        \* a pid whose process has ended
    MaxCrashes   \* bound on the crashes of a behaviour

ASSUME LockAssumption ==
    /\ Runner \cap Repairer = {}
    /\ NoFile \notin Runner \cup Repairer
    /\ Gone \notin Runner \cup Repairer
    /\ NoFile # Gone
    /\ MaxCrashes \in Nat

VARIABLES
    owner,       \* the process that created run.lock, NoFile when there is none
    written,     \* its content is complete: JSON with the owner's pid
    pc,          \* where each process is
    seen,        \* the pid a process read from run.lock and is about to probe
    crashes      \* crashes so far

vars == <<owner, written, pc, seen, crashes>>

All == Runner \cup Repairer

\* Between the first look at run.lock and the outcome of acquire or repair.
Window == {"open", "write", "read", "probe", "remove"}

PC == Window \cup {"idle", "held", "exit"}

TypeOK == /\ owner \in Runner \cup {NoFile, Gone}
          /\ written \in BOOLEAN
          /\ pc \in [All -> PC]
          /\ seen \in [All -> All \cup {NoFile, Gone}]
          /\ crashes \in 0 .. MaxCrashes

Init == /\ owner = NoFile
        /\ written = FALSE
        /\ pc = [p \in All |-> "idle"]
        /\ seen = [p \in All |-> NoFile]
        /\ crashes = 0

Goto(p, l) == pc' = [pc EXCEPT ![p] = l]

\* rm(lockPath, { force: true }): whatever file is at the path now.
RemoveFile == owner' = NoFile /\ written' = FALSE

-----------------------------------------------------------------------------
(* RunLock.acquire *)

Begin(p) == /\ pc[p] = "idle"
            /\ Goto(p, IF p \in Runner THEN "open" ELSE "read")
            /\ UNCHANGED <<owner, written, seen, crashes>>

\* Mutant of OpenNew: open with flag 'w'.
OpenAny(p) == /\ pc[p] = "open"
              /\ owner' = p
              /\ written' = FALSE
              /\ Goto(p, "write")
              /\ UNCHANGED <<seen, crashes>>

\* open(lockPath, 'wx') creates the file, empty.
OpenNew(p) == /\ pc[p] = "open"
              /\ owner = NoFile
              /\ owner' = p
              /\ written' = FALSE
              /\ Goto(p, "write")
              /\ UNCHANGED <<seen, crashes>>

\* open fails with EEXIST.
OpenExisting(p) == /\ pc[p] = "open"
                   /\ owner # NoFile
                   /\ Goto(p, "read")
                   /\ UNCHANGED <<owner, written, seen, crashes>>

\* writeFile goes to the inode p opened; if another process has removed that
\* file from the directory meanwhile, run.lock does not change.
Write(p) == /\ pc[p] = "write"
            /\ written' = (owner = p \/ written)
            /\ Goto(p, "held")
            /\ UNCHANGED <<owner, seen, crashes>>

\* writeFile or close fails (a full disk): acquire throws, the file stays.
WriteFails(p) == /\ pc[p] = "write"
                 /\ Goto(p, "exit")
                 /\ UNCHANGED <<owner, written, seen, crashes>>

\* isStale and repairStaleRunLock: a file without a pid is stale.  A file that
\* vanished is stale for acquire, and nothing to do for repair.
Unreadable(p) == \/ owner = NoFile /\ p \in Runner
                 \/ owner # NoFile /\ ~written

ReadStale(p) == /\ pc[p] = "read"
                /\ Unreadable(p)
                /\ Goto(p, "remove")
                /\ UNCHANGED <<owner, written, seen, crashes>>

ReadAbsent(p) == /\ pc[p] = "read"
                 /\ owner = NoFile /\ p \in Repairer
                 /\ Goto(p, "exit")
                 /\ UNCHANGED <<owner, written, seen, crashes>>

ReadPid(p) == /\ pc[p] = "read"
              /\ owner # NoFile /\ written
              /\ seen' = [seen EXCEPT ![p] = owner]
              /\ Goto(p, "probe")
              /\ UNCHANGED <<owner, written, crashes>>

\* Mutants of Stale: the pid is not probed.
StaleWhateverThePid(p) == TRUE
NeverStale(p) == FALSE

\* process.kill(pid, 0)
Stale(p) == seen[p] = Gone

ProbeDead(p) == /\ pc[p] = "probe"
                /\ Stale(p)
                /\ seen' = [seen EXCEPT ![p] = NoFile]
                /\ Goto(p, "remove")
                /\ UNCHANGED <<owner, written, crashes>>

\* Mutant of ProbeAlive: the refused process releases what it does not hold.
ProbeAliveAndRelease(p) == /\ pc[p] = "probe"
                           /\ ~Stale(p)
                           /\ seen' = [seen EXCEPT ![p] = NoFile]
                           /\ RemoveFile
                           /\ Goto(p, "exit")
                           /\ UNCHANGED crashes

\* acquire throws "Kaizen run is already active", repair returns false.
ProbeAlive(p) == /\ pc[p] = "probe"
                 /\ ~Stale(p)
                 /\ seen' = [seen EXCEPT ![p] = NoFile]
                 /\ Goto(p, "exit")
                 /\ UNCHANGED <<owner, written, crashes>>

\* Mutant: the stale file stays.
RetryOnly(p) == /\ pc[p] = "remove"
                /\ Goto(p, IF p \in Runner THEN "open" ELSE "exit")
                /\ UNCHANGED <<owner, written, seen, crashes>>

Remove(p) == /\ pc[p] = "remove"
             /\ RemoveFile
             /\ Goto(p, IF p \in Runner THEN "open" ELSE "exit")
             /\ UNCHANGED <<seen, crashes>>

-----------------------------------------------------------------------------
(* The end of a process *)

Release(p) == /\ pc[p] = "held"
              /\ RemoveFile
              /\ Goto(p, "exit")
              /\ UNCHANGED <<seen, crashes>>

\* The pid of p names no process any more.
PidGone(p) == /\ pc' = [pc EXCEPT ![p] = "idle"]
              /\ owner' = IF owner = p THEN Gone ELSE owner
              /\ seen' = [q \in All |-> CASE q = p -> NoFile
                                          [] q # p /\ seen[q] = p -> Gone
                                          [] OTHER -> seen[q]]
              /\ UNCHANGED written

Exit(p) == pc[p] = "exit" /\ PidGone(p) /\ UNCHANGED crashes

Crash(p) == /\ pc[p] \notin {"idle", "exit"}
            /\ crashes < MaxCrashes
            /\ crashes' = crashes + 1
            /\ PidGone(p)

-----------------------------------------------------------------------------
Step(p) == \/ OpenNew(p) \/ OpenExisting(p) \/ Write(p) \/ WriteFails(p)
           \/ ReadStale(p) \/ ReadAbsent(p) \/ ReadPid(p)
           \/ ProbeDead(p) \/ ProbeAlive(p) \/ Remove(p)
           \/ Release(p) \/ Exit(p)

Next == \E p \in All : Begin(p) \/ Step(p) \/ Crash(p)

\* A process that has started runs on, and some process starts again and again:
\* a launchd or cron job re-runs kaizen for ever.
Fairness == /\ WF_vars(\E p \in All : Begin(p))
            /\ \A p \in All : WF_vars(Step(p))

Spec == Init /\ [][Next]_vars /\ Fairness

\* The environment under which the file is a lock: no process looks at
\* run.lock while another is between its first look and its outcome.
Looking(p) == pc[p] \in Window

Serial == \A p, q \in All : Looking(p) /\ Looking(q) => p = q

SerialNext == Next /\ Serial'

SerialFairness == /\ WF_vars((\E p \in All : Begin(p)) /\ Serial')
                  /\ \A p \in All : WF_vars(Step(p))

SerialSafety == Init /\ [][SerialNext]_vars

SerialSpec == SerialSafety /\ SerialFairness

-----------------------------------------------------------------------------
(* Properties *)

Running == {p \in Runner : pc[p] = "held"}

\* No two processes work on the project at once (docs/01-architecture.md: run.lock
\* prevents multiple runs of one project).
MutualExclusion == \A p, q \in Running : p = q

\* Who works under the lock is named by run.lock, so that a later process finds a
\* live pid there: the lock is never removed, nor replaced, under its holder.
HolderOwnsFile == \A p \in Running : owner = p /\ written

\* The lock of a crashed process is recovered: some later process takes the file
\* away (the stale steal of docs/04-nightly-pipeline.md).
DeadLockRecovered == owner = Gone ~> owner # Gone

\* acquire comes to an outcome, although it calls itself after each stale lock:
\* it holds the lock, or has been refused.
AcquireSettles == \A p \in Runner : pc[p] = "open" ~> pc[p] \in {"held", "exit", "idle"}

\* SerialSpec implements the abstract lock.
Abs == INSTANCE ExclusiveRuns WITH Proc <- Runner, running <- Running
ExclusiveRunsSpec == Abs!Spec
=============================================================================
