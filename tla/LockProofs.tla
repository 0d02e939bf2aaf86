----------------------------- MODULE LockProofs -----------------------------
(***************************************************************************)
(* The two locks of kaizen-loop and what is done under them, proved for    *)
(* any number of processes, projects, crashes and stalls: run.lock, which  *)
(* keeps two runs off one project (RunLock); the lock directory of         *)
(* registry.json, under which no update is lost while no lease has run     *)
(* out; and the order in which the commands that hold it edit the crontab  *)
(* and the registry, by which what is enabled is scheduled (Fleet).        *)
(*                                                                         *)
(* A project's run.lock and the registry have states of their own; each    *)
(* theorem is about one of the two.                                        *)
(***************************************************************************)
EXTENDS RunLock, Fleet, TLAPS, FiniteSetTheorems

-----------------------------------------------------------------------------
(* run.lock.  As long as no two processes look at the file at once         *)
(* (SerialSafety), a process removes the file only if it read a dead pid,  *)
(* or no pid.  No pid means that its creator died between open and write,  *)
(* or still is there, which Serial excludes.  After the reading nobody     *)
(* creates a file until the reader is done, so what it judged stale still  *)
(* is.                                                                     *)

\* What is known of the file from where the processes are.
Hold == \A p \in Runner : pc[p] = "held" => owner = p /\ written
Create == \A p \in All : pc[p] = "write" => p \in Runner /\ owner = p /\ ~written
Judge == \A p \in All :
           pc[p] = "remove" /\ owner \in Runner => pc[owner] = "exit"
Probe == \A p \in All : pc[p] = "probe" => owner \in {NoFile, seen[p]} /\ seen[p] # NoFile
Roles == \A p \in Repairer : pc[p] \notin {"open", "write", "held"}
\* An empty file is its creator's, at work, or a dead process's.
Empty == owner \in Runner /\ ~written => pc[owner] \in {"write", "exit"}

IInv == TypeOK /\ Serial /\ Hold /\ Create /\ Judge /\ Probe /\ Roles /\ Empty

-----------------------------------------------------------------------------
\* The invariant holds initially: every process is idle.
LEMMA InitIInv == Init => IInv
<1> SUFFICES ASSUME Init PROVE IInv
  OBVIOUS
<1> USE LockAssumption DEF LockAssumption, All, Init
<1>1. TypeOK
  <2>1. owner \in Runner \cup {NoFile, Gone} /\ written \in BOOLEAN
    OBVIOUS
  <2>2. pc \in [All -> PC]
    BY DEF PC
  <2>3. seen \in [All -> All \cup {NoFile, Gone}]
    OBVIOUS
  <2>4. crashes \in 0 .. MaxCrashes
    OBVIOUS
  <2> QED
    BY <2>1, <2>2, <2>3, <2>4 DEF TypeOK
<1>2. Serial
  BY DEF Serial, Looking, Window
<1>3. Hold /\ Create /\ Judge /\ Probe /\ Roles /\ Empty
  BY DEF Hold, Create, Judge, Probe, Roles, Empty
<1> QED
  BY <1>1, <1>2, <1>3 DEF IInv

\* Every step under which only one process looks at the file preserves it.
LEMMA StepIInv == IInv /\ [SerialNext]_vars => IInv'
<1> SUFFICES ASSUME IInv, [SerialNext]_vars PROVE IInv'
  OBVIOUS
<1> USE LockAssumption DEF LockAssumption, All, IInv, TypeOK, Serial, Looking, Window, PC,
            Hold, Create, Judge, Probe, Roles, Empty
<1>1. CASE UNCHANGED vars
  BY <1>1 DEF vars
<1>2. ASSUME NEW p \in All, Begin(p), Serial' PROVE IInv'
  BY <1>2 DEF Begin, Goto
<1>3. ASSUME NEW p \in All, OpenNew(p), Serial' PROVE IInv'
  BY <1>3 DEF OpenNew, Goto
<1>4. ASSUME NEW p \in All, OpenExisting(p), Serial' PROVE IInv'
  BY <1>4 DEF OpenExisting, Goto
<1>5. ASSUME NEW p \in All, Write(p), Serial' PROVE IInv'
  BY <1>5 DEF Write, Goto
<1>6. ASSUME NEW p \in All, WriteFails(p), Serial' PROVE IInv'
  BY <1>6 DEF WriteFails, Goto
<1>7. ASSUME NEW p \in All, ReadStale(p), Serial' PROVE IInv'
  BY <1>7 DEF ReadStale, Unreadable, Goto
<1>8. ASSUME NEW p \in All, ReadAbsent(p), Serial' PROVE IInv'
  BY <1>8 DEF ReadAbsent, Goto
<1>9. ASSUME NEW p \in All, ReadPid(p), Serial' PROVE IInv'
  BY <1>9 DEF ReadPid, Goto
<1>10. ASSUME NEW p \in All, ProbeDead(p), Serial' PROVE IInv'
  BY <1>10 DEF ProbeDead, Stale, Goto
<1>11. ASSUME NEW p \in All, ProbeAlive(p), Serial' PROVE IInv'
  BY <1>11 DEF ProbeAlive, Goto
<1>12. ASSUME NEW p \in All, Remove(p), Serial' PROVE IInv'
  BY <1>12 DEF Remove, RemoveFile, Goto
<1>13. ASSUME NEW p \in All, Release(p), Serial' PROVE IInv'
  BY <1>13 DEF Release, RemoveFile, Goto
<1>14. ASSUME NEW p \in All, Exit(p), Serial' PROVE IInv'
  BY <1>14 DEF Exit, PidGone
<1>15. ASSUME NEW p \in All, Crash(p), Serial' PROVE IInv'
  BY <1>15 DEF Crash, PidGone
<1> QED
  BY <1>1, <1>2, <1>3, <1>4, <1>5, <1>6, <1>7, <1>8, <1>9, <1>10, <1>11, <1>12,
     <1>13, <1>14, <1>15 DEF SerialNext, Next, Step

\* The processes' places and the file stay within their types, and a lock file
\* whose content is missing belongs to a process that is still at it.
THEOREM TypeCorrect == SerialSpec => []TypeOK
<1>1. SerialSafety => []IInv
  BY InitIInv, StepIInv, PTL DEF SerialSafety
<1>2. IInv => TypeOK
  BY DEF IInv
<1> QED
  BY <1>1, <1>2, PTL DEF SerialSpec

\* The holder's pid is in run.lock for as long as it works: neither a steal nor
\* a repair takes the lock of a live process.
THEOREM HolderSafe == SerialSpec => []HolderOwnsFile
<1>1. SerialSafety => []IInv
  BY InitIInv, StepIInv, PTL DEF SerialSafety
<1>2. IInv => HolderOwnsFile
  BY DEF IInv, Hold, HolderOwnsFile, Running
<1> QED
  BY <1>1, <1>2, PTL DEF SerialSpec

\* The file names one process, so one holds the lock.
LEMMA HoldExcludes == Hold => MutualExclusion
BY DEF Hold, MutualExclusion, Running

\* Two runs of one project never overlap.
THEOREM Exclusion == SerialSpec => []MutualExclusion
<1>1. SerialSafety => []IInv
  BY InitIInv, StepIInv, PTL DEF SerialSafety
<1>2. IInv => MutualExclusion
  BY HoldExcludes DEF IInv
<1> QED
  BY <1>1, <1>2, PTL DEF SerialSpec

-----------------------------------------------------------------------------
(* Refinement: the steps that change Running are a Write that ends an acquire, *)
(* a Release and the crash of a holder.                                        *)

\* Each step is one of the abstract lock, or changes nothing that it shows.
LEMMA StepRefines ==
    ASSUME IInv, IInv', [SerialNext]_vars
    PROVE  [Abs!Next]_Running
<1> USE LockAssumption DEF LockAssumption, All
<1>0. MutualExclusion /\ MutualExclusion'
  <2>1. Hold /\ Hold'
    BY DEF IInv
  <2> QED
    BY <2>1 DEF Hold, MutualExclusion, Running
<1>a. pc \in [Runner \cup Repairer -> PC]
  BY DEF IInv, TypeOK
<1>1. CASE UNCHANGED vars
  BY <1>1 DEF vars, Running
<1>2. ASSUME NEW p \in All, pc[p] # "held", \E l : l # "held" /\ Goto(p, l)
      PROVE  UNCHANGED Running
  BY <1>2, <1>a DEF Goto, Running
<1>3. ASSUME NEW p \in All, Write(p)
      PROVE  [Abs!Next]_Running
  <2>1. Create /\ Hold /\ Roles
    BY DEF IInv
  <2>2. p \in Runner /\ owner = p /\ ~written
    BY <1>3, <2>1 DEF Create, Write
  <2>3. Running = {}
    BY <2>1, <2>2 DEF Hold, Running
  <2>4. Running' = {p}
    BY <1>3, <2>2, <2>3, <1>a DEF Write, Goto, Running
  <2> QED
    BY <2>2, <2>3, <2>4 DEF Abs!Next, Abs!Enter
<1>4. ASSUME NEW p \in Runner, pc[p] = "held", \E l : l # "held" /\ pc' = [pc EXCEPT ![p] = l]
      PROVE  Abs!Next
  <2>1. Running = {p}
    BY <1>0, <1>4 DEF MutualExclusion, Running
  <2>2. Running' = {}
    BY <2>1, <1>4, <1>a DEF Running
  <2> QED
    BY <2>1, <2>2 DEF Abs!Next, Abs!Leave
<1>5. ASSUME NEW p \in All, Release(p) \/ Crash(p) \/ Exit(p)
      PROVE  [Abs!Next]_Running
  <2>1. CASE pc[p] = "held"
    <3>1. p \in Runner
      BY <2>1 DEF IInv, Roles
    <3>2. \E l : l # "held" /\ pc' = [pc EXCEPT ![p] = l]
      BY <1>5 DEF Release, Crash, Exit, PidGone, Goto
    <3> QED
      BY <3>1, <3>2, <2>1, <1>4
  <2>2. CASE pc[p] # "held"
    <3>1. \E l : l # "held" /\ Goto(p, l)
      BY <1>5, <2>2 DEF Release, Crash, Exit, PidGone, Goto
    <3> QED
      BY <3>1, <2>2, <1>2
  <2> QED
    BY <2>1, <2>2
<1>6. ASSUME NEW p \in All, Begin(p) \/ OpenNew(p) \/ OpenExisting(p) \/ WriteFails(p)
                             \/ ReadStale(p) \/ ReadAbsent(p) \/ ReadPid(p)
                             \/ ProbeDead(p) \/ ProbeAlive(p) \/ Remove(p)
      PROVE  UNCHANGED Running
  <2>1. pc[p] # "held"
    BY <1>6 DEF Begin, OpenNew, OpenExisting, WriteFails, ReadStale, ReadAbsent,
                ReadPid, ProbeDead, ProbeAlive, Remove
  <2>2. \E l : l # "held" /\ Goto(p, l)
    BY <1>6 DEF Begin, OpenNew, OpenExisting, WriteFails, ReadStale, ReadAbsent,
                ReadPid, ProbeDead, ProbeAlive, Remove
  <2> QED
    BY <2>1, <2>2, <1>2
<1> QED
  BY <1>1, <1>3, <1>5, <1>6 DEF SerialNext, Next, Step

\* run.lock implements the abstract lock for any number of processes and repairs:
\* from the outside, one process enters at a time, and leaves before the next.
THEOREM Implements == SerialSpec => ExclusiveRunsSpec
<1>1. Init => Abs!Init
  BY DEF Init, Abs!Init, Running, All
<1>2. SerialSafety => []IInv
  BY InitIInv, StepIInv, PTL DEF SerialSafety
<1>3. IInv /\ IInv' /\ [SerialNext]_vars => [Abs!Next]_Running
  BY StepRefines
<1> QED
  BY <1>1, <1>2, <1>3, PTL DEF SerialSpec, SerialSafety, ExclusiveRunsSpec, Abs!Spec

-----------------------------------------------------------------------------
(* registry.json.lock.  While no lease has run out, a process between      *)
(* mkdir and rm is the maker of the directory at the path, so there is one *)
(* of them and nobody finds its lock stale.  What was found stale stays    *)
(* so, and the one whose .reaper is in it removes that directory and no    *)
(* other: each removal makes the others look again.                        *)

Taking == {"reap", "verify", "remove"}

\* Who is inside has made the directory, and is its owner once it has written so.
InsideOwns == \A p \in Proc :
  Inside(p) => /\ dir.made /\ dir.maker = p /\ dir.owner \in {NoProc, p}
               /\ txn[p].pc # "own" => dir.owner = p

\* The directory a process has found stale, if it is still there, is stale.
SeenIsStale == \A p \in Proc : p \notin dead /\ txn[p].pc \in Taking /\ txn[p].seen => dir.made /\ LockStale

\* It announces itself in it before it compares and removes.
ReaperNamed == \A p \in Proc :
  p \notin dead /\ txn[p].pc \in {"verify", "remove"} /\ txn[p].seen => dir.reaper = p

\* What is removed is what was found.
RemovesSeen == \A p \in Proc : At(p, "remove") => txn[p].seen

\* The copy in memory is what the file says.
CopyCurrent == \A p \in Proc : At(p, "write") => txn[p].copy = registry

Locked == late = {} /\ InsideOwns /\ SeenIsStale /\ ReaperNamed /\ RemovesSeen /\ CopyCurrent

Leased == stalls = 0 => Locked

FleetTyped == FleetTypeOK /\ IsFiniteSet(dead)

(* The crontab.  A command reads it, writes it and only then changes the   *)
(* registry, in a transaction of its own; while such commands do not       *)
(* overlap, what one has read is what there is.  What it is about to       *)
(* enable has its lines; what it is about to disable may have lost them.   *)

\* A transaction under way is that of its process's command.
Transacts == \A p \in Proc :
  txn[p].pc # "none" => /\ cmd[p].pc = "committing"
                        /\ txn[p].pc # "release" => txn[p].update = UpdateOf(cmd[p])

\* The commands, as far as they have come.
Shape(c) ==
  /\ c.pc \in {"tabread", "tabwrite"} => c.kind \in {"enable", "disable"} \/ (c.kind = "fleet" /\ c.staged)
  /\ c.pc \notin {"new", "end"} => c.kind \in CmdKinds
  /\ c.staged => c.schedule
  /\ c.kind = "disable" => c.now \subseteq c.targets
  /\ c.kind = "disable" /\ c.pc \in {"tabread", "tabwrite"} => c.left \subseteq c.targets
  /\ c.kind = "enable" /\ c.pc = "tabread" => c.left = c.targets /\ \A s, t \in c.targets : s = t
  /\ c.kind = "enable" /\ c.pc = "tabwrite" => c.targets \subseteq c.now
Shapes == \A p \in Proc : Shape(cmd[p])

\* One command at a time edits the crontab, and writes what it has read there.
Edits(p) == Working(p) /\ EditsTab(cmd[p])
Solo == \A p, q \in Proc : Edits(p) /\ Edits(q) => p = q
SeenTab == \A p \in Proc : CmdAt(p, "tabwrite") => cmd[p].tab = tab

\* The projects that the update of a command may enable have their lines.
Enables(c) == CASE c.kind = "enable" -> c.targets
                [] c.kind = "fleet" /\ c.staged -> c.now
                [] c.kind = "fleet" /\ ~c.staged /\ c.schedule -> {s \in Slug : c.baseline[s] = "on"}
                [] OTHER -> {}
Provided == \A p \in Proc :
  p \notin dead /\ cmd[p].pc \in {"commit", "committing"} => Enables(cmd[p]) \subseteq tab

\* A disable that has still to write the registry is about to clear the flag.
Clears(p, s) == /\ p \notin dead /\ cmd[p].kind = "disable" /\ s \in cmd[p].targets
                /\ \/ cmd[p].pc \in {"tabread", "tabwrite", "commit"}
                   \/ cmd[p].pc = "committing" /\ txn[p].pc \notin {"none", "release"}
Scheduled == \A s \in Slug : registry[s] = "on" => s \in tab \/ \E p \in Proc : Clears(p, s)

Orderly == ~mixed => stalls = 0 /\ Solo /\ SeenTab /\ Provided /\ Scheduled

FleetInv == FleetTyped /\ Leased /\ Transacts /\ Shapes /\ Orderly

-----------------------------------------------------------------------------
(* Types. *)

\* The updates, transactions and commands that the actions make are of their types.
LEMMA NothingTyped == Nothing \in Updates
BY DEF Nothing, Updates, Entry

LEMMA IdleTyped == Idle \in Transactions
BY NothingTyped DEF Idle, Transactions, Phases, Entry

LEMMA NewCmdTyped == NewCmd \in Commands
BY DEF NewCmd, Commands, CmdPhases, Entry

LEMMA SetsTyped ==
    ASSUME NEW targets, NEW value \in Entry
    PROVE  Sets(targets, value) \in [Slug -> Entry \cup {"keep"}]
BY DEF Sets

LEMMA UpdateTyped ==
    ASSUME NEW c \in Commands
    PROVE  UpdateOf(c) \in Updates
<1>1. /\ c.targets \subseteq Slug /\ c.now \subseteq Slug /\ c.prune \in BOOLEAN
      /\ c.baseline \in [Slug -> Entry]
  BY DEF Commands
<1>2. /\ Sets(c.targets, "off") \in [Slug -> Entry \cup {"keep"}]
      /\ Sets(c.targets, "on") \in [Slug -> Entry \cup {"keep"}]
      /\ Sets(c.now, "on") \in [Slug -> Entry \cup {"keep"}]
  BY SetsTyped DEF Entry
<1>3. [s \in Slug |-> IF s \in c.targets THEN FlagOf(c, s)
                      ELSE IF c.prune THEN "absent" ELSE "keep"] \in [Slug -> Entry \cup {"keep"}]
  BY DEF FlagOf, Entry
<1>4. /\ [Nothing EXCEPT !.to = Sets(c.targets, "off"), !.create = TRUE] \in Updates
      /\ [Nothing EXCEPT !.to = Sets(c.targets, "on"), !.require = c.targets] \in Updates
      /\ [Nothing EXCEPT !.to = Sets(c.targets, "off")] \in Updates
      /\ [Nothing EXCEPT !.to = Sets(c.now, "on")] \in Updates
  BY <1>1, <1>2, NothingTyped DEF Updates
<1> QED
  BY <1>1, <1>3, <1>4 DEF UpdateOf, Updates

LEMMA ApplyTyped ==
    ASSUME NEW reg \in [Slug -> Entry], NEW u \in Updates
    PROVE  Apply(reg, u) \in [Slug -> Entry]
BY DEF Apply, Updates

-----------------------------------------------------------------------------
\* Whatever a step of a transaction does, the registry and its lock keep their types.
LEMMA StepTyped ==
    ASSUME RegistryTypeOK, NEW p \in Proc, TransactionStep(p)
    PROVE  RegistryTypeOK' /\ dead' = dead
<1> USE RegistryAssumption DEF RegistryTypeOK
<1>n. NoDir \in Dirs
  BY DEF NoDir, Dirs
<1>a. ASSUME NEW l \in Phases, To(p, l) PROVE txn' \in [Proc -> Transactions]
  BY <1>a DEF To, Transactions
<1>1. CASE Mkdir(p)
  <2>1. dir' \in Dirs
    BY <1>1 DEF Mkdir, NoDir, Dirs
  <2> QED
    BY <1>1, <1>a, <2>1 DEF Mkdir, Phases
<1>2. CASE Contend(p)
  <2>1. txn' \in [Proc -> Transactions]
    BY <1>2 DEF Contend, Transactions, Phases
  <2> QED
    BY <1>2, <2>1 DEF Contend
<1>3. CASE Own(p)
  <2>1. [Idle EXCEPT !.failed = TRUE] \in Transactions
    BY IdleTyped DEF Transactions
  <2>2. txn' \in [Proc -> Transactions]
    <3>1. CASE dir.made
      BY <1>3, <3>1 DEF Own, Transactions, Phases
    <3>2. CASE ~dir.made
      BY <1>3, <2>1, <3>2 DEF Own
    <3> QED
      BY <3>1, <3>2
  <2>3. dir' \in Dirs
    BY <1>3 DEF Own, Dirs
  <2> QED
    BY <1>3, <2>2, <2>3 DEF Own
<1>4. CASE Reap(p)
  <2>1. dir' \in Dirs
    BY <1>4 DEF Reap, Dirs
  <2> QED
    BY <1>4, <1>a, <2>1 DEF Reap, Phases
<1>5. CASE Verify(p)
  BY <1>5, <1>a DEF Verify, Phases
<1>6. CASE RemoveStale(p)
  <2>1. txn' \in [Proc -> Transactions]
    BY <1>6 DEF RemoveStale, Transactions, Phases
  <2> QED
    BY <1>6, <1>n, <2>1 DEF RemoveStale
<1>7. CASE WriteRegistry(p)
  <2> DEFINE ok == Allowed(txn[p].copy, txn[p].update)
  <2>1. ok \in BOOLEAN
    BY DEF Allowed
  <2>2. registry' \in [Slug -> Entry]
    BY <1>7, ApplyTyped DEF WriteRegistry, Transactions
  <2>3. [Idle EXCEPT !.pc = "release", !.failed = ~ok] \in Transactions
    <3> HIDE DEF ok
    <3> QED
      BY IdleTyped, <2>1 DEF Transactions, Phases
  <2>4. txn' \in [Proc -> Transactions]
    BY <1>7, <2>3 DEF WriteRegistry
  <2> QED
    BY <1>7, <2>2, <2>4 DEF WriteRegistry
<1>8. CASE Unlock(p)
  <2>1. [Idle EXCEPT !.failed = txn[p].failed] \in Transactions
    BY IdleTyped DEF Transactions
  <2>2. txn' \in [Proc -> Transactions]
    BY <1>8, <2>1 DEF Unlock, Transactions
  <2> QED
    BY <1>8, <1>n, <2>2 DEF Unlock
<1> QED
  BY <1>1, <1>2, <1>3, <1>4, <1>5, <1>6, <1>7, <1>8 DEF TransactionStep

LEMMA CommandTyped ==
    ASSUME NEW c \in Commands
    PROVE  /\ AfterProject(c) \in Commands
           /\ Ended \in Commands
           /\ \A S \in SUBSET Slug : AfterProject([c EXCEPT !.left = S]) \in Commands
BY NewCmdTyped DEF AfterProject, Ended, Commands, CmdPhases, CmdKinds

\* The commands that can be started, and how each begins.
LEMMA StartGives ==
    ASSUME FleetTyped, NEW p \in Proc, Start(p)
    PROVE  \E c \in Commands :
             /\ Given(p, c)
             /\ c.pc \in {"commit", "tabread"} /\ ~c.staged
             /\ c.pc = "commit" => \/ c.kind \in {"init", "disable"}
                                   \/ c.kind = "fleet" /\ c.baseline = registry
             /\ Shape(c)
<1>1. CASE StartInit(p)
  <2>1. PICK s \in Slug : Given(p, [NewCmd EXCEPT !.kind = "init", !.pc = "commit", !.targets = {s}])
    BY <1>1 DEF StartInit
  <2> DEFINE c == [NewCmd EXCEPT !.kind = "init", !.pc = "commit", !.targets = {s}]
  <2>2. /\ c \in Commands /\ c.pc = "commit" /\ ~c.staged /\ c.kind = "init"
    BY NewCmdTyped DEF Commands, CmdPhases, CmdKinds, NewCmd
  <2>3. Shape(c)
    BY DEF Shape, NewCmd, CmdKinds
  <2>4. Given(p, c)
    BY <2>1
  <2> HIDE DEF c
  <2> QED
    BY <2>2, <2>3, <2>4
<1>2. CASE StartEnable(p)
  <2>1. PICK s \in Slug : Given(p, [NewCmd EXCEPT !.kind = "enable", !.pc = "tabread",
                                                  !.targets = {s}, !.left = {s}])
    BY <1>2 DEF StartEnable, Registered
  <2> DEFINE c == [NewCmd EXCEPT !.kind = "enable", !.pc = "tabread", !.targets = {s}, !.left = {s}]
  <2>2. /\ c \in Commands /\ c.pc = "tabread" /\ ~c.staged
    BY NewCmdTyped DEF Commands, CmdPhases, CmdKinds, NewCmd
  <2>3. Shape(c)
    BY DEF Shape, NewCmd, CmdKinds
  <2>4. Given(p, c)
    BY <2>1
  <2> HIDE DEF c
  <2> QED
    BY <2>2, <2>3, <2>4
<1>3. CASE StartDisable(p)
  <2>1. PICK S \in SUBSET Slug :
          Given(p, [NewCmd EXCEPT !.kind = "disable", !.pc = IF S = {} THEN "commit" ELSE "tabread",
                                  !.targets = S, !.left = S])
    BY <1>3 DEF StartDisable, Registered
  <2> DEFINE c == [NewCmd EXCEPT !.kind = "disable", !.pc = IF S = {} THEN "commit" ELSE "tabread",
                                 !.targets = S, !.left = S]
  <2>2. /\ c \in Commands /\ c.pc \in {"commit", "tabread"} /\ ~c.staged /\ c.kind = "disable"
    BY NewCmdTyped DEF Commands, CmdPhases, CmdKinds, NewCmd
  <2>3. Shape(c)
    BY DEF Shape, NewCmd, CmdKinds
  <2>4. Given(p, c)
    BY <2>1
  <2> HIDE DEF c
  <2> QED
    BY <2>2, <2>3, <2>4
<1>4. CASE StartFleet(p)
  <2>1. PICK sync \in Syncs :
          Given(p, [NewCmd EXCEPT !.kind = "fleet", !.pc = "commit", !.targets = sync.found,
                                  !.left = sync.found, !.prune = sync.prune,
                                  !.schedule = sync.schedule, !.baseline = registry])
    BY <1>4 DEF StartFleet
  <2> DEFINE c == [NewCmd EXCEPT !.kind = "fleet", !.pc = "commit", !.targets = sync.found,
                                 !.left = sync.found, !.prune = sync.prune,
                                 !.schedule = sync.schedule, !.baseline = registry]
  <2>2. sync.found \in SUBSET Slug /\ sync.prune \in BOOLEAN /\ sync.schedule \in BOOLEAN
    BY FleetAssumption DEF FleetAssumption
  <2>3. registry \in [Slug -> Entry]
    BY DEF FleetTyped, FleetTypeOK, RegistryTypeOK
  <2>4. /\ c \in Commands /\ c.pc = "commit" /\ ~c.staged /\ c.kind = "fleet" /\ c.baseline = registry
    BY <2>2, <2>3, NewCmdTyped DEF Commands, CmdPhases, CmdKinds, NewCmd
  <2>5. Shape(c)
    BY DEF Shape, NewCmd, CmdKinds
  <2>6. Given(p, c)
    BY <2>1
  <2> HIDE DEF c
  <2> QED
    BY <2>4, <2>5, <2>6
<1> QED
  BY <1>1, <1>2, <1>3, <1>4 DEF Start

\* Every step keeps the types.
LEMMA NextTyped == FleetTyped /\ [FleetNext]_fleetVars => FleetTyped'
<1> SUFFICES ASSUME FleetTyped, [FleetNext]_fleetVars PROVE FleetTyped'
  OBVIOUS
<1> USE RegistryAssumption, FleetAssumption DEF FleetTyped, FleetTypeOK
<1>0. CASE UNCHANGED fleetVars
  BY <1>0 DEF fleetVars, RegistryTypeOK
<1>t. Trouble => Cardinality(dead) \in Nat /\ faults + 1 \in 0 .. MaxTroubles
  <2>1. Cardinality(dead) \in Nat
    BY FS_CardinalityType
  <2> QED
    BY <2>1 DEF Trouble, RegistryTypeOK
<1>s. ASSUME NEW p \in Proc, Start(p) PROVE FleetTyped'
  <2>1. PICK c \in Commands : Given(p, c)
    BY <1>s, StartGives
  <2> QED
    BY <2>1 DEF Given, RegistryTypeOK, registryVars
<1>1. ASSUME NEW p \in Proc, Commit(p) PROVE FleetTyped'
  <2>1. UpdateOf(cmd[p]) \in Updates
    BY UpdateTyped
  <2>2. [Idle EXCEPT !.pc = "mkdir", !.update = UpdateOf(cmd[p])] \in Transactions
    BY <2>1, IdleTyped DEF Transactions, Phases
  <2>3. txn' \in [Proc -> Transactions]
    BY <1>1, <2>2 DEF Commit, Open, RegistryTypeOK
  <2>4. cmd' \in [Proc -> Commands]
    <3>1. [cmd[p] EXCEPT !.pc = "committing"] \in Commands
      BY DEF Commands, CmdPhases
    <3> QED
      BY <1>1, <3>1 DEF Commit
  <2> QED
    BY <1>1, <2>3, <2>4 DEF Commit, Open, RegistryTypeOK
<1>2. ASSUME NEW p \in Proc, Committed(p) PROVE FleetTyped'
  <2>1. cmd' \in [Proc -> Commands]
    BY <1>2, CommandTyped DEF Committed
  <2> QED
    BY <1>2, <2>1 DEF Committed, registryVars, RegistryTypeOK
<1>3. ASSUME NEW p \in Proc, TabRead(p) PROVE FleetTyped'
  <2>1. PICK s \in cmd[p].left, fails \in BOOLEAN :
       /\ fails => Trouble
       /\ cmd' = [cmd EXCEPT ![p].now = {s}, ![p].left = @ \ {s}, ![p].pc = "tabwrite",
                             ![p].tab = IF fails THEN {} ELSE tab]
       /\ faults' = IF fails THEN faults + 1 ELSE faults
       /\ mixed' = (mixed \/ fails)
    BY <1>3 DEF TabRead
  <2>2. cmd' \in [Proc -> Commands]
    BY <2>1 DEF Commands, CmdPhases
  <2> QED
    BY <1>3, <1>t, <2>1, <2>2 DEF TabRead, registryVars, RegistryTypeOK
<1>4. ASSUME NEW p \in Proc, TabRefused(p) PROVE FleetTyped'
  <2>1. PICK s \in cmd[p].left : cmd' = [cmd EXCEPT ![p] = AfterProject([cmd[p] EXCEPT !.left = @ \ {s}])]
    BY <1>4 DEF TabRefused
  <2>2. AfterProject([cmd[p] EXCEPT !.left = cmd[p].left \ {s}]) \in Commands
    <3>1. cmd[p].left \ {s} \in SUBSET Slug
      BY DEF Commands
    <3> QED
      BY <3>1, CommandTyped
  <2>3. cmd' \in [Proc -> Commands]
    BY <2>1, <2>2
  <2> QED
    BY <1>4, <2>3 DEF TabRefused, registryVars, RegistryTypeOK
<1>5. ASSUME NEW p \in Proc, TabWrite(p) PROVE FleetTyped'
  <2>1. cmd' \in [Proc -> Commands]
    <3>1. \A l \in CmdPhases : [cmd[p] EXCEPT !.pc = l, !.tab = {}] \in Commands
      BY DEF Commands
    <3> QED
      BY <1>5, <3>1 DEF TabWrite, CmdPhases
  <2>2. tab' \subseteq Slug
    BY <1>5 DEF TabWrite, Commands
  <2> QED
    BY <1>5, <2>1, <2>2 DEF TabWrite, registryVars, RegistryTypeOK
<1>6. ASSUME NEW p \in Proc, TabWriteFails(p) PROVE FleetTyped'
  <2>1. cmd' \in [Proc -> Commands]
    BY <1>6, CommandTyped DEF TabWriteFails
  <2> QED
    BY <1>6, <1>t, <2>1 DEF TabWriteFails, registryVars, RegistryTypeOK
<1>7. ASSUME NEW p \in Proc, Transact(p) PROVE FleetTyped'
  BY <1>7, StepTyped DEF Transact, commandVars
<1>8. ASSUME NEW p \in Proc, Beat(p) PROVE FleetTyped'
  BY <1>8 DEF Beat, Heartbeat, commandVars, RegistryTypeOK, Dirs
<1>9. ASSUME NEW p \in Proc, TimesOut(p) PROVE FleetTyped'
  <2>1. [Idle EXCEPT !.failed = TRUE] \in Transactions
    BY IdleTyped DEF Transactions
  <2> QED
    BY <1>9, <2>1 DEF TimesOut, GiveUp, RegistryTypeOK
<1>10. ASSUME NEW p \in Proc, Dies(p) PROVE FleetTyped'
  <2>1. IsFiniteSet(dead')
    BY <1>10, FS_AddElement DEF Dies, Death
  <2>2. txn' \in [Proc -> Transactions] /\ cmd' \in [Proc -> Commands]
    BY <1>10, IdleTyped, CommandTyped DEF Dies, Death, RegistryTypeOK
  <2> QED
    BY <1>10, <2>1, <2>2 DEF Dies, Death, RegistryTypeOK
<1>11. ASSUME NEW p \in Proc, Pauses(p) PROVE FleetTyped'
  BY <1>11 DEF Pauses, Stall, RegistryTypeOK
<1> QED
  BY <1>0, <1>s, <1>1, <1>2, <1>3, <1>4, <1>5, <1>6, <1>7, <1>8, <1>9, <1>10, <1>11 DEF FleetNext, Work

-----------------------------------------------------------------------------
(* The lock of the registry. *)

\* The path was free, so nobody was inside and nobody has seen this directory.
LEMMA MkdirLocked ==
    ASSUME RegistryTypeOK, Locked, NEW p \in Proc, Mkdir(p)
    PROVE  Locked'
<1> USE RegistryAssumption DEF RegistryTypeOK, Mkdir, To, At, Phases, Transactions
<1>1. \A q \in Proc : ~Inside(q)
  BY DEF Locked, InsideOwns
<1>2. \A q \in Proc : q \notin dead /\ txn[q].pc \in Taking => ~txn[q].seen
  BY DEF Locked, SeenIsStale
<1>3. InsideOwns'
  BY <1>1 DEF InsideOwns, Inside, NoDir
<1>4. SeenIsStale' /\ ReaperNamed' /\ RemovesSeen'
  BY <1>2 DEF SeenIsStale, ReaperNamed, RemovesSeen, Taking, Locked
<1>5. CopyCurrent'
  BY DEF Locked, CopyCurrent
<1> QED
  BY <1>3, <1>4, <1>5 DEF Locked

\* What is found is stale.
LEMMA ContendLocked ==
    ASSUME RegistryTypeOK, Locked, NEW p \in Proc, Contend(p)
    PROVE  Locked'
BY DEF RegistryTypeOK, Contend, At, Phases, Transactions, Locked, InsideOwns, Inside, SeenIsStale, LockStale, Lapsed,
       ReaperNamed, RemovesSeen, CopyCurrent, Taking

\* A process that works on the registry keeps the others from taking its lock for a dead one's.
LEMMA InsideIsFresh ==
    ASSUME Locked, NEW p \in Proc, Inside(p)
    PROVE  /\ dir.made /\ ~LockStale
           /\ \A q \in Proc : Inside(q) => q = p
           /\ \A q \in Proc : q \notin dead /\ txn[q].pc \in Taking => ~txn[q].seen
BY RegistryAssumption DEF RegistryAssumption, Locked, InsideOwns, SeenIsStale, LockStale, Lapsed, Inside

\* The directory is still there: nobody has found it stale.
LEMMA OwnLocked ==
    ASSUME RegistryTypeOK, Locked, NEW p \in Proc, Own(p)
    PROVE  Locked'
<1> USE RegistryAssumption DEF RegistryTypeOK, Own, At, Phases, Transactions
<1>1. Inside(p)
  BY DEF Inside
<1>2. dir.made
  BY <1>1, InsideIsFresh
<1>3. InsideOwns'
  BY <1>1, <1>2, InsideIsFresh DEF InsideOwns, Inside, Locked, Dirs
<1>a. /\ \A q \in Proc \ {p} : txn'[q] = txn[q]
      /\ txn'[p].pc = "write" /\ dead' = dead
  BY <1>2
<1>4. SeenIsStale' /\ ReaperNamed' /\ RemovesSeen'
  BY <1>1, <1>a, InsideIsFresh DEF SeenIsStale, ReaperNamed, RemovesSeen, Taking, Locked
<1>5. CopyCurrent'
  BY <1>2 DEF Locked, CopyCurrent
<1> QED
  BY <1>3, <1>4, <1>5 DEF Locked

\* A .reaper is taken away only from one that will not remove.
LEMMA ReapLocked ==
    ASSUME RegistryTypeOK, Locked, NEW p \in Proc, Reap(p)
    PROVE  Locked'
<1> USE RegistryAssumption DEF RegistryTypeOK, Reap, To, At, Phases, Transactions
<1>1. dir' \in Dirs /\ dir'.made = dir.made /\ dir'.maker = dir.maker /\ dir'.owner = dir.owner
  BY DEF Dirs
<1>2. LockStale' = LockStale
  BY <1>1 DEF LockStale, Lapsed
<1>3. InsideOwns'
  BY <1>1 DEF InsideOwns, Inside, Locked
<1>4. SeenIsStale'
  BY <1>1, <1>2 DEF SeenIsStale, Taking, Locked
<1>5. RemovesSeen' /\ CopyCurrent'
  <2>1. \E l \in {"verify", "mkdir"} : txn' = [txn EXCEPT ![p].pc = l]
    OBVIOUS
  <2> QED
    BY <2>1 DEF Locked, RemovesSeen, CopyCurrent
<1>6. ReaperNamed'
  <2>1. CASE dir.made /\ dir.reaper = NoProc
    BY <2>1 DEF ReaperNamed, Locked, Dirs
  <2>2. CASE ~(dir.made /\ dir.reaper = NoProc)
    BY <2>2 DEF ReaperNamed, Locked, Dirs, Reaping, Lapsed, SeenIsStale, Taking
  <2> QED
    BY <2>1, <2>2
<1> QED
  BY <1>3, <1>4, <1>5, <1>6 DEF Locked

\* Only the directory that was seen is removed.
LEMMA VerifyLocked ==
    ASSUME RegistryTypeOK, Locked, NEW p \in Proc, Verify(p)
    PROVE  Locked'
BY DEF RegistryTypeOK, Verify, SameDir, To, At, Phases, Transactions, Locked, InsideOwns, Inside, SeenIsStale,
       LockStale, Lapsed, ReaperNamed, RemovesSeen, CopyCurrent, Taking

\* It is stale, so nobody is inside; the others that saw it have to look again.
LEMMA RemoveLocked ==
    ASSUME RegistryTypeOK, Locked, NEW p \in Proc, RemoveStale(p)
    PROVE  Locked'
<1> USE RegistryAssumption DEF RegistryTypeOK, RemoveStale, At, Phases, Transactions
<1>1. txn[p].seen /\ dir.made /\ LockStale
  BY DEF Locked, RemovesSeen, SeenIsStale, Taking
<1>2. \A q \in Proc : ~Inside(q)
  BY <1>1, InsideIsFresh
<1>3. \A q \in Proc : At(q, "remove") => q = p
  BY <1>1 DEF Locked, RemovesSeen, ReaperNamed
<1>4. InsideOwns'
  BY <1>2 DEF InsideOwns, Inside
<1>5. SeenIsStale' /\ ReaperNamed'
  BY DEF SeenIsStale, ReaperNamed, Taking, Locked
<1>6. RemovesSeen'
  BY <1>3 DEF RemovesSeen
<1>7. CopyCurrent' /\ late' = {}
  BY DEF Locked, CopyCurrent
<1> QED
  BY <1>4, <1>5, <1>6, <1>7 DEF Locked

\* The registry changes, and no other process holds a copy of it.
LEMMA WriteLocked ==
    ASSUME RegistryTypeOK, Locked, NEW p \in Proc, WriteRegistry(p)
    PROVE  Locked'
<1> USE RegistryAssumption DEF RegistryTypeOK, At, Phases, Transactions
<1>1. Inside(p)
  BY DEF Inside, WriteRegistry
<1>2. PICK f \in BOOLEAN : txn' = [txn EXCEPT ![p] = [Idle EXCEPT !.pc = "release", !.failed = f]]
  BY DEF WriteRegistry, Allowed
<1>3. /\ \A q \in Proc \ {p} : txn'[q] = txn[q]
      /\ txn'[p].pc = "release" /\ ~txn'[p].seen
  BY <1>2 DEF Idle
<1>4. UNCHANGED <<dir, dead, late, stalls>>
  BY DEF WriteRegistry
<1>5. InsideOwns'
  BY <1>1, <1>3, <1>4 DEF WriteRegistry, InsideOwns, Inside, Locked
<1>6. SeenIsStale' /\ ReaperNamed' /\ RemovesSeen'
  BY <1>3, <1>4 DEF SeenIsStale, ReaperNamed, RemovesSeen, Taking, Locked, LockStale, Lapsed
<1>7. CopyCurrent'
  BY <1>1, <1>3, <1>4, InsideIsFresh DEF CopyCurrent, Inside
<1> QED
  BY <1>4, <1>5, <1>6, <1>7 DEF Locked

\* The owner removes its own directory.
LEMMA ReleaseLocked ==
    ASSUME RegistryTypeOK, Locked, NEW p \in Proc, Unlock(p)
    PROVE  Locked'
<1> USE RegistryAssumption DEF RegistryTypeOK, Unlock, At, Phases, Transactions
<1>1. Inside(p)
  BY DEF Inside
<1>2. \A q \in Proc \ {p} : ~Inside(q) /\ ~At(q, "remove")
  BY <1>1, InsideIsFresh DEF Locked, RemovesSeen, Taking
<1>3. /\ \A q \in Proc \ {p} : txn'[q].pc = txn[q].pc /\ ~txn'[q].seen
      /\ txn'[p].pc = "none"
  BY DEF Idle
<1>4. InsideOwns' /\ CopyCurrent'
  BY <1>2, <1>3 DEF InsideOwns, Inside, CopyCurrent
<1>5. SeenIsStale' /\ ReaperNamed' /\ RemovesSeen'
  BY <1>2, <1>3 DEF SeenIsStale, ReaperNamed, RemovesSeen, Taking
<1>6. late' = {}
  BY DEF Locked
<1> QED
  BY <1>4, <1>5, <1>6 DEF Locked

\* Whatever a step of a transaction does, the lock keeps one process inside.
LEMMA StepLocked ==
    ASSUME RegistryTypeOK, Locked, NEW p \in Proc, TransactionStep(p)
    PROVE  Locked'
BY MkdirLocked, ContendLocked, OwnLocked, ReapLocked, VerifyLocked, RemoveLocked, WriteLocked,
   ReleaseLocked DEF TransactionStep

\* A transaction that begins, and one that gives up, hold no lock.
LEMMA OutsideLocked ==
    ASSUME RegistryTypeOK, Locked, NEW p \in Proc,
           GiveUp(p) \/ \E u \in Updates : Open(p, u)
    PROVE  Locked'
<1> USE DEF RegistryTypeOK, Transactions, Phases
<1>1. PICK t \in Transactions : t.pc \in {"none", "mkdir"} /\ txn' = [txn EXCEPT ![p] = t]
  <2>1. CASE GiveUp(p)
    <3> DEFINE t == [Idle EXCEPT !.failed = TRUE]
    <3>1. t \in Transactions /\ t.pc = "none"
      BY IdleTyped DEF Idle
    <3>2. txn' = [txn EXCEPT ![p] = t]
      BY <2>1 DEF GiveUp
    <3> HIDE DEF t
    <3> QED
      BY <3>1, <3>2
  <2>2. CASE \E u \in Updates : Open(p, u)
    <3>0. PICK u \in Updates : Open(p, u)
      BY <2>2
    <3> DEFINE t == [Idle EXCEPT !.pc = "mkdir", !.update = u]
    <3>1. t \in Transactions /\ t.pc = "mkdir"
      BY IdleTyped DEF Idle
    <3>2. txn' = [txn EXCEPT ![p] = t]
      BY <3>0 DEF Open
    <3> HIDE DEF t
    <3> QED
      BY <3>1, <3>2
  <2> QED
    BY <2>1, <2>2
<1>2. UNCHANGED <<registry, dir, dead, late, stalls>>
  BY DEF GiveUp, Open
<1> QED
  BY <1>1, <1>2 DEF Locked, InsideOwns, Inside, SeenIsStale, LockStale, Lapsed, ReaperNamed, RemovesSeen, CopyCurrent,
     Taking, At

\* A crash makes a lock stale, and none of the stale ones fresh.
LEMMA CrashLocked ==
    ASSUME RegistryTypeOK, Locked, NEW p \in Proc, Death(p)
    PROVE  Locked'
BY DEF RegistryTypeOK, Death, Transactions, Phases, Locked, InsideOwns, Inside, SeenIsStale, LockStale, Lapsed,
       ReaperNamed, RemovesSeen, CopyCurrent,
     Taking, At

\* What a command does beside the registry leaves the lock alone.
LEMMA UnchangedLocked == Locked /\ UNCHANGED registryVars => Locked'
BY DEF Locked, registryVars, InsideOwns, Inside, SeenIsStale, LockStale, Lapsed, ReaperNamed, RemovesSeen, CopyCurrent,
     Taking, At

\* Every step preserves the lock's invariant while no lease has run out.
LEMMA NextLeased == FleetTyped /\ Leased /\ [FleetNext]_fleetVars => Leased'
<1> SUFFICES ASSUME FleetTyped, Leased, [FleetNext]_fleetVars, stalls' = 0 PROVE Locked'
  BY DEF Leased
<1>0. RegistryTypeOK /\ stalls \in Nat
  BY RegistryAssumption DEF FleetTyped, FleetTypeOK, RegistryTypeOK, RegistryAssumption
<1>1. CASE UNCHANGED registryVars
  BY <1>1, UnchangedLocked DEF Leased, registryVars
<1>2. ASSUME NEW p \in Proc, Transact(p) PROVE Locked'
  <2>1. stalls = 0
    BY <1>2 DEF Transact, TransactionStep, Mkdir, Contend, Own, Reap, Verify, RemoveStale, WriteRegistry, Unlock
  <2> QED
    BY <1>0, <1>2, <2>1, StepLocked DEF Transact, Leased
<1>3. ASSUME NEW p \in Proc, Beat(p) PROVE Locked'
  BY <1>3 DEF Beat, Heartbeat, Leased, Locked
<1>4. ASSUME NEW p \in Proc, Commit(p) \/ TimesOut(p) PROVE Locked'
  <2>1. UpdateOf(cmd[p]) \in Updates
    BY UpdateTyped DEF FleetTyped, FleetTypeOK
  <2>2. GiveUp(p) \/ \E u \in Updates : Open(p, u)
    BY <1>4, <2>1 DEF Commit, TimesOut
  <2>3. stalls = 0
    BY <2>2 DEF GiveUp, Open
  <2> QED
    BY <1>0, <2>2, <2>3, OutsideLocked DEF Leased
<1>5. ASSUME NEW p \in Proc, Dies(p) PROVE Locked'
  BY <1>0, <1>5, CrashLocked DEF Dies, Death, Leased
<1>6. ASSUME NEW p \in Proc, Pauses(p) PROVE Locked'
  BY <1>0, <1>6 DEF Pauses, Stall
<1>7. ASSUME NEW p \in Proc, Start(p) \/ Committed(p) \/ TabRead(p) \/ TabWrite(p)
                             \/ TabRefused(p) \/ TabWriteFails(p)
      PROVE  UNCHANGED registryVars
  BY <1>7 DEF Start, StartInit, StartEnable, StartDisable, StartFleet, Given, Committed, TabRead,
              TabWrite, TabRefused, TabWriteFails
<1> QED
  BY <1>1, <1>2, <1>3, <1>4, <1>5, <1>6, <1>7 DEF FleetNext, Work, fleetVars, registryVars

\* The lock that an earlier process has left has no maker, so nobody is inside.
LEMMA InitLeased == FleetInit => FleetTyped /\ Leased
<1> SUFFICES ASSUME FleetInit PROVE FleetTyped /\ Leased
  OBVIOUS
<1> USE RegistryAssumption, FleetAssumption
    DEF FleetInit, RegistryInit, RegistryAssumption, FleetAssumption
<1>1. RegistryTypeOK
  <2>1. dir \in Dirs
    <3>1. NoDir \in Dirs /\ [NoDir EXCEPT !.made = TRUE] \in Dirs
      BY DEF NoDir, Dirs
    <3> QED
      BY <3>1
  <2>2. txn \in [Proc -> Transactions]
    BY IdleTyped
  <2> QED
    BY <2>1, <2>2 DEF RegistryTypeOK
<1>2. FleetTypeOK
  <2>1. cmd \in [Proc -> Commands]
    BY NewCmdTyped
  <2>2. tab \subseteq Slug
    OBVIOUS
  <2>3. faults \in 0 .. MaxTroubles
    OBVIOUS
  <2>4. mixed \in BOOLEAN
    OBVIOUS
  <2> QED
    BY <1>1, <2>1, <2>2, <2>3, <2>4 DEF FleetTypeOK
<1>3. IsFiniteSet(dead)
  BY FS_EmptySet
<1>4. Locked
  BY DEF Locked, InsideOwns, Inside, SeenIsStale, ReaperNamed, RemovesSeen, CopyCurrent, Taking, At, Idle
<1> QED
  BY <1>2, <1>3, <1>4 DEF FleetTyped, Leased

\* Only WriteRegistry changes the registry, and its copy is the registry.
LEMMA WriteApplies ==
    ASSUME FleetTyped, Leased, stalls = 0, [FleetNext]_fleetVars, registry' # registry
    PROVE  \E p \in Proc : /\ At(p, "write")
                           /\ Allowed(registry, txn[p].update)
                           /\ registry' = Apply(registry, txn[p].update)
<1>1. PICK p \in Proc : WriteRegistry(p)
  BY DEF FleetNext, Work, fleetVars, Start, StartInit, StartEnable, StartDisable, StartFleet, Given, Committed,
     TabRead, TabWrite, TabRefused, TabWriteFails, registryVars, Commit, Open, Transact, TransactionStep, Mkdir,
     Contend, Own, Reap, Verify, RemoveStale, Unlock, Beat, Heartbeat, TimesOut, GiveUp, Dies, Death,
     Pauses, Stall
<1>2. At(p, "write") /\ txn[p].copy = registry
  BY <1>1 DEF WriteRegistry, Leased, Locked, CopyCurrent
<1> QED
  BY <1>1, <1>2 DEF WriteRegistry

\* The registry, its lock, the crontab and the commands stay within their types:
\* no step makes an update, a transaction or a command of another shape.
THEOREM FleetTypeCorrect == FleetSpec => []FleetTypeOK
<1>1. FleetInit /\ [][FleetNext]_fleetVars => []FleetTyped
  BY InitLeased, NextTyped, PTL
<1>2. FleetTyped => FleetTypeOK
  BY DEF FleetTyped
<1> QED
  BY <1>1, <1>2, PTL DEF FleetSpec

\* Whatever processes die with the lock and whoever reaps it, as long as no lease
\* has run out each change of registry.json is the whole update of one transaction,
\* made on what the file says and not on an older copy (registryTransaction).
THEOREM NoUpdateIsLost == FleetSpec => UpdatesApplied
<1>1. FleetInit /\ [][FleetNext]_fleetVars => [](FleetTyped /\ Leased)
  BY InitLeased, NextTyped, NextLeased, PTL
<1>2. FleetTyped /\ Leased /\ [FleetNext]_fleetVars =>
        [stalls = 0 /\ registry' # registry =>
       \E p \in Proc : /\ At(p, "write")
                       /\ Allowed(registry, txn[p].update)
                       /\ registry' = Apply(registry, txn[p].update)]_registryVars
  BY WriteApplies
<1> QED
  BY <1>1, <1>2, PTL DEF FleetSpec, UpdatesApplied

-----------------------------------------------------------------------------
(* The crontab. *)

\* An update enables no project but those.
LEMMA EnablesUpdate ==
    ASSUME NEW c \in Commands, c.kind \in CmdKinds, NEW s \in Slug, UpdateOf(c).to[s] = "on"
    PROVE  s \in Enables(c)
<1>1. \A S, v : Sets(S, v)[s] = "on" => s \in S /\ v = "on"
  BY DEF Sets
<1>2. CASE c.kind = "init" \/ c.kind = "disable"
  <2>1. UpdateOf(c).to = Sets(c.targets, "off")
    BY <1>2 DEF UpdateOf, Nothing
  <2> QED
    BY <1>1, <2>1
<1>3. CASE c.kind = "enable"
  <2>1. UpdateOf(c).to = Sets(c.targets, "on")
    BY <1>3 DEF UpdateOf, Nothing
  <2> QED
    BY <1>1, <1>3, <2>1 DEF Enables
<1>4. CASE c.kind = "fleet" /\ c.staged
  <2>1. UpdateOf(c).to = Sets(c.now, "on")
    BY <1>4 DEF UpdateOf, Nothing
  <2> QED
    BY <1>1, <1>4, <2>1 DEF Enables
<1>5. CASE c.kind = "fleet" /\ ~c.staged
  <2>1. UpdateOf(c).to[s] = IF s \in c.targets THEN FlagOf(c, s)
                            ELSE IF c.prune THEN "absent" ELSE "keep"
    BY <1>5 DEF UpdateOf
  <2>2. c.schedule /\ c.baseline[s] = "on"
    BY <2>1 DEF FlagOf
  <2> QED
    BY <1>5, <2>2 DEF Enables
<1> QED
  BY <1>2, <1>3, <1>4, <1>5 DEF CmdKinds, Commands

\* A disable is always allowed, and turns all of its projects off.
LEMMA DisableUpdate ==
    ASSUME NEW c \in Commands, c.kind = "disable"
    PROVE  /\ UpdateOf(c).to = Sets(c.targets, "off")
           /\ UpdateOf(c).require = {} /\ ~UpdateOf(c).guarded
BY DEF UpdateOf, Nothing

\* A step of a transaction moves it on; it ends by its release, or without a lock
\* to write into.
LEMMA StepMoves ==
    ASSUME RegistryTypeOK, NEW p \in Proc, TransactionStep(p)
    PROVE  /\ p \notin dead /\ UNCHANGED <<dead, stalls>>
           /\ \A q \in Proc \ {p} : txn'[q].pc = txn[q].pc /\ txn'[q].update = txn[q].update
           /\ WriteRegistry(p) => txn[p].pc = "write" /\ txn'[p].pc = "release"
           /\ \/ WriteRegistry(p)
              \/ /\ registry' = registry
                 /\ \/ /\ txn[p].pc \notin {"none", "release"} /\ txn'[p].pc \notin {"none", "release"}
                       /\ txn'[p].update = txn[p].update
                    \/ txn[p].pc = "release" /\ txn'[p].pc = "none"
                    \/ txn[p].pc = "own" /\ txn'[p].pc = "none" /\ ~dir.made
<1> USE DEF RegistryTypeOK, Transactions, Phases, At, To
<1>0. ASSUME WriteRegistry(p)
      PROVE  /\ txn[p].pc = "write" /\ txn'[p].pc = "release"
             /\ \A q \in Proc \ {p} : txn'[q] = txn[q]
  <2>1. PICK f \in BOOLEAN : txn' = [txn EXCEPT ![p] = [Idle EXCEPT !.pc = "release", !.failed = f]]
    BY <1>0 DEF WriteRegistry, Allowed
  <2> QED
    BY <1>0, <2>1 DEF WriteRegistry, Idle
<1>1. CASE Mkdir(p)
  BY <1>1, <1>0 DEF Mkdir
<1>2. CASE Contend(p)
  BY <1>2, <1>0 DEF Contend
<1>3. CASE Own(p)
  <2>1. CASE dir.made
    BY <1>3, <1>0, <2>1 DEF Own
  <2>2. CASE ~dir.made
    BY <1>3, <1>0, <2>2 DEF Own, Idle
  <2> QED
    BY <2>1, <2>2
<1>4. CASE Reap(p)
  <2>1. \E l \in {"verify", "mkdir"} : txn' = [txn EXCEPT ![p].pc = l]
    BY <1>4 DEF Reap
  <2> QED
    BY <1>4, <1>0, <2>1 DEF Reap
<1>5. CASE Verify(p)
  <2>1. \E l \in {"remove", "mkdir"} : txn' = [txn EXCEPT ![p].pc = l]
    BY <1>5 DEF Verify
  <2> QED
    BY <1>5, <1>0, <2>1 DEF Verify
<1>6. CASE RemoveStale(p)
  BY <1>6, <1>0 DEF RemoveStale
<1>7. CASE WriteRegistry(p)
  BY <1>7, <1>0 DEF WriteRegistry
<1>8. CASE Unlock(p)
  BY <1>8, <1>0 DEF Unlock, Idle
<1> QED
  BY <1>1, <1>2, <1>3, <1>4, <1>5, <1>6, <1>7, <1>8 DEF TransactionStep

\* fleet alone goes on after a project, and then with the crontab.
LEMMA AfterMoves ==
    ASSUME NEW c \in Commands
    PROVE  /\ AfterProject(c) \in Commands
           /\ AfterProject(c).pc \in {"tabread", "end"}
           /\ AfterProject(c).kind \in {"none", "fleet"}
           /\ AfterProject(c).kind = "fleet" =>
                c.kind = "fleet" /\ AfterProject(c).staged /\ AfterProject(c).schedule
           /\ Shape(AfterProject(c))
BY CommandTyped DEF AfterProject, Ended, NewCmd, Shape, CmdKinds

LEMMA EndedMoves == Ended.pc = "end" /\ Ended.kind = "none" /\ Shape(Ended) /\ Ended \in Commands
BY NewCmdTyped DEF Ended, NewCmd, Shape, CmdKinds, Commands, CmdPhases

\* A transaction begins with its command's update, which the command keeps.
LEMMA NextTransacts == FleetTyped /\ Transacts /\ [FleetNext]_fleetVars => Transacts'
<1> SUFFICES ASSUME FleetTyped, Transacts, [FleetNext]_fleetVars PROVE Transacts'
  OBVIOUS
<1> USE DEF FleetTyped, FleetTypeOK, RegistryTypeOK
<1>0. CASE UNCHANGED <<txn, cmd>>
  BY <1>0 DEF Transacts
<1>1. ASSUME NEW p \in Proc, Start(p) PROVE Transacts'
  <2>1. PICK c : Given(p, c)
    BY <1>1, StartGives
  <2>2. txn[p].pc = "none"
    BY <2>1 DEF Given, Transacts
  <2> QED
    BY <2>1, <2>2 DEF Given, Transacts, registryVars
<1>2. ASSUME NEW p \in Proc, Commit(p) PROVE Transacts'
  <2> DEFINE t == [Idle EXCEPT !.pc = "mkdir", !.update = UpdateOf(cmd[p])]
             c == [cmd[p] EXCEPT !.pc = "committing"]
  <2>1. t.pc = "mkdir" /\ t.update = UpdateOf(cmd[p])
    BY DEF Idle
  <2>2. txn' = [txn EXCEPT ![p] = t] /\ cmd' = [cmd EXCEPT ![p] = c]
    BY <1>2 DEF Commit, Open
  <2>3. c.pc = "committing" /\ UpdateOf(c) = UpdateOf(cmd[p])
    BY DEF UpdateOf, FlagOf, Commands
  <2> HIDE DEF t, c
  <2> QED
    BY <2>1, <2>2, <2>3 DEF Transacts
<1>3. ASSUME NEW p \in Proc, Committed(p) \/ TabRead(p) \/ TabWrite(p) \/ TabRefused(p) \/ TabWriteFails(p)
      PROVE  Transacts'
  <2>1. txn[p].pc = "none" /\ txn' = txn
    BY <1>3 DEF Committed, TabRead, TabWrite, TabRefused, TabWriteFails, CmdAt, Transacts, registryVars
  <2>2. \A q \in Proc \ {p} : cmd'[q] = cmd[q]
    BY <1>3 DEF Committed, TabRead, TabWrite, TabRefused, TabWriteFails
  <2> QED
    BY <2>1, <2>2 DEF Transacts
<1>4. ASSUME NEW p \in Proc, Transact(p) PROVE Transacts'
  <2>1. TransactionStep(p) /\ cmd' = cmd
    BY <1>4 DEF Transact, commandVars
  <2> QED
    BY <2>1, StepMoves DEF Transacts
<1>5. ASSUME NEW p \in Proc, Beat(p) \/ Pauses(p) PROVE Transacts'
  BY <1>0, <1>5 DEF Beat, Heartbeat, Pauses, Stall, commandVars
<1>6. ASSUME NEW p \in Proc, TimesOut(p) PROVE Transacts'
  <2> DEFINE t == [Idle EXCEPT !.failed = TRUE]
  <2>1. t.pc = "none"
    BY DEF Idle
  <2>2. txn' = [txn EXCEPT ![p] = t] /\ cmd' = cmd
    BY <1>6 DEF TimesOut, GiveUp
  <2> HIDE DEF t
  <2> QED
    BY <2>1, <2>2 DEF Transacts
<1>7. ASSUME NEW p \in Proc, Dies(p) PROVE Transacts'
  BY <1>7 DEF Dies, Death, Idle, Transacts
<1> QED
  BY <1>0, <1>1, <1>2, <1>3, <1>4, <1>5, <1>6, <1>7 DEF FleetNext, Work, fleetVars

\* Each command keeps to its order.
LEMMA NextShapes == FleetTyped /\ Shapes /\ [FleetNext]_fleetVars => Shapes'
<1> SUFFICES ASSUME FleetTyped, Shapes, [FleetNext]_fleetVars PROVE Shapes'
  OBVIOUS
<1> USE DEF FleetTyped, FleetTypeOK
<1>0. CASE UNCHANGED cmd
  BY <1>0 DEF Shapes
<1>a. ASSUME NEW p \in Proc, NEW c \in Commands, cmd' = [cmd EXCEPT ![p] = c], Shape(c)
      PROVE  Shapes'
  BY <1>a DEF Shapes
<1>1. ASSUME NEW p \in Proc, Start(p) PROVE Shapes'
  BY <1>1, <1>a, StartGives DEF Given
<1>2. ASSUME NEW p \in Proc, Commit(p) PROVE Shapes'
  <2> DEFINE c == [cmd[p] EXCEPT !.pc = "committing"]
  <2>1. c \in Commands /\ Shape(c)
    BY <1>2 DEF Commands, CmdPhases, Shapes, Shape, Commit, CmdAt
  <2>2. cmd' = [cmd EXCEPT ![p] = c]
    BY <1>2 DEF Commit
  <2> HIDE DEF c
  <2> QED
    BY <2>1, <2>2, <1>a
<1>3. ASSUME NEW p \in Proc, Committed(p) PROVE Shapes'
  <2>1. cmd' = [cmd EXCEPT ![p] = Ended] \/ cmd' = [cmd EXCEPT ![p] = AfterProject(cmd[p])]
    BY <1>3 DEF Committed
  <2> QED
    BY <2>1, <1>a, AfterMoves, EndedMoves
<1>4. ASSUME NEW p \in Proc, TabRead(p) PROVE Shapes'
  <2>1. PICK s \in cmd[p].left, fails \in BOOLEAN :
               cmd' = [cmd EXCEPT ![p].now = {s}, ![p].left = @ \ {s}, ![p].pc = "tabwrite",
                                  ![p].tab = IF fails THEN {} ELSE tab]
    BY <1>4 DEF TabRead
  <2> DEFINE c == [cmd[p] EXCEPT !.now = {s}, !.left = @ \ {s}, !.pc = "tabwrite",
                                 !.tab = IF fails THEN {} ELSE tab]
  <2>2. c \in Commands
    BY DEF Commands, CmdPhases
  <2>3. /\ c.pc = "tabwrite" /\ c.now = {s} /\ c.left = cmd[p].left \ {s} /\ c.kind = cmd[p].kind
        /\ c.targets = cmd[p].targets /\ c.staged = cmd[p].staged /\ c.schedule = cmd[p].schedule
    BY DEF Commands
  <2>4. cmd' = [cmd EXCEPT ![p] = c]
    BY <2>1
  <2>5. cmd[p].pc = "tabread" /\ Shape(cmd[p])
    BY <1>4 DEF TabRead, CmdAt, Shapes
  <2> HIDE DEF c
  <2>6. Shape(c)
    BY <2>3, <2>5 DEF Shape, Commands
  <2> QED
    BY <2>2, <2>4, <2>6, <1>a
<1>5. ASSUME NEW p \in Proc, TabWrite(p) PROVE Shapes'
  <2> DEFINE c == [cmd[p] EXCEPT !.pc = IF cmd[p].kind = "disable" /\ cmd[p].left # {} THEN "tabread" ELSE "commit",
                                 !.tab = {}]
  <2>2. c \in Commands
    BY DEF Commands, CmdPhases
  <2>3. /\ c.pc = IF cmd[p].kind = "disable" /\ cmd[p].left # {} THEN "tabread" ELSE "commit"
        /\ c.now = cmd[p].now /\ c.left = cmd[p].left /\ c.kind = cmd[p].kind
        /\ c.targets = cmd[p].targets /\ c.staged = cmd[p].staged /\ c.schedule = cmd[p].schedule
    BY DEF Commands
  <2>4. cmd' = [cmd EXCEPT ![p] = c]
    BY <1>5 DEF TabWrite
  <2>5. cmd[p].pc = "tabwrite" /\ Shape(cmd[p])
    BY <1>5 DEF TabWrite, CmdAt, Shapes
  <2> HIDE DEF c
  <2>6. Shape(c)
    BY <2>3, <2>5 DEF Shape, Commands
  <2> QED
    BY <2>2, <2>4, <2>6, <1>a
<1>6. ASSUME NEW p \in Proc, TabRefused(p) PROVE Shapes'
  <2>1. PICK s \in cmd[p].left : cmd' = [cmd EXCEPT ![p] = AfterProject([cmd[p] EXCEPT !.left = @ \ {s}])]
    BY <1>6 DEF TabRefused
  <2>2. [cmd[p] EXCEPT !.left = @ \ {s}] \in Commands
    BY DEF Commands
  <2> QED
    BY <2>1, <2>2, <1>a, AfterMoves
<1>7. ASSUME NEW p \in Proc, TabWriteFails(p) PROVE Shapes'
  BY <1>7, <1>a, AfterMoves DEF TabWriteFails
<1>8. ASSUME NEW p \in Proc, Transact(p) \/ Beat(p) \/ TimesOut(p) \/ Pauses(p) PROVE Shapes'
  BY <1>0, <1>8 DEF Transact, Beat, TimesOut, Pauses, commandVars
<1>9. ASSUME NEW p \in Proc, Dies(p) PROVE Shapes'
  BY <1>9, <1>a, EndedMoves DEF Dies
<1> QED
  BY <1>0, <1>1, <1>2, <1>3, <1>4, <1>5, <1>6, <1>7, <1>8, <1>9 DEF FleetNext, Work, fleetVars

\* A process whose command leaves the crontab and the registry alone
LEMMA OtherOrderly ==
    ASSUME FleetTyped, Orderly, NEW p \in Proc, ~mixed', ~mixed,
           UNCHANGED <<registry, tab, stalls>>, 
           dead' \in {dead, dead \cup {p}},
           \A q \in Proc \ {p} : cmd'[q] = cmd[q] /\ txn'[q].pc = txn[q].pc,
           Edits(p)' => Edits(p) \/ \A q \in Proc : ~Edits(q),
           CmdAt(p, "tabwrite")' => cmd'[p].tab = tab,
           p \notin dead' /\ cmd'[p].pc \in {"commit", "committing"} => Enables(cmd'[p]) \subseteq tab,
           \A s \in Slug : Clears(p, s) => Clears(p, s)'
    PROVE  Orderly'
<1> USE DEF Orderly
<1>1. \A q \in Proc \ {p} : /\ Edits(q)' = Edits(q) /\ CmdAt(q, "tabwrite")' = CmdAt(q, "tabwrite")
                            /\ q \notin dead' <=> q \notin dead
                            /\ \A s : Clears(q, s)' = Clears(q, s)
  BY DEF Edits, Working, CmdAt, Clears
<1>2. Solo'
  BY <1>1 DEF Solo
<1>3. SeenTab'
  BY <1>1 DEF SeenTab
<1>4. Provided'
  BY <1>1 DEF Provided
<1>5. Scheduled'
  BY <1>1 DEF Scheduled
<1> QED
  BY <1>2, <1>3, <1>4, <1>5

\* The write of a disable is where its projects stop to be an exception; any other
\* write enables only what has its lines.
LEMMA WriteOrderly ==
    ASSUME FleetInv, NEW p \in Proc, WriteRegistry(p), UNCHANGED commandVars, ~mixed
    PROVE  Orderly'
<1> USE DEF FleetInv, FleetTyped, FleetTypeOK
<1>0. RegistryTypeOK /\ TransactionStep(p)
  BY DEF TransactionStep
<1>1. /\ p \notin dead /\ UNCHANGED <<dead, stalls>>
      /\ \A q \in Proc \ {p} : txn'[q].pc = txn[q].pc
      /\ txn[p].pc = "write" /\ txn'[p].pc = "release"
  BY <1>0, StepMoves DEF WriteRegistry, At
<1>2. /\ stalls = 0 /\ Solo /\ SeenTab /\ Provided /\ Scheduled /\ mixed' = mixed
      /\ tab' = tab /\ cmd' = cmd
  BY DEF Orderly, commandVars
<1> DEFINE c == cmd[p]
<1>3. c.pc = "committing" /\ txn[p].update = UpdateOf(c) /\ c \in Commands /\ c.kind \in CmdKinds
  BY <1>1 DEF Transacts, Shapes, Shape
<1>4. Enables(c) \subseteq tab
  BY <1>1, <1>2, <1>3 DEF Provided
<1>5. txn[p].copy = registry
  BY <1>2 DEF Leased, Locked, CopyCurrent, WriteRegistry
<1>6. Solo' /\ SeenTab' /\ Provided'
  BY <1>1, <1>2 DEF Solo, SeenTab, Provided, Edits, Working, CmdAt
<1>7. ASSUME NEW s \in Slug, registry'[s] = "on"
      PROVE  s \in tab' \/ \E q \in Proc : Clears(q, s)'
  <2>1. CASE s \in Enables(c)
    BY <1>2, <1>4, <2>1
  <2>2. CASE s \notin Enables(c)
    <3>1. UpdateOf(c).to[s] # "on"
      BY <1>3, <2>2, EnablesUpdate
    <3>2. registry[s] = "on"
      BY <1>3, <1>5, <1>7, <3>1 DEF WriteRegistry, Apply
    <3>3. CASE s \in tab
      BY <1>2, <3>3
    <3>4. CASE s \notin tab
      <4>1. PICK q \in Proc : Clears(q, s)
        BY <1>2, <3>2, <3>4 DEF Scheduled
      <4>2. q # p
        <5> SUFFICES ASSUME q = p PROVE FALSE
          OBVIOUS
        <5>1. c.kind = "disable" /\ s \in c.targets
          BY <4>1 DEF Clears
        <5>2. Allowed(registry, UpdateOf(c))
          BY <1>3, <5>1, DisableUpdate DEF Allowed
        <5>3. UpdateOf(c).to[s] = "off"
          BY <1>3, <5>1, DisableUpdate DEF Sets
        <5>4. registry'[s] = "off"
          BY <1>3, <1>5, <3>2, <5>2, <5>3 DEF WriteRegistry, Apply
        <5> QED
          BY <1>7, <5>4
      <4>3. Clears(q, s)'
        BY <1>1, <1>2, <4>1, <4>2 DEF Clears
      <4> QED
        BY <4>3
    <3> QED
      BY <3>3, <3>4
  <2> QED
    BY <2>1, <2>2
<1> QED
  BY <1>1, <1>2, <1>6, <1>7 DEF Orderly, Scheduled

\* The other steps of a transaction change neither.
LEMMA TransactOrderly ==
    ASSUME FleetInv, NEW p \in Proc, Transact(p)
    PROVE  Orderly'
<1> SUFFICES ASSUME ~mixed' PROVE Orderly'
  BY DEF Orderly
<1>1. TransactionStep(p) /\ UNCHANGED commandVars /\ ~mixed /\ RegistryTypeOK
  BY DEF Transact, commandVars, FleetInv, FleetTyped, FleetTypeOK
<1>2. /\ p \notin dead /\ UNCHANGED <<dead, stalls>>
      /\ \A q \in Proc \ {p} : txn'[q].pc = txn[q].pc
  BY <1>1, StepMoves
<1>3. CASE WriteRegistry(p)
  BY <1>1, <1>3, WriteOrderly
<1>4. CASE ~WriteRegistry(p)
  <2>1. registry' = registry
    BY <1>1, <1>4, StepMoves
  <2>2. ~(txn[p].pc = "own" /\ ~dir.made)
    BY <1>1, <1>2 DEF FleetInv, Orderly, Leased, Locked, InsideOwns, Inside
  <2>3. \A s \in Slug : Clears(p, s) => Clears(p, s)'
    BY <1>1, <1>2, <1>4, <2>2, StepMoves DEF Clears, commandVars
  <2>4. Edits(p)' = Edits(p) /\ CmdAt(p, "tabwrite")' = CmdAt(p, "tabwrite") /\ cmd' = cmd /\ tab' = tab
    BY <1>1, <1>2 DEF Edits, Working, CmdAt, commandVars
  <2>5. /\ CmdAt(p, "tabwrite")' => cmd'[p].tab = tab
        /\ cmd'[p].pc \in {"commit", "committing"} => Enables(cmd'[p]) \subseteq tab
    BY <1>1, <1>2, <2>4 DEF FleetInv, Orderly, SeenTab, Provided
  <2> QED
    BY <1>1, <1>2, <2>1, <2>3, <2>4, <2>5, OtherOrderly DEF FleetInv
<1> QED
  BY <1>3, <1>4

\* A command that would overlap with another is noted in mixed; fleet's baseline is
\* the registry while no disable works.
LEMMA StartOrderly ==
    ASSUME FleetInv, NEW p \in Proc, Start(p)
    PROVE  Orderly'
<1> SUFFICES ASSUME ~mixed' PROVE Orderly'
  BY DEF Orderly
<1> USE DEF FleetInv, FleetTyped, FleetTypeOK
<1>1. PICK c \in Commands :
             /\ Given(p, c)
             /\ c.pc \in {"commit", "tabread"} /\ ~c.staged
             /\ c.pc = "commit" => \/ c.kind \in {"init", "disable"}
                                   \/ c.kind = "fleet" /\ c.baseline = registry
             /\ Shape(c)
  BY StartGives
<1>2. /\ cmd[p].pc = "new" /\ cmd' = [cmd EXCEPT ![p] = c]
      /\ ~mixed /\ ~(EditsTab(c) /\ \E q \in Proc : Edits(q))
      /\ UNCHANGED <<registry, dir, txn, dead, late, stalls, tab>>
  BY <1>1 DEF Given, registryVars, Edits
<1>3. cmd'[p] = c /\ \A q \in Proc \ {p} : cmd'[q] = cmd[q]
  BY <1>2
<1>4. Edits(p)' => EditsTab(c)
  BY <1>3 DEF Edits
<1>5. ~CmdAt(p, "tabwrite")' /\ \A s \in Slug : ~Clears(p, s)
  BY <1>1, <1>2, <1>3 DEF CmdAt, Clears
<1>6. c.pc \in {"commit", "committing"} => Enables(c) \subseteq tab
  <2>1. CASE c.kind = "fleet" /\ c.schedule /\ c.baseline = registry
    <3>1. \A q \in Proc, s \in Slug : ~Clears(q, s)
      BY <1>2, <2>1 DEF Clears, Edits, EditsTab, Working
    <3>2. \A s \in Slug : registry[s] = "on" => s \in tab
      BY <1>2, <3>1 DEF Orderly, Scheduled
    <3> QED
      BY <1>1, <2>1, <3>2 DEF Enables
  <2> QED
    BY <1>1, <2>1 DEF Enables
<1> QED
  BY <1>2, <1>3, <1>4, <1>5, <1>6, OtherOrderly

\* The transaction begins with what the crontab has already.
LEMMA CommitOrderly ==
    ASSUME FleetInv, NEW p \in Proc, Commit(p)
    PROVE  Orderly'
<1> SUFFICES ASSUME ~mixed' PROVE Orderly'
  BY DEF Orderly
<1> USE DEF FleetInv, FleetTyped, FleetTypeOK
<1> DEFINE c == [cmd[p] EXCEPT !.pc = "committing"]
           t == [Idle EXCEPT !.pc = "mkdir", !.update = UpdateOf(cmd[p])]
<1>1. /\ p \notin dead /\ cmd[p].pc = "commit" /\ cmd' = [cmd EXCEPT ![p] = c]
      /\ txn' = [txn EXCEPT ![p] = t]
      /\ ~mixed /\ UNCHANGED <<registry, dead, stalls, tab>>
  BY DEF Commit, CmdAt, Open
<1>2. /\ c.pc = "committing" /\ c.kind = cmd[p].kind /\ c.targets = cmd[p].targets
      /\ EditsTab(c) = EditsTab(cmd[p]) /\ Enables(c) = Enables(cmd[p])
      /\ t.pc = "mkdir"
  BY DEF Commands, EditsTab, Enables, Idle
<1> HIDE DEF c, t
<1>3. txn \in [Proc -> Transactions]
  BY DEF RegistryTypeOK
<1>4. cmd'[p] = c /\ txn'[p] = t /\ \A q \in Proc \ {p} : cmd'[q] = cmd[q] /\ txn'[q] = txn[q]
  BY <1>1, <1>3
<1>5. Edits(p)' = Edits(p) /\ ~CmdAt(p, "tabwrite")' /\ \A s \in Slug : Clears(p, s) => Clears(p, s)'
  BY <1>1, <1>2, <1>4 DEF Edits, Working, CmdAt, Clears
<1>6. Enables(c) \subseteq tab
  BY <1>1, <1>2 DEF Orderly, Provided
<1> QED
  BY <1>1, <1>4, <1>5, <1>6, OtherOrderly

\* A command that goes on to its next project or ends
LEMMA AfterOrderly ==
    ASSUME FleetInv, NEW p \in Proc, ~mixed', ~mixed,
           UNCHANGED <<registry, txn, dead, stalls, tab>>,
           p \notin dead, NEW c \in Commands, cmd' = [cmd EXCEPT ![p] = c],
           c.pc \in {"tabread", "end"},
           c.pc # "end" => c.kind = "fleet" /\ c.schedule /\ EditsTab(cmd[p]) /\ cmd[p].pc \notin {"new", "end"},
           \A s \in Slug : ~Clears(p, s)
    PROVE  Orderly'
<1> USE DEF FleetInv, FleetTyped, FleetTypeOK
<1>1. cmd'[p] = c /\ \A q \in Proc \ {p} : cmd'[q] = cmd[q]
  OBVIOUS
<1>2. ~CmdAt(p, "tabwrite")' /\ (Edits(p)' => Edits(p))
  BY <1>1 DEF CmdAt, Edits, Working
<1> QED
  BY <1>1, <1>2, OtherOrderly

\* A disable that has committed has cleared its flags.
LEMMA CommittedOrderly ==
    ASSUME FleetInv, NEW p \in Proc, Committed(p)
    PROVE  Orderly'
<1> SUFFICES ASSUME ~mixed' PROVE Orderly'
  BY DEF Orderly
<1> USE DEF FleetInv, FleetTyped, FleetTypeOK
<1>1. /\ p \notin dead /\ cmd[p].pc = "committing" /\ txn[p].pc = "none" /\ ~mixed
      /\ UNCHANGED <<registry, txn, dead, stalls, tab>>
  BY DEF Committed, CmdAt, registryVars
<1>2. \A s \in Slug : ~Clears(p, s)
  BY <1>1 DEF Clears
<1>3. CASE cmd' = [cmd EXCEPT ![p] = Ended]
  BY <1>1, <1>2, <1>3, EndedMoves, AfterOrderly
<1>4. CASE /\ cmd' = [cmd EXCEPT ![p] = AfterProject(cmd[p])]
           /\ cmd[p].staged \/ cmd[p].schedule
  <2>1. cmd[p].schedule
    BY <1>4 DEF Shapes, Shape
  <2>2. AfterProject(cmd[p]).pc # "end" => AfterProject(cmd[p]).kind = "fleet"
    BY DEF AfterProject, Ended, NewCmd
  <2>3. cmd[p].kind = "fleet" => EditsTab(cmd[p])
    BY <2>1 DEF EditsTab
  <2> QED
    BY <1>1, <1>2, <1>4, <2>2, <2>3, AfterMoves, AfterOrderly
<1> QED
  BY <1>3, <1>4 DEF Committed

\* What is read is the crontab: a failure is noted in mixed.
LEMMA TabReadOrderly ==
    ASSUME FleetInv, NEW p \in Proc, TabRead(p)
    PROVE  Orderly'
<1> SUFFICES ASSUME ~mixed' PROVE Orderly'
  BY DEF Orderly
<1> USE DEF FleetInv, FleetTyped, FleetTypeOK
<1>1. PICK s \in cmd[p].left :
             cmd' = [cmd EXCEPT ![p].now = {s}, ![p].left = @ \ {s}, ![p].pc = "tabwrite", ![p].tab = tab]
  BY DEF TabRead
<1> DEFINE c == [cmd[p] EXCEPT !.now = {s}, !.left = @ \ {s}, !.pc = "tabwrite", !.tab = tab]
<1>2. /\ c.pc = "tabwrite" /\ c.tab = tab /\ c.kind = cmd[p].kind /\ c.targets = cmd[p].targets
      /\ EditsTab(c) = EditsTab(cmd[p])
  BY DEF Commands, EditsTab
<1>3. cmd' = [cmd EXCEPT ![p] = c]
  BY <1>1
<1>4. p \notin dead /\ cmd[p].pc = "tabread" /\ ~mixed /\ UNCHANGED <<registry, txn, dead, stalls, tab>>
  BY DEF TabRead, CmdAt, registryVars
<1> HIDE DEF c
<1>5. cmd'[p] = c /\ \A q \in Proc \ {p} : cmd'[q] = cmd[q]
  BY <1>3
<1>6. Edits(p)' = Edits(p) /\ \A x \in Slug : Clears(p, x) => Clears(p, x)'
  BY <1>2, <1>4, <1>5 DEF Edits, Working, Clears
<1> QED
  BY <1>2, <1>4, <1>5, <1>6, OtherOrderly

\* A refusal changes nothing, and no disable is refused.
LEMMA TabRefusedOrderly ==
    ASSUME FleetInv, NEW p \in Proc, TabRefused(p)
    PROVE  Orderly'
<1> SUFFICES ASSUME ~mixed' PROVE Orderly'
  BY DEF Orderly
<1> USE DEF FleetInv, FleetTyped, FleetTypeOK
<1>1. PICK s \in cmd[p].left : cmd' = [cmd EXCEPT ![p] = AfterProject([cmd[p] EXCEPT !.left = @ \ {s}])]
  BY DEF TabRefused
<1> DEFINE c == [cmd[p] EXCEPT !.left = @ \ {s}]
<1>2. c \in Commands /\ c.kind = cmd[p].kind
  BY DEF Commands
<1>3. /\ p \notin dead /\ cmd[p].pc = "tabread" /\ cmd[p].kind # "disable" /\ ~mixed
      /\ UNCHANGED <<registry, txn, dead, stalls, tab>>
  BY DEF TabRefused, CmdAt, registryVars
<1>4. AfterProject(c).pc # "end" => AfterProject(c).kind = "fleet"
  BY DEF AfterProject, Ended, NewCmd
<1>5. cmd[p].kind = "fleet" => EditsTab(cmd[p])
  BY <1>3 DEF Shapes, Shape, EditsTab
<1>6. \A x \in Slug : ~Clears(p, x)
  BY <1>3 DEF Clears
<1>7. cmd' = [cmd EXCEPT ![p] = AfterProject(c)]
  BY <1>1
<1> HIDE DEF c
<1> QED
  BY <1>2, <1>3, <1>4, <1>5, <1>6, <1>7, AfterMoves, AfterOrderly

\* Nobody else edits the crontab, so what was read is replaced by itself with the
\* lines added, or without those of a project that is being disabled.
LEMMA TabWriteOrderly ==
    ASSUME FleetInv, NEW p \in Proc, TabWrite(p)
    PROVE  Orderly'
<1> SUFFICES ASSUME ~mixed' PROVE Orderly'
  BY DEF Orderly
<1> USE DEF FleetInv, FleetTyped, FleetTypeOK
<1> DEFINE d == cmd[p]
           c == [cmd[p] EXCEPT !.pc = IF cmd[p].kind = "disable" /\ cmd[p].left # {} THEN "tabread" ELSE "commit",
                               !.tab = {}]
<1>1. /\ c.pc \in {"tabread", "commit"} /\ c.kind = d.kind /\ c.targets = d.targets /\ c.now = d.now
      /\ c.staged = d.staged /\ c.schedule = d.schedule /\ EditsTab(c) = EditsTab(d)
  BY DEF Commands, EditsTab
<1>2. /\ p \notin dead /\ d.pc = "tabwrite" /\ ~mixed
      /\ cmd' = [cmd EXCEPT ![p] = c]
      /\ tab' = IF d.kind = "disable" THEN d.tab \ d.now ELSE d.tab \cup d.now
      /\ UNCHANGED <<registry, txn, dead, stalls>>
  BY DEF TabWrite, CmdAt, registryVars
<1>3. Shape(d) /\ d \in Commands
  BY DEF Shapes
<1> HIDE DEF c
<1>4. cmd'[p] = c /\ \A q \in Proc \ {p} : cmd'[q] = cmd[q]
  BY <1>2
<1>5. d.tab = tab /\ stalls = 0 /\ Solo /\ SeenTab /\ Provided /\ Scheduled
  BY <1>2 DEF Orderly, SeenTab, CmdAt
<1>6. Edits(p)
  BY <1>2, <1>3 DEF Edits, Working, EditsTab, Shape
<1>7. \A q \in Proc \ {p} : ~Edits(q)
  BY <1>5, <1>6 DEF Solo
<1>8. Solo'
  BY <1>2, <1>4, <1>7 DEF Solo, Edits, Working
<1>9. SeenTab'
  <2>1. \A q \in Proc : CmdAt(q, "tabwrite") => Edits(q)
    BY DEF CmdAt, Edits, Working, EditsTab, Shapes, Shape
  <2> QED
    BY <1>1, <1>2, <1>4, <1>7, <2>1 DEF SeenTab, CmdAt
<1>10. Provided'
  <2>1. ASSUME NEW q \in Proc \ {p}, q \notin dead, cmd[q].pc \in {"commit", "committing"}
        PROVE  Enables(cmd[q]) = {}
    BY <1>7, <2>1 DEF Edits, Working, EditsTab, Shapes, Shape, Enables
  <2>2. c.pc = "commit" => Enables(c) \subseteq tab'
    BY <1>1, <1>2, <1>3, <1>5 DEF Enables, Shape
  <2> QED
    BY <1>1, <1>2, <1>4, <2>1, <2>2 DEF Provided
<1>11. Scheduled'
  <2> SUFFICES ASSUME NEW s \in Slug, registry'[s] = "on", s \notin tab'
               PROVE  \E q \in Proc : Clears(q, s)'
    BY DEF Scheduled
  <2>1. CASE s \in tab
    <3>1. d.kind = "disable" /\ s \in d.targets
      BY <1>2, <1>3, <1>5, <2>1 DEF Shape
    <3>2. Clears(p, s)'
      BY <1>1, <1>2, <1>4, <3>1 DEF Clears
    <3> QED
      BY <3>2
  <2>2. CASE s \notin tab
    <3>1. PICK q \in Proc : Clears(q, s)
      BY <1>2, <1>5, <2>2 DEF Scheduled
    <3>2. Clears(q, s)'
      BY <1>1, <1>2, <1>4, <3>1 DEF Clears
    <3> QED
      BY <3>2
  <2> QED
    BY <2>1, <2>2
<1> QED
  BY <1>2, <1>5, <1>8, <1>9, <1>10, <1>11 DEF Orderly

\* Every step preserves the order of crontab and registry.
LEMMA NextOrderly == FleetInv /\ [FleetNext]_fleetVars => Orderly'
<1> SUFFICES ASSUME FleetInv, [FleetNext]_fleetVars, ~mixed' PROVE Orderly'
  BY DEF Orderly
<1> USE DEF FleetInv, FleetTyped, FleetTypeOK
<1>0. CASE UNCHANGED fleetVars
  BY <1>0 DEF fleetVars, Orderly, Solo, SeenTab, Provided, Scheduled, Clears, Edits, Working, CmdAt
<1>1. ASSUME NEW p \in Proc, Beat(p) PROVE Orderly'
  BY <1>1 DEF Beat, Heartbeat, commandVars, Orderly, Solo, SeenTab, Provided, Scheduled, Clears, Edits, Working, CmdAt
<1>2. ASSUME NEW p \in Proc, TimesOut(p) PROVE Orderly'
  <2>1. /\ ~mixed /\ ~EditsTab(cmd[p])
        /\ UNCHANGED <<registry, dead, stalls, tab, cmd>>
    BY <1>2 DEF TimesOut, GiveUp
  <2>2. \A q \in Proc \ {p} : txn'[q] = txn[q]
    BY <1>2 DEF TimesOut, GiveUp, RegistryTypeOK
  <2>3. \A s \in Slug : ~Clears(p, s)
    BY <2>1 DEF Clears, EditsTab
  <2>4. ~Edits(p)'
    BY <2>1 DEF Edits
  <2>5. /\ CmdAt(p, "tabwrite")' => cmd'[p].tab = tab
        /\ p \notin dead' /\ cmd'[p].pc \in {"commit", "committing"} => Enables(cmd'[p]) \subseteq tab
    BY <2>1 DEF Orderly, SeenTab, Provided, CmdAt
  <2> QED
    BY <2>1, <2>2, <2>3, <2>4, <2>5, OtherOrderly
<1>3. ASSUME NEW p \in Proc, Dies(p) PROVE Orderly'
  <2>1. /\ ~mixed /\ ~EditsTab(cmd[p]) /\ dead' = dead \cup {p}
        /\ UNCHANGED <<registry, stalls, tab>>
    BY <1>3 DEF Dies, Death
  <2>2. \A q \in Proc \ {p} : txn'[q] = txn[q] /\ cmd'[q] = cmd[q]
    BY <1>3 DEF Dies, Death, RegistryTypeOK
  <2>3. \A s \in Slug : ~Clears(p, s)
    BY <2>1 DEF Clears, EditsTab
  <2>4. ~Edits(p)' /\ ~CmdAt(p, "tabwrite")'
    BY <2>1 DEF Edits, Working, CmdAt
  <2> QED
    BY <2>1, <2>2, <2>3, <2>4, OtherOrderly
<1>4. ASSUME NEW p \in Proc PROVE ~Pauses(p) /\ ~TabWriteFails(p)
  BY DEF Pauses, TabWriteFails
<1> QED
  BY <1>0, <1>1, <1>2, <1>3, <1>4, StartOrderly, CommitOrderly, CommittedOrderly, TabReadOrderly,
     TabRefusedOrderly, TabWriteOrderly, TransactOrderly DEF FleetNext, Work

\* The machine starts with the lines of what is enabled, and no command.
LEMMA InitOrderly == FleetInit => Transacts /\ Shapes /\ Orderly
<1> SUFFICES ASSUME FleetInit PROVE Transacts /\ Shapes /\ Orderly
  OBVIOUS
<1>1. \A p \in Proc : cmd[p] = NewCmd /\ txn[p] = Idle
  BY DEF FleetInit, RegistryInit
<1>2. Transacts
  BY <1>1 DEF Transacts, Idle
<1>3. Shapes
  BY <1>1 DEF Shapes, Shape, NewCmd
<1>4. Solo /\ SeenTab /\ Provided
  BY <1>1 DEF Solo, SeenTab, Provided, Edits, Working, CmdAt, NewCmd
<1>5. stalls = 0 /\ Scheduled
  BY DEF FleetInit, RegistryInit, Scheduled
<1> QED
  BY <1>2, <1>3, <1>4, <1>5 DEF Orderly

\* Whatever init, fleet and prune do meanwhile, what the registry calls enabled is in
\* the crontab over any number of commands, unless two that edit it have overlapped
\* or one has died or failed in the middle, or a disable is at work.
THEOREM EnabledHasItsLines == FleetSpec => []EnabledIsScheduled
<1>1. FleetInit => FleetInv
  BY InitLeased, InitOrderly DEF FleetInv
<1>2. FleetInv /\ [FleetNext]_fleetVars => FleetInv'
  BY NextTyped, NextLeased, NextTransacts, NextShapes, NextOrderly DEF FleetInv
<1>3. FleetInv => EnabledIsScheduled
  <2> SUFFICES ASSUME FleetInv, ~mixed, \A p \in Proc : Working(p) => cmd[p].kind # "disable",
                      NEW s \in Slug, registry[s] = "on"
               PROVE  s \in tab
    BY DEF EnabledIsScheduled
  <2>1. \A p \in Proc : ~Clears(p, s)
    BY DEF Clears, Working
  <2> QED
    BY <2>1 DEF FleetInv, Orderly, Scheduled
<1> QED
  BY <1>1, <1>2, <1>3, PTL DEF FleetSpec
=============================================================================
