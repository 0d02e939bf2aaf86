------------------------------ MODULE Registry ------------------------------
(***************************************************************************)
(* registry.json and the directory lock around it (config/registry.ts).    *)
(*                                                                         *)
(* Every change of the registry is a transaction: lock, read, update,      *)
(* write by rename, unlock.  The lock is a directory, registry.json.lock,  *)
(* in which the owner keeps owner.json up to date, and in which a process  *)
(* that finds the lock stale announces with a file .reaper that it is      *)
(* going to remove it.  One action is one system call, or a few of which   *)
(* only one is seen by others.                                             *)
(*                                                                         *)
(* Time is what the limits of the code make of it.  A process that is      *)
(* neither dead nor late writes owner.json within 5 s of its mkdir, beats  *)
(* its heart within 10 min and removes a stale lock within 5 s of its      *)
(* .reaper; a late one (suspended with its machine, say) is taken for dead *)
(* until its next heartbeat.  Inode numbers are not used again while       *)
(* somebody compares them.                                                 *)
(***************************************************************************)
EXTENDS Naturals, FiniteSets

CONSTANTS Proc,         \* the processes that change the registry
          Slug,         \* the names of projects
          NoProc,       \* no process
          MaxDeaths, MaxStalls  \* bounds of the environment

ASSUME RegistryAssumption == NoProc \notin Proc /\ MaxDeaths \in Nat /\ MaxStalls \in Nat

VARIABLES registry,  \* what registry.json says of each project
          dir,       \* the lock directory at the path
          txn,       \* per process: its transaction
          dead,      \* the processes that have crashed
          late,      \* the processes whose lease and files have grown old
          stalls     \* how many have grown old so far

registryVars == <<registry, dir, txn, dead, late, stalls>>

(* An entry is absent, or its project is enabled or not; repo, paths and    *)
(* schedule are left out.                                                   *)
Entry == {"absent", "off", "on"}

NoDir == [made |-> FALSE, maker |-> NoProc, owner |-> NoProc, reaper |-> NoProc]
Dirs == [made: BOOLEAN, maker: Proc \cup {NoProc}, owner: Proc \cup {NoProc}, reaper: Proc \cup {NoProc}]

(* What a transaction does with the registry: the entries it sets (absent   *)
(* ones only if it creates), the entries without which it throws, and the   *)
(* registry it must find unchanged if it is guarded.                        *)
Updates == [to: [Slug -> Entry \cup {"keep"}], create: BOOLEAN, require: SUBSET Slug,
            guarded: BOOLEAN, baseline: [Slug -> Entry]]

Allowed(reg, u) == /\ \A s \in u.require : reg[s] # "absent"
                   /\ u.guarded => reg = u.baseline

Apply(reg, u) ==
  [s \in Slug |-> IF u.to[s] = "keep" \/ (reg[s] = "absent" /\ ~u.create)
                    THEN reg[s] ELSE u.to[s]]

Phases == {"none", "mkdir", "own", "reap", "verify", "remove", "write", "release"}
Nothing == [to |-> [s \in Slug |-> "keep"], create |-> FALSE, require |-> {},
            guarded |-> FALSE, baseline |-> [s \in Slug |-> "absent"]]
Idle == [pc |-> "none", update |-> Nothing, copy |-> [s \in Slug |-> "absent"],
         seen |-> FALSE, failed |-> FALSE]
Transactions == [pc: Phases, update: Updates, copy: [Slug -> Entry],
                 seen: BOOLEAN, failed: BOOLEAN]

RegistryTypeOK ==
  /\ registry \in [Slug -> Entry]
  /\ dir \in Dirs
  /\ txn \in [Proc -> Transactions]
  /\ dead \subseteq Proc
  /\ late \subseteq Proc
  /\ stalls \in 0 .. MaxStalls

RegistryInit ==
  /\ registry \in [Slug -> Entry]
  /\ dir \in {NoDir, [NoDir EXCEPT !.made = TRUE]}
  /\ txn = [p \in Proc |-> Idle]
  /\ dead = {}
  /\ late = {}
  /\ stalls = 0

At(p, pc) == p \notin dead /\ txn[p].pc = pc

To(p, pc) == txn' = [txn EXCEPT ![p].pc = pc]

(* A process that others take for dead: the pid is, or the time is over.    *)
(* So is the one that has left a lock from before.                          *)
Lapsed(p) == p \in dead \/ p \in late \/ p = NoProc

(* Who works on registry.json: from mkdir to the end of rm. *)
Inside(p) == p \notin dead /\ txn[p].pc \in {"own", "write", "release"}

-----------------------------------------------------------------------------
(* registryTransaction begins. *)
Open(p, u) ==
  /\ At(p, "none")
  /\ txn' = [txn EXCEPT ![p] = [Idle EXCEPT !.pc = "mkdir", !.update = u]]
  /\ UNCHANGED <<registry, dir, dead, late, stalls>>

(* mkdir of the lock directory succeeds. *)
Mkdir(p) ==
  /\ At(p, "mkdir")
  /\ ~dir.made
  /\ dir' = [NoDir EXCEPT !.made = TRUE, !.maker = p]
  /\ To(p, "own")
  /\ UNCHANGED <<registry, dead, late, stalls>>

(* The owner's pid and heartbeat, or the age of a directory without owner,  *)
(* which is young while its maker may still write owner.json.               *)
LockStale == Lapsed(IF dir.owner = NoProc THEN dir.maker ELSE dir.owner)

(* EEXIST: removeStaleLock stats the directory and reads its owner.json.    *)
(* (Another directory between the two is another one at the reaping too.)   *)
Contend(p) ==
  /\ At(p, "mkdir")
  /\ dir.made /\ LockStale
  /\ txn' = [txn EXCEPT ![p].pc = "reap", ![p].seen = TRUE]
  /\ UNCHANGED <<registry, dir, dead, late, stalls>>

(* 18,000 attempts while another process works: the transaction throws. *)
GiveUp(p) ==
  /\ At(p, "mkdir")
  /\ dir.made /\ ~LockStale
  /\ txn' = [txn EXCEPT ![p] = [Idle EXCEPT !.failed = TRUE]]
  /\ UNCHANGED <<registry, dir, dead, late, stalls>>

(* writeLockOwner goes by path: it writes into the directory that is there, *)
(* and throws outside of the try if there is none.  Then loadRegistry.      *)
Own(p) ==
  /\ At(p, "own")
  /\ IF dir.made
       THEN /\ dir' = [dir EXCEPT !.owner = p]
            /\ txn' = [txn EXCEPT ![p].pc = "write", ![p].copy = registry]
       ELSE dir' = dir /\ txn' = [txn EXCEPT ![p] = [Idle EXCEPT !.failed = TRUE]]
  /\ late' = late \ {p}
  /\ UNCHANGED <<registry, dead, stalls>>

\* Mutant: a .reaper never grows stale.
ReapingForEver(q) == q # NoProc

(* The reaper's file is fresh only while its process is about to remove. *)
Reaping(q) == ~Lapsed(q) /\ txn[q].pc \in {"verify", "remove"}

(* .reaper is created exclusively; one that is there and stale is removed   *)
(* (removeStaleReaper) and the lock looked at again.                        *)
Reap(p) ==
  /\ At(p, "reap")
  /\ IF dir.made /\ dir.reaper = NoProc
       THEN dir' = [dir EXCEPT !.reaper = p] /\ To(p, "verify")
       ELSE /\ dir' = IF dir.made /\ ~Reaping(dir.reaper)
                        THEN [dir EXCEPT !.reaper = NoProc] ELSE dir
            /\ To(p, "mkdir")
  /\ UNCHANGED <<registry, dead, late, stalls>>

\* Mutant: device and inode are not compared.
SameDirUnchecked(p) == p \in Proc

(* Is the directory at the path still the one of the first stat? *)
SameDir(p) == txn[p].seen

(* .reaper stays behind when it is another directory. *)
Verify(p) ==
  /\ At(p, "verify")
  /\ To(p, IF SameDir(p) THEN "remove" ELSE "mkdir")
  /\ late' = IF SameDir(p) THEN late ELSE late \ {p}
  /\ UNCHANGED <<registry, dir, dead, stalls>>

(* rm of whatever directory is at the path, which is nobody's then. *)
RemoveStale(p) ==
  /\ At(p, "remove")
  /\ dir' = NoDir
  /\ txn' = [q \in Proc |-> [txn[q] EXCEPT !.seen = FALSE, !.pc = IF q = p THEN "mkdir" ELSE @]]
  /\ late' = late \ {p}
  /\ UNCHANGED <<registry, dead, stalls>>

(* The update of what was read, written by rename; or it throws. *)
WriteRegistry(p) ==
  /\ At(p, "write")
  /\ LET ok == Allowed(txn[p].copy, txn[p].update) IN
       /\ registry' = IF ok THEN Apply(txn[p].copy, txn[p].update) ELSE registry
       /\ txn' = [txn EXCEPT ![p] = [Idle EXCEPT !.pc = "release", !.failed = ~ok]]
  /\ UNCHANGED <<dir, dead, late, stalls>>

(* The finally of withRegistryLock: rm by path. *)
Unlock(p) ==
  /\ At(p, "release")
  /\ dir' = NoDir
  /\ txn' = [q \in Proc |-> IF q = p THEN [Idle EXCEPT !.failed = txn[p].failed]
                             ELSE [txn[q] EXCEPT !.seen = FALSE]]
  /\ late' = late \ {p}
  /\ UNCHANGED <<registry, dead, stalls>>

(* The timer of the heartbeat fires after a pause: the owner file of the    *)
(* directory at the path is p's again.                                      *)
Heartbeat(p) ==
  /\ p \in late \ dead
  /\ late' = late \ {p}
  /\ dir' = IF dir.made /\ txn[p].pc \in {"write", "release"}
              THEN [dir EXCEPT !.owner = p] ELSE dir
  /\ UNCHANGED <<registry, txn, dead, stalls>>

-----------------------------------------------------------------------------
Death(p) ==
  /\ p \notin dead /\ Cardinality(dead) < MaxDeaths
  /\ dead' = dead \cup {p}
  /\ late' = late \ {p}
  /\ txn' = [txn EXCEPT ![p] = Idle]
  /\ UNCHANGED <<registry, dir, stalls>>

Stall(p) ==
  /\ p \notin late
  /\ Inside(p) \/ Reaping(p)
  /\ stalls < MaxStalls
  /\ stalls' = stalls + 1
  /\ late' = late \cup {p}
  /\ UNCHANGED <<registry, dir, txn, dead>>

(* The steps of a transaction that its process takes by itself. *)
TransactionStep(p) ==
  \/ Mkdir(p) \/ Contend(p) \/ Own(p) \/ Reap(p) \/ Verify(p)
  \/ RemoveStale(p) \/ WriteRegistry(p) \/ Unlock(p)

-----------------------------------------------------------------------------
(* No update is lost: as long as no lease has run out, each change of       *)
(* registry.json is the whole update of one transaction, allowed and made   *)
(* on what the file says at that moment and not on an older copy of it.     *)
UpdatesApplied ==
  [][stalls = 0 /\ registry' # registry =>
       \E p \in Proc : /\ At(p, "write")
                       /\ Allowed(registry, txn[p].update)
                       /\ registry' = Apply(registry, txn[p].update)]_registryVars
=============================================================================
