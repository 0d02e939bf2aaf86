------------------------------- MODULE Fleet -------------------------------
(***************************************************************************)
(* The commands that change which projects this machine works on, and      *)
(* when: `init`, `enable` and `scheduler sync`, `disable`, `fleet`         *)
(* (cli.ts, commands/fleet.ts, init/init.ts), with the crontab they edit   *)
(* (scheduler/scheduler.ts) and the registry they share (Registry).        *)
(*                                                                         *)
(* Each process is one command, in a shell of its own.  The crontab is     *)
(* read and written by two calls of crontab(1), under no lock.  What a     *)
(* command does to the checkout, the workspace and the labels of a project *)
(* either succeeds or makes it fail.                                       *)
(***************************************************************************)
EXTENDS Registry

CONSTANTS Kinds,      \* the kinds of commands there are
          Syncs,      \* the calls of `fleet`: what it finds, and its flags
          MaxTroubles \* how many processes die or stall, and calls of crontab fail, in all

ASSUME FleetAssumption ==
  /\ MaxTroubles \in Nat
  /\ Syncs \subseteq [found: (SUBSET Slug) \ {{}}, prune: BOOLEAN, schedule: BOOLEAN]

VARIABLES tab,     \* the projects whose lines are in the crontab
          cmd,     \* per process: its command
          faults,  \* failed calls of crontab so far
          mixed    \* history: commands that edit the crontab overlapped, died or failed

commandVars == <<tab, cmd, faults, mixed>>
fleetVars == <<registry, dir, txn, dead, late, stalls, tab, cmd, faults, mixed>>

CmdPhases == {"new", "tabread", "tabwrite", "commit", "committing", "end"}
CmdKinds == {"init", "enable", "disable", "fleet"}
Commands == [kind: CmdKinds \cup {"none"}, pc: CmdPhases, targets: SUBSET Slug, left: SUBSET Slug,
             now: SUBSET Slug, tab: SUBSET Slug, baseline: [Slug -> Entry],
             prune: BOOLEAN, schedule: BOOLEAN, staged: BOOLEAN]

NewCmd == [kind |-> "none", pc |-> "new", targets |-> {}, left |-> {}, now |-> {}, tab |-> {},
           baseline |-> [s \in Slug |-> "absent"],
           prune |-> FALSE, schedule |-> FALSE, staged |-> FALSE]

(* The registry, its lock and the commands keep their types. *)
FleetTypeOK ==
  /\ RegistryTypeOK
  /\ tab \subseteq Slug
  /\ cmd \in [Proc -> Commands]
  /\ faults \in 0 .. MaxTroubles
  /\ mixed \in BOOLEAN

FleetInit ==
  /\ RegistryInit
  /\ tab = {s \in Slug : registry[s] = "on"}
  /\ cmd = [p \in Proc |-> NewCmd]
  /\ faults = 0
  /\ mixed = FALSE

-----------------------------------------------------------------------------
CmdAt(p, pc) == p \notin dead /\ cmd[p].pc = pc
Working(p) == p \notin dead /\ cmd[p].pc \notin {"new", "end"}
EditsTab(c) == c.kind \in {"enable", "disable"} \/ (c.kind = "fleet" /\ c.schedule)

Registered == {s \in Slug : registry[s] # "absent"}

Trouble == Cardinality(dead) + stalls + faults < MaxTroubles

(* A command is started. *)
Given(p, c) ==
  /\ cmd[p].pc = "new" /\ c.kind \in Kinds
  /\ cmd' = [cmd EXCEPT ![p] = c]
  /\ mixed' = (mixed \/ (EditsTab(c) /\ \E q \in Proc : Working(q) /\ EditsTab(cmd[q])))
  /\ UNCHANGED <<registryVars, tab, faults>>

StartInit(p) ==
  \E s \in Slug : Given(p, [NewCmd EXCEPT !.kind = "init", !.pc = "commit", !.targets = {s}])

(* resolveProject: an unknown project ends the command. *)
StartEnable(p) ==
  \E s \in Registered : Given(p, [NewCmd EXCEPT !.kind = "enable", !.pc = "tabread",
                                                !.targets = {s}, !.left = {s}])

(* A project, or with --all those of this moment. *)
StartDisable(p) ==
  \E S \in {{s} : s \in Registered} \cup {Registered} :
    Given(p, [NewCmd EXCEPT !.kind = "disable", !.pc = IF S = {} THEN "commit" ELSE "tabread",
                            !.targets = S, !.left = S])

(* syncFleet with what it finds and its flags reads the registry for the    *)
(* enabled flags and, to prune, for comparison.  Nothing comes of it if a   *)
(* project has an error or none is found: to prune them all is refused.     *)
StartFleet(p) ==
  \E sync \in Syncs :
       Given(p, [NewCmd EXCEPT !.kind = "fleet", !.pc = "commit", !.targets = sync.found,
                               !.left = sync.found, !.prune = sync.prune,
                               !.schedule = sync.schedule, !.baseline = registry])

-----------------------------------------------------------------------------
(* What each command makes of the registry. *)
Sets(targets, value) == [s \in Slug |-> IF s \in targets THEN value ELSE "keep"]

\* Mutant: an enabled project stays so when its scheduler is not synchronized.
FlagStays(c, s) == IF c.baseline[s] = "on" THEN "on" ELSE "off"

(* A project that is enabled stays so only if its lines will be renewed. *)
FlagOf(c, s) == IF c.schedule /\ c.baseline[s] = "on" THEN "on" ELSE "off"

UpdateOf(c) ==
  CASE c.kind = "init" -> [Nothing EXCEPT !.to = Sets(c.targets, "off"), !.create = TRUE]
    [] c.kind = "enable" -> [Nothing EXCEPT !.to = Sets(c.targets, "on"), !.require = c.targets]
    [] c.kind = "disable" -> [Nothing EXCEPT !.to = Sets(c.targets, "off")]
    [] c.kind = "fleet" /\ c.staged -> [Nothing EXCEPT !.to = Sets(c.now, "on")]
    [] OTHER -> [to |-> [s \in Slug |->
                           IF s \in c.targets
                             THEN FlagOf(c, s)
                             ELSE IF c.prune THEN "absent" ELSE "keep"],
                 create |-> TRUE, require |-> {},
                 guarded |-> c.prune, baseline |-> c.baseline]

Commit(p) ==
  /\ CmdAt(p, "commit")
  /\ Open(p, UpdateOf(cmd[p]))
  /\ cmd' = [cmd EXCEPT ![p].pc = "committing"]
  /\ UNCHANGED <<tab, faults, mixed>>

(* A command after one of its projects: fleet goes on to the next one. *)
Ended == [NewCmd EXCEPT !.pc = "end"]
AfterProject(c) == IF c.kind = "fleet" /\ c.left # {} 
                     THEN [NewCmd EXCEPT !.kind = "fleet", !.pc = "tabread", !.left = c.left,
                                         !.schedule = TRUE, !.staged = TRUE]
                     ELSE Ended

(* The transaction is over.  fleet goes on with the scheduler of what it    *)
(* has found, unless the transaction of the topology threw.                 *)
Committed(p) ==
  /\ CmdAt(p, "committing") /\ txn[p].pc = "none"
  /\ LET c == cmd[p] IN
     cmd' = [cmd EXCEPT ![p] = IF ~c.staged /\ (txn[p].failed \/ ~c.schedule) THEN Ended ELSE AfterProject(c)]
  /\ UNCHANGED <<registryVars, tab, faults, mixed>>

-----------------------------------------------------------------------------
(* `crontab -l` of the adapter.  Its failure looks like an empty crontab. *)
TabRead(p) ==
  /\ CmdAt(p, "tabread")
  /\ \E s \in cmd[p].left, fails \in BOOLEAN :
       /\ fails => Trouble
       /\ cmd' = [cmd EXCEPT ![p].now = {s}, ![p].left = @ \ {s}, ![p].pc = "tabwrite",
                             ![p].tab = IF fails THEN {} ELSE tab]
       /\ faults' = IF fails THEN faults + 1 ELSE faults
       /\ mixed' = (mixed \/ fails)
  /\ UNCHANGED <<registryVars, tab>>

(* No trusted launcher or gh: enableScheduler throws before the crontab. *)
TabRefused(p) ==
  /\ CmdAt(p, "tabread") /\ cmd[p].kind # "disable"
  /\ \E s \in cmd[p].left :
       cmd' = [cmd EXCEPT ![p] = AfterProject([cmd[p] EXCEPT !.left = @ \ {s}])]
  /\ UNCHANGED <<registryVars, tab, faults, mixed>>

(* `crontab -`: what was read, without the lines of the project, and with   *)
(* those of its jobs unless it is disabled.                                 *)
TabWrite(p) ==
  /\ CmdAt(p, "tabwrite")
  /\ LET c == cmd[p] IN
       /\ tab' = IF c.kind = "disable" THEN c.tab \ c.now ELSE c.tab \cup c.now
       /\ cmd' = [cmd EXCEPT ![p].pc = IF c.kind = "disable" /\ c.left # {} THEN "tabread" ELSE "commit",
                             ![p].tab = {}]
  /\ UNCHANGED <<registryVars, faults, mixed>>

TabWriteFails(p) ==
  /\ CmdAt(p, "tabwrite") /\ Trouble
  /\ faults' = faults + 1
  /\ mixed' = TRUE
  /\ cmd' = [cmd EXCEPT ![p] = AfterProject(cmd[p])]
  /\ UNCHANGED <<registryVars, tab>>

-----------------------------------------------------------------------------
(* The steps of a transaction, as part of a command. *)
Transact(p) == TransactionStep(p) /\ UNCHANGED commandVars

Beat(p) == Heartbeat(p) /\ UNCHANGED commandVars

TimesOut(p) == /\ GiveUp(p)
               /\ mixed' = (mixed \/ EditsTab(cmd[p]))
               /\ UNCHANGED <<tab, cmd, faults>>

Dies(p) == /\ Working(p) /\ Trouble /\ Death(p)
           /\ mixed' = (mixed \/ EditsTab(cmd[p]))
           /\ cmd' = [cmd EXCEPT ![p] = Ended]
           /\ UNCHANGED <<tab, faults>>

Pauses(p) == /\ Trouble /\ Stall(p)
             /\ mixed' = TRUE
             /\ UNCHANGED <<tab, cmd, faults>>

Start(p) == StartInit(p) \/ StartEnable(p) \/ StartDisable(p) \/ StartFleet(p)

Work(p) == Commit(p) \/ Committed(p) \/ TabRead(p) \/ TabWrite(p)

FleetNext ==
  \E p \in Proc : \/ Start(p) \/ Work(p) \/ Transact(p) \/ TabRefused(p) \/ TabWriteFails(p)
                  \/ Beat(p) \/ TimesOut(p) \/ Dies(p) \/ Pauses(p)

(* A command that has begun runs on; nobody has to start one, and nothing  *)
(* has to fail.                                                             *)
FleetFairness == \A p \in Proc : WF_fleetVars(Work(p) \/ Transact(p))

FleetSpec == FleetInit /\ [][FleetNext]_fleetVars /\ FleetFairness

-----------------------------------------------------------------------------
(* What the registry calls enabled is in the crontab: whatever init, fleet  *)
(* and prune do to the registry meanwhile, and over any number of commands, *)
(* unless two of those that edit the crontab have overlapped or one has     *)
(* died or failed in the middle; a disable that works takes the lines away  *)
(* before the flag.                                                         *)
EnabledIsScheduled ==
  ~mixed /\ (\A p \in Proc : Working(p) => cmd[p].kind # "disable")
    => \A s \in Slug : registry[s] = "on" => s \in tab

(* A command comes to its end: the lock of a process that has died, with or *)
(* without its pid in it, while removing a dead one's or as an owner, does  *)
(* not keep the others waiting, and nobody has to give up.                  *)
CommandsEnd == \A p \in Proc : Working(p) ~> ~Working(p)
=============================================================================
