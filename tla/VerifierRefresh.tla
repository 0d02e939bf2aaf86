-------------------------- MODULE VerifierRefresh --------------------------
(***************************************************************************)
(* The verifier before a run (preflightVerifier of orchestrator/run.ts,    *)
(* agents/verifierFreshness.ts, orchestrator/verifierRefresh.ts).          *)
(*                                                                         *)
(* All projects of a machine use the one verifier that a global link       *)
(* names.  A run asks it for its provenance and compares it with the head  *)
(* of its main branch; with update.mode canonical-main, a run that finds   *)
(* it old builds that head aside, puts the link there, asks again, and if  *)
(* the answer is wrong tries to put it back.  Runs of different projects   *)
(* hold different run locks, so what serializes them is a lock beside the  *)
(* link (RunLock once more: here one step that takes a dead process's      *)
(* lock).                                                                  *)
(***************************************************************************)
EXTENDS Naturals, FiniteSets

CONSTANTS Proc,       \* the runs' processes
          Build,      \* the packages there can be
          Installed,  \* the one that is linked at first
          Manual,     \* one that a person links by hand
          None,       \* no process, no package
          MaxMain,    \* how often the verifier's main branch moves
          MaxCrashes  \* how many processes die

ASSUME VerifierAssumption == /\ {Installed, Manual} \subseteq Build
                             /\ Installed # Manual
                             /\ None \notin Proc \cup Build
                             /\ MaxMain \in Nat /\ MaxCrashes \in Nat

VARIABLES link,    \* the package the global link names
          package, \* the packages: how far, how good and of which commit
          main,    \* the head of main
          lock,    \* who has the update lock
          run,     \* per process: its run
          dead,    \* the processes that have crashed
          abandoned \* history: the builds that were left linked unexamined or rejected

vars == <<link, package, main, lock, run, dead, abandoned>>

(* good: says what it is.  odd: answers, but stale, dirty or of another     *)
(* commit.  mute: no structured answer.                                     *)
Qualities == {"good", "odd", "mute"}
Packages == [state: {"absent", "partial", "whole"}, quality: Qualities, commit: 0 .. MaxMain]
Stages == {"new", "resolve", "acquire", "build", "compare", "swap", "validate", "undo", "restore",
           "release", "work", "stopped"}
Runs == [at: Stages, expected: 0 .. MaxMain, previous: Build \cup {None}, mine: Build \cup {None}]

NoPackage == [state |-> "absent", quality |-> "good", commit |-> 0]
NewRun == [at |-> "new", expected |-> 0, previous |-> None, mine |-> None]

(* The link, the packages, the lock and the runs keep their types. *)
TypeOK == /\ link \in Build
          /\ package \in [Build -> Packages]
          /\ main \in 0 .. MaxMain
          /\ lock \in Proc \cup {None}
          /\ run \in [Proc -> Runs]
          /\ dead \subseteq Proc
          /\ abandoned \subseteq Build

Init == /\ link = Installed
        /\ package = [b \in Build |-> IF b \in {Installed, Manual} THEN [NoPackage EXCEPT !.state = "whole"]
                                       ELSE NoPackage]
        /\ main = 0
        /\ lock = None
        /\ run = [p \in Proc |-> NewRun]
        /\ dead = {} /\ abandoned = {}

At(p, stage) == p \notin dead /\ run[p].at = stage
Goes(p, stage) == run' = [run EXCEPT ![p].at = stage]

(* verifierRuntimeFailure is undefined: structured, clean, and of the commit. *)
Current(b, commit) == package[b].quality = "good" /\ package[b].commit = commit

-----------------------------------------------------------------------------
(* resolveExpectedVerifierCommit and inspectRuntime, by way of the link.    *)
(* What does not answer is not refreshed.                                   *)
Inspect(p) ==
  /\ At(p, "new")
  /\ LET at == IF Current(link, main) THEN "work"
               ELSE IF package[link].quality = "mute" THEN "stopped" ELSE "resolve" IN
     run' = [run EXCEPT ![p] = [NewRun EXCEPT !.at = at, !.expected = main,
                                              !.previous = IF at = "resolve" THEN link ELSE None]]
  /\ UNCHANGED <<link, package, main, lock, dead, abandoned>>

(* resolveGlobalVerifierLink: is it still the one that has answered? *)
Resolve(p) ==
  /\ At(p, "resolve")
  /\ Goes(p, IF link = run[p].previous THEN "acquire" ELSE "stopped")
  /\ UNCHANGED <<link, package, main, lock, dead, abandoned>>

\* Mutant: every process has a lock of its own.
HeldByNobody == TRUE

(* The file is absent, or its process dead. *)
LockIsFree == lock = None \/ lock \in dead

(* A live holder ends the run. *)
Acquire(p) ==
  /\ At(p, "acquire")
  /\ IF LockIsFree
       THEN lock' = p /\ Goes(p, "build")
       ELSE lock' = lock /\ Goes(p, "stopped")
  /\ UNCHANGED <<link, package, main, dead, abandoned>>

(* The clone, in a directory of its own. *)
Clone(p) ==
  /\ At(p, "build") /\ run[p].mine = None
  /\ \E b \in Build :
       /\ package[b].state = "absent"
       /\ package' = [package EXCEPT ![b] = [NoPackage EXCEPT !.state = "partial", !.commit = run[p].expected]]
       /\ run' = [run EXCEPT ![p].mine = b]
  /\ UNCHANGED <<link, main, lock, dead, abandoned>>

(* checkout, install, build and the marker.  What main makes is not known   *)
(* before it is asked.                                                      *)
Finish(p) ==
  /\ At(p, "build") /\ run[p].mine # None
  /\ \E quality \in Qualities :
       package' = [package EXCEPT ![run[p].mine].state = "whole", ![run[p].mine].quality = quality]
  /\ Goes(p, "compare")
  /\ UNCHANGED <<link, main, lock, dead, abandoned>>

\* Mutant: the validation too is inside of the try that removes the build.
DiscardsLate(p) == At(p, "compare") \/ At(p, "swap") \/ At(p, "validate")

(* Where an error removes the build again. *)
Discards(p) == At(p, "build") \/ At(p, "compare") \/ At(p, "swap")

(* A step of the refresh fails: it leaves neither its build nor its lock.   *)
Fail(p) ==
  /\ Discards(p) /\ run[p].mine # None
  /\ package' = [package EXCEPT ![run[p].mine] = NoPackage]
  /\ lock' = None
  /\ run' = [run EXCEPT ![p] = [NewRun EXCEPT !.at = "stopped"]]
  /\ UNCHANGED <<link, main, dead, abandoned>>

(* replaceGlobalVerifierLink compares ... *)
Compare(p) ==
  /\ At(p, "compare")
  /\ link = run[p].previous
  /\ Goes(p, "swap")
  /\ UNCHANGED <<link, package, main, lock, dead, abandoned>>

(* ... and renames. *)
Swap(p) ==
  /\ At(p, "swap")
  /\ link' = run[p].mine
  /\ Goes(p, "validate")
  /\ UNCHANGED <<package, main, lock, dead, abandoned>>

(* The second inspection, and pinnedVerifierExecutable. *)
Valid(p) == Current(link, run[p].expected) /\ link = run[p].mine

Validate(p) ==
  /\ At(p, "validate")
  /\ Goes(p, IF Valid(p) THEN "release" ELSE "undo")
  /\ UNCHANGED <<link, package, main, lock, dead, abandoned>>

(* Its own build, as long as the link names it. *)
StillLinked(p) == {run[p].mine} \cap {link}

(* rollback: replaceGlobalVerifierLink compares the other way round, ...    *)
CompareBack(p) ==
  /\ At(p, "undo") /\ link = run[p].mine
  /\ Goes(p, "restore")
  /\ UNCHANGED <<link, package, main, lock, dead, abandoned>>

(* ... and renames. *)
Rollback(p) ==
  /\ At(p, "restore")
  /\ link' = run[p].previous
  /\ run' = [run EXCEPT ![p] = [@ EXCEPT !.at = "release", !.mine = None]]
  /\ UNCHANGED <<package, main, lock, dead, abandoned>>

(* The comparison or a system call throws (rollback-failed): the link is as *)
(* it is.                                                                   *)
RollbackFails(p) ==
  /\ At(p, "undo") \/ At(p, "restore")
  /\ abandoned' = abandoned \cup StillLinked(p)
  /\ run' = [run EXCEPT ![p] = [@ EXCEPT !.at = "release", !.mine = None]]
  /\ UNCHANGED <<link, package, main, lock, dead>>

(* refresh.release in the finally; the run goes on with its own build. *)
Release(p) ==
  /\ At(p, "release")
  /\ lock' = None
  /\ Goes(p, IF run[p].mine # None THEN "work" ELSE "stopped")
  /\ UNCHANGED <<link, package, main, dead, abandoned>>
-----------------------------------------------------------------------------
(* The next run of a project. *)
Again(p) == /\ At(p, "work") \/ At(p, "stopped")
            /\ run' = [run EXCEPT ![p] = NewRun]
            /\ UNCHANGED <<link, package, main, lock, dead, abandoned>>

MainMoves == /\ main < MaxMain
             /\ main' = main + 1
             /\ UNCHANGED <<link, package, lock, run, dead, abandoned>>

(* A person links a package of their own. *)
Relink == /\ link # Manual
          /\ link' = Manual
          /\ UNCHANGED <<package, main, lock, run, dead, abandoned>>

Crash(p) == /\ p \notin dead /\ Cardinality(dead) < MaxCrashes
            /\ dead' = dead \cup {p}
            /\ run' = [run EXCEPT ![p] = NewRun]
            /\ abandoned' = IF At(p, "validate") \/ At(p, "undo") \/ At(p, "restore")
                            THEN abandoned \cup StillLinked(p) ELSE abandoned
            /\ UNCHANGED <<link, package, main, lock>>

Next == \/ \E p \in Proc : \/ Inspect(p) \/ Resolve(p) \/ Acquire(p) \/ Clone(p) \/ Finish(p)
                             \/ Fail(p) \/ Compare(p) \/ Swap(p) \/ Validate(p) \/ CompareBack(p)
                             \/ Rollback(p) \/ RollbackFails(p) \/ Release(p) \/ Again(p) \/ Crash(p)
        \/ MainMoves \/ Relink

Spec == Init /\ [][Next]_vars

-----------------------------------------------------------------------------
(* The link, and the build that a run has pinned, are whole: no failure, no *)
(* crash and no refresh of another project removes a package in use or puts *)
(* the link to one that is not finished.                                    *)
InUseIsWhole ==
  /\ package[link].state = "whole"
  /\ \A p \in Proc : At(p, "work") /\ run[p].mine # None =>
       package[run[p].mine].state = "whole" /\ Current(run[p].mine, run[p].expected)

(* When no refresh is under way the link names a package that is what it    *)
(* says: one that does not pass its validation is followed by the one       *)
(* before, even if others have been built or linked meanwhile.  Only a      *)
(* build whose maker died before that, or failed to undo it, stays linked   *)
(* as it is: the lock is given back all the same.                           *)
LinkTrusted ==
  lock = None \/ lock \in dead => package[link].quality = "good" \/ link \in abandoned
=============================================================================
