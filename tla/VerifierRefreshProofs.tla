----------------------- MODULE VerifierRefreshProofs -----------------------
(***************************************************************************)
(* Proofs about VerifierRefresh, for any processes, packages and crashes:  *)
(* types, that what is linked or pinned is whole, and that the link can be *)
(* trusted when nobody refreshes, unless it is an abandoned build.         *)
(***************************************************************************)
EXTENDS VerifierRefresh, TLAPS

InUpdate == {"build", "compare", "swap", "validate", "undo", "restore", "release"}
Building == {"build", "compare", "swap"}
Trying == {"validate", "undo", "restore"}

(* A crashed process has no run, a refresh holds the lock. *)
DeadIdle == \A p \in Proc : p \in dead => run[p] = NewRun
OneRefresh == \A p \in Proc : run[p].at \in InUpdate => lock = p

(* Who has seen which package, and has one of its own. *)
Placed == \A p \in Proc :
  /\ run[p].at \in {"new", "resolve", "acquire", "stopped"} => run[p].mine = None
  /\ run[p].at \in {"resolve", "acquire", "build", "compare", "swap", "validate", "undo", "restore"} => run[p].previous # None
  /\ run[p].at \in {"compare", "swap", "validate", "undo", "restore"} => run[p].mine # None

(* What is being built is nobody else's, and nothing that is linked or may  *)
(* be linked again.                                                         *)
OwnBuild == \A p \in Proc : run[p].at \in Building /\ run[p].mine # None =>
  /\ run[p].mine # link /\ run[p].mine # Manual
  /\ \A q \in Proc : run[q].previous # run[p].mine
  /\ \A q \in Proc \ {p} : run[q].mine # run[p].mine

WholePackages ==
  /\ package[link].state = "whole" /\ package[Manual].state = "whole"
  /\ \A p \in Proc : run[p].previous # None => package[run[p].previous].state = "whole"
  /\ \A p \in Proc : run[p].mine # None => /\ package[run[p].mine].state # "absent"
                                           /\ run[p].at # "build" => package[run[p].mine].state = "whole"

Pinned == \A p \in Proc : run[p].at \in {"release", "work"} /\ run[p].mine # None =>
            Current(run[p].mine, run[p].expected)

(* A link that is not good is abandoned, or its maker still has to validate *)
(* or to undo it, and the one before it was good or abandoned.              *)
OnTrial == \E p \in Proc : run[p].at \in Trying /\ link = run[p].mine
Trusted(b) == package[b].quality = "good" \/ b \in abandoned

Good ==
  /\ package[Manual].quality = "good"
  /\ Trusted(link) \/ OnTrial
  /\ \A p \in Proc : run[p].at \in {"swap", "validate", "undo", "restore"} => Trusted(run[p].previous)

Inv == TypeOK /\ DeadIdle /\ OneRefresh /\ Placed /\ OwnBuild /\ WholePackages /\ Pinned /\ Good

-----------------------------------------------------------------------------
LEMMA NewRunType ==
  /\ NewRun \in Runs /\ NewRun.at = "new" /\ NewRun.previous = None /\ NewRun.mine = None
  /\ NoPackage \in Packages
BY VerifierAssumption DEF NewRun, Runs, Stages, NoPackage, Packages, Qualities

LEMMA InitInv == Init => Inv
<1> SUFFICES ASSUME Init PROVE Inv
  OBVIOUS
<1>1. \A p \in Proc : run[p] = NewRun
  BY DEF Init
<1>2. \A b \in {Installed, Manual} : package[b].state = "whole" /\ package[b].quality = "good"
  BY VerifierAssumption DEF Init, NoPackage
<1>3. TypeOK
  <2>1. [NoPackage EXCEPT !.state = "whole"] \in Packages
    BY NewRunType DEF Packages
  <2>2. package \in [Build -> Packages]
    BY <2>1, NewRunType DEF Init
  <2> QED
    BY <2>2, NewRunType, VerifierAssumption DEF Init, TypeOK
<1>4. DeadIdle /\ OneRefresh /\ Placed /\ OwnBuild /\ Pinned
  BY <1>1, NewRunType DEF DeadIdle, OneRefresh, Placed, OwnBuild, Pinned, InUpdate, Building
<1>5. WholePackages
  BY <1>1, <1>2, NewRunType DEF WholePackages, Init
<1>6. Good
  BY <1>1, <1>2, NewRunType DEF Good, Trusted, Init
<1> QED
  BY <1>3, <1>4, <1>5, <1>6 DEF Inv

-----------------------------------------------------------------------------
(* A step of one run. *)
LEMMA OneRun ==
  ASSUME Inv, NEW p \in Proc, NEW r \in Runs, run' = [run EXCEPT ![p] = r]
  PROVE  /\ run' \in [Proc -> Runs]
         /\ \A q \in Proc : run'[q] = IF q = p THEN r ELSE run[q]
BY DEF Inv, TypeOK

LEMMA RunFields ==
  ASSUME Inv, NEW p \in Proc
  PROVE  /\ run[p] \in Runs /\ run[p].at \in Stages /\ run[p].expected \in 0 .. MaxMain
         /\ run[p].previous \in Build \cup {None} /\ run[p].mine \in Build \cup {None}
         /\ \A at \in Stages : /\ [run[p] EXCEPT !.at = at] \in Runs
                               /\ [run[p] EXCEPT !.at = at].at = at
                               /\ [run[p] EXCEPT !.at = at].mine = run[p].mine
                               /\ [run[p] EXCEPT !.at = at].previous = run[p].previous
                               /\ [run[p] EXCEPT !.at = at].expected = run[p].expected
BY DEF Inv, TypeOK, Runs

(* Only one refresh is under way at a time. *)
LEMMA Lonely ==
  ASSUME Inv, NEW p \in Proc, run[p].at \in InUpdate, NEW q \in Proc, run[q].at \in InUpdate
  PROVE  q = p
BY DEF Inv, OneRefresh

(* A step of one run that touches neither packages nor link: a build that   *)
(* was on trial still is, or can be trusted, or is abandoned.               *)
LEMMA Moves ==
  ASSUME Inv, NEW p \in Proc, NEW r \in Runs, run' = [run EXCEPT ![p] = r],
         UNCHANGED <<link, package, main>>, lock' \in Proc \cup {None}, dead' \subseteq Proc,
         p \in dead' => r = NewRun, dead \subseteq dead', dead' \subseteq dead \cup {p},
         \A q \in Proc \ {p} : run[q].at \in InUpdate => lock' = q,
         r.at \in InUpdate => lock' = p,
         r.at \in {"new", "resolve", "acquire", "stopped"} => r.mine = None,
         r.at \in {"resolve", "acquire", "build", "compare", "swap", "validate", "undo", "restore"} => r.previous # None,
         r.at \in {"compare", "swap", "validate", "undo", "restore"} => r.mine # None,
         r.previous \in {run[p].previous, link, None},
         r.mine \in {run[p].mine, None},
         r.at \in Building /\ r.mine # None => run[p].at \in Building,
         r.mine # None /\ r.at # "build" => run[p].at # "build",
         r.at \in {"release", "work"} /\ r.mine # None => Current(r.mine, r.expected),
         abandoned \subseteq abandoned', abandoned' \subseteq Build,
         run[p].at \in Trying /\ link = run[p].mine =>
           Trusted(link) \/ link \in abandoned' \/ (r.at \in Trying /\ r.mine = link),
         r.at \in {"swap", "validate", "undo", "restore"} => Trusted(r.previous)
  PROVE  Inv'
<1>1. run' \in [Proc -> Runs] /\ \A q \in Proc : run'[q] = IF q = p THEN r ELSE run[q]
  BY OneRun
<1>2. TypeOK'
  BY <1>1 DEF Inv, TypeOK
<1>3. DeadIdle'
  BY <1>1 DEF Inv, DeadIdle
<1>4. OneRefresh'
  BY <1>1 DEF Inv, OneRefresh
<1>5. Placed'
  BY <1>1 DEF Inv, Placed
<1>6. OwnBuild'
  <2> SUFFICES ASSUME NEW a \in Proc, run'[a].at \in Building, run'[a].mine # None
               PROVE  /\ run'[a].mine # link /\ run'[a].mine # Manual
                      /\ \A q \in Proc : run'[q].previous # run'[a].mine
                      /\ \A q \in Proc \ {a} : run'[q].mine # run'[a].mine
    BY DEF OwnBuild
  <2>1. run[a].at \in Building /\ run[a].mine = run'[a].mine
    BY <1>1
  <2>2. /\ run[a].mine # link /\ run[a].mine # Manual
        /\ \A q \in Proc : run[q].previous # run[a].mine
        /\ \A q \in Proc \ {a} : run[q].mine # run[a].mine
    BY <2>1 DEF Inv, OwnBuild
  <2> QED
    BY <1>1, <2>1, <2>2
<1>7. WholePackages'
  <2>1. \A q \in Proc : run'[q].previous # None => package[run'[q].previous].state = "whole"
    BY <1>1 DEF Inv, WholePackages
  <2>2. \A q \in Proc : run'[q].mine # None => /\ package[run'[q].mine].state # "absent"
                                               /\ run'[q].at # "build" => package[run'[q].mine].state = "whole"
    BY <1>1 DEF Inv, WholePackages
  <2> QED
    BY <2>1, <2>2 DEF Inv, WholePackages
<1>8. Pinned'
  BY <1>1 DEF Inv, Pinned, Current
<1>9. Good'
  <2>1. \A b : Trusted(b) => Trusted(b)'
    BY DEF Trusted
  <2>2. \A q \in Proc : run'[q].at \in {"swap", "validate", "undo", "restore"} => Trusted(run[q].previous)'
    <3>1. \A q \in Proc : run'[q].at \in {"swap", "validate", "undo", "restore"} => Trusted(run'[q].previous)
      BY <1>1 DEF Inv, Good
    <3>2. \A q \in Proc : Trusted(run'[q].previous) => Trusted(run[q].previous)'
      BY DEF Trusted
    <3> QED
      BY <3>1, <3>2
  <2>3. Trusted(link)' \/ OnTrial'
    <3>1. CASE Trusted(link)
      BY <3>1 DEF Trusted
    <3>2. CASE ~Trusted(link)
      <4>1. PICK q \in Proc : run[q].at \in Trying /\ link = run[q].mine
        BY <3>2 DEF Inv, Good, OnTrial
      <4>2. (run'[q].at \in Trying /\ link = run'[q].mine) \/ link \in abandoned'
        BY <1>1, <3>2, <4>1
      <4> QED
        BY <4>2 DEF OnTrial, Trusted
    <3> QED
      BY <3>1, <3>2
  <2> QED
    BY <2>2, <2>3 DEF Inv, Good
<1> QED
  BY <1>2, <1>3, <1>4, <1>5, <1>6, <1>7, <1>8, <1>9 DEF Inv

-----------------------------------------------------------------------------
LEMMA InspectKeeps == ASSUME Inv, NEW p \in Proc, Inspect(p) PROVE Inv'
<1> DEFINE at == IF Current(link, main) THEN "work"
                 ELSE IF package[link].quality = "mute" THEN "stopped" ELSE "resolve"
           r == [NewRun EXCEPT !.at = at, !.expected = main,
                               !.previous = IF at = "resolve" THEN link ELSE None]
<1>1. /\ r \in Runs /\ r.at = at /\ r.mine = None
      /\ r.previous = IF at = "resolve" THEN link ELSE None
  BY VerifierAssumption DEF NewRun, Runs, Stages, Inv, TypeOK
<1>2. run' = [run EXCEPT ![p] = r] /\ UNCHANGED <<link, package, main, lock, dead, abandoned>>
  BY DEF Inspect
<1>3. p \notin dead /\ run[p].at = "new"
  BY DEF Inspect, At
<1>4. at \in {"work", "stopped", "resolve"}
  OBVIOUS
<1>5. link # None
  BY VerifierAssumption DEF Inv, TypeOK
<1> HIDE DEF r, at
<1>6. \A q \in Proc \ {p} : run[q].at \in InUpdate => lock' = q
  BY <1>2 DEF Inv, OneRefresh
<1> QED
  BY <1>1, <1>2, <1>3, <1>4, <1>5, <1>6, Moves DEF Inv, TypeOK, InUpdate, Building, Trying

LEMMA ResolveKeeps == ASSUME Inv, NEW p \in Proc, Resolve(p) PROVE Inv'
<1>1. p \notin dead /\ run[p].at = "resolve" /\ run[p].mine = None /\ run[p].previous # None
  BY DEF Resolve, At, Inv, Placed
<1>2. PICK at \in {"acquire", "stopped"} : Goes(p, at)
  BY DEF Resolve
<1> DEFINE r == [run[p] EXCEPT !.at = at]
<1>3. run' = [run EXCEPT ![p] = r] /\ UNCHANGED <<link, package, main, lock, dead, abandoned>>
  BY <1>2 DEF Resolve, Goes
<1>4. r \in Runs /\ r.at = at /\ r.mine = run[p].mine /\ r.previous = run[p].previous
  <2>1. at \in Stages
    BY <1>2 DEF Stages
  <2> QED
    BY <2>1, RunFields DEF Runs
<1> HIDE DEF r
<1>6. \A q \in Proc \ {p} : run[q].at \in InUpdate => lock' = q
  BY <1>3 DEF Inv, OneRefresh
<1> QED
  BY <1>1, <1>3, <1>4, <1>6, Moves DEF Inv, TypeOK, InUpdate, Building, Trying

(* The lock that is taken is nobody's, for its holder would have a run.     *)
LEMMA AcquireKeeps == ASSUME Inv, NEW p \in Proc, Acquire(p) PROVE Inv'
<1>1. p \notin dead /\ run[p].at = "acquire" /\ run[p].mine = None /\ run[p].previous # None
  BY DEF Acquire, At, Inv, Placed
<1>2. PICK at \in {"build", "stopped"} : /\ Goes(p, at)
                                         /\ at = "build" => LockIsFree /\ lock' = p
                                         /\ at = "stopped" => lock' = lock
  BY DEF Acquire
<1> DEFINE r == [run[p] EXCEPT !.at = at]
<1>3. run' = [run EXCEPT ![p] = r] /\ UNCHANGED <<link, package, main, dead, abandoned>>
  BY <1>2 DEF Acquire, Goes
<1>4. r \in Runs /\ r.at = at /\ r.mine = run[p].mine /\ r.previous = run[p].previous
  <2>1. at \in Stages
    BY <1>2 DEF Stages
  <2> QED
    BY <2>1, RunFields DEF Runs
<1>5. \A q \in Proc \ {p} : run[q].at \in InUpdate => lock' = q
  <2> SUFFICES ASSUME NEW q \in Proc, run[q].at \in InUpdate, lock' # q PROVE FALSE
    OBVIOUS
  <2>1. lock = q
    BY DEF Inv, OneRefresh
  <2>2. at = "build" /\ LockIsFree
    BY <1>2, <2>1
  <2>3. q \in dead
    BY <2>1, <2>2, VerifierAssumption DEF LockIsFree
  <2> QED
    BY <2>3, NewRunType DEF Inv, DeadIdle, InUpdate
<1>6. lock' \in Proc \cup {None}
  BY <1>2 DEF Inv, TypeOK
<1> HIDE DEF r
<1> QED
  BY <1>1, <1>2, <1>3, <1>4, <1>5, <1>6, Moves DEF Inv, TypeOK, InUpdate, Building, Trying

(* The package that the swap replaces is the one that was compared: good,   *)
(* since nobody else is in a refresh.                                       *)
LEMMA CompareKeeps == ASSUME Inv, NEW p \in Proc, Compare(p) PROVE Inv'
<1>1. /\ p \notin dead /\ run[p].at = "compare" /\ run[p].mine # None /\ run[p].previous # None
      /\ link = run[p].previous
  BY DEF Compare, At, Inv, Placed
<1> DEFINE r == [run[p] EXCEPT !.at = "swap"]
<1>2. run' = [run EXCEPT ![p] = r] /\ UNCHANGED <<link, package, main, lock, dead, abandoned>>
  BY DEF Compare, Goes
<1>3. r \in Runs /\ r.at = "swap" /\ r.mine = run[p].mine /\ r.previous = run[p].previous
  BY RunFields DEF Stages
<1>4. ~OnTrial
  <2> SUFFICES ASSUME NEW q \in Proc, run[q].at \in Trying PROVE FALSE
    BY DEF OnTrial
  <2>1. q = p
    BY <1>1, Lonely DEF InUpdate, Trying
  <2> QED
    BY <1>1, <2>1 DEF Trying
<1>5. Trusted(link)
  BY <1>4 DEF Inv, Good
<1>6. \A q \in Proc : run[q].at \in InUpdate => lock' = q
  BY <1>2 DEF Inv, OneRefresh
<1> HIDE DEF r
<1> QED
  BY <1>1, <1>2, <1>3, <1>5, <1>6, Moves DEF Inv, TypeOK, InUpdate, Building, Trying

LEMMA ValidateKeeps == ASSUME Inv, NEW p \in Proc, Validate(p) PROVE Inv'
<1>1. p \notin dead /\ run[p].at = "validate" /\ run[p].mine # None /\ run[p].previous # None
  BY DEF Validate, At, Inv, Placed
<1>2. PICK at \in {"release", "undo"} : Goes(p, at) /\ (at = "release" => Valid(p))
  BY DEF Validate
<1> DEFINE r == [run[p] EXCEPT !.at = at]
<1>3. run' = [run EXCEPT ![p] = r] /\ UNCHANGED <<link, package, main, lock, dead, abandoned>>
  BY <1>2 DEF Validate, Goes
<1>4. /\ r \in Runs /\ r.at = at /\ r.mine = run[p].mine /\ r.previous = run[p].previous
      /\ r.expected = run[p].expected
  <2>1. at \in Stages
    BY <1>2 DEF Stages
  <2> QED
    BY <2>1, RunFields DEF Runs
<1>5. at = "release" => Current(r.mine, r.expected) /\ Trusted(link)
  BY <1>2, <1>4 DEF Valid, Current, Trusted
<1>6. \A q \in Proc : run[q].at \in InUpdate => lock' = q
  BY <1>3 DEF Inv, OneRefresh
<1>7. Trusted(run[p].previous)
  BY <1>1 DEF Inv, Good
<1> HIDE DEF r
<1> QED
  BY <1>1, <1>3, <1>4, <1>5, <1>6, <1>7, Moves DEF Inv, TypeOK, InUpdate, Building, Trying

LEMMA ReleaseKeeps == ASSUME Inv, NEW p \in Proc, Release(p) PROVE Inv'
<1>1. p \notin dead /\ run[p].at = "release"
  BY DEF Release, At
<1> DEFINE at == IF run[p].mine # None THEN "work" ELSE "stopped"
           r == [run[p] EXCEPT !.at = at]
<1>2. run' = [run EXCEPT ![p] = r] /\ UNCHANGED <<link, package, main, dead, abandoned>> /\ lock' = None
  BY DEF Release, Goes
<1>3. /\ r \in Runs /\ r.at = at /\ r.mine = run[p].mine /\ r.previous = run[p].previous
      /\ r.expected = run[p].expected
  <2>1. at \in Stages
    BY DEF Stages
  <2> HIDE DEF at
  <2> QED
    BY <2>1, RunFields DEF Runs
<1>4. \A q \in Proc \ {p} : run[q].at \notin InUpdate
  BY <1>1, Lonely DEF InUpdate
<1>5. run[p].mine # None => Current(run[p].mine, run[p].expected)
  BY <1>1 DEF Inv, Pinned
<1>6. (at = "work" => run[p].mine # None) /\ (at = "stopped" => run[p].mine = None) /\ at \in {"work", "stopped"}
  OBVIOUS
<1> HIDE DEF r, at
<1> QED
  BY <1>1, <1>2, <1>3, <1>4, <1>5, <1>6, Moves DEF Inv, TypeOK, InUpdate, Building, Trying

LEMMA AgainKeeps == ASSUME Inv, NEW p \in Proc, Again(p) PROVE Inv'
<1>1. p \notin dead /\ run[p].at \in {"work", "stopped"}
  BY DEF Again, At
<1>2. run' = [run EXCEPT ![p] = NewRun] /\ UNCHANGED <<link, package, main, lock, dead, abandoned>>
  BY DEF Again
<1>3. \A q \in Proc : run[q].at \in InUpdate => lock' = q
  BY <1>2 DEF Inv, OneRefresh
<1> QED
  BY <1>1, <1>2, <1>3, NewRunType, Moves DEF Inv, TypeOK, InUpdate, Building, Trying

LEMMA CrashKeeps == ASSUME Inv, NEW p \in Proc, Crash(p) PROVE Inv'
<1>1. /\ run' = [run EXCEPT ![p] = NewRun] /\ UNCHANGED <<link, package, main, lock>>
      /\ dead' = dead \cup {p} /\ p \notin dead
  BY DEF Crash
<1>2. \A q \in Proc : run[q].at \in InUpdate => lock' = q
  BY <1>1 DEF Inv, OneRefresh
<1>3. dead' \subseteq Proc
  BY <1>1 DEF Inv, TypeOK
<1>4. /\ abandoned \subseteq abandoned' /\ abandoned' \subseteq Build
      /\ run[p].at \in Trying /\ link = run[p].mine => link \in abandoned'
  BY <1>1 DEF Crash, At, StillLinked, Trying, Inv, TypeOK
<1> QED
  BY <1>1, <1>2, <1>3, <1>4, NewRunType, Moves DEF Inv, TypeOK, InUpdate, Building, Trying

(* Of the rollback: its comparison, and its failure, after which the build  *)
(* is abandoned if it is still linked.                                      *)
LEMMA CompareBackKeeps == ASSUME Inv, NEW p \in Proc, CompareBack(p) PROVE Inv'
<1>1. /\ p \notin dead /\ run[p].at = "undo" /\ run[p].mine # None /\ run[p].previous # None
      /\ Trusted(run[p].previous)
  BY DEF CompareBack, At, Inv, Placed, Good
<1> DEFINE r == [run[p] EXCEPT !.at = "restore"]
<1>2. run' = [run EXCEPT ![p] = r] /\ UNCHANGED <<link, package, main, lock, dead, abandoned>>
  BY DEF CompareBack, Goes
<1>3. r \in Runs /\ r.at = "restore" /\ r.mine = run[p].mine /\ r.previous = run[p].previous
  BY RunFields DEF Stages
<1>4. \A q \in Proc : run[q].at \in InUpdate => lock' = q
  BY <1>2 DEF Inv, OneRefresh
<1> HIDE DEF r
<1> QED
  BY <1>1, <1>2, <1>3, <1>4, Moves DEF Inv, TypeOK, InUpdate, Building, Trying

LEMMA GivesUp ==
  ASSUME Inv, NEW p \in Proc
  PROVE  LET r == [run[p] EXCEPT !.at = "release", !.mine = None]
         IN  r \in Runs /\ r.at = "release" /\ r.mine = None /\ r.previous = run[p].previous
<1> DEFINE r == [run[p] EXCEPT !.at = "release", !.mine = None]
           k == [run[p] EXCEPT !.at = "release"]
<1>1. k \in Runs /\ k.at = "release" /\ k.previous = run[p].previous
  BY RunFields DEF Runs, Stages
<1>2. r = [k EXCEPT !.mine = None]
  BY RunFields DEF Runs
<1> HIDE DEF k, r
<1>3. r \in Runs /\ r.at = "release" /\ r.mine = None /\ r.previous = run[p].previous
  BY <1>1, <1>2 DEF Runs
<1> QED
  BY <1>3 DEF r

LEMMA RollbackFailsKeeps == ASSUME Inv, NEW p \in Proc, RollbackFails(p) PROVE Inv'
<1>1. p \notin dead /\ run[p].at \in {"undo", "restore"} /\ run[p].mine # None
  BY DEF RollbackFails, At, Inv, Placed
<1> DEFINE r == [run[p] EXCEPT !.at = "release", !.mine = None]
<1>2. run' = [run EXCEPT ![p] = r] /\ UNCHANGED <<link, package, main, lock, dead>>
  BY DEF RollbackFails
<1>3. r \in Runs /\ r.at = "release" /\ r.mine = None /\ r.previous = run[p].previous
  BY GivesUp
<1>4. /\ abandoned \subseteq abandoned' /\ abandoned' \subseteq Build
      /\ link = run[p].mine => link \in abandoned'
  BY DEF RollbackFails, StillLinked, Inv, TypeOK
<1>5. \A q \in Proc : run[q].at \in InUpdate => lock' = q
  BY <1>2 DEF Inv, OneRefresh
<1> HIDE DEF r
<1> QED
  BY <1>1, <1>2, <1>3, <1>4, <1>5, Moves DEF Inv, TypeOK, InUpdate, Building, Trying

-----------------------------------------------------------------------------
(* A clone takes a package that is not there: one that nobody links, has    *)
(* seen or has.                                                             *)
LEMMA CloneKeeps == ASSUME Inv, NEW p \in Proc, Clone(p) PROVE Inv'
<1>1. run[p].at = "build" /\ run[p].mine = None /\ UNCHANGED <<link, main, lock, dead, abandoned>> /\ p \notin dead
  BY DEF Clone, At
<1>2. PICK b \in Build :
        /\ package[b].state = "absent"
        /\ package' = [package EXCEPT ![b] = [NoPackage EXCEPT !.state = "partial", !.commit = run[p].expected]]
        /\ run' = [run EXCEPT ![p].mine = b]
  BY DEF Clone
<1> DEFINE r == [run[p] EXCEPT !.mine = b]
           new == [NoPackage EXCEPT !.state = "partial", !.commit = run[p].expected]
<1>3. r \in Runs /\ r.at = "build" /\ r.mine = b /\ r.previous = run[p].previous
  BY <1>1, RunFields DEF Runs
<1>4. new \in Packages /\ new.state = "partial"
  BY RunFields DEF NoPackage, Packages, Qualities
<1>5. /\ run' \in [Proc -> Runs] /\ \A q \in Proc : run'[q] = IF q = p THEN r ELSE run[q]
      /\ run' = [run EXCEPT ![p] = r]
  BY <1>2, <1>3, OneRun
<1>6. package' \in [Build -> Packages] /\ \A d \in Build : package'[d] = IF d = b THEN new ELSE package[d]
  BY <1>2, <1>4 DEF Inv, TypeOK
<1> HIDE DEF r, new
<1>7. /\ b # link /\ b # Manual /\ b # None
      /\ \A q \in Proc : run[q].previous # b /\ run[q].mine # b
  BY <1>2, VerifierAssumption DEF Inv, WholePackages
<1>8. /\ link \in Build /\ Manual \in Build
      /\ \A q \in Proc : run[q].previous \in Build \cup {None} /\ run[q].mine \in Build \cup {None}
  BY RunFields, VerifierAssumption DEF Inv, TypeOK
<1>9. TypeOK'
  BY <1>1, <1>5, <1>6 DEF Inv, TypeOK
<1>10. DeadIdle' /\ OneRefresh' /\ Placed'
  <2>1. run[p].previous # None /\ lock = p
    BY <1>1 DEF Inv, Placed, OneRefresh, InUpdate
  <2> QED
    BY <1>1, <1>3, <1>5, <1>7, <2>1 DEF Inv, DeadIdle, OneRefresh, Placed, InUpdate
<1>11. OwnBuild'
  <2>1. \A q \in Proc \ {p} : run'[q].at \notin Building
    BY <1>1, <1>5, Lonely DEF InUpdate, Building
  <2> QED
    BY <1>1, <1>3, <1>5, <1>7, <2>1 DEF OwnBuild
<1>12. WholePackages'
  <2>1. package'[link].state = "whole" /\ package'[Manual].state = "whole"
    BY <1>6, <1>7, <1>8 DEF Inv, WholePackages
  <2>2. \A q \in Proc : run'[q].previous # None => package'[run'[q].previous].state = "whole"
    BY <1>3, <1>5, <1>6, <1>7, <1>8 DEF Inv, WholePackages
  <2>3. \A q \in Proc : run'[q].mine # None => /\ package'[run'[q].mine].state # "absent"
                                               /\ run'[q].at # "build" => package'[run'[q].mine].state = "whole"
    BY <1>3, <1>4, <1>5, <1>6, <1>7, <1>8 DEF Inv, WholePackages
  <2> HIDE DEF WholePackages
  <2>4. link' = link
    BY <1>1
  <2> QED
    BY <2>1, <2>2, <2>3, <2>4 DEF WholePackages
<1>13. Pinned'
  BY <1>3, <1>5, <1>6, <1>7, <1>8 DEF Inv, Pinned, Current
<1>14. Good'
  <2>1. package'[Manual].quality = "good" /\ package'[link].quality = package[link].quality
    BY <1>6, <1>7, <1>8 DEF Inv, Good
  <2>2. OnTrial => OnTrial'
    BY <1>1, <1>5 DEF OnTrial, Trying
  <2>3. \A q \in Proc : run'[q].at \in {"swap", "validate", "undo", "restore"} => Trusted(run[q].previous)'
    <3> SUFFICES ASSUME NEW q \in Proc, run'[q].at \in {"swap", "validate", "undo", "restore"}
                 PROVE  Trusted(run[q].previous)'
      OBVIOUS
    <3>1. q # p /\ run'[q] = run[q]
      BY <1>3, <1>5
    <3>2. run[q].previous \in Build
      BY <1>8, <3>1 DEF Inv, Placed
    <3> QED
      BY <1>1, <1>6, <1>7, <3>1, <3>2 DEF Inv, Good, Trusted
  <2> QED
    BY <1>1, <2>1, <2>2, <2>3 DEF Inv, Good, Trusted
<1> QED
  BY <1>9, <1>10, <1>11, <1>12, <1>13, <1>14 DEF Inv

(* A build that ends, and one that is removed, is nobody else's package.    *)
LEMMA OwnPackage ==
  ASSUME Inv, NEW p \in Proc, run[p].at \in Building, run[p].mine # None,
         NEW new \in Packages, package' = [package EXCEPT ![run[p].mine] = new],
         UNCHANGED <<link, main, dead, abandoned>>, lock' \in {lock, None},
         NEW r \in Runs, run' = [run EXCEPT ![p] = r], p \notin dead,
         \/ lock' = lock /\ r.at = "compare" /\ r.mine = run[p].mine /\ r.previous = run[p].previous
            /\ new.state = "whole"
         \/ r.at = "stopped" /\ r.mine = None /\ r.previous = None
  PROVE  Inv'
<1> DEFINE b == run[p].mine
<1>1. run' \in [Proc -> Runs] /\ \A q \in Proc : run'[q] = IF q = p THEN r ELSE run[q]
  BY OneRun
<1>2. /\ b # link /\ b # Manual /\ b # None /\ b \in Build
      /\ \A q \in Proc : run[q].previous # b
      /\ \A q \in Proc \ {p} : run[q].mine # b
  BY RunFields DEF Inv, OwnBuild
<1>3. /\ link \in Build /\ Manual \in Build
      /\ \A q \in Proc : run[q].previous \in Build \cup {None} /\ run[q].mine \in Build \cup {None}
  BY RunFields, VerifierAssumption DEF Inv, TypeOK
<1>4. package' \in [Build -> Packages] /\ \A d \in Build : package'[d] = IF d = b THEN new ELSE package[d]
  BY <1>2 DEF Inv, TypeOK
<1>5. \A q \in Proc \ {p} : run[q].at \notin InUpdate
  BY Lonely DEF InUpdate, Building
<1>6. run[p].previous # None /\ lock = p
  BY DEF Inv, Placed, OneRefresh, InUpdate, Building
<1> HIDE DEF b
<1>7. TypeOK'
  BY <1>1, <1>4 DEF Inv, TypeOK
<1>8. DeadIdle' /\ OneRefresh' /\ Placed'
  <2>1. DeadIdle'
    BY <1>1 DEF Inv, DeadIdle
  <2>2. OneRefresh'
    BY <1>1, <1>5, <1>6 DEF Inv, OneRefresh, InUpdate
  <2>3. Placed'
    BY <1>1, <1>6 DEF Inv, Placed
  <2> QED
    BY <2>1, <2>2, <2>3
<1>9. OwnBuild'
  <2>1. \A q \in Proc \ {p} : run'[q].at \notin Building
    BY <1>1, <1>5 DEF InUpdate, Building
  <2>2. r.at \in Building => r.mine = b /\ r.previous = run[p].previous
    BY DEF b, Building
  <2>3. r.previous # b
    BY <1>2 DEF b
  <2> QED
    BY <1>1, <1>2, <2>1, <2>2, <2>3 DEF OwnBuild
<1>10. WholePackages'
  <2>1. package'[link].state = "whole" /\ package'[Manual].state = "whole"
    BY <1>2, <1>3, <1>4 DEF Inv, WholePackages
  <2>2. \A q \in Proc : run'[q].previous # None => package'[run'[q].previous].state = "whole"
    <3> SUFFICES ASSUME NEW q \in Proc, run'[q].previous # None
                 PROVE  package'[run'[q].previous].state = "whole"
      OBVIOUS
    <3>1. run'[q].previous = run[q].previous
      BY <1>1
    <3> QED
      BY <1>2, <1>3, <1>4, <3>1 DEF Inv, WholePackages
  <2>3. \A q \in Proc : run'[q].mine # None => /\ package'[run'[q].mine].state # "absent"
                                               /\ run'[q].at # "build" => package'[run'[q].mine].state = "whole"
    <3> SUFFICES ASSUME NEW q \in Proc, run'[q].mine # None
                 PROVE  /\ package'[run'[q].mine].state # "absent"
                        /\ run'[q].at # "build" => package'[run'[q].mine].state = "whole"
      OBVIOUS
    <3>1. CASE q = p
      BY <1>1, <1>2, <1>4, <3>1 DEF b
    <3>2. CASE q # p
      BY <1>1, <1>2, <1>3, <1>4, <3>2 DEF Inv, WholePackages
    <3> QED
      BY <3>1, <3>2
  <2>4. link' = link
    OBVIOUS
  <2> QED
    BY <2>1, <2>2, <2>3, <2>4 DEF WholePackages
<1>11. Pinned'
  BY <1>1, <1>2, <1>3, <1>4 DEF Inv, Pinned, Current
<1>12. Good'
  <2>1. package'[Manual].quality = "good" /\ package'[link].quality = package[link].quality
    BY <1>2, <1>3, <1>4 DEF Inv, Good
  <2>2. OnTrial => OnTrial'
    BY <1>1 DEF OnTrial, Building, Trying
  <2>3. \A q \in Proc : run'[q].at \notin {"swap", "validate", "undo", "restore"}
    BY <1>1, <1>5 DEF InUpdate
  <2> QED
    BY <2>1, <2>2, <2>3 DEF Inv, Good, Trusted
<1> QED
  BY <1>7, <1>8, <1>9, <1>10, <1>11, <1>12 DEF Inv

LEMMA FinishKeeps == ASSUME Inv, NEW p \in Proc, Finish(p) PROVE Inv'
<1>1. p \notin dead /\ run[p].at = "build" /\ run[p].mine # None /\ UNCHANGED <<link, main, lock, dead, abandoned>>
  BY DEF Finish, At
<1>2. PICK quality \in Qualities :
         package' = [package EXCEPT ![run[p].mine].state = "whole", ![run[p].mine].quality = quality]
  BY DEF Finish
<1>3. package \in [Build -> Packages] /\ run[p].mine \in Build
  BY <1>1, RunFields DEF Inv, TypeOK
<1> DEFINE new == [package[run[p].mine] EXCEPT !.state = "whole", !.quality = quality]
           r == [run[p] EXCEPT !.at = "compare"]
<1>4. new \in Packages /\ new.state = "whole"
  BY <1>2, <1>3 DEF Packages
<1>5. package' = [package EXCEPT ![run[p].mine] = new]
  BY <1>2, <1>3 DEF Packages
<1>6. r \in Runs /\ r.at = "compare" /\ r.mine = run[p].mine /\ r.previous = run[p].previous
  BY RunFields DEF Stages
<1>7. run' = [run EXCEPT ![p] = r]
  BY DEF Finish, Goes
<1> HIDE DEF r, new
<1> QED
  BY <1>1, <1>4, <1>5, <1>6, <1>7, OwnPackage DEF Building

LEMMA FailKeeps == ASSUME Inv, NEW p \in Proc, Fail(p) PROVE Inv'
<1>1. p \notin dead /\ run[p].at \in Building /\ run[p].mine # None /\ UNCHANGED <<link, main, dead, abandoned>>
  BY DEF Fail, Discards, At, Building
<1> DEFINE r == [NewRun EXCEPT !.at = "stopped"]
<1>2. r \in Runs /\ r.at = "stopped" /\ r.mine = None /\ r.previous = None
  BY NewRunType DEF NewRun, Runs, Stages
<1>3. run' = [run EXCEPT ![p] = r] /\ package' = [package EXCEPT ![run[p].mine] = NoPackage] /\ lock' = None
  BY DEF Fail
<1> HIDE DEF r
<1> QED
  BY <1>1, <1>2, <1>3, NewRunType, OwnPackage

-----------------------------------------------------------------------------
(* The link moves to a package that is whole while nobody else refreshes,   *)
(* and either it can be trusted or its maker has yet to validate it.        *)
LEMMA LinkMoves ==
  ASSUME Inv, NEW p \in Proc, NEW r \in Runs, run' = [run EXCEPT ![p] = r], p \notin dead,
         run[p].at \in {"swap", "restore"}, UNCHANGED <<package, main, lock, dead, abandoned>>,
         link' \in Build, package[link'].state = "whole",
         r.previous = run[p].previous, r.mine \in {run[p].mine, None},
         (r.at = "validate" /\ r.mine # None) \/ (r.at = "release" /\ r.mine = None),
         Trusted(link') \/ (r.at = "validate" /\ link' = r.mine)
  PROVE  Inv'
<1>1. run' \in [Proc -> Runs] /\ \A q \in Proc : run'[q] = IF q = p THEN r ELSE run[q]
  BY OneRun
<1>2. \A q \in Proc \ {p} : run[q].at \notin InUpdate
  BY Lonely DEF InUpdate
<1>3. run[p].previous # None /\ run[p].mine # None /\ lock = p
  BY DEF Inv, Placed, OneRefresh, InUpdate
<1>4. TypeOK'
  BY <1>1 DEF Inv, TypeOK
<1>5. DeadIdle'
  BY <1>1 DEF Inv, DeadIdle
<1>6. OneRefresh'
  BY <1>1, <1>3 DEF Inv, OneRefresh
<1>7. Placed'
  BY <1>1, <1>3 DEF Inv, Placed
<1>8. OwnBuild'
  <2>1. \A q \in Proc : run'[q].at \notin Building
    BY <1>1, <1>2 DEF InUpdate, Building
  <2> QED
    BY <2>1 DEF OwnBuild
<1>9. WholePackages'
  <2>1. \A q \in Proc : run'[q].previous # None => package[run'[q].previous].state = "whole"
    BY <1>1 DEF Inv, WholePackages
  <2>2. \A q \in Proc : run'[q].mine # None => /\ package[run'[q].mine].state # "absent"
                                               /\ run'[q].at # "build" => package[run'[q].mine].state = "whole"
    BY <1>1 DEF Inv, WholePackages
  <2> QED
    BY <2>1, <2>2 DEF Inv, WholePackages
<1>10. Pinned'
  BY <1>1 DEF Inv, Pinned, Current
<1>11. Good'
  <2>1. Trusted(link)' \/ OnTrial'
    BY <1>1 DEF OnTrial, Trusted, Trying
  <2>2. \A q \in Proc : run'[q].at \in {"swap", "validate", "undo", "restore"} => Trusted(run'[q].previous)
    BY <1>1 DEF Inv, Good
  <2>3. \A q \in Proc : Trusted(run'[q].previous) => Trusted(run[q].previous)'
    BY DEF Trusted
  <2> QED
    BY <2>1, <2>2, <2>3 DEF Inv, Good
<1> QED
  BY <1>4, <1>5, <1>6, <1>7, <1>8, <1>9, <1>10, <1>11 DEF Inv

LEMMA SwapKeeps == ASSUME Inv, NEW p \in Proc, Swap(p) PROVE Inv'
<1>1. p \notin dead /\ run[p].at = "swap" /\ link' = run[p].mine /\ UNCHANGED <<package, main, lock, dead, abandoned>>
  BY DEF Swap, At
<1> DEFINE r == [run[p] EXCEPT !.at = "validate"]
<1>2. r \in Runs /\ r.at = "validate" /\ r.mine = run[p].mine /\ r.previous = run[p].previous
  BY RunFields DEF Stages
<1>3. run' = [run EXCEPT ![p] = r]
  BY DEF Swap, Goes
<1>4. run[p].mine # None /\ run[p].mine \in Build /\ package[run[p].mine].state = "whole"
  BY <1>1, RunFields DEF Inv, Placed, WholePackages
<1> HIDE DEF r
<1> QED
  BY <1>1, <1>2, <1>3, <1>4, LinkMoves

LEMMA RollbackKeeps == ASSUME Inv, NEW p \in Proc, Rollback(p) PROVE Inv'
<1>1. p \notin dead /\ run[p].at = "restore" /\ UNCHANGED <<package, main, lock, dead, abandoned>>
  BY DEF Rollback, At
<1> DEFINE r == [run[p] EXCEPT !.at = "release", !.mine = None]
<1>2. r \in Runs /\ r.at = "release" /\ r.mine = None /\ r.previous = run[p].previous
  BY GivesUp
<1>3. run' = [run EXCEPT ![p] = r] /\ link' = run[p].previous
  BY DEF Rollback
<1>4. /\ run[p].previous # None /\ run[p].previous \in Build /\ package[run[p].previous].state = "whole"
      /\ Trusted(run[p].previous)
  BY <1>1, RunFields DEF Inv, Placed, WholePackages, Good
<1> HIDE DEF r
<1> QED
  BY <1>1, <1>2, <1>3, <1>4, LinkMoves

(* A person's link names a package that nobody builds or removes. *)
LEMMA RelinkKeeps == ASSUME Inv, Relink PROVE Inv'
<1>1. link' = Manual /\ UNCHANGED <<package, main, lock, run, dead, abandoned>>
  BY DEF Relink
<1>2. TypeOK' /\ DeadIdle' /\ OneRefresh' /\ Placed' /\ Pinned'
  BY <1>1, VerifierAssumption DEF Inv, TypeOK, DeadIdle, OneRefresh, Placed, Pinned, Current
<1>3. OwnBuild'
  BY <1>1 DEF Inv, OwnBuild
<1>4. WholePackages'
  BY <1>1 DEF Inv, WholePackages
<1>5. Good'
  BY <1>1 DEF Inv, Good, Trusted
<1> QED
  BY <1>2, <1>3, <1>4, <1>5 DEF Inv

LEMMA SameInv == ASSUME Inv, UNCHANGED <<link, package, lock, run, dead, abandoned>>, main' \in 0 .. MaxMain PROVE Inv'
<1>1. TypeOK' /\ DeadIdle' /\ OneRefresh' /\ Placed' /\ Pinned'
  BY DEF Inv, TypeOK, DeadIdle, OneRefresh, Placed, Pinned, Current
<1>2. OwnBuild' /\ WholePackages'
  BY DEF Inv, OwnBuild, WholePackages
<1>3. Good'
  BY DEF Inv, Good, OnTrial, Trusted
<1> QED
  BY <1>1, <1>2, <1>3 DEF Inv

LEMMA MainKeeps == ASSUME Inv, MainMoves PROVE Inv'
<1>1. main' \in 0 .. MaxMain
  BY VerifierAssumption DEF MainMoves, Inv, TypeOK
<1> QED
  BY <1>1, SameInv DEF MainMoves

-----------------------------------------------------------------------------
LEMMA Steps == ASSUME Inv, [Next]_vars PROVE Inv'
<1>1. CASE UNCHANGED vars
  BY <1>1, SameInv DEF vars, Inv, TypeOK
<1>2. CASE MainMoves \/ Relink
  BY <1>2, MainKeeps, RelinkKeeps
<1>3. ASSUME NEW p \in Proc,
             \/ Inspect(p) \/ Resolve(p) \/ Acquire(p) \/ Clone(p) \/ Finish(p)
             \/ Fail(p) \/ Compare(p) \/ Swap(p) \/ Validate(p) \/ CompareBack(p)
             \/ Rollback(p) \/ RollbackFails(p) \/ Release(p) \/ Again(p) \/ Crash(p)
      PROVE  Inv'
  BY <1>3, InspectKeeps, ResolveKeeps, AcquireKeeps, CloneKeeps, FinishKeeps, FailKeeps, CompareKeeps,
     SwapKeeps, ValidateKeeps, CompareBackKeeps, RollbackKeeps, RollbackFailsKeeps, ReleaseKeeps, AgainKeeps, CrashKeeps
<1> QED
  BY <1>1, <1>2, <1>3 DEF Next

LEMMA Invariance == Spec => []Inv
<1>1. Init => Inv
  BY InitInv
<1>2. Inv /\ [Next]_vars => Inv'
  BY Steps
<1> QED
  BY <1>1, <1>2, PTL DEF Spec

(* The link, the packages, the lock and the runs keep their types. *)
THEOREM VerifierTyped == Spec => []TypeOK
<1>1. Inv => TypeOK
  BY DEF Inv
<1> QED
  BY <1>1, Invariance, PTL

(* No failure, crash or refresh of another project leaves the link, or a    *)
(* run's own build, at a package that is missing or not finished.           *)
THEOREM UsedIsWhole == Spec => []InUseIsWhole
<1>1. Inv => InUseIsWhole
  BY DEF Inv, InUseIsWhole, WholePackages, Pinned, At
<1> QED
  BY <1>1, Invariance, PTL

(* A link to a package that did not pass is undone before the lock is given *)
(* back, whatever others have done meanwhile, unless the undoing itself     *)
(* fails or the process dies before it.                                     *)
THEOREM LinkGood == Spec => []LinkTrusted
<1>1. Inv => LinkTrusted
  <2> SUFFICES ASSUME Inv, lock = None \/ lock \in dead PROVE Trusted(link)
    BY DEF LinkTrusted, Trusted
  <2>1. ~OnTrial
    <3> SUFFICES ASSUME NEW p \in Proc, run[p].at \in Trying PROVE FALSE
      BY DEF OnTrial
    <3>1. lock = p /\ p \notin dead
      BY NewRunType DEF Inv, OneRefresh, DeadIdle, InUpdate, Trying
    <3> QED
      BY <3>1, VerifierAssumption
  <2> QED
    BY <2>1 DEF Inv, Good
<1> QED
  BY <1>1, Invariance, PTL
=============================================================================
