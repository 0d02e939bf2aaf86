---------------------------- MODULE MCFollowUps ----------------------------
(* The bounds of FollowUps for TLC. *)
EXTENDS FollowUps

CONSTANTS w1, w2, home, other, leak, crash, flaky, e1, kaizen, auth, p1

(* One bug under two titles, one of them with a label that authorizes, and  *)
(* the other with words that read like a failure; and one without evidence. *)
MCReport ==
    {[title |-> leak, evidence |-> e1, class |-> TRUE, alarming |-> FALSE,
      repo |-> other, paths |-> {}, labels |-> {auth, p1}],
     [title |-> crash, evidence |-> e1, class |-> TRUE, alarming |-> TRUE,
      repo |-> Nothing, paths |-> {home, other}, labels |-> {p1}],
     [title |-> flaky, evidence |-> Nothing, class |-> FALSE, alarming |-> FALSE,
      repo |-> home, paths |-> {other}, labels |-> {}]}

MCYields == {{r} : r \in MCReport}

(* The other repository has no priorities. *)
MCKnown == [r \in Repo |-> IF r = home THEN Label ELSE {kaizen, auth}]

(* A person has filed the bug by hand. *)
MCLegacy ==
    <<[repo |-> other, title |-> leak, marker |-> Nothing, evidence |-> e1, labels |-> {},
       open |-> TRUE, linked |-> FALSE, by |-> <<Nothing, 0>>,
       lost |-> FALSE, blind |-> FALSE]>>

(* In the first run the one issue has two attempts and the other has one,   *)
(* in the next the one has one.  People close one issue.                    *)
Attempts ==
    /\ run = 1 => worker[w2].round <= 1
    /\ run = 2 => worker[w2].round = 0 /\ worker[w1].round <= 1
    /\ Cardinality({n \in DOMAIN issues : ~issues[n].open}) <= 1
=============================================================================
