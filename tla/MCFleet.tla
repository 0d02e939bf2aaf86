------------------------------ MODULE MCFleet ------------------------------
(* A machine that works on project a and knows of b; an earlier process has  *)
(* died with the lock of the registry, which is gone after the first use.   *)
(* `fleet` finds a alone, to prune and to schedule, or both, to do neither. *)
EXTENDS Fleet

CONSTANTS a, b

MCSyncs == {[found |-> {a}, prune |-> TRUE, schedule |-> TRUE],
            [found |-> {a, b}, prune |-> FALSE, schedule |-> FALSE]}

MCInit == FleetInit /\ registry[a] = "on" /\ registry[b] = "off" /\ dir.made

MCSpec == MCInit /\ [][FleetNext]_fleetVars /\ FleetFairness
=============================================================================
