------------------------------ MODULE MCNames ------------------------------
(***************************************************************************)
(* Names of processes in a cluster, and the control plane of its nodes,    *)
(* for TLC. Three names of two sizes, each in both namespaces of the       *)
(* registry, make six keys for three entries, and the byte limit can be    *)
(* the one that refuses; two of the three processes share a node.  Three   *)
(* coordinating nodes give a majority that does not need everyone and a    *)
(* second coordinator when the first leaves; two processes, one at the     *)
(* first coordinator and one at a follower, compete for one name, so that  *)
(* a request is dealt with where it is made or travels.  One node          *)
(* registers with the control plane, rotates its bearer and stops.         *)
(***************************************************************************)
EXTENDS DistributedRegistry, ControlPlane, RegistryCoordination, TLC

VARIABLE part             \* the part that runs

allVars == <<part, vars, coordVars, controlVars>>

CONSTANTS a, b, c, p1, p2, p3
ThreeNames == {a, b, c}
Sizes == a :> 1 @@ b :> 2 @@ c :> 1
ThreePids == {p1, p2, p3}
Homes == p1 :> 1 @@ p2 :> 2 @@ p3 :> 2
TwoNodes == 1..2

\* The first digit of a process that has a global name is its node.
MCHomeOf == [p \in GlobalPid |-> p \div 10]
OneStripe == [x \in GlobalName |-> 0]

\* One part runs; the others stay as they start.
PartInit ==
    /\ part \in {"registry", "coordination", "control"}
    /\ Init
    /\ CoordInit
    /\ ControlInit

PartNext ==
    /\ UNCHANGED part
    /\ \/ part = "registry" /\ Next /\ UNCHANGED <<coordVars, controlVars>>
       \/ part = "coordination" /\ CoordNext /\ UNCHANGED <<vars, controlVars>>
       \/ part = "control" /\ ControlNext /\ UNCHANGED <<vars, coordVars>>

PartSpec == PartInit /\ [][PartNext]_allVars
============================================================================
