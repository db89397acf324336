------------------------ MODULE MCRegistryCoordination ------------------------
(* A process id starts with the digit of its node.  Three nodes give a majority *)
(* that does not need everyone and a second coordinator when the first leaves;  *)
(* two processes on the followers compete for one name, so every request        *)
(* travels.  With two nodes the exits, the synchronization and liveness are     *)
(* checked, and the way a node that is left alone registers names.              *)
EXTENDS RegistryCoordination

MCHomeOf == [p \in GlobalPid |-> p \div 10]
MCStripe == [x \in GlobalName |-> 0]
===============================================================================
