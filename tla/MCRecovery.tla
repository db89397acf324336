---------------------------- MODULE MCRecovery ----------------------------
(***************************************************************************)
(* What has to come right after something failed half way, for TLC: hot    *)
(* reload, the order of reloads, a supervisor, and the repair of names     *)
(* between two nodes.  With two processes one may apply an update that the *)
(* other refuses, misses or dies in; three versions let an update follow a *)
(* rolled-back one while an older module is still in use.  The supervisor  *)
(* has a permanent and a transient child, one of which may be slow to      *)
(* stop.  Of the two nodes one may leave; processes exit, messages are     *)
(* lost, and the way a node that is left alone registers names is taken.   *)
(* The parts share no state: a behaviour is one of one part.               *)
(***************************************************************************)
EXTENDS HotReload, Supervisor

VARIABLES
    part,             \* the part that runs
    dependencies,     \* ReloadOrder
    cluster, view, topo, epoch, global, req, pend, result, task, sync, exited, cleanup, work, job,
    net, granted, written        \* RegistryCoordination

oVars == <<dependencies>>
kVars == <<cluster, view, topo, epoch, global, req, pend, result, task, sync, exited, cleanup, work,
    job, net, granted, written>>
allVars == <<part, reloadVars, oVars, supervisorVars, kVars>>

MCPolicy == <<"Permanent", "Transient">>

O == INSTANCE ReloadOrder WITH Module <- {"m1", "m2", "m3"}
K == INSTANCE RegistryCoordination WITH Nodes <- {1, 2}, GlobalName <- {"a"}, GlobalPid <- {21},
        NoOwner <- 0, HomeOf <- [p \in {21} |-> 2], Stripe <- [x \in {"a"} |-> 0], MaxGlobal <- 1,
        MaxPending <- 3, MaxRequests <- 2, MaxRemovals <- 1, MaxExits <- 1, Syncing <- {1, 2}

\* One part runs; the others stay as they start.
PartInit ==
    /\ part \in {"reload", "order", "supervisor", "names"}
    /\ ReloadInit
    /\ O!Init
    /\ SupervisorInit
    /\ K!CoordInit
    /\ (part # "supervisor" => strategy = "OneForOne")

PartNext ==
    /\ UNCHANGED part
    /\ \/ part = "reload" /\ ReloadNext /\ UNCHANGED <<oVars, supervisorVars, kVars>>
       \/ part = "order" /\ O!Next /\ UNCHANGED <<reloadVars, supervisorVars, kVars>>
       \/ part = "supervisor" /\ SupervisorNext /\ UNCHANGED <<reloadVars, oVars, kVars>>
       \/ part = "names" /\ K!CoordNext /\ UNCHANGED <<reloadVars, oVars, supervisorVars>>

\* The part that runs is as fair as its module says.
PartFairness ==
    /\ WF_reloadVars(part = "reload" /\ Coordinate)
    /\ WF_supervisorVars(part = "supervisor" /\ Supervise)
    /\ \A p \in Procs : WF_supervisorVars(part = "supervisor" /\ Die(p))
    /\ \A r \in {1, 2} : WF_kVars(part = "names" /\ K!CoordStep(r)) /\ WF_kVars(part = "names" /\ K!GiveUpWaiting(r))
    /\ WF_kVars(part = "names" /\ \E n \in {1, 2} : K!Synchronize(n))
    /\ SF_kVars(part = "names" /\ \E n \in {1, 2}, m \in net : K!HandleSync(n, m))
    /\ SF_kVars(part = "names" /\ \E n \in {1, 2}, m \in net : K!HandleSnapshot(n, m))

PartSpec == PartInit /\ [][PartNext]_allVars /\ PartFairness

\* A permanent child always runs again, unless its supervisor gives up.
PermanentRevived == []<>(part = "supervisor" => Served)
\* Every registration and removal returns although messages are lost, and the replicas of the
\* members converge.
NamesRepaired == K!NamesRepaired
===========================================================================
