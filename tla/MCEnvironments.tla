-------------------------- MODULE MCEnvironments --------------------------
(***************************************************************************)
(* Environments and the processes that host functions create in them, for  *)
(* TLC. For the registry of environments two tasks are enough for a        *)
(* destructor to overlap the creation of the next generation of its id;    *)
(* two ids compete for one slot; four generations let a slot change hands  *)
(* repeatedly.  The host functions are checked three times: configurations *)
(* and spawns (two levels of delegation, a remote receiver), names (two    *)
(* names, one place in the registry), and modules whose start section      *)
(* calls the host.                                                         *)
(***************************************************************************)
EXTENDS EnvironmentRegistry, HostProcess

VARIABLE part       \* the part that runs

allVars == <<part, vars, hostVars>>

\* The first process may do everything but use TLS handles, up to one of each.
MCRoot == [caps |-> Capabilities \ {"tls"}, fuel |-> 2, dirs |-> {"home"},
           lim |-> [f \in Ceilings |-> IF f = "modules" THEN 0 ELSE 1], used |-> [f \in RetainedCeilings |-> 1]]
MCReceiver == [MCRoot EXCEPT !.caps = {"spawn"}, !.dirs = {}, !.used = [f \in RetainedCeilings |-> 0]]
MCBelow == [d \in {"home", "sub", "etc"} |-> IF d = "home" THEN {"home", "sub"} ELSE {d}]
MCSettings == {<<"fuel", 0>>, <<"fuel", 1>>, <<"mailbox", 0>>, <<"memory", 2>>, <<"cap", "spawn">>, <<"cap", "create">>}

\* Configurations and spawns are checked with the constants of the cfg; names and start
\* sections on nodes of their own.
N == INSTANCE HostProcess WITH Names <- {"a", "b"}, Handles <- {}, Dirs <- {"home"},
        Root <- [MCRoot EXCEPT !.caps = {"spawn", "compile"}, !.lim["modules"] = 1], Settings <- {},
        Distributed <- FALSE
B == INSTANCE HostProcess WITH Names <- {"a"}, Handles <- {}, Dirs <- {"home"},
        Root <- [MCRoot EXCEPT !.caps = {"spawn"}], Settings <- {}, Distributed <- FALSE, StartCalls <- TRUE

\* One part runs; the others stay as they start.
PartInit ==
    /\ part \in {"environments", "configs", "names", "start"}
    /\ Init
    /\ IF part # "names" /\ part # "start" THEN HostInit
       ELSE (part = "names" => N!HostInit) /\ (part = "start" => B!HostInit)

PartNext ==
    /\ UNCHANGED part
    /\ \/ part = "environments" /\ Next /\ UNCHANGED hostVars
       \/ part = "configs" /\ HostNext /\ UNCHANGED vars
       \/ part = "names" /\ N!HostNext /\ UNCHANGED vars
       \/ part = "start" /\ B!HostNext /\ UNCHANGED vars

\* The part that runs is as fair as its module says.
PartFairness ==
    /\ \A t \in Task : SF_vars(part = "environments" /\ Continue(t))
    /\ \A p \in 1..3 : WF_hostVars(part = "names" /\ N!Progress(p))

PartSpec == PartInit /\ [][PartNext]_allVars /\ PartFairness

===========================================================================
