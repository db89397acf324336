---------------------------- MODULE MCDelivery ----------------------------
(***************************************************************************)
(* The way of a message to another node, for TLC: the route queues of its  *)
(* sender, its delivery with retries to a small replay cache, the request  *)
(* server of the receiver, and a stream that two processes share. Three    *)
(* sends over two routes share one lane; either the topology is steady, or *)
(* two of them meet a node that leaves and returns.  Two messages are      *)
(* sent, and sent again, over a connection that may break.  The peer's     *)
(* certificate allows two environments, one of which the server allows.    *)
(* The parts share no state: a behaviour is one of one part.               *)
(***************************************************************************)
EXTENDS Delivery, RouteQueues, RequestServer

VARIABLES
    part,                 \* the part that runs
    kind, limit, lock, wCall, arrived, taken, shown, closed, wCalls     \* SharedStream

wVars == <<kind, limit, lock, wCall, arrived, taken, shown, closed, wCalls>>
allVars == <<part, vars, routeVars, serverVars, wVars>>

MCRouteOf == [c1 |-> "r1", c2 |-> "r1", c3 |-> "r2"]
MCShard == [r1 |-> 1, r2 |-> 2]
MCLaneOf == [r1 |-> 1, r2 |-> 1]
MCCertEnvs == [p1 |-> {"e1", "e2"}]

W == INSTANCE SharedStream WITH Procs <- {1, 2}, Kinds <- {"tcp", "tls"}, MaxBytes <- 1,
        MaxCalls <- 4, call <- wCall, calls <- wCalls

\* One part runs; the others stay as they start.
PartInit ==
    /\ part \in {"delivery", "routes", "server", "stream"}
    /\ Init
    /\ RouteInit
    /\ ServerInit
    /\ W!Init
    /\ (part # "stream" => kind = "tcp")
    /\ (part # "server" => members = {})
    /\ (part # "delivery" => capacity = 1)
    /\ (leaves = 1 \/ At("c3", "refused"))
    /\ (part # "routes" => leaves = 0 /\ \A k \in Calls : At(k, "refused"))

PartNext ==
    /\ UNCHANGED part
    /\ \/ part = "delivery" /\ Next /\ UNCHANGED <<routeVars, serverVars, wVars>>
       \/ part = "routes" /\ RouteNext /\ UNCHANGED <<vars, serverVars, wVars>>
       \/ part = "server" /\ ServerNext /\ UNCHANGED <<vars, routeVars, wVars>>
       \/ part = "stream" /\ W!Next /\ UNCHANGED <<vars, routeVars, serverVars>>

\* The part that runs is as fair as its module says.
PartFairness ==
    /\ WF_vars(part = "delivery" /\ Reconnect)
    /\ WF_vars(part = "delivery" /\ TakeMessage)
    /\ WF_vars(part = "delivery" /\ Commit)
    /\ WF_vars(part = "delivery" /\ Tick)
    /\ WF_vars(part = "delivery" /\ Lose)
    /\ \A k \in Calls : WF_routeVars(part = "routes" /\ Send(k))
    /\ WF_routeVars(part = "routes" /\ Work)
    /\ \A l \in Lanes : WF_routeVars(part = "routes" /\ LaneDone(l))
    /\ WF_serverVars(part = "server" /\ Elapse)
    /\ \A s \in Streams : WF_serverVars(part = "server" /\ DeadlinePassed(s)) /\ WF_serverVars(part = "server" /\ Handler(s))
    /\ \A p \in {1, 2} :
        /\ WF_wVars(part = "stream" /\ W!Acquire(p))
        /\ WF_wVars(part = "stream" /\ \E on \in BOOLEAN : W!SetTimeout(p, on))
        /\ WF_wVars(part = "stream" /\ (W!ReadDone(p) \/ W!PeekDone(p) \/ W!WriteDone(p)))

PartSpec == PartInit /\ [][PartNext]_allVars /\ PartFairness

\* Calls of several processes on one stream do not keep each other waiting for ever.
StreamCallsReturn == W!StreamCallsReturn
===========================================================================
