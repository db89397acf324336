---------------------------- MODULE ControlPlane ----------------------------
(***************************************************************************)
(* Nodes and their control server: registration, start and stop of a node, *)
(* the rotation of its bearer, its view of the topology, node queries and  *)
(* uploads of modules.                                                     *)
(*                                                                         *)
(* A request is authenticated first and handled later.  It may be late, or *)
(* never arrive, and its caller may give up at any time, because of this,  *)
(* because the answer was lost or because it was cancelled: what a caller  *)
(* gave up on may still be served.  A registration whose bearer was not    *)
(* presented for long enough lapses.                                       *)
(***************************************************************************)
EXTENDS Naturals, FiniteSets

CONSTANTS
    Clients,        \* nodes; each registers once, under a name of its own
    MaxQueries,     \* max_topology_nodes as the limit of pending queries
    MaxTokens,      \* bound: bearers made
    MaxControlRequests  \* bound: requests sent

ASSUME ControlAssumption == MaxQueries \in Nat

Threads == {"main", "rotation", "user"}
No == 0

VARIABLES
    reg,        \* registrations: [cur, pend, gen, lapsed], or {} if there is none
    nodes,      \* node id -> its registration: a set of [id, of]
    nextNode,   \* next_node_id
    modules,    \* history: the uploads that were stored, as [of, gen]
    cl,         \* clients: [phase, bearer, pend, gen, id, stopped, stopBearer]
    known,      \* topology of each client: [nodes, ids]
    queries,    \* node queries of each client: [pending, results]
    call,       \* the call of each thread: [req, op, list]; list is half applied
    wire,       \* requests: [id, c, op, bearer, gen, next, st, auth, list]
    fresh       \* [token, req]

server == <<reg, nodes, nextNode, modules>>
controlVars == <<reg, nodes, nextNode, modules, cl, known, queries, call, wire, fresh>>

NoRegistration == {}
NoCall == [req |-> No, op |-> "none", list |-> {}]
NewClient == [phase |-> "new", bearer |-> No, pend |-> No, gen |-> 0, id |-> No, stopped |-> FALSE, stopBearer |-> No]

ControlInit ==
    /\ reg = [c \in Clients |-> NoRegistration] /\ nodes = {} /\ nextNode = 1 /\ modules = {}
    /\ cl = [c \in Clients |-> NewClient]
    /\ known = [c \in Clients |-> [nodes |-> {}, ids |-> {}]]
    /\ queries = [c \in Clients |-> [pending |-> 0, results |-> 0]]
    /\ call = [c \in Clients |-> [t \in Threads |-> NoCall]]
    /\ wire = {} /\ fresh = [token |-> 1, req |-> 1]

-----------------------------------------------------------------------------
(* Sending and waiting *)

NewRequest(c, op, bearer, gen, next) ==
    [id |-> fresh.req, c |-> c, op |-> op, bearer |-> bearer, gen |-> gen, next |-> next,
     st |-> "sent", auth |-> No, list |-> {}]

\* A request with the bearer the client has now; request_context refuses one
\* that was revoked.
SendRequest(c, t, op, bearer, next) ==
    /\ fresh.req <= MaxControlRequests
    /\ wire' = wire \cup {NewRequest(c, op, bearer, cl[c].gen, next)}
    /\ call' = [call EXCEPT ![c][t] = [req |-> fresh.req, op |-> op, list |-> {}]]

Numbered == fresh' = [fresh EXCEPT !.req = @ + 1]

Answers(c, t) == {q \in wire : q.id = call[c][t].req /\ q.st \in {"ok", "refused"}}

\* The caller has its answer, or an error, or gave up: the request is left behind.
Heard(c, t, op) == call[c][t].op = op /\ call[c][t].list = {}
Ok(c, t, op) == Heard(c, t, op) /\ \E q \in Answers(c, t) : q.st = "ok"
Failed(c, t, op) == Heard(c, t, op)

Hang(c, t) ==
    /\ call' = [call EXCEPT ![c][t] = NoCall]
    /\ wire' = wire \ Answers(c, t)

-----------------------------------------------------------------------------
(* Client: start and stop *)

Register(c) ==
    /\ cl[c].phase = "new"
    /\ SendRequest(c, "main", "register", No, No) /\ Numbered
    /\ cl' = [cl EXCEPT ![c].phase = "registering"]
    /\ UNCHANGED <<server, known, queries>>

RegistrationDone(c) ==
    /\ cl[c].phase = "registering"
    /\ \/ /\ Ok(c, "main", "register")
          /\ \E q \in Answers(c, "main") : cl' = [cl EXCEPT ![c].phase = "registered", ![c].bearer = q.next]
       \/ Failed(c, "main", "register") /\ cl' = [cl EXCEPT ![c].phase = "gone"]
    /\ Hang(c, "main")
    /\ UNCHANGED <<server, known, queries, fresh>>

Start(c) ==
    /\ cl[c].phase = "registered"
    /\ SendRequest(c, "main", "start", cl[c].bearer, No) /\ Numbered
    /\ cl' = [cl EXCEPT ![c].phase = "starting"]
    /\ UNCHANGED <<server, known, queries>>

\* install_started refuses an identity that was given for another bearer.
InstallStarted(c, q) ==
    /\ q.auth = cl[c].gen
    /\ cl' = [cl EXCEPT ![c].phase = "joining", ![c].id = q.next]

\* Any failure to start stops the registration, as well as it can.
Started(c) ==
    /\ cl[c].phase = "starting"
    /\ \/ /\ Ok(c, "main", "start")
          /\ \E q \in Answers(c, "main") : InstallStarted(c, q)
       \/ /\ Failed(c, "main", "start")
          /\ cl' = [cl EXCEPT ![c] = [cl[c] EXCEPT !.phase = "stop", !.stopped = TRUE, !.stopBearer = cl[c].bearer]]
    /\ Hang(c, "main")
    /\ UNCHANGED <<server, known, queries, fresh>>

\* shutdown: authority is revoked here first, with the bearer kept for the stop.
Revoked(r) == [r EXCEPT !.stopped = TRUE, !.stopBearer = r.bearer, !.bearer = No, !.pend = No]

Shutdown(c) ==
    /\ cl[c].phase = "running" /\ ~cl[c].stopped
    /\ cl' = [cl EXCEPT ![c] = [Revoked(@) EXCEPT !.phase = "stop"]]
    /\ UNCHANGED <<server, known, queries, call, wire, fresh>>

\* The remote stop waits for the rotation in flight.
StopRegistration(c) ==
    /\ cl[c].phase = "stop" /\ call[c]["rotation"] = NoCall
    /\ SendRequest(c, "main", "stop", cl[c].stopBearer, No) /\ Numbered
    /\ cl' = [cl EXCEPT ![c].phase = "stopping"]
    /\ UNCHANGED <<server, known, queries>>

StopDone(c) ==
    /\ cl[c].phase = "stopping"
    /\ \/ Ok(c, "main", "stop") /\ cl' = [cl EXCEPT ![c].phase = "stopped"]
       \/ Failed(c, "main", "stop") /\ cl' = [cl EXCEPT ![c].phase = "gone"]
    /\ Hang(c, "main")
    /\ UNCHANGED <<server, known, queries, fresh>>

\* The node crashes, or its last public client is dropped: nobody is told.
Abandon(c) ==
    /\ cl[c].phase \notin {"new", "stopped", "gone"}
    /\ cl' = [cl EXCEPT ![c] = [Revoked(@) EXCEPT !.phase = "gone"]]
    /\ call' = [call EXCEPT ![c] = [t \in Threads |-> NoCall]]
    /\ queries' = [queries EXCEPT ![c] = [pending |-> 0, results |-> 0]]
    /\ UNCHANGED <<server, known, wire, fresh>>

-----------------------------------------------------------------------------
(* Client: topology *)

Live(c) == cl[c].phase = "running" /\ ~cl[c].stopped

\* refresh_nodes of a new client, of the worker, or of a send to an unknown node.
RefreshNodes(c, t) ==
    /\ \/ cl[c].phase = "joining" /\ t = "main"
       \/ Live(c) /\ t = "user"
    /\ call[c][t] = NoCall
    /\ SendRequest(c, t, "nodes", cl[c].bearer, No) /\ Numbered
    /\ UNCHANGED <<server, cl, known, queries>>

\* replace_nodes fills the map first ...
ReplaceNodes(c, t) ==
    /\ Ok(c, t, "nodes")
    /\ \E q \in Answers(c, t) :
        /\ known' = [known EXCEPT ![c].nodes = q.list]
        /\ call' = [call EXCEPT ![c][t] = [call[c][t] EXCEPT !.list = {q.list}]]
        /\ wire' = wire \ {q}
    /\ UNCHANGED <<server, cl, queries, fresh>>

\* ... and the list of ids after it.
Refreshed(c, t) == IF t = "main" THEN cl' = [cl EXCEPT ![c].phase = "running"] ELSE UNCHANGED cl

PublishIds(c, t) ==
    /\ call[c][t].list # {}
    /\ \E list \in call[c][t].list : known' = [known EXCEPT ![c].ids = list]
    /\ call' = [call EXCEPT ![c][t] = NoCall] /\ Refreshed(c, t)
    /\ UNCHANGED <<server, queries, wire, fresh>>

\* A client that cannot see the topology at first is shut down again.
RefreshFailed(c, t) ==
    /\ Failed(c, t, "nodes") /\ Hang(c, t)
    /\ IF t = "main" THEN cl' = [cl EXCEPT ![c] = [Revoked(@) EXCEPT !.phase = "stop"]] ELSE UNCHANGED cl
    /\ UNCHANGED <<server, known, queries, fresh>>

-----------------------------------------------------------------------------
(* Client: rotation of the bearer *)

\* (A mutant: every attempt makes a bearer of its own.)
NextBearerAnew(c) == fresh.token

\* rotation_request: a bearer that was not acknowledged is used again.
NextBearer(c) == IF cl[c].pend # No THEN cl[c].pend ELSE fresh.token

RefreshBearer(c) ==
    /\ Live(c) /\ call[c]["rotation"] = NoCall
    /\ LET next == NextBearer(c)
       IN  /\ next <= MaxTokens
           /\ cl' = [cl EXCEPT ![c].pend = next]
           /\ SendRequest(c, "rotation", "refresh", cl[c].bearer, next)
           /\ fresh' = [token |-> IF next = fresh.token THEN next + 1 ELSE fresh.token, req |-> fresh.req + 1]
    /\ UNCHANGED <<server, known, queries>>

\* install_refreshed: the answer must be for the next generation.
InstallRefreshed(c, q) ==
    /\ q.auth = cl[c].gen /\ cl[c].pend # No
    /\ cl' = [cl EXCEPT ![c].bearer = cl[c].pend, ![c].pend = No, ![c].gen = @ + 1]

\* The bearer is installed and presented at once.
BearerRefreshed(c) ==
    /\ Ok(c, "rotation", "refresh")
    /\ \E q \in Answers(c, "rotation") :
        /\ InstallRefreshed(c, q)
        /\ fresh.req <= MaxControlRequests /\ Numbered
        /\ wire' = (wire \ {q}) \cup {NewRequest(c, "nodes", cl[c].pend, cl[c].gen + 1, No)}
        /\ call' = [call EXCEPT ![c]["rotation"] = [req |-> fresh.req, op |-> "nodes", list |-> {}]]
    /\ UNCHANGED <<server, known, queries>>

\* No answer, a refusal, or shutdown came first: the bearer stays pending.
RefreshBearerFailed(c) ==
    /\ Failed(c, "rotation", "refresh") /\ Hang(c, "rotation")
    /\ UNCHANGED <<server, cl, known, queries, fresh>>

-----------------------------------------------------------------------------
(* Client: queries and modules *)

LookupNodes(c) ==
    /\ Live(c) /\ call[c]["user"] = NoCall /\ queries[c].pending < MaxQueries
    /\ queries' = [queries EXCEPT ![c].pending = @ + 1]
    /\ SendRequest(c, "user", "lookup", cl[c].bearer, No) /\ Numbered
    /\ UNCHANGED <<server, cl, known>>

\* (A mutant: a lookup that failed keeps its place.)
LookupDoneKeeping(c) ==
    /\ \/ Ok(c, "user", "lookup") /\ queries' = [queries EXCEPT ![c].results = @ + 1]
       \/ Failed(c, "user", "lookup") /\ UNCHANGED queries
    /\ Hang(c, "user")
    /\ UNCHANGED <<server, cl, known, fresh>>

\* The result is kept under its own number; a failure gives the place back.
LookupDone(c) ==
    /\ \/ Ok(c, "user", "lookup") /\ queries' = [queries EXCEPT ![c].results = @ + 1]
       \/ Failed(c, "user", "lookup") /\ queries' = [queries EXCEPT ![c].pending = @ - 1]
    /\ Hang(c, "user")
    /\ UNCHANGED <<server, cl, known, fresh>>

QueryResult(c) ==
    /\ queries[c].results > 0
    /\ queries' = [queries EXCEPT ![c] = [pending |-> @.pending - 1, results |-> @.results - 1]]
    /\ UNCHANGED <<server, cl, known, call, wire, fresh>>

AddModule(c) ==
    /\ Live(c) /\ call[c]["user"] = NoCall
    /\ SendRequest(c, "user", "module", cl[c].bearer, No) /\ Numbered
    /\ UNCHANGED <<server, cl, known, queries>>

AddModuleDone(c) ==
    /\ Failed(c, "user", "module") /\ Hang(c, "user")
    /\ UNCHANGED <<server, cl, known, queries, fresh>>

-----------------------------------------------------------------------------
(* Server *)

Exists(c) == reg[c] # NoRegistration
The(c) == CHOOSE r \in reg[c] : TRUE
Put(c, r) == [reg EXCEPT ![c] = {r}]

\* purge_expired_locked
Purged == [c \in Clients |-> IF Exists(c) /\ The(c).lapsed THEN NoRegistration ELSE reg[c]]
WithoutNodes(left) == {n \in nodes : left[n.of] # NoRegistration}
Purge == reg' = Purged /\ nodes' = WithoutNodes(Purged)

\* Nobody hears the answer to a request its caller gave up on.
Respond(q, st, next, list) ==
    wire' = (wire \ {q}) \cup IF \E t \in Threads : call[q.c][t].req = q.id
                              THEN {[q EXCEPT !.st = st, !.next = next, !.list = list]} ELSE {}
Refuse(q) == Respond(q, "refused", No, {})

HandleRegister(q) ==
    /\ q.op = "register" /\ q.st = "sent" /\ fresh.token <= MaxTokens
    /\ IF Purged[q.c] # NoRegistration
       THEN Purge /\ Refuse(q) /\ UNCHANGED fresh
       ELSE /\ reg' = [Purged EXCEPT ![q.c] = {[cur |-> fresh.token, pend |-> No, gen |-> 0, lapsed |-> FALSE]}]
            /\ nodes' = WithoutNodes(Purged)
            /\ Respond(q, "ok", fresh.token, {}) /\ fresh' = [fresh EXCEPT !.token = @ + 1]
    /\ UNCHANGED <<nextNode, modules, cl, known, queries, call>>

\* TokenVerifier::authenticate: the pending bearer takes over when it is used.
Presented(r, bearer) ==
    IF r.pend = bearer THEN [r EXCEPT !.cur = bearer, !.pend = No, !.gen = @ + 1] ELSE r

Authenticate(q) ==
    /\ q.op # "register" /\ q.st = "sent"
    /\ IF Purged[q.c] # NoRegistration /\ q.bearer \in {The(q.c).cur, The(q.c).pend}
       THEN LET r == Presented(The(q.c), q.bearer)
            IN  /\ reg' = [Purged EXCEPT ![q.c] = {r}]
                /\ wire' = (wire \ {q}) \cup {[q EXCEPT !.st = "handle", !.auth = r.gen]}
       ELSE reg' = Purged /\ Refuse(q)
    /\ nodes' = WithoutNodes(Purged)
    /\ UNCHANGED <<nextNode, modules, cl, known, queries, call, fresh>>

\* The registration is still there and no other bearer has taken over.
Current(q, left) == left[q.c] # NoRegistration /\ The(q.c).gen = q.auth

\* (A mutant: start_node trusts what was authenticated.)
StartNodeUnchecked(q) ==
    /\ q.op = "start" /\ q.st = "handle"
    /\ reg' = Purged
    /\ nodes' = {n \in WithoutNodes(Purged) : n.of # q.c} \cup {[id |-> nextNode, of |-> q.c]}
    /\ nextNode' = nextNode + 1 /\ Respond(q, "ok", nextNode, {})
    /\ UNCHANGED <<modules, cl, known, queries, call, fresh>>

\* A node that starts again replaces the one it was.
StartNode(q) ==
    /\ q.op = "start" /\ q.st = "handle"
    /\ IF Current(q, Purged)
       THEN /\ reg' = Purged
            /\ nodes' = {n \in WithoutNodes(Purged) : n.of # q.c} \cup {[id |-> nextNode, of |-> q.c]}
            /\ nextNode' = nextNode + 1 /\ Respond(q, "ok", nextNode, {})
       ELSE Purge /\ Refuse(q) /\ UNCHANGED nextNode
    /\ UNCHANGED <<modules, cl, known, queries, call, fresh>>

\* stage_rotation: again with the same bearer is fine, with another is not.
StageBearerRotation(q) ==
    /\ q.op = "refresh" /\ q.st = "handle"
    /\ IF Current(q, Purged) /\ q.gen = q.auth /\ The(q.c).cur # q.next /\ The(q.c).pend \in {No, q.next}
       THEN reg' = [Purged EXCEPT ![q.c] = {[The(q.c) EXCEPT !.pend = q.next]}] /\ Respond(q, "ok", No, {})
       ELSE reg' = Purged /\ Refuse(q)
    /\ nodes' = WithoutNodes(Purged)
    /\ UNCHANGED <<nextNode, modules, cl, known, queries, call, fresh>>

\* stop_node does not look at the lease.
StopNode(q) ==
    /\ q.op = "stop" /\ q.st = "handle"
    /\ IF Current(q, reg)
       THEN /\ reg' = [reg EXCEPT ![q.c] = NoRegistration] /\ nodes' = {n \in nodes : n.of # q.c}
            /\ Respond(q, "ok", No, {})
       ELSE Refuse(q) /\ UNCHANGED <<reg, nodes>>
    /\ UNCHANGED <<nextNode, modules, cl, known, queries, call, fresh>>

\* list_nodes: the nodes whose registration is there.
ListNodes(q) ==
    /\ q.op \in {"nodes", "lookup"} /\ q.st = "handle"
    /\ Respond(q, "ok", No, IF q.op = "nodes" THEN {n.id : n \in WithoutNodes(reg)} ELSE {})
    /\ UNCHANGED <<server, cl, known, queries, call, fresh>>

StoreModule(q) ==
    /\ q.op = "module" /\ q.st = "handle"
    /\ IF Current(q, Purged)
       THEN modules' = modules \cup {[of |-> q.c, gen |-> q.auth]} /\ Respond(q, "ok", No, {})
       ELSE Refuse(q) /\ UNCHANGED modules
    /\ Purge /\ UNCHANGED <<nextNode, cl, known, queries, call, fresh>>

Serve(q) ==
    \/ HandleRegister(q) \/ Authenticate(q) \/ StartNode(q) \/ StageBearerRotation(q)
    \/ StopNode(q) \/ ListNodes(q) \/ StoreModule(q)

\* The lease runs out, and the sweeper finds it.
Lapse(c) ==
    /\ Exists(c) /\ ~The(c).lapsed
    /\ reg' = Put(c, [The(c) EXCEPT !.lapsed = TRUE])
    /\ UNCHANGED <<nodes, nextNode, modules, cl, known, queries, call, wire, fresh>>

PurgeExpired ==
    /\ Purged # reg /\ Purge
    /\ UNCHANGED <<nextNode, modules, cl, known, queries, call, wire, fresh>>

ControlNext ==
    \/ \E c \in Clients :
        \/ Register(c) \/ RegistrationDone(c) \/ Start(c) \/ Started(c)
        \/ Shutdown(c) \/ StopRegistration(c) \/ StopDone(c) \/ Abandon(c)
        \/ \E t \in Threads : RefreshNodes(c, t) \/ ReplaceNodes(c, t) \/ PublishIds(c, t) \/ RefreshFailed(c, t)
        \/ RefreshBearer(c) \/ BearerRefreshed(c) \/ RefreshBearerFailed(c)
        \/ LookupNodes(c) \/ LookupDone(c) \/ QueryResult(c) \/ AddModule(c) \/ AddModuleDone(c)
        \/ Lapse(c)
    \/ \E q \in wire : Serve(q)
    \/ PurgeExpired

ControlSpec == ControlInit /\ [][ControlNext]_controlVars

-----------------------------------------------------------------------------
(***************************************************************************)
(* A node is never locked out: however its requests and the answers to     *)
(* them are lost or late, while its registration stands the server accepts *)
(* the bearer it has, and both count its generation alike.                 *)
(***************************************************************************)
NeverLockedOut ==
    \A c \in Clients : (cl[c].bearer # No /\ Exists(c)) =>
        \/ The(c).cur = cl[c].bearer /\ The(c).gen = cl[c].gen /\ The(c).pend \in {No, cl[c].pend}
        \/ The(c).pend = cl[c].bearer /\ The(c).gen + 1 = cl[c].gen

(***************************************************************************)
(* What was stopped stays stopped: after a stop that was acknowledged      *)
(* there is neither registration nor node, whatever is still under way;    *)
(* and a node is listed only for a registration, one for each.             *)
(***************************************************************************)
StoppedStaysStopped ==
    /\ \A c \in Clients : cl[c].phase = "stopped" => ~Exists(c)
    /\ \A n \in nodes : Exists(n.of)
    /\ \A m, n \in nodes : m.of = n.of => m = n

(***************************************************************************)
(* The places for node queries are counted exactly, so that failed and     *)
(* abandoned lookups give theirs back, and no more than the limit are ever *)
(* in use.                                                                 *)
(***************************************************************************)
QueriesExact ==
    \A c \in Clients :
        /\ queries[c].pending = queries[c].results + Cardinality({t \in Threads : call[c][t].op = "lookup"})
        /\ queries[c].pending <= MaxQueries

\* While its registration stands the server accepts the bearer a node has, after an
\* acknowledged stop there is neither registration nor node, and places for node queries are
\* counted exactly.
ControlSafe == NeverLockedOut /\ StoppedStaysStopped /\ QueriesExact

-----------------------------------------------------------------------------
(* Why it holds *)

Phases == {"new", "registering", "registered", "starting", "joining", "running", "stop", "stopping", "stopped", "gone"}
Ops == {"register", "start", "stop", "nodes", "refresh", "lookup", "module"}

\* What has which type, at the server, at the nodes and between them.
ServerTypes ==
    /\ reg \in [Clients -> SUBSET [cur : Nat, pend : Nat, gen : Nat, lapsed : BOOLEAN]]
    /\ \A c \in Clients : \A r, s \in reg[c] : r = s
    /\ nodes \subseteq [id : Nat, of : Clients] /\ nextNode \in Nat

ClientTypes ==
    /\ cl \in [Clients -> [phase : Phases, bearer : Nat, pend : Nat, gen : Nat, id : Nat, stopped : BOOLEAN,
                           stopBearer : Nat]]
    /\ queries \in [Clients -> [pending : Nat, results : Nat]]

WireTypes ==
    /\ wire \subseteq [id : Nat, c : Clients, op : Ops, bearer : Nat, gen : Nat, next : Nat,
                       st : {"sent", "handle", "ok", "refused"}, auth : Nat, list : SUBSET Nat]
    /\ call \in [Clients -> [Threads -> [req : Nat, op : Ops \cup {"none"}, list : SUBSET (SUBSET Nat)]]]
    /\ fresh \in [token : Nat, req : Nat] /\ fresh.token # 0 /\ fresh.req # 0

\* A request has its own number, and belongs to the call that waits for it.
CallsOK ==
    /\ \A q \in wire : q.id # No /\ q.id < fresh.req
    /\ \A p, q \in wire : p.id = q.id => p = q
    /\ \A c \in Clients, t \in Threads :
          /\ call[c][t].req < fresh.req
          /\ \A q \in wire : q.id = call[c][t].req => q.c = c /\ q.op = call[c][t].op
          /\ call[c][t].op = "lookup" => t = "user"
          /\ call[c][t].list # {} => call[c][t].op = "nodes"

\* What a node has at each stage of its life; a bearer on its way in is a later one.
StageOK(c) ==
    /\ cl[c].phase = "new" => reg[c] = {} /\ \A q \in wire : q.c # c
    /\ cl[c].phase \in {"new", "registering"} => cl[c].bearer = No /\ cl[c].pend = No /\ cl[c].gen = 0
    /\ cl[c].phase \in {"registered", "starting", "joining", "running"} => cl[c].bearer # No
    /\ cl[c].phase = "stop" => cl[c].stopBearer # No /\ (cl[c].bearer # No => cl[c].stopBearer = cl[c].bearer)
    /\ cl[c].phase = "stopped" => reg[c] = {}
    /\ call[c]["main"].op = "nodes" => cl[c].phase = "joining"
    /\ cl[c].bearer < fresh.token /\ cl[c].pend < fresh.token
    /\ cl[c].pend # No => cl[c].phase = "running" /\ cl[c].bearer < cl[c].pend

\* The registration of a node is its first request, and the only one until it is answered.
RegisterOK(q) ==
    /\ cl[q.c].phase \in {"registering", "gone"} /\ cl[q.c].bearer = No
    /\ \A p \in wire : p.c = q.c => p = q
    /\ q.st # "handle" /\ (q.st = "sent" => reg[q.c] = {})
    /\ q.st = "ok" => /\ q.next # No /\ q.next < fresh.token
                      /\ \A r \in reg[q.c] : r.cur = q.next /\ r.pend = No /\ r.gen = 0

\* A request presents a bearer the node has or had.  A rotation of this generation asks for
\* the bearer the node holds back; once acknowledged, it is staged.
RequestOK(q) ==
    /\ cl[q.c].phase \notin {"new", "registering"} /\ q.bearer # No
    /\ q.st \in {"handle", "ok"} => \A r \in reg[q.c] : q.auth <= r.gen
    /\ q.op = "stop" /\ q.st = "ok" => reg[q.c] = {}
    /\ cl[q.c].bearer # No =>
          /\ q.bearer <= cl[q.c].bearer
          /\ q.op = "refresh" => q.gen <= cl[q.c].gen
          /\ q.op = "refresh" /\ q.gen = cl[q.c].gen /\ q.st \in {"sent", "handle"} =>
                q.next = cl[q.c].pend /\ q.next # No
          /\ q.op = "refresh" /\ q.st = "ok" /\ q.auth = cl[q.c].gen =>
                \A r \in reg[q.c] : r.pend = cl[q.c].pend /\ r.pend # No /\ r.gen = cl[q.c].gen

\* The server has the bearer of the node, or is about to take it over.
BearerOK(c) ==
    cl[c].bearer # No => \A r \in reg[c] :
        \/ r.cur = cl[c].bearer /\ r.gen = cl[c].gen /\ r.pend \in {No, cl[c].pend}
        \/ r.pend = cl[c].bearer /\ r.gen + 1 = cl[c].gen

NodesOK ==
    /\ \A n \in nodes : reg[n.of] # {}
    /\ \A m, n \in nodes : m.of = n.of => m = n

PlacesOK(c) ==
    /\ queries[c].pending = queries[c].results + (IF call[c]["user"].op = "lookup" THEN 1 ELSE 0)
    /\ queries[c].pending <= MaxQueries

EachOK(q) == IF q.op = "register" THEN RegisterOK(q) ELSE RequestOK(q)

ControlInv ==
    /\ ServerTypes /\ ClientTypes /\ WireTypes /\ CallsOK /\ NodesOK
    /\ \A c \in Clients : StageOK(c) /\ BearerOK(c) /\ PlacesOK(c)
    /\ \A q \in wire : EachOK(q)
=============================================================================
