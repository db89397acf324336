----------------------------- MODULE RouteQueues -----------------------------
(***************************************************************************)
(* The sending half of a node: Client::new_message, the per-route process  *)
(* queues (buf_tx, buf_rx, their generations and admission gates), the     *)
(* congestion worker and the bounded lanes of one remote node's queue.     *)
(*                                                                         *)
(* A call is one new_message and its message; every message costs one unit *)
(* of the outbound budget, one acknowledgement entry and one slot of its   *)
(* lane (the byte limits have the same shape).  buf_tx and buf_rx are      *)
(* sharded hash maps: a shard lock held across a blocking step is part of  *)
(* the state, one taken and released within a step is not.  The worker's   *)
(* back-off delays are left out: it may always try again at once.          *)
(***************************************************************************)
EXTENDS Naturals, FiniteSets, Sequences, SequencesExt

CONSTANTS
    Calls,          \* calls of new_message
    Routes,         \* (environment, source, node, destination) keys
    RouteOf,        \* the route of each call
    Shard,          \* the buf_tx shard of each route
    LaneOf,         \* the lane stream_index picks for each route
    MaxMessages,    \* OutboundLimits.max_messages
    MaxAcks,        \* MAX_APPLICATION_ACKS
    QueueCap,       \* OUTBOUND_PROCESS_QUEUE_CAPACITY
    LaneCap,        \* STREAM_INGRESS_MESSAGES
    MaxGen,         \* bound: generations of process queues
    MaxQueues,      \* bound: incarnations of the node queue
    MaxLeaves       \* bound: times the remote node leaves the topology

ASSUME RouteAssumption ==
    /\ IsFiniteSet(Calls) /\ Routes # {} /\ MaxGen \in Nat
    /\ RouteOf \in [Calls -> Routes]
    /\ "no one" \notin Calls /\ "worker" \notin Calls

Gens == 1..MaxGen
Shards == {Shard[r] : r \in Routes}
Lanes == {LaneOf[r] : r \in Routes}
NoOne == "no one"
Worker == "worker"

VARIABLES
    calls,      \* [pc, gen, nq]: progress of a call, the queues it holds
    leases,     \* messages counted by the outbound budget
    acks,       \* messages with an application acknowledgement entry
    tx, rx,     \* generation in buf_tx and in buf_rx, 0 when absent
    chan,       \* content of the channel of each generation
    gate,       \* holder of each generation's admission gate
    txLock,     \* writer that holds a buf_tx shard while it waits for buf_rx
    rxGuard,    \* the worker holds a buf_rx guard while it waits for a gate
    nextGen,    \* next_process_queue_generation
    nodeQueue,  \* incarnation of the node queue in nodes_queues, 0 when absent
    queues,     \* incarnations created so far
    home,       \* incarnation whose lane slots a message holds
    slots,      \* lane slots taken in the current incarnation
    lane,       \* lanes of the current incarnation
    parked,     \* route_in_progress
    worker,     \* [pc, todo, progress, route, gen, msg]
    notified,   \* the stored permit of has_messages
    member,     \* the remote node is in the control client's list
    leaves,     \* times it left
    outcome,    \* history: what became of a message the lanes or a drop ended
    accepted,   \* history: messages accepted on each route, in order
    laned       \* history: messages put into a lane on each route, in order

maps == <<tx, rx, chan, gate, txLock, rxGuard, nextGen>>
node == <<nodeQueue, queues, home, slots, lane>>
topo == <<member, leaves>>
hist == <<accepted, laned>>
routeVars == <<calls, leases, acks, maps, node, parked, worker, notified, topo, outcome, hist>>

RouteInit ==
    /\ \E large \in SUBSET Calls :          \* refused at once: MessageTooLarge
          calls = [c \in Calls |-> [pc |-> IF c \in large THEN "refused" ELSE "start",
                                    gen |-> 0, nq |-> 0]]
    /\ leases = {} /\ acks = {}
    /\ tx = [r \in Routes |-> 0] /\ rx = [r \in Routes |-> 0]
    /\ chan = [g \in Gens |-> <<>>] /\ gate = [g \in Gens |-> NoOne]
    /\ txLock = [s \in Shards |-> NoOne] /\ rxGuard = FALSE /\ nextGen = 1
    /\ nodeQueue = 0 /\ queues = 0
    /\ home = [c \in Calls |-> 0]
    /\ slots = [l \in Lanes |-> 0] /\ lane = [l \in Lanes |-> <<>>]
    /\ parked = [r \in Routes |-> NoOne]
    /\ worker = [pc |-> "pick", todo |-> {}, progress |-> FALSE,
                 route |-> CHOOSE r \in Routes : TRUE, gen |-> 0, msg |-> NoOne]
    /\ notified = FALSE
    /\ member = TRUE /\ leaves \in {0, MaxLeaves}
    /\ outcome = [c \in Calls |-> "none"]
    /\ accepted = [r \in Routes |-> <<>>] /\ laned = [r \in Routes |-> <<>>]

At(c, pc) == calls[c].pc = pc
Goto(c, pc) == calls' = [calls EXCEPT ![c].pc = pc]

\* A message is dropped: its lease, its acknowledgement entry and the slot it
\* holds in the current incarnation go back (OutboundLeaseInner, AdmissionPermits,
\* ApplicationAckHandle).
ReleaseLeaseOnly(ms) == leases' = leases \ ms /\ UNCHANGED acks
Release(ms) == leases' = leases \ ms /\ acks' = acks \ ms
SlotsWithout(ms) ==
    [l \in Lanes |-> slots[l] - Cardinality({c \in ms : /\ home[c] # 0
                                                       /\ home[c] = nodeQueue
                                                       /\ LaneOf[RouteOf[c]] = l})]

----------------------------------------------------------------------------
(* new_message                                                             *)

\* The budget and the acknowledgement table admit the message, or it is refused.
TryRegister == Cardinality(acks) < MaxAcks
TryReserve == Cardinality(leases) < MaxMessages
Reserves == TryReserve /\ TryRegister

\* The first half of ensure_node_queue: an open queue is used, otherwise the
\* node must be a member of the topology.
Found(c) ==
    \/ /\ nodeQueue # 0
       /\ calls' = [calls EXCEPT ![c].pc = "lookup", ![c].nq = nodeQueue]
    \/ /\ nodeQueue = 0 /\ member
       /\ Goto(c, "create")

\* A call up to its first suspension: refused, or with its two reservations.
StartMessage(c) ==
    /\ At(c, "start")
    /\ \/ Reserves /\ Found(c) /\ leases' = leases \cup {c} /\ acks' = acks \cup {c}
       \/ /\ ~Reserves \/ (nodeQueue = 0 /\ ~member)
          /\ Goto(c, "refused")
          /\ UNCHANGED <<leases, acks>>
    /\ UNCHANGED <<maps, node, parked, worker, notified, topo, outcome, hist>>

\* A new incarnation of the node queue: empty lanes, every slot free.
NewNodeQueue ==
    /\ queues < MaxQueues
    /\ queues' = queues + 1 /\ nodeQueue' = queues + 1
    /\ slots' = [l \in Lanes |-> 0] /\ lane' = [l \in Lanes |-> <<>>]

\* The second half, under node_queue_admission: look again, then create.
CreateNodeQueue(c) ==
    /\ At(c, "create")
    /\ IF nodeQueue # 0
         THEN /\ calls' = [calls EXCEPT ![c].pc = "lookup", ![c].nq = nodeQueue]
              /\ UNCHANGED <<nodeQueue, queues, slots, lane>>
         ELSE /\ NewNodeQueue
              /\ calls' = [calls EXCEPT ![c].pc = "lookup", ![c].nq = queues + 1]
    /\ UNCHANGED <<leases, acks, maps, home, parked, worker, notified, topo, outcome, hist>>

\* The sender-map entry: an occupied one is read; a vacant one keeps its shard
\* locked while the receiver map is filled.
LookupSender(c) ==
    LET r == RouteOf[c] IN
    /\ At(c, "lookup")
    /\ txLock[Shard[r]] = NoOne
    /\ IF tx[r] # 0
         THEN /\ calls' = [calls EXCEPT ![c].pc = "gate", ![c].gen = tx[r]]
              /\ UNCHANGED txLock
         ELSE /\ txLock' = [txLock EXCEPT ![Shard[r]] = c]
              /\ Goto(c, "insert")
    /\ UNCHANGED <<leases, acks, tx, rx, chan, gate, rxGuard, nextGen, node, parked,
                   worker, notified, topo, outcome, hist>>

\* A fresh generation is installed in both maps once no guard is held on buf_rx.
InsertQueue(c) ==
    LET r == RouteOf[c] IN
    /\ At(c, "insert")
    /\ ~rxGuard
    /\ nextGen <= MaxGen
    /\ nextGen' = nextGen + 1
    /\ tx' = [tx EXCEPT ![r] = nextGen] /\ rx' = [rx EXCEPT ![r] = nextGen]
    /\ txLock' = [txLock EXCEPT ![Shard[r]] = NoOne]
    /\ calls' = [calls EXCEPT ![c].pc = "gate", ![c].gen = nextGen]
    /\ UNCHANGED <<leases, acks, chan, gate, rxGuard, node, parked, worker, notified,
                   topo, outcome, hist>>

LockGate(c) ==
    /\ At(c, "gate")
    /\ gate[calls[c].gen] = NoOne
    /\ gate' = [gate EXCEPT ![calls[c].gen] = c]
    /\ Goto(c, "admit")
    /\ UNCHANGED <<leases, acks, tx, rx, chan, txLock, rxGuard, nextGen, node, parked,
                   worker, notified, topo, outcome, hist>>

\* NodeQueueSender::try_admit for incarnation n: an aborted queue is closed, a
\* full lane refuses.
CanAdmit(n, r) == n = nodeQueue /\ slots[LaneOf[r]] < LaneCap

\* process_queue_is_current
CurrentQueue(r, g) == tx[r] = g

\* Under the gate: a retired generation is looked up again; otherwise the lane
\* and the channel admit the message, or the call is refused and drops it.
Admit(c) ==
    LET r == RouteOf[c]
        g == calls[c].gen
    IN
    /\ At(c, "admit")
    /\ txLock[Shard[r]] = NoOne
    /\ gate' = [gate EXCEPT ![g] = NoOne]
    /\ \/ /\ ~CurrentQueue(r, g)
          /\ Goto(c, "lookup")
          /\ UNCHANGED <<leases, acks, chan, home, slots, notified, accepted>>
       \/ /\ CurrentQueue(r, g)
          /\ CanAdmit(calls[c].nq, r) /\ Len(chan[g]) < QueueCap
          /\ Goto(c, "ok")
          /\ chan' = [chan EXCEPT ![g] = Append(@, c)]
          /\ home' = [home EXCEPT ![c] = calls[c].nq]
          /\ slots' = [slots EXCEPT ![LaneOf[r]] = @ + 1]
          /\ notified' = TRUE
          /\ accepted' = [accepted EXCEPT ![r] = Append(@, c)]
          /\ UNCHANGED <<leases, acks>>
       \/ /\ CurrentQueue(r, g)
          /\ ~(CanAdmit(calls[c].nq, r) /\ Len(chan[g]) < QueueCap)
          /\ Goto(c, "refused")
          /\ Release({c})
          /\ UNCHANGED <<chan, home, slots, notified, accepted>>
    /\ UNCHANGED <<tx, rx, txLock, rxGuard, nextGen, nodeQueue, queues, lane, parked,
                   worker, topo, outcome, laned>>

----------------------------------------------------------------------------
(* congestion_control_worker                                               *)

\* A pass starts from the receivers there are.
Pass == [worker EXCEPT !.pc = "pick", !.progress = FALSE,
             !.todo = {<<r, rx[r]>> : r \in {q \in Routes : rx[q] # 0}}]


\* next_worker_action at the end of a pass: sleep, or start another.
EndPass ==
    /\ worker.pc = "pick" /\ worker.todo = {}
    /\ worker' = IF ~worker.progress /\ \A r \in Routes : parked[r] = NoOne
                    THEN [worker EXCEPT !.pc = "wait"] ELSE Pass
    /\ UNCHANGED <<calls, leases, acks, maps, node, parked, notified, topo, outcome, hist>>

\* has_messages.notified().await: a permit stored since the pass began wakes it.
Wake ==
    /\ worker.pc = "wait" /\ notified
    /\ notified' = FALSE
    /\ worker' = Pass
    /\ UNCHANGED <<calls, leases, acks, maps, node, parked, topo, outcome, hist>>

\* The worker turns to one route q = <<route, generation>> of the pass.
On(q, pc) == [worker EXCEPT !.todo = @ \ {q}, !.pc = pc, !.route = q[1], !.gen = q[2]]

\* The node queue is gone: it is created again, or the message is dropped when
\* its node left the topology.
RecoverNodeQueue(q, r) ==
    /\ nodeQueue = 0
    /\ \/ /\ member
          /\ NewNodeQueue
          /\ UNCHANGED <<leases, acks, parked, outcome>>
       \/ /\ ~member
          /\ Release({parked[r]})
          /\ outcome' = [outcome EXCEPT ![parked[r]] = "gone"]
          /\ parked' = [parked EXCEPT ![r] = NoOne]
          /\ UNCHANGED <<nodeQueue, queues, slots, lane>>
    /\ worker' = [On(q, "pick") EXCEPT !.progress = TRUE]
    /\ UNCHANGED <<home, laned>>

\* try_rehome: the message needs a slot of the current incarnation, its own or a
\* new one.
Rehome(c, l) ==
    /\ home[c] = nodeQueue \/ slots[l] < LaneCap
    /\ home' = [home EXCEPT ![c] = nodeQueue]
    /\ slots' = [slots EXCEPT ![l] = IF home[c] = nodeQueue THEN @ ELSE @ + 1]

\* try_rehome, then try_enqueue_admitted; without a slot the message stays parked.
RehomeAndEnqueue(q, r) ==
    LET c == parked[r]
        l == LaneOf[r]
    IN
    /\ nodeQueue # 0
    /\ \/ /\ home[c] # nodeQueue /\ slots[l] >= LaneCap
          /\ worker' = On(q, "pick")
          /\ UNCHANGED <<home, slots, lane, parked, laned>>
       \/ /\ Rehome(c, l)
          /\ lane' = [lane EXCEPT ![l] = Append(@, c)]
          /\ laned' = [laned EXCEPT ![r] = Append(@, c)]
          /\ parked' = [parked EXCEPT ![r] = NoOne]
          /\ worker' = [On(q, "guard") EXCEPT !.progress = TRUE]
    /\ UNCHANGED <<leases, acks, nodeQueue, queues, outcome>>

\* One route of the pass: what is parked is forwarded first; a parked message of
\* another generation makes the worker skip the route.
Forward(q) ==
    LET r == q[1]
        c == parked[r]
    IN
    /\ worker.pc = "pick"
    /\ \/ /\ c = NoOne
          /\ worker' = On(q, "guard")
          /\ UNCHANGED <<leases, acks, node, parked, outcome, laned>>
       \/ /\ c # NoOne /\ calls[c].gen # q[2]
          /\ worker' = On(q, "pick")
          /\ UNCHANGED <<leases, acks, node, parked, outcome, laned>>
       \/ /\ c # NoOne /\ calls[c].gen = q[2]
          /\ RecoverNodeQueue(q, r) \/ RehomeAndEnqueue(q, r)
    /\ UNCHANGED <<calls, maps, notified, topo, accepted>>

\* The receiver is looked up and stays guarded until its gate is taken.
GuardReceiver ==
    /\ worker.pc = "guard"
    /\ IF rx[worker.route] = worker.gen
         THEN rxGuard' = TRUE /\ worker' = [worker EXCEPT !.pc = "gate"]
         ELSE UNCHANGED rxGuard /\ worker' = [worker EXCEPT !.pc = "pick"]
    /\ UNCHANGED <<calls, leases, acks, tx, rx, chan, gate, txLock, nextGen, node, parked,
                   notified, topo, outcome, hist>>

\* Mutant: the newest message is taken.
ReceiveNewest ==
    LET g == worker.gen IN
    /\ worker.pc = "gate"
    /\ gate[g] = NoOne
    /\ gate' = [gate EXCEPT ![g] = Worker]
    /\ rxGuard' = FALSE
    /\ IF chan[g] = <<>>
         THEN worker' = [worker EXCEPT !.pc = "retire"] /\ UNCHANGED chan
         ELSE /\ worker' = [worker EXCEPT !.pc = "park", !.msg = Last(chan[g])]
              /\ chan' = [chan EXCEPT ![g] = Front(@)]
    /\ UNCHANGED <<calls, leases, acks, tx, rx, txLock, nextGen, node, parked, notified,
                   topo, outcome, hist>>

\* try_recv under the gate; the guards are released.
Receive ==
    LET g == worker.gen IN
    /\ worker.pc = "gate"
    /\ gate[g] = NoOne
    /\ gate' = [gate EXCEPT ![g] = Worker]
    /\ rxGuard' = FALSE
    /\ IF chan[g] = <<>>
         THEN worker' = [worker EXCEPT !.pc = "retire"] /\ UNCHANGED chan
         ELSE /\ worker' = [worker EXCEPT !.pc = "park", !.msg = Head(chan[g])]
              /\ chan' = [chan EXCEPT ![g] = Tail(@)]
    /\ UNCHANGED <<calls, leases, acks, tx, rx, txLock, nextGen, node, parked, notified,
                   topo, outcome, hist>>

\* The received message becomes the route's message in progress.
Park ==
    LET r == worker.route
        c == worker.msg
    IN
    /\ worker.pc = "park"
    /\ txLock[Shard[r]] = NoOne
    /\ IF CurrentQueue(r, calls[c].gen)
         THEN parked' = [parked EXCEPT ![r] = c] /\ UNCHANGED <<leases, acks, slots, outcome>>
         ELSE /\ Release({c}) /\ slots' = SlotsWithout({c})
              /\ outcome' = [outcome EXCEPT ![c] = "gone"]
              /\ UNCHANGED parked
    /\ gate' = [gate EXCEPT ![worker.gen] = NoOne]
    /\ worker' = [worker EXCEPT !.pc = "pick", !.progress = TRUE, !.msg = NoOne]
    /\ UNCHANGED <<calls, tx, rx, chan, txLock, rxGuard, nextGen, nodeQueue, queues, home,
                   lane, notified, topo, hist>>

\* Bound: generations left for every route to start another queue.
MayRetire == nextGen - 1 + Cardinality({r \in Routes : tx[r] = 0}) < MaxGen

\* remove_idle_process_resources_if_generation: the sender goes first.
RetireSender ==
    LET r == worker.route IN
    /\ worker.pc = "retire"
    /\ txLock[Shard[r]] = NoOne
    /\ IF tx[r] = worker.gen /\ MayRetire
         THEN tx' = [tx EXCEPT ![r] = 0] /\ worker' = [worker EXCEPT !.pc = "cleanup"]
              /\ UNCHANGED gate
         ELSE /\ worker' = [worker EXCEPT !.pc = "pick"]
              /\ gate' = [gate EXCEPT ![worker.gen] = NoOne]
              /\ UNCHANGED tx
    /\ UNCHANGED <<calls, leases, acks, rx, chan, txLock, rxGuard, nextGen, node, parked,
                   notified, topo, outcome, hist>>

\* Mutant: the receiver is removed whatever its generation.
CleanupAnyGeneration ==
    /\ worker.pc = "cleanup"
    /\ rx' = [rx EXCEPT ![worker.route] = 0]
    /\ gate' = [gate EXCEPT ![worker.gen] = NoOne]
    /\ worker' = [worker EXCEPT !.pc = "pick"]
    /\ UNCHANGED <<calls, leases, acks, tx, chan, txLock, rxGuard, nextGen, node, parked,
                   notified, topo, outcome, hist>>

\* cleanup_process_generation: the receiver of this generation, then the gate.
CleanupGeneration ==
    LET r == worker.route IN
    /\ worker.pc = "cleanup"
    /\ rx' = [rx EXCEPT ![r] = IF @ = worker.gen THEN 0 ELSE @]
    /\ gate' = [gate EXCEPT ![worker.gen] = NoOne]
    /\ worker' = [worker EXCEPT !.pc = "pick"]
    /\ UNCHANGED <<calls, leases, acks, tx, chan, txLock, rxGuard, nextGen, node, parked,
                   notified, topo, outcome, hist>>

----------------------------------------------------------------------------
(* The lanes and the topology                                              *)

\* The connection manager is done with a lane's oldest message.
LaneDone(l) ==
    /\ lane[l] # <<>>
    /\ LET c == Head(lane[l]) IN
       /\ Release({c}) /\ slots' = SlotsWithout({c})
       /\ outcome' = [outcome EXCEPT ![c] = "sent"]
       /\ lane' = [lane EXCEPT ![l] = Tail(@)]
    /\ UNCHANGED <<calls, maps, nodeQueue, queues, home, parked, worker, notified, topo, hist>>

\* The control client's node list changes.
RefreshNodes ==
    /\ \/ member /\ leaves < MaxLeaves /\ member' = FALSE /\ leaves' = leaves + 1
       \/ ~member /\ member' = TRUE /\ UNCHANGED leaves
    /\ UNCHANGED <<calls, leases, acks, maps, node, parked, worker, notified, outcome, hist>>

\* NodeQueue::abort: the lanes and the messages in them go.
AbortNodeQueue ==
    LET lost == UNION {ToSet(lane[l]) : l \in Lanes} IN
    /\ nodeQueue' = 0
    /\ Release(lost)
    /\ lane' = [l \in Lanes |-> <<>>] /\ slots' = [l \in Lanes |-> 0]
    /\ outcome' = [c \in Calls |-> IF c \in lost THEN "gone" ELSE outcome[c]]

\* reconcile_topology aborts the queue of a node that left.
ReconcileTopology ==
    /\ ~member /\ nodeQueue # 0
    /\ AbortNodeQueue
    /\ UNCHANGED <<calls, maps, queues, home, parked, worker, notified, topo, hist>>

Send(c) == \/ StartMessage(c) \/ CreateNodeQueue(c) \/ LookupSender(c) \/ InsertQueue(c)
           \/ LockGate(c) \/ Admit(c)
Work == \/ EndPass \/ Wake \/ \E q \in worker.todo : Forward(q)
        \/ GuardReceiver \/ Receive \/ Park \/ RetireSender \/ CleanupGeneration

RouteNext ==
    \/ \E c \in Calls : Send(c)
    \/ Work
    \/ \E l \in Lanes : LaneDone(l)
    \/ RefreshNodes
    \/ ReconcileTopology

\* Tasks and lanes are scheduled; nothing obliges the topology to change.
RouteFairness ==
    /\ \A c \in Calls : WF_routeVars(Send(c))
    /\ WF_routeVars(Work)
    /\ \A l \in Lanes : WF_routeVars(LaneDone(l))

RouteSpec == RouteInit /\ [][RouteNext]_routeVars /\ RouteFairness

----------------------------------------------------------------------------
(* Properties                                                              *)

InChannel(c) == \E r \in Routes : rx[r] # 0 /\ c \in ToSet(chan[rx[r]])
InLane(c) == \E l \in Lanes : c \in ToSet(lane[l])
PlacesOf(c) ==
    {p \in {"channel", "worker", "parked", "lane", "ended"} :
        \/ p = "channel" /\ InChannel(c)
        \/ p = "worker"  /\ worker.msg = c
        \/ p = "parked"  /\ \E r \in Routes : parked[r] = c
        \/ p = "lane"    /\ InLane(c)
        \/ p = "ended"   /\ outcome[c] # "none"}

\* A message new_message reported as accepted is in exactly one place: a channel
\* the worker can still reach, the worker's hands, route_in_progress, a lane, or
\* done (retiring an idle queue never strands a message that races with it).
AcceptedIsHeld == \A c \in Calls : At(c, "ok") => Cardinality(PlacesOf(c)) = 1

\* The three reservations of a message are returned exactly when it is gone: the
\* budget and the acknowledgement table hold the calls in flight and the messages
\* still held, and a lane counts the held messages that belong to its queue.
Held == {c \in Calls : At(c, "ok") /\ outcome[c] = "none"}
ReservationsExact ==
    LET pending == {c \in Calls : calls[c].pc \notin {"start", "ok", "refused"}} IN
    /\ leases = pending \cup Held /\ acks = leases
    /\ \A l \in Lanes : nodeQueue # 0 =>
          slots[l] = Cardinality({c \in Held : home[c] = nodeQueue /\ LaneOf[RouteOf[c]] = l})

\* Messages of one route enter the lane in the order they were accepted.
RouteFifo == \A r \in Routes : \A i, j \in 1..Len(laned[r]) :
    i < j => \E m, n \in 1..Len(accepted[r]) :
                m < n /\ accepted[r][m] = laned[r][i] /\ accepted[r][n] = laned[r][j]

\* An accepted message is in one place, paid for once, and keeps its turn.
RoutesSafe == AcceptedIsHeld /\ ReservationsExact /\ RouteFifo

(***************************************************************************)
(* Why: what locks, generations and places of messages look like at every  *)
(* step of the senders and the worker.                                     *)
(***************************************************************************)
CallPlaces == {"start", "refused", "create", "lookup", "insert", "gate", "admit", "ok"}
WorkerPlaces == {"pick", "wait", "guard", "gate", "park", "retire", "cleanup"}
RouteTypes ==
    /\ calls \in [Calls -> [pc : CallPlaces, gen : 0..MaxGen, nq : Nat]]
    /\ tx \in [Routes -> 0..MaxGen] /\ rx \in [Routes -> 0..MaxGen]
    /\ chan \in [Gens -> Seq(Calls)] /\ gate \in [Gens -> Calls \cup {NoOne, Worker}]
    /\ txLock \in [Shards -> Calls \cup {NoOne}] /\ nextGen \in 1..MaxGen + 1
    /\ nodeQueue \in Nat /\ queues \in Nat /\ home \in [Calls -> Nat]
    /\ slots \in [Lanes -> Int] /\ lane \in [Lanes -> Seq(Calls)]
    /\ parked \in [Routes -> Calls \cup {NoOne}]
    /\ worker \in [pc : WorkerPlaces, todo : SUBSET (Routes \X (1..nextGen - 1)), progress : BOOLEAN,
                   route : Routes, gen : 0..MaxGen, msg : Calls \cup {NoOne}]
    /\ outcome \in [Calls -> {"none", "sent", "gone"}]
    /\ accepted \in [Routes -> Seq(Calls)] /\ laned \in [Routes -> Seq(Calls)]

\* A sender's queue has a receiver, a generation belongs to one route, and a channel with
\* messages is the one of its route.
RoutesOK ==
    /\ \A r \in Routes : (tx[r] # 0 => rx[r] = tx[r]) /\ rx[r] < nextGen
    /\ \A r, q \in Routes : rx[r] # 0 /\ rx[r] = rx[q] => r = q
    /\ \A g \in Gens : \A c \in ToSet(chan[g]) : calls[c].gen = g /\ tx[RouteOf[c]] = g

\* A call that fills the maps has its shard, and one that admits has its gate.
SendersOK ==
    \A c \in Calls :
        /\ At(c, "insert") => txLock[Shard[RouteOf[c]]] = c /\ tx[RouteOf[c]] = 0
        /\ calls[c].pc \in {"gate", "admit", "ok"} => calls[c].gen \in 1..nextGen - 1
        /\ At(c, "admit") => gate[calls[c].gen] = c

\* The worker holds the gate of what it takes or retires, and what it retires is empty.
WorkerOK ==
    /\ worker.pc \in {"guard", "gate", "park", "retire", "cleanup"} => worker.gen \in 1..nextGen - 1
    /\ worker.pc = "gate" => rxGuard /\ rx[worker.route] = worker.gen
    /\ worker.pc \in {"park", "retire", "cleanup"} => gate[worker.gen] = Worker
    /\ worker.pc \in {"retire", "cleanup"} => chan[worker.gen] = <<>>
    /\ worker.pc = "cleanup" => \A r \in Routes : tx[r] # worker.gen
    /\ worker.pc \in {"guard", "gate", "park"} => parked[worker.route] = NoOne
    /\ worker.pc = "park" =>
          /\ worker.msg \in Calls /\ calls[worker.msg].gen = worker.gen
          /\ RouteOf[worker.msg] = worker.route /\ tx[worker.route] = worker.gen
    /\ worker.pc # "park" => worker.msg = NoOne

InQueue(c) == \E g \in Gens : c \in ToSet(chan[g])
Taken(c) == worker.msg = c
Parked(c) == \E r \in Routes : parked[r] = c
Distinct(s) == \A i, j \in 1..Len(s) : s[i] = s[j] => i = j

\* A message that is held is in one place, and nothing else is in any.
PlacesOK ==
    /\ \A g \in Gens : Distinct(chan[g])
    /\ \A l \in Lanes : Distinct(lane[l])
    /\ \A r \in Routes : parked[r] # NoOne => RouteOf[parked[r]] = r
    /\ \A l \in Lanes : \A c \in ToSet(lane[l]) :
          LaneOf[RouteOf[c]] = l /\ nodeQueue # 0 /\ home[c] = nodeQueue
    /\ \A c \in Calls :
          /\ c \in Held <=> InQueue(c) \/ Taken(c) \/ Parked(c) \/ InLane(c)
          /\ ~(InQueue(c) /\ Taken(c)) /\ ~(InQueue(c) /\ Parked(c)) /\ ~(InQueue(c) /\ InLane(c))
          /\ ~(Taken(c) /\ Parked(c)) /\ ~(Taken(c) /\ InLane(c)) /\ ~(Parked(c) /\ InLane(c))

\* c was accepted on route r before d.
Before(r, c, d) == \E m, n \in 1..Len(accepted[r]) : m < n /\ accepted[r][m] = c /\ accepted[r][n] = d

\* The lanes, then what the worker or route_in_progress has, then the channel: in the order
\* of acceptance.
OrderOK ==
    /\ \A c \in Calls : At(c, "ok") => c \in ToSet(accepted[RouteOf[c]])
    /\ \A r \in Routes : \A c \in ToSet(laned[r]) : c \in ToSet(accepted[r])
    /\ \A r \in Routes : \A i, j \in 1..Len(laned[r]) : i < j => Before(r, laned[r][i], laned[r][j])
    /\ \A d \in Calls : InQueue(d) \/ Taken(d) \/ Parked(d) =>
          \A c \in ToSet(laned[RouteOf[d]]) : Before(RouteOf[d], c, d)
    /\ \A c, d \in Calls : (Taken(c) \/ Parked(c)) /\ InQueue(d) /\ RouteOf[c] = RouteOf[d] => Before(RouteOf[d], c, d)
    /\ \A g \in Gens : \A i, j \in 1..Len(chan[g]) : i < j => Before(RouteOf[chan[g][j]], chan[g][i], chan[g][j])

\* No message holds a slot of an incarnation that is not there yet.
CountsOK ==
    /\ ReservationsExact /\ nodeQueue <= queues
    /\ \A c \in Calls : home[c] <= queues /\ (calls[c].pc \in {"lookup", "insert", "gate", "admit"} => calls[c].nq \in 1..queues)
    /\ \A c \in Calls : ~At(c, "ok") => outcome[c] = "none"

RouteInv == RouteTypes /\ RoutesOK /\ SendersOK /\ WorkerOK /\ PlacesOK /\ OrderOK /\ CountsOK

\* Every send ends: refused, or accepted and then done with.  No call waits for
\* ever for a gate or a shard, the worker never sleeps on an accepted message, and
\* no route is skipped for ever.
EverySendEnds == []<>(\A c \in Calls : At(c, "refused") \/ outcome[c] # "none")
=============================================================================
