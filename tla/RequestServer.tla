---------------------------- MODULE RequestServer ----------------------------
(***************************************************************************)
(* The receiving half of a node below the replay cache: admission of       *)
(* connections and request streams, reassembly of chunked messages under   *)
(* the server-wide receive budget, decoding, authorization, and the        *)
(* handling of a spawn request with its audit events.                      *)
(*                                                                         *)
(* A message of size n has n chunks; the bytes of a message, of the spare  *)
(* capacity of its buffer and of its decoded form are counted in chunks.   *)
(* What a peer sends, and what the calls of handle_spawn return, is chosen *)
(* freely.  Time is a Elapse.                                                *)
(***************************************************************************)
EXTENDS Integers, FiniteSets, Sequences, Amounts

CONSTANTS
    Peers,          \* nodes with a certificate of this cluster
    CertEnvs,       \* environments the certificate of each peer allows
    ServerEnvs,     \* allowed_envs of this node
    Envs,           \* all environments
    Streams,        \* request streams the peers open
    Ids,            \* message ids a stream uses
    MaxSize,        \* MAX_WIRE_MESSAGE_BYTES, in chunks
    MaxConnections, \* MAX_CONCURRENT_CONNECTIONS
    MaxStreams,     \* MAX_CONCURRENT_REQUEST_STREAMS
    MaxInFlight,    \* MAX_IN_FLIGHT_MESSAGES
    MaxBytes,       \* MAX_IN_FLIGHT_MESSAGE_BYTES
    Timeout,        \* REQUEST_MESSAGE_REASSEMBLY_TIMEOUT, in ticks
    Bad             \* no peer, no request, no message id

ASSUME ServerAssumption ==
    /\ IsFiniteSet(Streams) /\ IsFiniteSet(Ids) /\ Bad \notin Ids
    /\ MaxInFlight \in Nat /\ MaxBytes \in Nat /\ MaxSize \in Nat /\ Timeout \in Nat

VARIABLES
    members,    \* peers in the topology
    open,       \* connections: "handshake" or "open" for each peer, "none" otherwise
    stream,     \* [peer, pc, env]: peer of each stream, Bad when not accepted
    partial,    \* chunks of the reassembler: [size, next, left, held], one per id
    held,       \* bytes reserved by the message a stream decodes or dispatches, 0 if none
    usage,      \* ReceiveBudgetUsage
    spawned,    \* history: requests whose process was created
    log         \* history: audit events of the request a stream handles, in order

serverVars == <<members, open, stream, partial, held, usage, spawned, log>>

Closed == [peer |-> Bad, pc |-> "closed", env |-> Bad]

ServerInit ==
    /\ members \in SUBSET Peers
    /\ open = [p \in Peers |-> "none"]
    /\ stream = [s \in Streams |-> Closed]
    /\ partial = [s \in Streams |-> <<>>]
    /\ held = [s \in Streams |-> 0]
    /\ usage = [messages |-> 0, bytes |-> 0]
    /\ spawned = {} /\ log = [s \in Streams |-> <<>>]

Does(s, pc) == stream[s].pc = pc
Becomes(s, pc) == stream' = [stream EXCEPT ![s].pc = pc]

----------------------------------------------------------------------------
(* Connections and streams                                                 *)

\* The topology changes.
Membership == members' \in SUBSET Peers /\ UNCHANGED <<open, stream, partial, held, usage, spawned, log>>

\* A connection gets one of the connection permits or is refused.
AdmitConnection(p) ==
    /\ open[p] = "none"
    /\ Cardinality({q \in Peers : open[q] # "none"}) < MaxConnections
    /\ open' = [open EXCEPT ![p] = "handshake"]
    /\ UNCHANGED <<members, stream, partial, held, usage, spawned, log>>

\* The handshake fails, the peer is not a member, or the connection opens.
VerifyPeer(p) ==
    /\ open[p] = "handshake"
    /\ \/ open' = [open EXCEPT ![p] = "none"]
       \/ p \in members /\ open' = [open EXCEPT ![p] = "open"]
    /\ UNCHANGED <<members, stream, partial, held, usage, spawned, log>>

\* The connection closes; streams already accepted run on.
CloseConnection(p) ==
    /\ open[p] = "open" /\ open' = [open EXCEPT ![p] = "none"]
    /\ UNCHANGED <<members, stream, partial, held, usage, spawned, log>>

\* A stream gets a permit (it is stopped when there is none).
AcceptStream(p, s) ==
    /\ open[p] = "open" /\ stream[s] = Closed
    /\ Cardinality({t \in Streams : stream[t] # Closed}) < MaxStreams
    /\ stream' = [stream EXCEPT ![s] = [peer |-> p, pc |-> "reading", env |-> Bad]]
    /\ UNCHANGED <<members, open, partial, held, usage, spawned, log>>

----------------------------------------------------------------------------
(* The receive budget and the reassembler                                  *)

\* The messages a stream retains: the ones under way, and the one it is at.
Partials(s) == {s} \X DOMAIN partial[s]
Whole(s) == {s} \X (IF held[s] > 0 THEN {Bad} ELSE {})

\* What each of them has reserved.
HeldBy(m) == IF m[2] = Bad THEN held[m[1]] ELSE partial[m[1]][m[2]].held
Reservations(ms) == [m \in ms |-> HeldBy(m)]

Retained(s) == [messages |-> Cardinality(DOMAIN partial[s]), bytes |-> Total(Reservations(Partials(s)))]

TryReserveMessage(size) == usage.messages < MaxInFlight /\ usage.bytes + size <= MaxBytes
TryGrow(more) == usage.bytes + more <= MaxBytes

With(f, i, x) == [j \in DOMAIN f \cup {i} |-> IF j = i THEN x ELSE f[j]]
Without(f, i) == [j \in DOMAIN f \ {i} |-> f[j]]

\* The stream task returns: everything its reassembler retains is released.
EndStream(s) ==
    /\ stream' = [stream EXCEPT ![s] = Closed]
    /\ partial' = [partial EXCEPT ![s] = <<>>]
    /\ usage' = [messages |-> usage.messages - Retained(s).messages,
                 bytes |-> usage.bytes - Retained(s).bytes]
    /\ UNCHANGED <<members, open, held, spawned, log>>

\* push_chunk refuses a chunk, the stream is finished or reset, or a read times out.
ReadFails(s) == Does(s, "reading") /\ EndStream(s)

DeadlineOfAll(s) ==
    /\ Does(s, "reading") /\ DOMAIN partial[s] # {}
    /\ \A i \in DOMAIN partial[s] : partial[s][i].left = 0
    /\ EndStream(s)
\* timeout_at the earliest deadline of the partial messages.
DeadlinePassed(s) ==
    /\ Does(s, "reading")
    /\ \E i \in DOMAIN partial[s] : partial[s][i].left = 0
    /\ EndStream(s)

\* validate_chunk_header: no empty and no oversized message.
ValidSizes == 1..MaxSize

\* The first chunk of a message: its declared size is reserved, and then what the
\* allocator gave beyond it.
FirstChunk(s) ==
    /\ Does(s, "reading") /\ \A i \in DOMAIN partial[s] : partial[s][i].left > 0
    /\ \E i \in Ids \ DOMAIN partial[s], size \in ValidSizes, spare \in 0..1 :
        /\ TryReserveMessage(size + spare)
        /\ usage' = [messages |-> usage.messages + 1, bytes |-> usage.bytes + size + spare]
        /\ \/ /\ size = 1
              /\ held' = [held EXCEPT ![s] = size + spare] /\ Becomes(s, "decoding")
              /\ UNCHANGED partial
           \/ /\ size > 1
              /\ partial' = [partial EXCEPT ![s] =
                    With(@, i, [size |-> size, next |-> 1, left |-> Timeout, held |-> size + spare])]
              /\ UNCHANGED <<stream, held>>
    /\ UNCHANGED <<members, open, spawned, log>>

\* The next chunk in order of a message under way; the last one completes it.
NextChunk(s) ==
    /\ Does(s, "reading") /\ \A i \in DOMAIN partial[s] : partial[s][i].left > 0
    /\ \E i \in DOMAIN partial[s] :
        \/ /\ partial[s][i].next + 1 < partial[s][i].size
           /\ partial' = [partial EXCEPT ![s][i].next = @ + 1]
           /\ UNCHANGED <<stream, held>>
        \/ /\ partial[s][i].next + 1 = partial[s][i].size
           /\ partial' = [partial EXCEPT ![s] = Without(@, i)]
           /\ held' = [held EXCEPT ![s] = partial[s][i].held]
           /\ Becomes(s, "decoding")
    /\ UNCHANGED <<members, open, usage, spawned, log>>

ReleaseBytes(s) ==
    /\ usage' = [usage EXCEPT !.bytes = @ - held[s]]
    /\ held' = [held EXCEPT ![s] = 0]
\* The message of the stream is done with: its reservation is dropped.
ReleaseMessage(s) ==
    /\ usage' = [messages |-> usage.messages - 1, bytes |-> usage.bytes - held[s]]
    /\ held' = [held EXCEPT ![s] = 0]

----------------------------------------------------------------------------
(* Decoding and handle_message                                             *)

\* Dispatch is over; the reservation is dropped and the stream reads on.
Return(s) == stream' = [stream EXCEPT ![s].pc = "reading", ![s].env = Bad] /\ ReleaseMessage(s)

Emit(s, event) == log' = [log EXCEPT ![s] = Append(@, event)]

\* A message that does not decode, or whose decoded form does not fit the budget,
\* is dropped.
Discard(s) ==
    /\ Does(s, "decoding")
    /\ Return(s)
    /\ UNCHANGED <<members, open, partial, spawned, log>>

\* The checks every request passes before the replay cache sees it: an active peer,
\* its own identity as the source, and for a spawn or a message the environment.
Known(s, claim) == stream[s].peer \in members /\ claim = stream[s].peer
Permitted(s, env) == env \in CertEnvs[stream[s].peer] \cap ServerEnvs

\* The authorization is audited before the handler of a spawn begins.
AuditAuthorization(s, kind) ==
    log' = [log EXCEPT ![s] = IF kind = "spawn" THEN <<"allowed">> ELSE <<>>]

\* The decoded form is charged to the reservation before it is built, and the request
\* is authorized; nothing is awaited in between.
Dispatch(s) ==
    /\ Does(s, "decoding")
    /\ \E more \in 0..1, kind \in {"spawn", "message", "other"},
         claim \in Peers \cup {Bad}, env \in Envs :
        /\ TryGrow(more)
        /\ \/ ~Known(s, claim) /\ Return(s) /\ UNCHANGED log
           \/ Known(s, claim) /\ kind # "other" /\ ~Permitted(s, env) /\ Return(s) /\ UNCHANGED log
           \/ /\ Known(s, claim) /\ (kind = "other" \/ Permitted(s, env))
              /\ usage' = [usage EXCEPT !.bytes = @ + more]
              /\ held' = [held EXCEPT ![s] = @ + more]
              /\ stream' = [stream EXCEPT ![s].pc = kind, ![s].env = IF kind = "spawn" THEN env ELSE Bad]
              /\ AuditAuthorization(s, kind)
    /\ UNCHANGED <<members, open, partial, spawned>>

\* A message, response or registry request is handled (Delivery and
\* RegistryCoordination), or a duplicate spawn is answered by the replay cache.
HandleOther(s) ==
    /\ stream[s].pc \in {"message", "other", "spawn"}
    /\ Return(s)
    /\ log' = [log EXCEPT ![s] = <<>>]
    /\ UNCHANGED <<members, open, partial, spawned>>

\* handle_spawn up to its first await: the configuration must decode and pass the
\* receiver's policy.
DecodeConfig(s) ==
    /\ Does(s, "spawn")
    /\ \/ Becomes(s, "spawning") /\ UNCHANGED <<usage, held, log>>
       \/ Return(s) /\ Emit(s, "denied")
    /\ UNCHANGED <<members, open, partial, spawned>>

\* How classify_spawn_error reports a spawn that was refused.
Refusals == {"denied", "failed"}

\* The rest of handle_spawn: the module, the environment, admission, the state and
\* the instance, each of which may refuse; finish emits one event wherever it stops.
HandleSpawn(s) ==
    /\ Does(s, "spawning")
    /\ \/ /\ spawned' = spawned \cup {[by |-> stream[s].peer, env |-> stream[s].env]}
          /\ Emit(s, "succeeded") /\ Return(s)
       \/ /\ \E event \in Refusals : Emit(s, event)
          /\ Return(s) /\ UNCHANGED spawned
    /\ UNCHANGED <<members, open, partial>>

\* The handler's task is dropped at an await: the pending audit reports it, the
\* reservations and the permit of the stream go back.
CancelSilently(s) ==
    /\ Does(s, "spawning")
    /\ stream' = [stream EXCEPT ![s] = Closed]
    /\ partial' = [partial EXCEPT ![s] = <<>>] /\ held' = [held EXCEPT ![s] = 0]
    /\ usage' = [messages |-> usage.messages - Retained(s).messages - 1,
                 bytes |-> usage.bytes - Retained(s).bytes - held[s]]
    /\ UNCHANGED <<members, open, spawned, log>>
Cancel(s) ==
    /\ Does(s, "spawning")
    /\ Emit(s, "cancelled")
    /\ stream' = [stream EXCEPT ![s] = Closed]
    /\ partial' = [partial EXCEPT ![s] = <<>>] /\ held' = [held EXCEPT ![s] = 0]
    /\ usage' = [messages |-> usage.messages - Retained(s).messages - 1,
                 bytes |-> usage.bytes - Retained(s).bytes - held[s]]
    /\ UNCHANGED <<members, open, spawned>>

\* Time passes; the deadlines of a stream that is not reading are looked at when it
\* reads again.
Elapse ==
    /\ \E s \in Streams : DOMAIN partial[s] # {}
    /\ \A s \in Streams : Does(s, "reading") => \A i \in DOMAIN partial[s] : partial[s][i].left > 0
    /\ partial' = [s \in Streams |-> [i \in DOMAIN partial[s] |->
                     [partial[s][i] EXCEPT !.left = IF @ > 0 THEN @ - 1 ELSE 0]]]
    /\ UNCHANGED <<members, open, stream, held, usage, spawned, log>>

Handler(s) == Discard(s) \/ Dispatch(s) \/ HandleOther(s) \/ DecodeConfig(s) \/ HandleSpawn(s)

ServerNext ==
    \/ Membership \/ Elapse
    \/ \E p \in Peers : AdmitConnection(p) \/ VerifyPeer(p) \/ CloseConnection(p)
    \/ \E p \in Peers, s \in Streams : AcceptStream(p, s)
    \/ \E s \in Streams : \/ ReadFails(s) \/ DeadlinePassed(s) \/ FirstChunk(s) \/ NextChunk(s)
                          \/ Handler(s) \/ Cancel(s)

\* Time passes, deadlines fire and the calls a handler awaits return; the peer
\* may stop sending at any point and never close anything.
ServerFairness ==
    /\ WF_serverVars(Elapse)
    /\ \A s \in Streams : WF_serverVars(DeadlinePassed(s)) /\ WF_serverVars(Handler(s))

ServerSpec == ServerInit /\ [][ServerNext]_serverVars /\ ServerFairness

----------------------------------------------------------------------------
(* Properties                                                              *)

InFlight == UNION {Partials(s) \cup Whole(s) : s \in Streams}

\* The counters of the receive budget are what the partial, decoded and dispatched
\* messages of all streams hold: no path through a stream (a refused chunk, a missed
\* deadline, a message that does not decode, a dropped handler) leaks or returns
\* twice, and the two limits hold.
BudgetExact ==
    /\ usage.messages = Cardinality(InFlight) /\ usage.bytes = Total(Reservations(InFlight))
    /\ usage.messages <= MaxInFlight /\ usage.bytes <= MaxBytes

\* A spawn request leaves the handler with exactly one event after its authorization,
\* which says that it succeeded only if its process was created, and only in an
\* environment both the peer's certificate and this node allow.
SpawnAudited(s) ==
    Does(s, "spawning") /\ stream'[s].pc # "spawning" =>
        /\ Len(log'[s]) = 2 /\ Head(log'[s]) = "allowed"
        /\ log'[s][2] = "succeeded" =>
              /\ [by |-> stream[s].peer, env |-> stream[s].env] \in spawned'
              /\ stream[s].env \in CertEnvs[stream[s].peer] \cap ServerEnvs
AuditTrail == [][\A s \in Streams : SpawnAudited(s)]_serverVars

\* A peer that stops sending, or goes on sending other messages, cannot keep the
\* reservation of an incomplete message.
PartialsEnd == \A s \in Streams, i \in Ids : []<>(i \notin DOMAIN partial[s])

----------------------------------------------------------------------------
(* Why the budget is exact, and the audit trail complete                   *)

Stages == {"closed", "reading", "decoding", "spawn", "message", "other", "spawning"}
Partial == [size : Nat, next : Nat, left : Nat, held : Nat \ {0}]

ServerTypes ==
    /\ stream \in [Streams -> [peer : Peers \cup {Bad}, pc : Stages, env : Envs \cup {Bad}]]
    /\ DOMAIN partial = Streams
    /\ \A s \in Streams : DOMAIN partial[s] \subseteq Ids /\ \A i \in DOMAIN partial[s] : partial[s][i] \in Partial
    /\ held \in [Streams -> Nat] /\ usage \in [messages : Int, bytes : Int]
    /\ DOMAIN log = Streams

\* A stream has a message of its own from the last chunk until dispatch is over.
HoldsOK(s) == held[s] > 0 <=> ~(Does(s, "closed") \/ Does(s, "reading"))

\* A spawn request that is being handled was authorized, and that was audited.
AuthorizedOK(s) ==
    Does(s, "spawn") \/ Does(s, "spawning") =>
        log[s] = <<"allowed">> /\ stream[s].env \in CertEnvs[stream[s].peer] \cap ServerEnvs

ServerInv ==
    /\ ServerTypes /\ BudgetExact
    /\ \A s \in Streams : HoldsOK(s) /\ AuthorizedOK(s)
=============================================================================
