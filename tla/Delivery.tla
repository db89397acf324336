------------------------------ MODULE Delivery ------------------------------
(***************************************************************************)
(* Delivery of the messages of one lane to one remote process: the stream  *)
(* task and the connection manager of the sending node (retries, replay    *)
(* window, application acknowledgement), a network that loses, duplicates  *)
(* and delays, and the receiving node's replay cache and inbound route     *)
(* lock.                                                                   *)
(*                                                                         *)
(* Time is a Tick.  An attempt is one QUIC stream: once its sender gave it *)
(* up it may still reach the handler within Life ticks (the reassembly     *)
(* deadline), or never.  Replies travel in the control class, which has no *)
(* deadline, so a reply may arrive at any time and more than once.         *)
(* Requests of one message always have the same content (no Conflict).     *)
(***************************************************************************)
EXTENDS Naturals, Integers, FiniteSets, Sequences, SequencesExt

CONSTANTS
    N,              \* messages 1..N, accepted by the lane in this order
    Window,         \* APPLICATION_ACK_REPLAY_DEADLINE, in ticks
    Life,           \* longest time from giving up an attempt to its arrival
    Ttl,            \* INBOUND_REPLAY_TTL
    Capacities,     \* sizes the replay cache may be configured with
    MaxTries        \* bound: attempts that reach the network

\* The relation the repository's own constants keep (asserted by a test of client.rs).
ASSUME DeliveryAssumption ==
    /\ {N, Window, Life, Ttl, MaxTries} \cup Capacities \subseteq Nat \ {0}
    /\ Ttl > Window + Life

\* VecDeque::retain: the elements of s that are in S, in their order.
Retain(s, S) ==
    LET kept[i \in 0..Len(s)] ==
            IF i = 0 THEN <<>>
            ELSE IF s[i] \in S THEN Append(kept[i - 1], s[i]) ELSE kept[i - 1]
    IN kept[Len(s)]

Messages == 1..N
Answers == {"sent", "refused", "busy", "timeout"}

VARIABLES
    connected,  \* the node's connection is up, stream tasks run
    queue,      \* receiver of the lane
    retry,      \* retry_front
    flight,     \* the InFlightMessage, 0 when there is none
    window,     \* ticks left of the replay window, -1 before the first attempt
    tries,      \* attempts so far
    acked,      \* messages whose application acknowledgement is set
    fate,       \* "held" until the lane drops the message, then why
    wire,       \* attempts [msg, try, life] that may still arrive
    replies,    \* responses <<message, answer>> in the network
    call,       \* result the caller of send got, "waiting" before
    capacity,   \* max_entries of the replay cache
    entry,      \* replay cache: "none", "running" or "done"
    answer,     \* what the entry completed with
    age,        \* ticks since it completed or was last used
    order,      \* completed_order
    handler,    \* the guarded execution of a message: "idle", "queued", "inside"
    waiting,    \* messages with a duplicate in ReplayEntry::wait
    executed    \* history: messages put into the destination's mailbox

sender == <<queue, retry, flight, window, tries, fate>>
cache == <<entry, answer, age, order, capacity>>
server == <<cache, handler, waiting, executed>>
vars == <<connected, sender, acked, wire, replies, call, server>>

Init ==
    /\ connected = FALSE
    /\ queue = [i \in Messages |-> i] /\ retry = <<>> /\ flight = 0
    /\ window = [m \in Messages |-> -1] /\ tries = [m \in Messages |-> 0]
    /\ acked = {} /\ fate = [m \in Messages |-> "held"]
    /\ wire = {} /\ replies = {}
    /\ call = [m \in Messages |-> "waiting"]
    /\ entry = [m \in Messages |-> "none"] /\ answer = [m \in Messages |-> "none"]
    /\ age = [m \in Messages |-> 0] /\ order = <<>> /\ capacity \in Capacities
    /\ handler = [m \in Messages |-> "idle"] /\ waiting = {} /\ executed = <<>>

----------------------------------------------------------------------------
(* The sending node                                                        *)

Expired(m) == window[m] = 0
Terminal(m) == m \in acked \/ Expired(m)
Why(m) == IF m \in acked THEN "acked" ELSE "expired"

ConnectOnly ==
    /\ ~connected /\ connected' \in BOOLEAN
    /\ UNCHANGED <<sender, acked, wire, replies, call, server>>
\* A round of the manager's loop: reap_terminal_retries, before the connection
\* attempt and again while it lasts, and the end of the attempt.
Reconnect ==
    /\ ~connected /\ connected' \in BOOLEAN
    /\ fate' = [m \in Messages |-> IF m \in ToSet(retry) /\ Terminal(m) THEN Why(m) ELSE fate[m]]
    /\ retry' = Retain(retry, {m \in Messages : ~Terminal(m)})
    /\ UNCHANGED <<queue, flight, window, tries, acked, wire, replies, call, server>>

\* A dropped InFlightMessage goes back to the front of the retry queue.
PutBack ==
    /\ retry' = IF flight = 0 THEN retry ELSE <<flight>> \o retry
    /\ flight' = 0

\* The connection fails or is closed.
ConnectionFailed ==
    /\ connected /\ connected' = FALSE
    /\ PutBack
    /\ UNCHANGED <<queue, window, tries, fate, acked, wire, replies, call, server>>

StartReplayWindow(m) == window' = [window EXCEPT ![m] = IF @ = -1 THEN Window ELSE @]

\* The bound on attempts.
AttemptsLeft == FoldFunction(+, 0, tries) < MaxTries
\* A fresh stream carries the whole message.
SendOnFreshStream(m) ==
    IF AttemptsLeft
    THEN /\ tries' = [tries EXCEPT ![m] = @ + 1]
         /\ wire' = wire \cup {[msg |-> m, try |-> tries[m] + 1, life |-> Life]}
    ELSE UNCHANGED <<tries, wire>>

TakeNewestFirst ==
    /\ connected /\ flight = 0 /\ retry \o queue # <<>>
    /\ LET m == Head(queue \o retry) IN
        /\ IF queue # <<>> THEN queue' = Tail(queue) /\ UNCHANGED retry
                           ELSE retry' = Tail(retry) /\ UNCHANGED queue
        /\ flight' = m /\ StartReplayWindow(m) /\ SendOnFreshStream(m) /\ UNCHANGED fate
    /\ UNCHANGED <<connected, acked, replies, call, server>>
\* next_message, then the checks before the send.
TakeMessage ==
    /\ connected /\ flight = 0 /\ retry \o queue # <<>>
    /\ LET m == Head(retry \o queue) IN
        /\ IF retry # <<>> THEN retry' = Tail(retry) /\ UNCHANGED queue
                           ELSE queue' = Tail(queue) /\ UNCHANGED retry
        /\ \/ /\ Terminal(m)
              /\ fate' = [fate EXCEPT ![m] = Why(m)]
              /\ UNCHANGED <<flight, window, tries, wire>>
           \/ /\ ~Terminal(m)
              /\ flight' = m
              /\ StartReplayWindow(m)
              /\ SendOnFreshStream(m)
              /\ UNCHANGED fate
    /\ UNCHANGED <<connected, acked, replies, call, server>>

\* The acknowledgement or the deadline ends the send: InFlightMessage::commit.
Commit ==
    /\ flight # 0 /\ Terminal(flight)
    /\ fate' = [fate EXCEPT ![flight] = Why(flight)]
    /\ flight' = 0
    /\ UNCHANGED <<connected, queue, retry, window, tries, acked, wire, replies, call, server>>

\* The stream failed or its acknowledgement timed out: the message is replayed.
Replay ==
    /\ flight # 0 /\ ~Terminal(flight)
    /\ PutBack
    /\ UNCHANGED <<connected, queue, window, tries, fate, acked, wire, replies, call, server>>

RecvForAnyWaiter ==
    /\ \E r \in replies, m \in Messages :
        /\ acked' = acked \cup {r[1]}
        /\ call[m] = "waiting" /\ call' = [call EXCEPT ![m] = r[2]]
    /\ UNCHANGED <<connected, sender, wire, replies, server>>
\* The two things a response does, independently of each other: it acknowledges
\* the message to its lane, and fills the cell of a caller that still waits.
Acknowledge(m) == acked' = IF fate[m] = "held" THEN acked \cup {m} ELSE acked
DeliverResponse(m, a) == call[m] = "waiting" /\ call' = [call EXCEPT ![m] = a]

\* recv_response: a response nobody expects is dropped, and the cell may be
\* overwritten before the caller takes its content.
RecvResponse ==
    /\ \E r \in replies :
        /\ Acknowledge(r[1])
        /\ DeliverResponse(r[1], r[2]) \/ UNCHANGED call
    /\ UNCHANGED <<connected, sender, wire, replies, server>>

\* expire_responses, or the timeout of send_with_timeout, ends an unanswered call.
ExpireResponses ==
    /\ \E m \in Messages : call[m] = "waiting" /\ call' = [call EXCEPT ![m] = "timeout"]
    /\ UNCHANGED <<connected, sender, acked, wire, replies, server>>

----------------------------------------------------------------------------
(* The receiving node                                                      *)

Reply(m, a) == replies' = replies \cup {<<m, a>>}

\* The cache after begin dropped the expired tombstones at the front of completed_order.
FreshShort(m) == age[m] + 1 < Ttl
Fresh(m) == age[m] < Ttl
Purged == LET k == SelectInSeq(order, Fresh) IN
              IF k = 0 THEN <<>> ELSE SubSeq(order, k, Len(order))
Kept == [m \in Messages |-> IF m \in ToSet(order) \ ToSet(Purged) THEN "none" ELSE entry[m]]

\* begin for a request of message m, by what the purged cache holds.
Saturated(m) ==
    /\ Kept[m] = "none" /\ Cardinality({x \in Messages : Kept[x] # "none"}) >= capacity
    /\ entry' = Kept /\ order' = Purged
    /\ Reply(m, "busy")
    /\ UNCHANGED <<answer, age, handler, waiting>>

Begin(m) ==
    /\ Kept[m] = "none" /\ Cardinality({x \in Messages : Kept[x] # "none"}) < capacity
    /\ entry' = [Kept EXCEPT ![m] = "running"] /\ order' = Purged
    /\ handler' = [handler EXCEPT ![m] = "queued"]
    /\ UNCHANGED <<answer, age, waiting, replies>>

Wait(m) ==
    /\ Kept[m] = "running"
    /\ entry' = Kept /\ order' = Purged
    /\ waiting' = waiting \cup {m}
    /\ UNCHANGED <<answer, age, handler, replies>>

CachedInPlace(m) ==
    /\ Kept[m] = "done"
    /\ entry' = Kept /\ order' = Purged
    /\ age' = [age EXCEPT ![m] = 0]
    /\ Reply(m, answer[m])
    /\ UNCHANGED <<answer, handler, waiting>>
Cached(m) ==
    /\ Kept[m] = "done"
    /\ entry' = Kept /\ order' = Append(Retain(Purged, Messages \ {m}), m)
    /\ age' = [age EXCEPT ![m] = 0]
    /\ Reply(m, answer[m])
    /\ UNCHANGED <<answer, handler, waiting>>

\* A complete request reaches handle_message.
Arrive ==
    /\ \E a \in wire :
        /\ wire' = wire \ {a}
        /\ Saturated(a.msg) \/ Begin(a.msg) \/ Wait(a.msg) \/ Cached(a.msg)
    /\ UNCHANGED <<connected, sender, acked, call, capacity, executed>>

\* A stream is reset, refused or lost.
Lose ==
    /\ \E a \in wire : wire' = wire \ {a}
    /\ UNCHANGED <<connected, sender, acked, replies, call, server>>

\* lock_inbound_route: one execution at a time for the destination.
LockInboundRoute ==
    /\ \A m \in Messages : handler[m] # "inside"
    /\ \E m \in Messages : handler[m] = "queued" /\ handler' = [handler EXCEPT ![m] = "inside"]
    /\ UNCHANGED <<connected, sender, acked, wire, replies, call, cache, waiting, executed>>

\* ReplayCache::finish; the handler and its route lock end.
Finish(m, a) ==
    /\ entry' = [entry EXCEPT ![m] = "done"] /\ answer' = [answer EXCEPT ![m] = a]
    /\ age' = [age EXCEPT ![m] = 0] /\ order' = Append(order, m)
    /\ handler' = [handler EXCEPT ![m] = "idle"]

\* deliver_process_message, finish and the reply, which may fail to be queued.
HandleProcessMessage ==
    /\ \E m \in Messages, a \in {"sent", "refused"} :
        /\ handler[m] = "inside"
        /\ executed' = IF a = "sent" THEN Append(executed, m) ELSE executed
        /\ Finish(m, a)
        /\ Reply(m, a) \/ UNCHANGED replies
    /\ UNCHANGED <<connected, sender, acked, wire, call, capacity, waiting>>

\* The guard is dropped without a result (its task panicked): Drop records a timeout.
DropGuard ==
    /\ \E m \in Messages : handler[m] # "idle" /\ Finish(m, "timeout")
    /\ UNCHANGED <<connected, sender, acked, wire, replies, call, capacity, waiting, executed>>

\* A duplicate that waited repeats the terminal result of the original.
AnswerDuplicate ==
    /\ \E m \in waiting : /\ answer[m] # "none"
                          /\ waiting' = waiting \ {m}
                          /\ Reply(m, answer[m]) \/ UNCHANGED replies
    /\ UNCHANGED <<connected, sender, acked, wire, call, cache, handler, executed>>

\* Time passes: an attempt still being sent does not age, one given up does.  The
\* deadline cancels the send: the delay of its timer is part of Life.
BeingSent(a) == a.msg = flight /\ a.try = tries[a.msg] /\ window[a.msg] > 0
Tick ==
    /\ \A a \in wire : BeingSent(a) \/ a.life > 0
    /\ window' = [m \in Messages |-> IF window[m] > 0 THEN window[m] - 1 ELSE window[m]]
    /\ age' = [m \in Messages |-> IF entry[m] = "done" /\ age[m] < Ttl THEN age[m] + 1 ELSE age[m]]
    /\ wire' = {IF BeingSent(a) THEN a ELSE [a EXCEPT !.life = @ - 1] : a \in wire}
    /\ UNCHANGED <<connected, queue, retry, flight, tries, fate, acked, replies, call,
                   entry, answer, order, capacity, handler, waiting, executed>>

Next ==
    \/ Reconnect \/ ConnectionFailed \/ TakeMessage \/ Commit \/ Replay
    \/ RecvResponse \/ ExpireResponses
    \/ Arrive \/ Lose \/ LockInboundRoute \/ HandleProcessMessage \/ DropGuard
    \/ AnswerDuplicate \/ Tick

\* The tasks of the sender and time go on; nothing is assumed of the network
\* or of the peer, except that what was given up is over at its deadline.
Fairness ==
    /\ WF_vars(Reconnect) /\ WF_vars(TakeMessage) /\ WF_vars(Commit)
    /\ WF_vars(Tick) /\ WF_vars(Lose)

Spec == Init /\ [][Next]_vars /\ Fairness

----------------------------------------------------------------------------
(* Properties                                                              *)

TypeOK ==
    /\ connected \in BOOLEAN
    /\ queue \in Seq(Messages) /\ retry \in Seq(Messages) /\ flight \in {0} \cup Messages
    /\ window \in [Messages -> -1..Window] /\ tries \in [Messages -> 0..MaxTries]
    /\ acked \subseteq Messages /\ fate \in [Messages -> {"held", "acked", "expired"}]
    /\ wire \subseteq [msg : Messages, try : 1..MaxTries, life : 0..Life]
    /\ replies \subseteq Messages \X Answers
    /\ call \in [Messages -> Answers \cup {"waiting"}]
    /\ entry \in [Messages -> {"none", "running", "done"}]
    /\ answer \in [Messages -> Answers \cup {"none"}]
    /\ age \in [Messages -> 0..Ttl] /\ order \in Seq(Messages) /\ capacity \in Capacities
    /\ handler \in [Messages -> {"idle", "queued", "inside"}]
    /\ waiting \subseteq Messages /\ executed \in Seq(Messages)

\* However often a message is sent again, whatever is lost, and whenever its
\* tombstone is dropped, the destination gets it at most once.
AtMostOnce == IsInjective(executed)

\* A call that reports success was delivered, and one told that the destination
\* refused the message was not.
AnswersAreTrue ==
    \A m \in Messages : /\ call[m] = "sent" => m \in ToSet(executed)
                        /\ call[m] = "refused" => m \notin ToSet(executed)

\* Messages of one sender reach the process in the order they were accepted,
\* unless the sender gave the earlier one up, its outcome unknown, or the
\* receiver turned one attempt of it away.
LaneFifo ==
    \A i, j \in DOMAIN executed :
        i < j /\ executed[i] > executed[j] =>
            \/ fate[executed[j]] = "expired"
            \/ <<executed[j], "busy">> \in replies

\* The list that drives expiry names every completed entry exactly once, oldest
\* first: begin can stop at the first fresh one and no tombstone is kept for ever.
TombstonesExpire ==
    /\ IsInjective(order)
    /\ ToSet(order) = {m \in Messages : entry[m] = "done"}
    /\ \A i, j \in DOMAIN order : i < j => age[order[i]] >= age[order[j]]

\* Callers, the process and the replay cache agree on what was delivered and when.
DeliverySafe == AnswersAreTrue /\ LaneFifo /\ TombstonesExpire

\* A message that was attempted does not stay in the lane (with its lease, lane
\* slot and acknowledgement entry) whatever the connection and the peer do.
AttemptedIsReleased == \A m \in Messages : []<>(window[m] >= 0 => fate[m] # "held")

\* A caller told that the request failed because the replay cache was full can
\* send it again: it was not delivered.
RefusedNeverRuns == \A m \in Messages : call[m] = "busy" => m \notin ToSet(executed)
=============================================================================
