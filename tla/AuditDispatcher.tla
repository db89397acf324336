-------------------------- MODULE AuditDispatcher --------------------------
(***************************************************************************)
(* The bounded audit log: emitters put events into a channel without ever  *)
(* waiting, one writer thread hands them to the sink, flushers wait for a  *)
(* barrier they share, and closing stops the admission of events.          *)
(*                                                                         *)
(* Every step is one atomic operation of the code (a counter, the channel, *)
(* a lock); the sink may fail in any call, and a deadline may pass while a *)
(* flusher waits.                                                          *)
(***************************************************************************)
EXTENDS Naturals, Sequences, FiniteSets

CONSTANTS
    Emitters,
    Flushers,
    Capacity,       \* event_capacity
    MaxEvents,      \* bound: events emitted in all
    MaxFlushes      \* bound: flushes and closes in all

VARIABLES
    chan,       \* the channel: events (their numbers) and the barrier, 0
    depth,      \* queue_depth
    eventAdmission, \* counters.admission: [closed, active]
    healthy,    \* sink_healthy
    epoch,      \* event_epoch
    barrier,    \* the latest FlushBarrier: [epoch, outcome]
    writer,     \* [pc, cmd, healthy, failed]
    em,         \* each emitter: [pc, event]
    fl,         \* each flusher: [pc, op, required, leader, outcome, owed]
    calls,      \* emits and flushes so far: [emit, flush]
    accepted,   \* history: the events whose emit answered Enqueued
    written     \* history: the events the sink took

auditVars == <<chan, depth, eventAdmission, healthy, epoch, barrier, writer, em, fl, calls, accepted, written>>

Barrier == 0
Pending == "pending"
IdleEmitter == [pc |-> "idle", event |-> 0]
IdleFlusher == [pc |-> "idle", op |-> "flush", required |-> 0, leader |-> FALSE, outcome |-> "none", owed |-> {}]

AuditInit ==
    /\ chan = <<>> /\ depth = 0 /\ eventAdmission = [closed |-> FALSE, active |-> 0]
    /\ healthy = TRUE /\ epoch = 0 /\ barrier = [epoch |-> 0, outcome |-> "none"]
    /\ writer = [pc |-> "recv", cmd |-> 0, healthy |-> TRUE, failed |-> FALSE]
    /\ em = [e \in Emitters |-> IdleEmitter] /\ fl = [f \in Flushers |-> IdleFlusher]
    /\ calls = [emit |-> 0, flush |-> 0]
    /\ accepted = {} /\ written = {}

\* (A mutant: no slot for the barrier.)
SlotsForEvents == Capacity

\* One slot more than events: it is kept for the barrier.
Slots == Capacity + 1
Full == Len(chan) = Slots

-----------------------------------------------------------------------------
(* emit *)

EmitStep(e, pc) == em' = [em EXCEPT ![e].pc = pc]

\* ActiveEmitter::try_enter; a closed dispatcher drops the event.
Enter(e) ==
    /\ em[e].pc = "idle" /\ calls.emit < MaxEvents
    /\ calls' = [calls EXCEPT !.emit = @ + 1]
    /\ IF eventAdmission.closed
       THEN UNCHANGED <<eventAdmission, em>>
       ELSE /\ eventAdmission' = [eventAdmission EXCEPT !.active = @ + 1]
            /\ em' = [em EXCEPT ![e] = [pc |-> "health", event |-> calls'.emit]]
    /\ UNCHANGED <<chan, depth, healthy, epoch, barrier, writer, fl, accepted, written>>

CheckHealth(e) ==
    /\ em[e].pc = "health"
    /\ EmitStep(e, IF healthy THEN "reserve" ELSE "drop")
    /\ UNCHANGED <<chan, depth, eventAdmission, healthy, epoch, barrier, writer, fl, calls, accepted, written>>

\* queue_depth.fetch_update
Reserve(e) ==
    /\ em[e].pc = "reserve"
    /\ IF depth < Capacity
       THEN depth' = depth + 1 /\ EmitStep(e, "send")
       ELSE EmitStep(e, "drop") /\ UNCHANGED depth
    /\ UNCHANGED <<chan, eventAdmission, healthy, epoch, barrier, writer, fl, calls, accepted, written>>

TrySend(e) ==
    /\ em[e].pc = "send"
    /\ IF Full
       THEN depth' = depth - 1 /\ EmitStep(e, "drop") /\ UNCHANGED chan
       ELSE chan' = Append(chan, em[e].event) /\ EmitStep(e, "epoch") /\ UNCHANGED depth
    /\ UNCHANGED <<eventAdmission, healthy, epoch, barrier, writer, fl, calls, accepted, written>>

BumpEpoch(e) ==
    /\ em[e].pc = "epoch"
    /\ epoch' = epoch + 1 /\ EmitStep(e, "leave")
    /\ UNCHANGED <<chan, depth, eventAdmission, healthy, barrier, writer, fl, calls, accepted, written>>

\* The guard is dropped and emit returns.
Leave(e) ==
    /\ em[e].pc \in {"leave", "drop"}
    /\ eventAdmission' = [eventAdmission EXCEPT !.active = @ - 1]
    /\ em' = [em EXCEPT ![e] = IdleEmitter]
    /\ accepted' = IF em[e].pc = "leave" THEN accepted \cup {em[e].event} ELSE accepted
    /\ UNCHANGED <<chan, depth, healthy, epoch, barrier, writer, fl, calls, written>>

-----------------------------------------------------------------------------
(* flush and close *)

FlushStep(f, pc) == fl' = [fl EXCEPT ![f].pc = pc]
Finish(f, outcome) == fl' = [fl EXCEPT ![f].pc = "done", ![f].outcome = outcome]

\* The events a flush answers for: those accepted before it began.
Flush(f, op) ==
    /\ fl[f].pc = "idle" /\ calls.flush < MaxFlushes
    /\ calls' = [calls EXCEPT !.flush = @ + 1]
    /\ fl' = [fl EXCEPT ![f] = [pc |-> IF op = "close" THEN "close" ELSE "require", op |-> op, required |-> 0,
                                leader |-> FALSE, outcome |-> "none", owed |-> accepted]]
    /\ IF op = "close" THEN eventAdmission' = [eventAdmission EXCEPT !.closed = TRUE] ELSE UNCHANGED eventAdmission
    /\ UNCHANGED <<chan, depth, healthy, epoch, barrier, writer, em, accepted, written>>

\* (A mutant: closing does not wait for the emitters that were let in.)
DrainAtOnce(f) ==
    /\ fl[f].pc = "close"
    /\ fl' = [fl EXCEPT ![f].pc = "require", ![f].owed = accepted]
    /\ UNCHANGED <<chan, depth, eventAdmission, healthy, epoch, barrier, writer, em, calls, accepted, written>>

\* close_and_flush waits until the admitted emitters have left.
Drain(f) ==
    /\ fl[f].pc = "close" /\ eventAdmission.active = 0
    /\ fl' = [fl EXCEPT ![f].pc = "require", ![f].owed = accepted]
    /\ UNCHANGED <<chan, depth, eventAdmission, healthy, epoch, barrier, writer, em, calls, accepted, written>>

Require(f) ==
    /\ fl[f].pc = "require"
    /\ fl' = [fl EXCEPT ![f].pc = "join", ![f].required = epoch]
    /\ UNCHANGED <<chan, depth, eventAdmission, healthy, epoch, barrier, writer, em, calls, accepted, written>>

\* (A mutant: every pending barrier will do.)
CoversAny(required) == TRUE

\* FlushBarrier::covers
Covers(required) == barrier.epoch >= required

\* Under the lock: the pending barrier is shared, or a new one is made.
Join(f) ==
    /\ fl[f].pc = "join"
    /\ IF barrier.outcome = Pending
       THEN /\ fl' = [fl EXCEPT ![f].leader = FALSE,
                                ![f].pc = IF Covers(fl[f].required) THEN "wait" ELSE "wait_other"]
            /\ UNCHANGED barrier
       ELSE /\ barrier' = [epoch |-> epoch, outcome |-> Pending]
            /\ fl' = [fl EXCEPT ![f].leader = TRUE, ![f].pc = "send"]
    /\ UNCHANGED <<chan, depth, eventAdmission, healthy, epoch, writer, em, calls, accepted, written>>

\* FlushBarrier::complete: everybody who waits for this barrier learns of it.
Completed(waiting, outcome) ==
    /\ barrier' = [barrier EXCEPT !.outcome = outcome]
    /\ fl' = [f \in Flushers |-> IF waiting[f].pc \in {"wait", "wait_other"} /\ waiting[f].outcome = "none"
                                 THEN [waiting[f] EXCEPT !.outcome = outcome] ELSE waiting[f]]

\* The leader sends the barrier; it would give up at its deadline if the
\* channel stayed full, and the barrier with it.
SendBarrier(f) ==
    /\ fl[f].pc = "send"
    /\ IF Full
       THEN Completed([fl EXCEPT ![f].pc = "wait"], "TimedOut") /\ UNCHANGED chan
       ELSE chan' = Append(chan, Barrier) /\ FlushStep(f, "wait") /\ UNCHANGED barrier
    /\ UNCHANGED <<depth, eventAdmission, healthy, epoch, writer, em, calls, accepted, written>>

\* wait_until: the barrier this flusher holds is done, whether or not another
\* has taken its place.
Answered(f) == fl[f].outcome # "none"

Wake(f) ==
    /\ fl[f].pc = "wait" /\ Answered(f)
    /\ FlushStep(f, "done")
    /\ UNCHANGED <<chan, depth, eventAdmission, healthy, epoch, barrier, writer, em, calls, accepted, written>>

\* The barrier did not cover this flush: only a failure to send it counts.
WakeOther(f) ==
    /\ fl[f].pc = "wait_other" /\ Answered(f)
    /\ IF fl[f].outcome = "TimedOut"
       THEN FlushStep(f, "done")
       ELSE fl' = [fl EXCEPT ![f].pc = "join", ![f].outcome = "none"]
    /\ UNCHANGED <<chan, depth, eventAdmission, healthy, epoch, barrier, writer, em, calls, accepted, written>>

Deadline(f) ==
    /\ \/ fl[f].pc \in {"close", "join"}
       \/ fl[f].pc \in {"wait", "wait_other"} /\ ~Answered(f)
    /\ Finish(f, "TimedOut")
    /\ UNCHANGED <<chan, depth, eventAdmission, healthy, epoch, barrier, writer, em, calls, accepted, written>>

Return(f) ==
    /\ fl[f].pc = "done" /\ fl' = [fl EXCEPT ![f] = IdleFlusher]
    /\ UNCHANGED <<chan, depth, eventAdmission, healthy, epoch, barrier, writer, em, calls, accepted, written>>

-----------------------------------------------------------------------------
(* writer_loop *)

Recv ==
    /\ writer.pc = "recv" /\ chan # <<>>
    /\ writer' = [writer EXCEPT !.cmd = Head(chan), !.pc = IF Head(chan) = Barrier THEN "load" ELSE "count"]
    /\ chan' = Tail(chan)
    /\ UNCHANGED <<depth, eventAdmission, healthy, epoch, barrier, em, fl, calls, accepted, written>>

CountDown ==
    /\ writer.pc = "count"
    /\ depth' = depth - 1 /\ writer' = [writer EXCEPT !.pc = "write"]
    /\ UNCHANGED <<chan, eventAdmission, healthy, epoch, barrier, em, fl, calls, accepted, written>>

\* An event for a sink that failed before is lost; a write may fail, or panic.
Write ==
    /\ writer.pc = "write"
    /\ \/ /\ healthy /\ written' = written \cup {writer.cmd}
          /\ writer' = [writer EXCEPT !.pc = "recv"] /\ UNCHANGED healthy
       \/ /\ healthy' = FALSE
          /\ writer' = [writer EXCEPT !.pc = "recv", !.failed = TRUE] /\ UNCHANGED written
    /\ UNCHANGED <<chan, depth, eventAdmission, epoch, barrier, em, fl, calls, accepted>>

LoadHealth ==
    /\ writer.pc = "load"
    /\ writer' = [writer EXCEPT !.pc = "flush", !.healthy = healthy]
    /\ UNCHANGED <<chan, depth, eventAdmission, healthy, epoch, barrier, em, fl, calls, accepted, written>>

\* (A mutant: a sink that panics in flush takes the barrier with it.)
FlushSinkUncaught ==
    /\ writer.pc = "flush"
    /\ \/ /\ writer' = [writer EXCEPT !.pc = "complete"] /\ UNCHANGED healthy
       \/ /\ healthy' = FALSE /\ writer' = [writer EXCEPT !.pc = "recv", !.failed = FALSE]
    /\ UNCHANGED <<chan, depth, eventAdmission, epoch, barrier, em, fl, calls, accepted, written>>

FlushSink ==
    /\ writer.pc = "flush"
    /\ \/ /\ writer' = [writer EXCEPT !.pc = "complete"] /\ UNCHANGED healthy
       \/ /\ healthy' = FALSE /\ writer' = [writer EXCEPT !.pc = "complete", !.healthy = FALSE]
    /\ UNCHANGED <<chan, depth, eventAdmission, epoch, barrier, em, fl, calls, accepted, written>>

Complete ==
    /\ writer.pc = "complete"
    /\ Completed(fl, IF writer.healthy /\ ~writer.failed THEN "Flushed" ELSE "SinkFailed")
    /\ writer' = [writer EXCEPT !.pc = "recv", !.failed = FALSE]
    /\ UNCHANGED <<chan, depth, eventAdmission, healthy, epoch, em, calls, accepted, written>>

Writer == Recv \/ CountDown \/ Write \/ LoadHealth \/ FlushSink \/ Complete
Emit(e) == CheckHealth(e) \/ Reserve(e) \/ TrySend(e) \/ BumpEpoch(e) \/ Leave(e)
FlushOn(f) == Drain(f) \/ Require(f) \/ Join(f) \/ SendBarrier(f) \/ Wake(f) \/ WakeOther(f) \/ Return(f)

AuditNext ==
    \/ Writer
    \/ \E e \in Emitters : Enter(e) \/ Emit(e)
    \/ \E f \in Flushers : FlushOn(f) \/ Deadline(f) \/ \E op \in {"flush", "close"} : Flush(f, op)

\* Every thread that can run does run; whether a deadline passes is left open.
AuditFairness ==
    /\ WF_auditVars(Writer)
    /\ \A e \in Emitters : WF_auditVars(Emit(e))
    /\ \A f \in Flushers : WF_auditVars(FlushOn(f))

AuditSpec == AuditInit /\ [][AuditNext]_auditVars /\ AuditFairness

-----------------------------------------------------------------------------
(***************************************************************************)
(* A flush that answers Flushed tells the truth: every event that was      *)
(* accepted before it began is with the sink; and after a close that       *)
(* answers Flushed, every event ever accepted is.                          *)
(***************************************************************************)
FlushedIsWritten ==
    \A f \in Flushers : (fl[f].pc = "done" /\ fl[f].outcome = "Flushed") =>
        /\ fl[f].owed \subseteq written
        /\ fl[f].op = "close" => accepted \subseteq written

(***************************************************************************)
(* The channel always has room for what was admitted to it: no reserved    *)
(* event and no barrier ever meets a full channel, so "full" is only ever  *)
(* answered for the events' own bound.                                     *)
(***************************************************************************)
ChannelHasRoom ==
    Full => /\ \A e \in Emitters : em[e].pc # "send"
            /\ \A f \in Flushers : fl[f].pc # "send"

\* An audit flush that answers Flushed tells the truth, and what was admitted finds room
\* in the channel.
FlushIsTrue == FlushedIsWritten /\ ChannelHasRoom

(***************************************************************************)
(* Every flush and every close returns, whatever the sink does in its      *)
(* calls and also when no deadline ever passes.                            *)
(***************************************************************************)
FlushReturns == \A f \in Flushers : []<>(fl[f].pc = "idle")

-----------------------------------------------------------------------------
(* Why a flush tells the truth. *)

Outcomes == {"none", "Flushed", "SinkFailed", "TimedOut"}

AuditTypeOK ==
    /\ chan \in Seq(Nat) /\ depth \in Nat /\ healthy \in BOOLEAN /\ epoch \in Nat
    /\ eventAdmission \in [closed : BOOLEAN, active : Nat]
    /\ barrier \in [epoch : Nat, outcome : Outcomes \cup {Pending}]
    /\ writer \in [pc : {"recv", "count", "write", "load", "flush", "complete"}, cmd : Nat,
                   healthy : BOOLEAN, failed : BOOLEAN]
    /\ em \in [Emitters -> [pc : {"idle", "health", "reserve", "send", "epoch", "leave", "drop"}, event : Nat]]
    /\ fl \in [Flushers ->
                [pc : {"idle", "close", "require", "join", "send", "wait", "wait_other", "done"},
                 op : {"flush", "close"}, required : Nat, leader : BOOLEAN, outcome : Outcomes, owed : SUBSET Nat]]
    /\ calls \in [emit : Nat, flush : Nat] /\ accepted \subseteq Nat /\ written \subseteq Nat

InChannel(v) == \E i \in 1..Len(chan) : chan[i] = v

\* The pending barrier is with the leader, in the channel or with the writer, once.
WriterHasBarrier == writer.pc \in {"load", "flush", "complete"}
LeaderHasBarrier == \E f \in Flushers : fl[f].pc = "send"
OneBarrier ==
    /\ barrier.outcome # Pending => ~InChannel(Barrier) /\ ~WriterHasBarrier /\ ~LeaderHasBarrier
    /\ InChannel(Barrier) => ~WriterHasBarrier /\ ~LeaderHasBarrier
    /\ WriterHasBarrier => ~LeaderHasBarrier
    /\ \A f, g \in Flushers : fl[f].pc = "send" /\ fl[g].pc = "send" => f = g
    /\ \A i, j \in 1..Len(chan) : chan[i] = Barrier /\ chan[j] = Barrier => i = j

\* queue_depth counts the events in the channel, those about to be sent to it and the
\* one just taken from it; the admission counts the emitters inside.
Sending == {e \in Emitters : em[e].pc = "send"}
Inside == {e \in Emitters : em[e].pc # "idle"}
AuditCounts ==
    /\ depth + (IF InChannel(Barrier) THEN 1 ELSE 0)
        = Len(chan) + Cardinality(Sending) + (IF writer.pc = "count" THEN 1 ELSE 0)
    /\ depth <= Capacity
    /\ eventAdmission.active = Cardinality(Inside)

\* Every emit has an event of its own, which is not accepted before it leaves.
EventsDistinct ==
    /\ accepted \subseteq 1..calls.emit
    /\ \A e \in Inside : em[e].event \in (1..calls.emit) \ accepted
    /\ \A e, g \in Inside : em[e].event = em[g].event => e = g

\* An event that was sent is on its way, written, or the sink is known to have failed;
\* once the writer has looked at the health of the sink, this excuse is gone.
Sent == accepted \cup {em[e].event : e \in {g \in Emitters : em[g].pc \in {"epoch", "leave"}}}
NothingLost ==
    /\ \A v \in Sent :
        InChannel(v) \/ (writer.pc \in {"count", "write"} /\ writer.cmd = v) \/ v \in written \/ ~healthy
    /\ writer.pc \in {"flush", "complete"} /\ writer.healthy =>
        \A v \in Sent : InChannel(v) \/ v \in written

\* v is handled after the barrier.
AfterBarrier(v) == \E i, j \in 1..Len(chan) : i < j /\ chan[i] = Barrier /\ chan[j] = v
Behind(v) == (WriterHasBarrier /\ InChannel(v)) \/ AfterBarrier(v)

\* As long as no epoch has passed since the barrier was made, it is behind every event
\* whose epoch was counted; so it is behind all that a flush it covers answers for.
Counted == accepted \cup {em[e].event : e \in {g \in Emitters : em[g].pc = "leave"}}
BarrierCovers ==
    /\ barrier.outcome = Pending =>
        /\ barrier.epoch <= epoch
        /\ barrier.epoch = epoch => \A v \in Counted : ~Behind(v)
    /\ \A f \in Flushers :
        /\ fl[f].owed \subseteq accepted /\ fl[f].required <= epoch
        /\ fl[f].pc \in {"join", "send", "wait", "wait_other"} /\ barrier.outcome = Pending
            /\ Covers(fl[f].required) => \A v \in fl[f].owed : ~Behind(v)

\* Where a flush stands with the barrier it waits for.
FlushKnows == \A f \in Flushers :
    /\ fl[f].pc \in {"idle", "close", "require", "join", "send"} => fl[f].outcome = "none"
    /\ fl[f].pc = "send" => Covers(fl[f].required)
    /\ fl[f].pc \in {"wait", "wait_other"} /\ ~Answered(f) => barrier.outcome = Pending
    /\ fl[f].pc = "wait" /\ ~Answered(f) => Covers(fl[f].required)
    /\ fl[f].pc \in {"wait", "done"} /\ fl[f].outcome = "Flushed" => fl[f].owed \subseteq written

\* After a close has drained the emitters, nothing is accepted any more.
Drained(f) ==
    \/ fl[f].pc \in {"require", "join", "send", "wait", "wait_other"}
    \/ fl[f].pc = "done" /\ fl[f].outcome = "Flushed"
ClosedForGood == \A f \in Flushers : fl[f].op = "close" =>
    /\ fl[f].pc # "idle" /\ eventAdmission.closed
    /\ Drained(f) => Inside = {} /\ fl[f].owed = accepted

AuditInv ==
    /\ AuditTypeOK /\ OneBarrier /\ AuditCounts /\ EventsDistinct
    /\ NothingLost /\ BarrierCovers /\ FlushKnows /\ ClosedForGood
=============================================================================
