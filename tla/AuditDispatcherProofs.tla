----------------------- MODULE AuditDispatcherProofs -----------------------
(***************************************************************************)
(* That a flush of the audit log tells the truth, for any number of        *)
(* emitters and flushers, any capacity and any behaviour of the sink.      *)
(*                                                                         *)
(* The argument is the order of the channel.  An event is counted in the   *)
(* epoch only after it was sent, so a barrier that was made in the epoch a *)
(* flush requires is sent after every event the flush answers for, and the *)
(* writer completes it after it has handled them (BarrierCovers).  It has  *)
(* written them unless the sink had failed before the writer looked, and   *)
(* then the barrier does not say Flushed (NothingLost).  A close waits     *)
(* until the emitters it found inside have left, so nothing is accepted    *)
(* after it (ClosedForGood).  There is room in the channel because the     *)
(* depth counts what was admitted and the barrier has a slot of its own    *)
(* (AuditCounts).                                                          *)
(***************************************************************************)
EXTENDS AuditDispatcher, SequenceLemmas

AuditConstants == Capacity \in Nat /\ IsFiniteSet(Emitters)

-----------------------------------------------------------------------------
(* The channel. *)

\* Sending to the channel.
LEMMA ChannelAppend ==
  ASSUME chan \in Seq(Nat), NEW v \in Nat, chan' = Append(chan, v)
  PROVE  /\ chan' \in Seq(Nat) /\ Len(chan) \in Nat /\ Len(chan') = Len(chan) + 1
         /\ \A x : InChannel(x)' <=> InChannel(x) \/ x = v
         /\ \A x : AfterBarrier(x)' <=> AfterBarrier(x) \/ (x = v /\ InChannel(Barrier))
         /\ \A i \in 1..Len(chan') : chan'[i] = IF i = Len(chan) + 1 THEN v ELSE chan[i]
<1>1. /\ chan' \in Seq(Nat) /\ Len(chan) \in Nat /\ Len(chan') = Len(chan) + 1
      /\ \A i \in 1..Len(chan) : chan'[i] = chan[i]
      /\ chan'[Len(chan) + 1] = v
  BY AppendProperties, LenProperties
<1>2. \A x : InChannel(x)' <=> InChannel(x) \/ x = v
  BY <1>1 DEF InChannel
<1>3. \A x : AfterBarrier(x)' <=> AfterBarrier(x) \/ (x = v /\ InChannel(Barrier))
  <2>1. ASSUME NEW x, AfterBarrier(x)' PROVE AfterBarrier(x) \/ (x = v /\ InChannel(Barrier))
    BY <1>1, <2>1 DEF AfterBarrier, InChannel
  <2>2. ASSUME NEW x, AfterBarrier(x) PROVE AfterBarrier(x)'
    BY <1>1, <2>2 DEF AfterBarrier
  <2>3. ASSUME InChannel(Barrier) PROVE AfterBarrier(v)'
    <3>1. PICK i \in 1..Len(chan) : chan[i] = Barrier
      BY <2>3 DEF InChannel
    <3>2. i \in 1..Len(chan') /\ Len(chan) + 1 \in 1..Len(chan') /\ i < Len(chan) + 1
      BY <1>1
    <3> QED  BY <1>1, <3>1, <3>2 DEF AfterBarrier
  <2> QED  BY <2>1, <2>2, <2>3
<1> QED  BY <1>1, <1>2, <1>3

\* Taking from the channel.
LEMMA ChannelTail ==
  ASSUME chan \in Seq(Nat), chan # <<>>, chan' = Tail(chan)
  PROVE  /\ chan' \in Seq(Nat) /\ Len(chan) \in Nat /\ Len(chan') = Len(chan) - 1 /\ Head(chan) \in Nat
         /\ \A x : InChannel(x) <=> InChannel(x)' \/ x = Head(chan)
         /\ \A x : AfterBarrier(x)' => AfterBarrier(x)
         /\ Head(chan) = Barrier => \A x : InChannel(x)' => AfterBarrier(x)
         /\ \A i \in 1..Len(chan') : i + 1 \in 1..Len(chan) /\ chan'[i] = chan[i + 1]
         /\ Len(chan) >= 1 /\ chan[1] = Head(chan)
<1>1. /\ chan' \in Seq(Nat) /\ Len(chan) \in Nat /\ Len(chan) >= 1 /\ Len(chan') = Len(chan) - 1
      /\ Head(chan) = chan[1] /\ Head(chan) \in Nat
      /\ \A i \in 1..Len(chan) - 1 : chan'[i] = chan[i + 1]
  BY FrontOfQueue
<1>2. \A i \in 1..Len(chan') : i + 1 \in 1..Len(chan) /\ chan'[i] = chan[i + 1]
  BY <1>1
<1>3. \A x : InChannel(x) <=> InChannel(x)' \/ x = Head(chan)
  <2>1. ASSUME NEW x, InChannel(x), x # Head(chan) PROVE InChannel(x)'
    <3>1. PICK i \in 1..Len(chan) : chan[i] = x
      BY <2>1 DEF InChannel
    <3>2. i - 1 \in 1..Len(chan') /\ (i - 1) + 1 = i
      BY <1>1, <2>1, <3>1
    <3> QED  BY <1>2, <3>1, <3>2 DEF InChannel
  <2>2. ASSUME NEW x, InChannel(x)' PROVE InChannel(x)
    BY <1>2, <2>2 DEF InChannel
  <2>3. InChannel(Head(chan))
    BY <1>1 DEF InChannel
  <2> QED  BY <2>1, <2>2, <2>3
<1>4. \A x : AfterBarrier(x)' => AfterBarrier(x)
  <2>1. ASSUME NEW x, AfterBarrier(x)' PROVE AfterBarrier(x)
    <3>1. PICK i, j \in 1..Len(chan') : i < j /\ chan'[i] = Barrier /\ chan'[j] = x
      BY <2>1 DEF AfterBarrier
    <3>2. i + 1 \in 1..Len(chan) /\ j + 1 \in 1..Len(chan) /\ i + 1 < j + 1
          /\ chan[i + 1] = Barrier /\ chan[j + 1] = x
      BY <1>1, <1>2, <3>1
    <3> QED  BY <3>2 DEF AfterBarrier
  <2> QED  BY <2>1
<1>5. ASSUME Head(chan) = Barrier, NEW x, InChannel(x)' PROVE AfterBarrier(x)
  <2>1. PICK j \in 1..Len(chan') : chan'[j] = x
    BY <1>5 DEF InChannel
  <2>2. 1 \in 1..Len(chan) /\ j + 1 \in 1..Len(chan) /\ 1 < j + 1 /\ chan[1] = Barrier /\ chan[j + 1] = x
    BY <1>1, <1>2, <1>5, <2>1
  <2> QED  BY <2>2 DEF AfterBarrier
<1> QED  BY <1>1, <1>2, <1>3, <1>4, <1>5

LEMMA ChannelSame ==
  ASSUME chan' = chan
  PROVE  \A x : (InChannel(x)' <=> InChannel(x)) /\ (AfterBarrier(x)' <=> AfterBarrier(x))
BY DEF InChannel, AfterBarrier

\* The actions of the dispatcher.
LEMMA AuditSteps ==
  ASSUME [AuditNext]_auditVars
  PROVE  \/ UNCHANGED auditVars
         \/ Recv \/ CountDown \/ Write \/ LoadHealth \/ FlushSink \/ Complete
         \/ \E e \in Emitters : \/ Enter(e) \/ CheckHealth(e) \/ Reserve(e) \/ TrySend(e)
                                \/ BumpEpoch(e) \/ Leave(e)
         \/ \E f \in Flushers : \/ Drain(f) \/ Require(f) \/ Join(f) \/ SendBarrier(f) \/ Wake(f)
                                \/ WakeOther(f) \/ Return(f) \/ Deadline(f)
                                \/ \E op \in {"flush", "close"} : Flush(f, op)
BY DEF AuditNext, Writer, Emit, FlushOn
-----------------------------------------------------------------------------
(* The steps of one emitter and of one flusher. *)

EmitterPc == {"idle", "health", "reserve", "send", "epoch", "leave", "drop"}

\* e goes to pc with event v; the other emitters stay.
Moves(e, pc, v) ==
    /\ em' \in [Emitters -> [pc : EmitterPc, event : Nat]]
    /\ em'[e].pc = pc /\ em'[e].event = v
    /\ \A g \in Emitters \ {e} : em'[g] = em[g]

LEMMA EmitterMoves ==
  ASSUME AuditTypeOK, NEW e \in Emitters, NEW pc \in EmitterPc, EmitStep(e, pc)
  PROVE  Moves(e, pc, em[e].event)
<1>1. em \in [Emitters -> [pc : EmitterPc, event : Nat]]
  BY DEF AuditTypeOK, EmitterPc
<1>2. em' = [em EXCEPT ![e] = [em[e] EXCEPT !.pc = pc]] /\ [em[e] EXCEPT !.pc = pc] \in [pc : EmitterPc, event : Nat]
  BY <1>1 DEF EmitStep
<1> QED  BY <1>1, <1>2 DEF Moves

LEMMA EmitterSet ==
  ASSUME AuditTypeOK, NEW e \in Emitters, NEW pc \in EmitterPc, NEW v \in Nat,
         em' = [em EXCEPT ![e] = [pc |-> pc, event |-> v]]
  PROVE  Moves(e, pc, v)
<1>1. em \in [Emitters -> [pc : EmitterPc, event : Nat]]
  BY DEF AuditTypeOK, EmitterPc
<1> QED  BY <1>1 DEF Moves

\* What each operation of an emitter does to it.
LEMMA EmitterStep ==
  ASSUME AuditTypeOK, NEW e \in Emitters
  PROVE  /\ Enter(e) /\ ~eventAdmission.closed => Moves(e, "health", calls.emit + 1)
         /\ CheckHealth(e) => Moves(e, "reserve", em[e].event) \/ Moves(e, "drop", em[e].event)
         /\ Reserve(e) /\ depth < Capacity => Moves(e, "send", em[e].event)
         /\ Reserve(e) /\ ~(depth < Capacity) => Moves(e, "drop", em[e].event)
         /\ TrySend(e) /\ Full => Moves(e, "drop", em[e].event)
         /\ TrySend(e) /\ ~Full => Moves(e, "epoch", em[e].event)
         /\ BumpEpoch(e) => Moves(e, "leave", em[e].event)
         /\ Leave(e) => Moves(e, "idle", 0)
<1>1. \A pc \in EmitterPc : EmitStep(e, pc) => Moves(e, pc, em[e].event)
  BY EmitterMoves
<1>2. {"health", "reserve", "send", "epoch", "leave", "drop", "idle"} \subseteq EmitterPc
  BY DEF EmitterPc
<1>3. Enter(e) /\ ~eventAdmission.closed => Moves(e, "health", calls.emit + 1)
  <2> SUFFICES ASSUME Enter(e), ~eventAdmission.closed PROVE Moves(e, "health", calls.emit + 1)
    OBVIOUS
  <2>1. calls.emit + 1 \in Nat /\ calls'.emit = calls.emit + 1
    BY DEF Enter, AuditTypeOK
  <2>2. em' = [em EXCEPT ![e] = [pc |-> "health", event |-> calls.emit + 1]]
    BY <2>1 DEF Enter
  <2> QED  BY <1>2, <2>1, <2>2, EmitterSet
<1>4. Leave(e) => Moves(e, "idle", 0)
  BY <1>2, EmitterSet DEF Leave, IdleEmitter
<1>5. CheckHealth(e) => Moves(e, "reserve", em[e].event) \/ Moves(e, "drop", em[e].event)
  BY <1>1, <1>2 DEF CheckHealth
<1>6. /\ Reserve(e) /\ depth < Capacity => Moves(e, "send", em[e].event)
      /\ Reserve(e) /\ ~(depth < Capacity) => Moves(e, "drop", em[e].event)
  BY <1>1, <1>2 DEF Reserve
<1>7. /\ TrySend(e) /\ Full => Moves(e, "drop", em[e].event)
      /\ TrySend(e) /\ ~Full => Moves(e, "epoch", em[e].event)
  BY <1>1, <1>2 DEF TrySend
<1>8. BumpEpoch(e) => Moves(e, "leave", em[e].event)
  BY <1>1, <1>2 DEF BumpEpoch
<1> QED  BY <1>3, <1>4, <1>5, <1>6, <1>7, <1>8

\* The emitters at a place follow.
LEMMA MovedSets ==
  ASSUME NEW e \in Emitters, NEW pc, NEW v, Moves(e, pc, v)
  PROVE  /\ Sending' = IF pc = "send" THEN Sending \cup {e} ELSE Sending \ {e}
         /\ Inside' = IF pc # "idle" THEN Inside \cup {e} ELSE Inside \ {e}
         /\ e \in Sending <=> em[e].pc = "send"
         /\ e \in Inside <=> em[e].pc # "idle"
BY DEF Moves, Sending, Inside

FlusherPc == {"idle", "close", "require", "join", "send", "wait", "wait_other", "done"}
Flusher == [pc : FlusherPc, op : {"flush", "close"}, required : Nat, leader : BOOLEAN, outcome : Outcomes,
            owed : SUBSET Nat]

\* f's state becomes r; the other flushers stay.
Turns(f, r) ==
    /\ r \in Flusher /\ fl' \in [Flushers -> Flusher] /\ fl'[f] = r
    /\ \A g \in Flushers \ {f} : fl'[g] = fl[g]

LEMMA FlusherTurns ==
  ASSUME AuditTypeOK, NEW f \in Flushers, NEW r \in Flusher, fl' = [fl EXCEPT ![f] = r]
  PROVE  Turns(f, r)
<1>1. fl \in [Flushers -> Flusher]
  BY DEF AuditTypeOK, Flusher, FlusherPc
<1> QED  BY <1>1 DEF Turns

\* What each operation of a flusher does to it.
LEMMA FlusherStep ==
  ASSUME AuditTypeOK, NEW f \in Flushers
  PROVE  /\ \A op \in {"flush", "close"} : Flush(f, op) =>
              Turns(f, [pc |-> IF op = "close" THEN "close" ELSE "require", op |-> op, required |-> 0,
                        leader |-> FALSE, outcome |-> "none", owed |-> accepted])
         /\ Drain(f) => Turns(f, [fl[f] EXCEPT !.pc = "require", !.owed = accepted])
         /\ Require(f) => Turns(f, [fl[f] EXCEPT !.pc = "join", !.required = epoch])
         /\ Join(f) /\ barrier.outcome = Pending =>
              \E pc \in {"wait", "wait_other"} :
                /\ Turns(f, [fl[f] EXCEPT !.leader = FALSE, !.pc = pc])
                /\ pc = "wait" => Covers(fl[f].required)
         /\ Join(f) /\ barrier.outcome # Pending => Turns(f, [fl[f] EXCEPT !.leader = TRUE, !.pc = "send"])
         /\ SendBarrier(f) /\ ~Full => Turns(f, [fl[f] EXCEPT !.pc = "wait"])
         /\ Wake(f) => Turns(f, [fl[f] EXCEPT !.pc = "done"])
         /\ WakeOther(f) /\ fl[f].outcome = "TimedOut" => Turns(f, [fl[f] EXCEPT !.pc = "done"])
         /\ WakeOther(f) /\ fl[f].outcome # "TimedOut" => Turns(f, [fl[f] EXCEPT !.pc = "join", !.outcome = "none"])
         /\ Deadline(f) => Turns(f, [fl[f] EXCEPT !.pc = "done", !.outcome = "TimedOut"])
         /\ Return(f) => Turns(f, IdleFlusher)
<1>1. fl \in [Flushers -> Flusher] /\ fl[f] \in Flusher /\ epoch \in Nat /\ accepted \in SUBSET Nat
  BY DEF AuditTypeOK, Flusher, FlusherPc
<1>2. \A r \in Flusher : fl' = [fl EXCEPT ![f] = r] => Turns(f, r)
  BY FlusherTurns
<1>3. ASSUME NEW op \in {"flush", "close"}, Flush(f, op)
      PROVE  Turns(f, [pc |-> IF op = "close" THEN "close" ELSE "require", op |-> op, required |-> 0,
                       leader |-> FALSE, outcome |-> "none", owed |-> accepted])
  <2> DEFINE r == [pc |-> IF op = "close" THEN "close" ELSE "require", op |-> op, required |-> 0,
                   leader |-> FALSE, outcome |-> "none", owed |-> accepted]
  <2>1. r \in Flusher
    <3>1. (IF op = "close" THEN "close" ELSE "require") \in FlusherPc /\ "none" \in Outcomes
      BY DEF FlusherPc, Outcomes
    <3> QED  BY <1>1, <3>1 DEF Flusher
  <2>2. fl' = [fl EXCEPT ![f] = r]
    BY <1>3 DEF Flush
  <2> QED  BY <1>2, <2>1, <2>2
<1>4. Drain(f) => Turns(f, [fl[f] EXCEPT !.pc = "require", !.owed = accepted])
  BY <1>1, <1>2 DEF Drain, Flusher, FlusherPc
<1>5. Require(f) => Turns(f, [fl[f] EXCEPT !.pc = "join", !.required = epoch])
  BY <1>1, <1>2 DEF Require, Flusher, FlusherPc
<1>6. ASSUME Join(f), barrier.outcome = Pending
      PROVE  \E pc \in {"wait", "wait_other"} :
               /\ Turns(f, [fl[f] EXCEPT !.leader = FALSE, !.pc = pc])
               /\ pc = "wait" => Covers(fl[f].required)
  <2>1. CASE Covers(fl[f].required)
    BY <1>1, <1>2, <1>6, <2>1 DEF Join, Flusher, FlusherPc
  <2>2. CASE ~Covers(fl[f].required)
    BY <1>1, <1>2, <1>6, <2>2 DEF Join, Flusher, FlusherPc
  <2> QED  BY <2>1, <2>2
<1>7. Join(f) /\ barrier.outcome # Pending => Turns(f, [fl[f] EXCEPT !.leader = TRUE, !.pc = "send"])
  BY <1>1, <1>2 DEF Join, Flusher, FlusherPc
<1>8. SendBarrier(f) /\ ~Full => Turns(f, [fl[f] EXCEPT !.pc = "wait"])
  BY <1>1, <1>2 DEF SendBarrier, FlushStep, Flusher, FlusherPc
<1>9. Wake(f) => Turns(f, [fl[f] EXCEPT !.pc = "done"])
  BY <1>1, <1>2 DEF Wake, FlushStep, Flusher, FlusherPc
<1>10. /\ WakeOther(f) /\ fl[f].outcome = "TimedOut" => Turns(f, [fl[f] EXCEPT !.pc = "done"])
       /\ WakeOther(f) /\ fl[f].outcome # "TimedOut" => Turns(f, [fl[f] EXCEPT !.pc = "join", !.outcome = "none"])
  BY <1>1, <1>2 DEF WakeOther, FlushStep, Flusher, FlusherPc, Outcomes
<1>11. Deadline(f) => Turns(f, [fl[f] EXCEPT !.pc = "done", !.outcome = "TimedOut"])
  BY <1>1, <1>2 DEF Deadline, Finish, Flusher, FlusherPc, Outcomes
<1>12. Return(f) => Turns(f, IdleFlusher)
  BY <1>1, <1>2 DEF Return, IdleFlusher, Flusher, FlusherPc, Outcomes
<1> QED
  BY <1>3, <1>4, <1>5, <1>6, <1>7, <1>8, <1>9, <1>10, <1>11, <1>12

\* The end of a barrier is told to everybody who waits for it.
LEMMA CompleteTells ==
  ASSUME AuditTypeOK, Complete
  PROVE  /\ fl' \in [Flushers -> Flusher]
         /\ barrier'.outcome \in {"Flushed", "SinkFailed"} /\ barrier'.epoch = barrier.epoch
         /\ barrier'.outcome = "Flushed" => writer.healthy
         /\ \A f \in Flushers :
              \/ /\ fl[f].pc \in {"wait", "wait_other"} /\ fl[f].outcome = "none"
                 /\ fl'[f] = [fl[f] EXCEPT !.outcome = barrier'.outcome]
              \/ /\ ~(fl[f].pc \in {"wait", "wait_other"} /\ fl[f].outcome = "none")
                 /\ fl'[f] = fl[f]
<1> DEFINE o == IF writer.healthy /\ ~writer.failed THEN "Flushed" ELSE "SinkFailed"
<1>1. /\ barrier' = [barrier EXCEPT !.outcome = o]
      /\ fl' = [f \in Flushers |-> IF fl[f].pc \in {"wait", "wait_other"} /\ fl[f].outcome = "none"
                                   THEN [fl[f] EXCEPT !.outcome = o] ELSE fl[f]]
  BY DEF Complete, Completed
<1>2. o \in {"Flushed", "SinkFailed"} /\ (o = "Flushed" => writer.healthy)
  OBVIOUS
<1> HIDE DEF o
<1>3. barrier'.outcome = o /\ barrier'.epoch = barrier.epoch
  BY <1>1 DEF AuditTypeOK
<1>4. fl \in [Flushers -> Flusher] /\ o \in Outcomes
  BY <1>2 DEF AuditTypeOK, Flusher, FlusherPc, Outcomes
<1>5. \A f \in Flushers : fl[f] \in Flusher /\ [fl[f] EXCEPT !.outcome = o] \in Flusher
  BY <1>4 DEF Flusher
<1> QED  BY <1>1, <1>2, <1>3, <1>4, <1>5


-----------------------------------------------------------------------------
(* The counters. *)

LEMMA EmittersFinite ==
  ASSUME AuditConstants, NEW T, T \subseteq Emitters
  PROVE  IsFiniteSet(T) /\ Cardinality(T) \in Nat
BY FS_Subset, FS_CardinalityType DEF AuditConstants

LEMMA OneMore ==
  ASSUME NEW T, IsFiniteSet(T), NEW x, x \notin T
  PROVE  Cardinality(T \cup {x}) = Cardinality(T) + 1
BY FS_AddElement

LEMMA OneLess ==
  ASSUME NEW T, IsFiniteSet(T), NEW x \in T
  PROVE  Cardinality(T \ {x}) = Cardinality(T) - 1
BY FS_RemoveElement

\* What the counters say of an emitter that holds a unit of one.
LEMMA CountsPositive ==
  ASSUME AuditConstants, AuditInv
  PROVE  /\ Len(chan) \in Nat /\ Cardinality(Sending) \in Nat /\ Cardinality(Inside) \in Nat
         /\ \A e \in Emitters : em[e].pc = "send" => depth >= 1
         /\ \A e \in Emitters : em[e].pc # "idle" => eventAdmission.active >= 1
         /\ writer.pc = "count" => depth >= 1
         /\ ChannelHasRoom
<1>1. /\ AuditTypeOK /\ AuditCounts /\ OneBarrier
  BY DEF AuditInv
<1>2. Len(chan) \in Nat
  BY <1>1 DEF AuditTypeOK
<1>3. /\ IsFiniteSet(Sending) /\ Cardinality(Sending) \in Nat
      /\ IsFiniteSet(Inside) /\ Cardinality(Inside) \in Nat
  BY EmittersFinite DEF Sending, Inside
<1>4. InChannel(Barrier) => Len(chan) >= 1
  BY <1>2 DEF InChannel
<1>5. ASSUME NEW e \in Emitters, em[e].pc = "send" PROVE Cardinality(Sending) >= 1
  <2>1. e \in Sending
    BY <1>5 DEF Sending
  <2> QED  BY <1>3, <2>1, FS_EmptySet
<1>6. ASSUME NEW e \in Emitters, em[e].pc # "idle" PROVE eventAdmission.active >= 1
  <2>1. e \in Inside
    BY <1>6 DEF Inside
  <2> QED  BY <1>1, <1>3, <2>1, FS_EmptySet DEF AuditCounts
<1>7. /\ depth \in Nat /\ Capacity \in Nat /\ depth <= Capacity
      /\ depth + (IF InChannel(Barrier) THEN 1 ELSE 0)
          = Len(chan) + Cardinality(Sending) + (IF writer.pc = "count" THEN 1 ELSE 0)
  BY <1>1 DEF AuditTypeOK, AuditCounts, AuditConstants
<1>8. \A e \in Emitters : em[e].pc = "send" => depth >= 1
  BY <1>2, <1>3, <1>4, <1>5, <1>7
<1>9. writer.pc = "count" => depth >= 1
  BY <1>2, <1>3, <1>4, <1>7
<1>10. ChannelHasRoom
  <2> SUFFICES ASSUME Len(chan) = Capacity + 1
               PROVE  /\ \A e \in Emitters : em[e].pc # "send"
                      /\ \A f \in Flushers : fl[f].pc # "send"
    BY DEF ChannelHasRoom, Full, Slots
  <2>1. InChannel(Barrier) /\ Cardinality(Sending) = 0
    BY <1>2, <1>3, <1>7
  <2>2. ~LeaderHasBarrier
    BY <1>1, <2>1 DEF OneBarrier
  <2> QED  BY <1>5, <2>1, <2>2 DEF LeaderHasBarrier
<1> QED  BY <1>2, <1>3, <1>6, <1>8, <1>9, <1>10

LEMMA CountsStep ==
  ASSUME AuditConstants, AuditInv, [AuditNext]_auditVars
  PROVE  AuditCounts'
<1> DEFINE B == IF InChannel(Barrier) THEN 1 ELSE 0
           W == IF writer.pc = "count" THEN 1 ELSE 0
           S == Cardinality(Sending)
           A == Cardinality(Inside)
<1>1. AuditTypeOK /\ OneBarrier /\ EventsDistinct
  BY DEF AuditInv
<1>2. /\ depth \in Nat /\ Capacity \in Nat /\ depth <= Capacity
      /\ depth + B = Len(chan) + S + W
      /\ eventAdmission.active = A
  BY DEF AuditInv, AuditTypeOK, AuditCounts, AuditConstants
<1>3. /\ Len(chan) \in Nat /\ S \in Nat /\ A \in Nat
      /\ IsFiniteSet(Sending) /\ IsFiniteSet(Inside)
  BY CountsPositive, EmittersFinite DEF Sending, Inside
<1>4. /\ B \in {0, 1} /\ W \in {0, 1} /\ B' \in {0, 1} /\ W' \in {0, 1}
      /\ chan' = chan => B' = B /\ Len(chan') = Len(chan)
      /\ writer'.pc = writer.pc => W' = W
      /\ em' = em => S' = S /\ A' = A
  BY ChannelSame DEF Sending, Inside
<1>5. /\ \A e \in Sending : Cardinality(Sending \ {e}) = S - 1
      /\ \A e \in Emitters \ Sending : Cardinality(Sending \cup {e}) = S + 1
      /\ \A e \in Inside : Cardinality(Inside \ {e}) = A - 1
      /\ \A e \in Emitters \ Inside : Cardinality(Inside \cup {e}) = A + 1
  BY <1>3, OneMore, OneLess
<1> DEFINE Goal == /\ depth' + B' = Len(chan') + S' + W'
                   /\ depth' <= Capacity
                   /\ eventAdmission'.active = A'
<1>6. SUFFICES Goal
  BY DEF AuditCounts
\* How the sets of emitters move.
<1>7. ASSUME NEW e \in Emitters, NEW pc, NEW v, Moves(e, pc, v)
      PROVE  /\ pc = "send" /\ em[e].pc # "send" => S' = S + 1
             /\ pc # "send" /\ em[e].pc = "send" => S' = S - 1
             /\ pc # "send" /\ em[e].pc # "send" => S' = S
             /\ pc # "idle" /\ em[e].pc = "idle" => A' = A + 1
             /\ pc = "idle" /\ em[e].pc # "idle" => A' = A - 1
             /\ pc # "idle" /\ em[e].pc # "idle" => A' = A
  <2>1. /\ Sending' = IF pc = "send" THEN Sending \cup {e} ELSE Sending \ {e}
        /\ Inside' = IF pc # "idle" THEN Inside \cup {e} ELSE Inside \ {e}
        /\ e \in Sending <=> em[e].pc = "send"
        /\ e \in Inside <=> em[e].pc # "idle"
    BY <1>7, MovedSets
  <2>2. /\ e \notin Sending => Sending \ {e} = Sending
        /\ e \in Inside => Inside \cup {e} = Inside
    OBVIOUS
  <2> QED  BY <1>5, <2>1, <2>2
<1> HIDE DEF B, W, S, A
<1>8. CASE UNCHANGED <<chan, depth, writer, em>> /\ eventAdmission'.active = eventAdmission.active
  BY <1>2, <1>4, <1>8
<1>9. ASSUME NEW e \in Emitters, Enter(e) PROVE Goal
  <2>1. UNCHANGED <<chan, depth, writer>> /\ em[e].pc = "idle"
    BY <1>9 DEF Enter
  <2>2. CASE eventAdmission.closed
    BY <1>8, <1>9, <2>1, <2>2 DEF Enter
  <2>3. CASE ~eventAdmission.closed
    <3>1. eventAdmission'.active = eventAdmission.active + 1
      BY <1>1, <1>9, <2>3 DEF Enter, AuditTypeOK
    <3>2. S' = S /\ A' = A + 1
      BY <1>1, <1>7, <1>9, <2>1, <2>3, EmitterStep
    <3> QED  BY <1>2, <1>3, <1>4, <2>1, <3>1, <3>2
  <2> QED  BY <2>2, <2>3
<1>10. ASSUME NEW e \in Emitters, CheckHealth(e) \/ BumpEpoch(e) PROVE Goal
  <2>1. UNCHANGED <<chan, depth, writer, eventAdmission>> /\ em[e].pc \in {"health", "epoch"}
    BY <1>10 DEF CheckHealth, BumpEpoch
  <2>2. S' = S /\ A' = A
    BY <1>1, <1>7, <1>10, <2>1, EmitterStep
  <2> QED  BY <1>2, <1>3, <1>4, <2>1, <2>2
<1>11. ASSUME NEW e \in Emitters, Reserve(e) PROVE Goal
  <2>1. UNCHANGED <<chan, writer, eventAdmission>> /\ em[e].pc = "reserve"
    BY <1>11 DEF Reserve
  <2>2. CASE depth < Capacity
    <3>1. depth' = depth + 1
      BY <1>11, <2>2 DEF Reserve
    <3>2. S' = S + 1 /\ A' = A
      BY <1>1, <1>7, <1>11, <2>1, <2>2, EmitterStep
    <3> QED  BY <1>2, <1>3, <1>4, <2>1, <2>2, <3>1, <3>2
  <2>3. CASE ~(depth < Capacity)
    <3>1. depth' = depth
      BY <1>11, <2>3 DEF Reserve
    <3>2. S' = S /\ A' = A
      BY <1>1, <1>7, <1>11, <2>1, <2>3, EmitterStep
    <3> QED  BY <1>2, <1>3, <1>4, <2>1, <3>1, <3>2
  <2> QED  BY <2>2, <2>3
<1>12. ASSUME NEW e \in Emitters, TrySend(e) PROVE Goal
  <2>1. UNCHANGED <<writer, eventAdmission>> /\ em[e].pc = "send"
    BY <1>12 DEF TrySend
  <2>2. S' = S - 1 /\ A' = A
    BY <1>1, <1>7, <1>12, <2>1, EmitterStep
  <2>3. CASE Full
    <3>1. depth' = depth - 1 /\ chan' = chan
      BY <1>12, <2>3 DEF TrySend
    <3> QED  BY <1>2, <1>3, <1>4, <2>1, <2>2, <3>1
  <2>4. CASE ~Full
    <3>1. depth' = depth /\ chan' = Append(chan, em[e].event)
      BY <1>12, <2>4 DEF TrySend
    <3>2. e \in Inside /\ em[e].event \in 1..calls.emit /\ calls.emit \in Nat
      BY <1>1, <2>1 DEF EventsDistinct, Inside, AuditTypeOK
    <3>3. em[e].event \in Nat /\ em[e].event # Barrier
      BY <3>2 DEF Barrier
    <3>4. Len(chan') = Len(chan) + 1 /\ (InChannel(Barrier)' <=> InChannel(Barrier))
      BY <1>1, <3>1, <3>3, ChannelAppend DEF AuditTypeOK
    <3>5. B' = B
      BY <3>4 DEF B
    <3>6. W' = W
      BY <1>4, <2>1
    <3>7. Len(chan') + S' = Len(chan) + S
      BY <1>3, <2>2, <3>4
    <3> QED  BY <1>2, <1>3, <1>4, <2>1, <2>2, <3>1, <3>4, <3>5, <3>6
  <2> QED  BY <2>3, <2>4
<1>13. ASSUME NEW e \in Emitters, Leave(e) PROVE Goal
  <2>1. /\ UNCHANGED <<chan, depth, writer>> /\ eventAdmission'.active = eventAdmission.active - 1
        /\ em[e].pc \in {"leave", "drop"}
    BY <1>1, <1>13 DEF Leave, AuditTypeOK
  <2>2. S' = S /\ A' = A - 1
    BY <1>1, <1>7, <1>13, <2>1, EmitterStep
  <2> QED  BY <1>2, <1>3, <1>4, <2>1, <2>2
<1>14. ASSUME NEW f \in Flushers, SendBarrier(f) PROVE Goal
  <2>1. UNCHANGED <<depth, writer, em, eventAdmission>> /\ ~InChannel(Barrier)
    BY <1>1, <1>14 DEF SendBarrier, OneBarrier, LeaderHasBarrier
  <2>2. CASE Full
    BY <1>8, <1>14, <2>1, <2>2 DEF SendBarrier
  <2>3. CASE ~Full
    <3>1. chan' = Append(chan, Barrier)
      BY <1>14, <2>3 DEF SendBarrier
    <3>2. Len(chan') = Len(chan) + 1 /\ InChannel(Barrier)'
      BY <1>1, <3>1, ChannelAppend DEF AuditTypeOK, Barrier
    <3>3. B = 0 /\ B' = 1
      BY <2>1, <3>2 DEF B
    <3> QED  BY <1>2, <1>3, <1>4, <2>1, <3>2, <3>3
  <2> QED  BY <2>2, <2>3
<1>15. ASSUME Recv PROVE Goal
  <2>1. /\ chan # <<>> /\ chan' = Tail(chan) /\ UNCHANGED <<depth, em, eventAdmission>>
        /\ writer.pc = "recv" /\ writer'.pc = IF Head(chan) = Barrier THEN "load" ELSE "count"
    BY <1>1, <1>15 DEF Recv, AuditTypeOK
  <2>2. /\ Len(chan') = Len(chan) - 1 /\ chan[1] = Head(chan) /\ Len(chan) >= 1
        /\ \A x : InChannel(x) <=> InChannel(x)' \/ x = Head(chan)
        /\ \A i \in 1..Len(chan') : i + 1 \in 1..Len(chan) /\ chan'[i] = chan[i + 1]
    BY <1>1, <2>1, ChannelTail DEF AuditTypeOK
  <2>3. Len(chan') = Len(chan) - 1 /\ S' = S /\ A' = A
    BY <1>4, <2>1, <2>2
  <2>4. CASE Head(chan) = Barrier
    <3>1. ~InChannel(Barrier)'
      <4>1. SUFFICES ASSUME NEW i \in 1..Len(chan'), chan'[i] = Barrier PROVE FALSE
        BY DEF InChannel
      <4>2. 1 \in 1..Len(chan) /\ i + 1 \in 1..Len(chan) /\ chan[1] = Barrier /\ chan[i + 1] = Barrier
        BY <1>3, <2>2, <2>4, <4>1
      <4> QED  BY <1>1, <4>2 DEF OneBarrier
    <3>2. B = 1 /\ B' = 0
      BY <2>2, <2>4, <3>1 DEF B
    <3>3. W = 0 /\ W' = 0
      BY <2>1, <2>4 DEF W
    <3> QED  BY <1>2, <1>3, <2>1, <2>3, <3>2, <3>3
  <2>5. CASE Head(chan) # Barrier
    <3>1. B' = B
      BY <2>2, <2>5 DEF B
    <3>2. W = 0 /\ W' = 1
      BY <2>1, <2>5 DEF W
    <3>3. B \in {0, 1}
      BY <1>4
    <3> QED  BY <1>2, <1>3, <2>1, <2>3, <3>1, <3>2, <3>3
  <2> QED  BY <2>4, <2>5
<1>16. ASSUME CountDown PROVE Goal
  <2>1. /\ UNCHANGED <<chan, em, eventAdmission>> /\ depth' = depth - 1
        /\ writer.pc = "count" /\ writer'.pc = "write"
    BY <1>1, <1>16 DEF CountDown, AuditTypeOK
  <2>2. W = 1 /\ W' = 0
    BY <2>1 DEF W
  <2> QED  BY <1>2, <1>3, <1>4, <2>1, <2>2
<1>17. ASSUME Write \/ LoadHealth \/ FlushSink \/ Complete PROVE Goal
  <2>1. /\ UNCHANGED <<chan, depth, em, eventAdmission>>
        /\ writer.pc # "count" /\ writer'.pc # "count"
    BY <1>1, <1>17 DEF Write, LoadHealth, FlushSink, Complete, AuditTypeOK
  <2>2. W' = W
    BY <2>1 DEF W
  <2> QED  BY <1>2, <1>4, <2>1, <2>2
<1>18. ASSUME NEW f \in Flushers,
              \/ Drain(f) \/ Require(f) \/ Join(f) \/ Wake(f) \/ WakeOther(f) \/ Return(f) \/ Deadline(f)
       PROVE Goal
  BY <1>8, <1>18 DEF Drain, Require, Join, Wake, WakeOther, Return, Deadline
<1>19. ASSUME NEW f \in Flushers, NEW op \in {"flush", "close"}, Flush(f, op) PROVE Goal
  <2>1. UNCHANGED <<chan, depth, writer, em>> /\ eventAdmission'.active = eventAdmission.active
    BY <1>1, <1>19 DEF Flush, AuditTypeOK
  <2> QED  BY <1>8, <2>1
<1>20. CASE UNCHANGED auditVars
  BY <1>8, <1>20 DEF auditVars
<1> QED
  BY <1>9, <1>10, <1>11, <1>12, <1>13, <1>14, <1>15, <1>16, <1>17, <1>18, <1>19, <1>20, AuditSteps

-----------------------------------------------------------------------------
(* The types. *)

LEMMA AuditTypeStep ==
  ASSUME AuditConstants, AuditInv, [AuditNext]_auditVars
  PROVE  AuditTypeOK'
<1>1. AuditTypeOK
  BY DEF AuditInv
<1>2. /\ \A e \in Emitters : em[e].pc = "send" => depth - 1 \in Nat
      /\ \A e \in Emitters : em[e].pc # "idle" => eventAdmission.active - 1 \in Nat
      /\ writer.pc = "count" => depth - 1 \in Nat
      /\ ~(\E f \in Flushers : fl[f].pc = "send" /\ Full)
  BY <1>1, CountsPositive DEF AuditTypeOK, ChannelHasRoom
<1> DEFINE Chan == chan' \in Seq(Nat) /\ depth' \in Nat
           Adm == eventAdmission' \in [closed : BOOLEAN, active : Nat]
           Sink == healthy' \in BOOLEAN /\ epoch' \in Nat /\ accepted' \subseteq Nat /\ written' \subseteq Nat
           Bar == barrier' \in [epoch : Nat, outcome : Outcomes \cup {Pending}]
           Wr == writer' \in [pc : {"recv", "count", "write", "load", "flush", "complete"}, cmd : Nat,
                              healthy : BOOLEAN, failed : BOOLEAN]
           Em == em' \in [Emitters -> [pc : EmitterPc, event : Nat]]
           Fl == fl' \in [Flushers -> Flusher]
           Calls == calls' \in [emit : Nat, flush : Nat]
<1>3. SUFFICES Chan /\ Adm /\ Sink /\ Bar /\ Wr /\ Em /\ Fl /\ Calls
  BY DEF AuditTypeOK, EmitterPc, Flusher, FlusherPc
<1>4. /\ UNCHANGED <<chan, depth>> => Chan
      /\ UNCHANGED eventAdmission => Adm
      /\ UNCHANGED <<healthy, epoch, accepted, written>> => Sink
      /\ UNCHANGED barrier => Bar
      /\ UNCHANGED writer => Wr
      /\ UNCHANGED em => Em
      /\ UNCHANGED fl => Fl
      /\ UNCHANGED calls => Calls
  BY <1>1 DEF AuditTypeOK, EmitterPc, Flusher, FlusherPc
<1>5. ASSUME NEW e \in Emitters, NEW pc, NEW v, Moves(e, pc, v) PROVE Em
  BY <1>5 DEF Moves
<1>6. ASSUME NEW f \in Flushers, NEW r, Turns(f, r) PROVE Fl
  BY <1>6 DEF Turns
<1> HIDE DEF Chan, Adm, Sink, Bar, Wr, Em, Fl, Calls
<1> DEFINE Goal == Chan /\ Adm /\ Sink /\ Bar /\ Wr /\ Em /\ Fl /\ Calls
<1>7. ASSUME NEW e \in Emitters, Enter(e) PROVE Goal
  <2>1. Calls
    BY <1>1, <1>7 DEF Enter, AuditTypeOK, Calls
  <2>2. Adm
    <3>1. CASE eventAdmission.closed
      BY <1>4, <1>7, <3>1 DEF Enter
    <3>2. CASE ~eventAdmission.closed
      <4>1. eventAdmission' = [eventAdmission EXCEPT !.active = @ + 1]
        BY <1>7, <3>2 DEF Enter
      <4>2. eventAdmission \in [closed : BOOLEAN, active : Nat] /\ eventAdmission.active + 1 \in Nat
        BY <1>1 DEF AuditTypeOK
      <4> QED  BY <4>1, <4>2 DEF Adm
    <3> QED  BY <3>1, <3>2
  <2>3. Em
    <3>1. CASE eventAdmission.closed
      BY <1>4, <1>7, <3>1 DEF Enter
    <3>2. CASE ~eventAdmission.closed
      BY <1>1, <1>5, <1>7, <3>2, EmitterStep
    <3> QED  BY <3>1, <3>2
  <2> QED  BY <1>4, <1>7, <2>1, <2>2, <2>3 DEF Enter
<1>8. ASSUME NEW e \in Emitters, CheckHealth(e) PROVE Goal
  <2>1. Em
    BY <1>1, <1>5, <1>8, EmitterStep
  <2> QED  BY <1>4, <1>8, <2>1 DEF CheckHealth
<1>9. ASSUME NEW e \in Emitters, Reserve(e) PROVE Goal
  <2>1. Em
    BY <1>1, <1>5, <1>9, EmitterStep
  <2>2. Chan
    BY <1>1, <1>9 DEF Reserve, AuditTypeOK, Chan
  <2> QED  BY <1>4, <1>9, <2>1, <2>2 DEF Reserve
<1>10. ASSUME NEW e \in Emitters, TrySend(e) PROVE Goal
  <2>1. Em
    BY <1>1, <1>5, <1>10, EmitterStep
  <2>2. em[e].event \in Nat /\ chan \in Seq(Nat) /\ depth \in Nat /\ depth - 1 \in Nat
    BY <1>1, <1>2, <1>10 DEF TrySend, AuditTypeOK
  <2>3. Chan
    BY <1>10, <2>2, AppendProperties DEF TrySend, Chan
  <2> QED  BY <1>4, <1>10, <2>1, <2>3 DEF TrySend
<1>11. ASSUME NEW e \in Emitters, BumpEpoch(e) PROVE Goal
  <2>1. Em
    BY <1>1, <1>5, <1>11, EmitterStep
  <2>2. Sink
    BY <1>1, <1>11 DEF BumpEpoch, AuditTypeOK, Sink
  <2> QED  BY <1>4, <1>11, <2>1, <2>2 DEF BumpEpoch
<1>12. ASSUME NEW e \in Emitters, Leave(e) PROVE Goal
  <2>1. Em
    BY <1>1, <1>5, <1>12, EmitterStep
  <2>2. Sink
    <3>1. em[e].event \in Nat
      BY <1>1 DEF AuditTypeOK
    <3> QED  BY <1>1, <1>12, <3>1 DEF Leave, AuditTypeOK, Sink
  <2>3. Adm
    <3>1. em[e].pc # "idle" /\ eventAdmission' = [eventAdmission EXCEPT !.active = @ - 1]
      BY <1>12 DEF Leave
    <3> QED  BY <1>1, <1>2, <3>1 DEF AuditTypeOK, Adm
  <2> QED  BY <1>4, <1>12, <2>1, <2>2, <2>3 DEF Leave
<1>13. ASSUME NEW f \in Flushers, NEW op \in {"flush", "close"}, Flush(f, op) PROVE Goal
  <2>1. Fl
    BY <1>1, <1>6, <1>13, FlusherStep
  <2>2. Adm
    <3>1. CASE op = "flush"
      BY <1>4, <1>13, <3>1 DEF Flush
    <3>2. CASE op = "close"
      <4>1. eventAdmission' = [eventAdmission EXCEPT !.closed = TRUE]
        BY <1>13, <3>2 DEF Flush
      <4>2. eventAdmission \in [closed : BOOLEAN, active : Nat]
        BY <1>1 DEF AuditTypeOK
      <4> QED  BY <4>1, <4>2 DEF Adm
    <3> QED  BY <3>1, <3>2
  <2>3. Calls
    <3>1. calls' = [calls EXCEPT !.flush = @ + 1]
      BY <1>13 DEF Flush
    <3>2. calls \in [emit : Nat, flush : Nat] /\ calls.flush + 1 \in Nat
      BY <1>1 DEF AuditTypeOK
    <3> QED  BY <3>1, <3>2 DEF Calls
  <2> QED  BY <1>4, <1>13, <2>1, <2>2, <2>3 DEF Flush
<1>14. ASSUME NEW f \in Flushers, Drain(f) \/ Require(f) \/ Wake(f) \/ WakeOther(f) \/ Return(f) \/ Deadline(f)
       PROVE  Goal
  <2>1. Fl
    BY <1>1, <1>6, <1>14, FlusherStep
  <2> QED  BY <1>4, <1>14, <2>1 DEF Drain, Require, Wake, WakeOther, Return, Deadline
<1>15. ASSUME NEW f \in Flushers, Join(f) PROVE Goal
  <2>1. Fl
    <3>1. CASE barrier.outcome = Pending
      BY <1>1, <1>6, <1>15, <3>1, FlusherStep
    <3>2. CASE barrier.outcome # Pending
      BY <1>1, <1>6, <1>15, <3>2, FlusherStep
    <3> QED  BY <3>1, <3>2
  <2>2. Bar
    BY <1>1, <1>15 DEF Join, AuditTypeOK, Bar
  <2> QED  BY <1>4, <1>15, <2>1, <2>2 DEF Join
<1>16. ASSUME NEW f \in Flushers, SendBarrier(f) PROVE Goal
  <2>1. ~Full
    BY <1>2, <1>16 DEF SendBarrier
  <2>2. Fl
    BY <1>1, <1>6, <1>16, <2>1, FlusherStep
  <2>3. Chan
    <3>1. chan' = Append(chan, Barrier) /\ depth' = depth
      BY <1>16, <2>1 DEF SendBarrier
    <3>2. chan \in Seq(Nat) /\ depth \in Nat /\ Barrier \in Nat
      BY <1>1 DEF AuditTypeOK, Barrier
    <3> QED  BY <3>1, <3>2, AppendProperties DEF Chan
  <2> QED  BY <1>4, <1>16, <2>1, <2>2, <2>3 DEF SendBarrier
<1>17. ASSUME Recv PROVE Goal
  <2>1. chan' \in Seq(Nat) /\ Head(chan) \in Nat
    BY <1>1, <1>17, ChannelTail DEF Recv, AuditTypeOK
  <2>2. Wr
    BY <1>1, <1>17, <2>1 DEF Recv, AuditTypeOK, Wr
  <2>3. Chan
    BY <1>1, <1>17, <2>1 DEF Recv, AuditTypeOK, Chan
  <2> QED  BY <1>4, <1>17, <2>2, <2>3 DEF Recv
<1>18. ASSUME CountDown PROVE Goal
  <2>1. Wr
    BY <1>1, <1>18 DEF CountDown, AuditTypeOK, Wr
  <2>2. Chan
    BY <1>1, <1>2, <1>18 DEF CountDown, AuditTypeOK, Chan
  <2> QED  BY <1>4, <1>18, <2>1, <2>2 DEF CountDown
<1>19. ASSUME Write \/ LoadHealth \/ FlushSink PROVE Goal
  <2>1. Wr
    BY <1>1, <1>19 DEF Write, LoadHealth, FlushSink, AuditTypeOK, Wr
  <2>2. Sink
    BY <1>1, <1>19 DEF Write, LoadHealth, FlushSink, AuditTypeOK, Sink
  <2> QED  BY <1>4, <1>19, <2>1, <2>2 DEF Write, LoadHealth, FlushSink
<1>20. ASSUME Complete PROVE Goal
  <2>1. Fl
    BY <1>1, <1>20, CompleteTells DEF Fl
  <2>2. Bar
    BY <1>1, <1>20 DEF Complete, Completed, AuditTypeOK, Outcomes, Bar
  <2>3. Wr
    BY <1>1, <1>20 DEF Complete, AuditTypeOK, Wr
  <2> QED  BY <1>4, <1>20, <2>1, <2>2, <2>3 DEF Complete
<1>21. CASE UNCHANGED auditVars
  BY <1>4, <1>21 DEF auditVars
<1> QED
  BY <1>7, <1>8, <1>9, <1>10, <1>11, <1>12, <1>13, <1>14, <1>15, <1>16, <1>17, <1>18, <1>19, <1>20, <1>21,
     AuditSteps

-----------------------------------------------------------------------------
(* The barrier is in one place. *)

\* An event is not the barrier, and is nobody else's.
LEMMA OwnEvent ==
  ASSUME AuditInv, NEW e \in Inside
  PROVE  /\ em[e].event \in Nat /\ em[e].event # Barrier /\ em[e].event \notin accepted
         /\ \A g \in Inside : g # e => em[g].event # em[e].event
<1>1. calls.emit \in Nat /\ em[e].event \in (1..calls.emit) \ accepted
  BY DEF AuditInv, EventsDistinct, AuditTypeOK
<1>2. \A g \in Inside : g # e => em[g].event # em[e].event
  BY DEF AuditInv, EventsDistinct
<1> QED  BY <1>1, <1>2 DEF Barrier

LEMMA OneBarrierStep ==
  ASSUME AuditConstants, AuditInv, [AuditNext]_auditVars
  PROVE  OneBarrier'
<1>1. AuditTypeOK /\ OneBarrier
  BY DEF AuditInv
\* Nobody takes the barrier or gives it up.
<1>2. CASE /\ UNCHANGED <<barrier, writer>>
           /\ \A f \in Flushers : fl'[f].pc = "send" <=> fl[f].pc = "send"
           /\ InChannel(Barrier)' <=> InChannel(Barrier)
           /\ \A i, j \in 1..Len(chan') : chan'[i] = Barrier /\ chan'[j] = Barrier => i = j
  BY <1>1, <1>2 DEF OneBarrier, WriterHasBarrier, LeaderHasBarrier
<1>3. CASE /\ barrier' = barrier /\ chan' = chan
           /\ WriterHasBarrier' <=> WriterHasBarrier
           /\ \A f \in Flushers : fl'[f].pc = "send" <=> fl[f].pc = "send"
  BY <1>1, <1>3 DEF OneBarrier, InChannel, LeaderHasBarrier
<1>4. ASSUME NEW e \in Emitters, Enter(e) \/ CheckHealth(e) \/ Reserve(e) \/ BumpEpoch(e) \/ Leave(e)
      PROVE  OneBarrier'
  BY <1>3, <1>4 DEF Enter, CheckHealth, Reserve, BumpEpoch, Leave, WriterHasBarrier
<1>5. ASSUME NEW e \in Emitters, TrySend(e) PROVE OneBarrier'
  <2>1. UNCHANGED <<barrier, writer, fl>> /\ em[e].pc = "send"
    BY <1>5 DEF TrySend
  <2>2. CASE Full
    BY <1>3, <1>5, <2>1, <2>2 DEF TrySend, WriterHasBarrier
  <2>3. CASE ~Full
    <3>1. em[e].event \in Nat /\ em[e].event # Barrier
      BY <2>1, OwnEvent DEF Inside
    <3>2. chan' = Append(chan, em[e].event) /\ chan \in Seq(Nat)
      BY <1>1, <1>5, <2>3 DEF TrySend, AuditTypeOK
    <3>3. /\ InChannel(Barrier)' <=> InChannel(Barrier)
          /\ Len(chan) \in Nat /\ Len(chan') = Len(chan) + 1
          /\ \A i \in 1..Len(chan') : chan'[i] = IF i = Len(chan) + 1 THEN em[e].event ELSE chan[i]
      BY <3>1, <3>2, ChannelAppend
    <3>4. \A i \in 1..Len(chan') : chan'[i] = Barrier => i \in 1..Len(chan) /\ chan[i] = Barrier
      BY <3>1, <3>3
    <3>5. \A i, j \in 1..Len(chan') : chan'[i] = Barrier /\ chan'[j] = Barrier => i = j
      BY <1>1, <3>4 DEF OneBarrier
    <3> QED  BY <1>2, <2>1, <3>3, <3>5
  <2> QED  BY <2>2, <2>3
<1>6. ASSUME NEW f \in Flushers,
             \/ Drain(f) \/ Require(f) \/ Wake(f) \/ WakeOther(f) \/ Return(f) \/ Deadline(f)
             \/ \E op \in {"flush", "close"} : Flush(f, op)
      PROVE  OneBarrier'
  <2>1. UNCHANGED <<barrier, writer, chan>> /\ fl[f].pc # "send"
    BY <1>6 DEF Drain, Require, Wake, WakeOther, Return, Deadline, Flush
  <2>2. fl[f] \in Flusher
    BY <1>1 DEF AuditTypeOK, Flusher, FlusherPc
  <2>3. ASSUME NEW r, Turns(f, r), r.pc # "send"
        PROVE  \A g \in Flushers : fl'[g].pc = "send" <=> fl[g].pc = "send"
    BY <2>1, <2>3 DEF Turns
  <2>4. \A g \in Flushers : fl'[g].pc = "send" <=> fl[g].pc = "send"
    <3>1. CASE Drain(f)
      BY <1>1, <2>2, <2>3, <3>1, FlusherStep DEF Flusher
    <3>2. CASE Require(f)
      BY <1>1, <2>2, <2>3, <3>2, FlusherStep DEF Flusher
    <3>3. CASE Wake(f)
      BY <1>1, <2>2, <2>3, <3>3, FlusherStep DEF Flusher
    <3>4. CASE WakeOther(f)
      BY <1>1, <2>2, <2>3, <3>4, FlusherStep DEF Flusher
    <3>5. CASE Return(f)
      BY <1>1, <2>2, <2>3, <3>5, FlusherStep DEF IdleFlusher
    <3>6. CASE Deadline(f)
      BY <1>1, <2>2, <2>3, <3>6, FlusherStep DEF Flusher
    <3>7. ASSUME NEW op \in {"flush", "close"}, Flush(f, op)
          PROVE  \A g \in Flushers : fl'[g].pc = "send" <=> fl[g].pc = "send"
      BY <1>1, <2>2, <2>3, <3>7, FlusherStep
    <3> QED  BY <1>6, <3>1, <3>2, <3>3, <3>4, <3>5, <3>6, <3>7
  <2> QED  BY <1>3, <2>1, <2>4 DEF WriterHasBarrier
<1>7. ASSUME NEW f \in Flushers, Join(f) PROVE OneBarrier'
  <2>1. UNCHANGED <<writer, chan>> /\ fl[f].pc = "join" /\ fl[f] \in Flusher
    BY <1>1, <1>7 DEF Join, AuditTypeOK, Flusher, FlusherPc
  <2>2. CASE barrier.outcome = Pending
    <3>1. PICK pc \in {"wait", "wait_other"} : Turns(f, [fl[f] EXCEPT !.leader = FALSE, !.pc = pc])
      BY <1>1, <1>7, <2>2, FlusherStep
    <3>2. fl'[f].pc = pc
      BY <2>1, <3>1 DEF Turns, Flusher
    <3>3. \A g \in Flushers : fl'[g].pc = "send" <=> fl[g].pc = "send"
      BY <2>1, <3>1, <3>2 DEF Turns
    <3> QED  BY <1>3, <1>7, <2>1, <2>2, <3>3 DEF Join, WriterHasBarrier
  <2>3. CASE barrier.outcome # Pending
    <3>1. Turns(f, [fl[f] EXCEPT !.leader = TRUE, !.pc = "send"])
      BY <1>1, <1>7, <2>3, FlusherStep
    <3>2. \A g \in Flushers : fl[g].pc # "send"
      BY <1>1, <2>3 DEF OneBarrier, LeaderHasBarrier
    <3>3. \A g \in Flushers : fl'[g].pc = "send" => g = f
      BY <3>1, <3>2 DEF Turns
    <3>4. barrier'.outcome = Pending /\ ~InChannel(Barrier)' /\ ~WriterHasBarrier'
      BY <1>1, <1>7, <2>1, <2>3 DEF Join, OneBarrier, InChannel, WriterHasBarrier
    <3> QED  BY <1>1, <2>1, <3>3, <3>4 DEF OneBarrier
  <2> QED  BY <2>2, <2>3
<1>8. ASSUME NEW f \in Flushers, SendBarrier(f) PROVE OneBarrier'
  <2>1. /\ ~Full /\ UNCHANGED writer /\ fl[f].pc = "send" /\ LeaderHasBarrier
    BY <1>8, CountsPositive DEF SendBarrier, ChannelHasRoom, LeaderHasBarrier
  <2>2. /\ ~InChannel(Barrier) /\ ~WriterHasBarrier /\ barrier.outcome = Pending
        /\ \A g \in Flushers : fl[g].pc = "send" => g = f
    BY <1>1, <2>1 DEF OneBarrier
  <2>3. Turns(f, [fl[f] EXCEPT !.pc = "wait"]) /\ fl[f] \in Flusher
    BY <1>1, <1>8, <2>1, FlusherStep DEF AuditTypeOK, Flusher, FlusherPc
  <2>4. ~LeaderHasBarrier'
    BY <2>2, <2>3 DEF Turns, Flusher, LeaderHasBarrier
  <2>5. chan' = Append(chan, Barrier) /\ barrier' = barrier /\ chan \in Seq(Nat) /\ Barrier \in Nat
    BY <1>1, <1>8, <2>1 DEF SendBarrier, AuditTypeOK, Barrier
  <2>6. /\ Len(chan) \in Nat /\ Len(chan') = Len(chan) + 1
        /\ \A i \in 1..Len(chan') : chan'[i] = IF i = Len(chan) + 1 THEN Barrier ELSE chan[i]
    BY <2>5, ChannelAppend
  <2>7. \A i \in 1..Len(chan') : chan'[i] = Barrier => i = Len(chan) + 1
    BY <2>2, <2>6 DEF InChannel
  <2> QED  BY <2>1, <2>2, <2>4, <2>5, <2>7 DEF OneBarrier, WriterHasBarrier, LeaderHasBarrier
<1>9. ASSUME Recv PROVE OneBarrier'
  <2>1. /\ chan # <<>> /\ chan' = Tail(chan) /\ UNCHANGED <<barrier, fl>>
        /\ writer.pc = "recv" /\ writer'.pc = IF Head(chan) = Barrier THEN "load" ELSE "count"
        /\ chan \in Seq(Nat)
    BY <1>1, <1>9 DEF Recv, AuditTypeOK
  <2>2. /\ Len(chan) \in Nat /\ chan[1] = Head(chan) /\ Len(chan) >= 1 /\ Len(chan') = Len(chan) - 1
        /\ \A x : InChannel(x) <=> InChannel(x)' \/ x = Head(chan)
        /\ \A i \in 1..Len(chan') : i + 1 \in 1..Len(chan) /\ chan'[i] = chan[i + 1]
    BY <2>1, ChannelTail
  <2>3. \A i, j \in 1..Len(chan') : chan'[i] = Barrier /\ chan'[j] = Barrier => i = j
    <3> SUFFICES ASSUME NEW i \in 1..Len(chan'), NEW j \in 1..Len(chan'), chan'[i] = Barrier, chan'[j] = Barrier
                 PROVE  i = j
      OBVIOUS
    <3>1. i + 1 = j + 1
      BY <1>1, <2>2 DEF OneBarrier
    <3> QED  BY <2>2, <3>1
  <2>4. CASE Head(chan) # Barrier
    <3>1. InChannel(Barrier)' <=> InChannel(Barrier)
      BY <2>2, <2>4
    <3>2. ~WriterHasBarrier /\ ~WriterHasBarrier'
      BY <2>1, <2>4 DEF WriterHasBarrier
    <3> QED  BY <1>1, <2>1, <2>3, <3>1, <3>2 DEF OneBarrier, LeaderHasBarrier
  <2>5. CASE Head(chan) = Barrier
    <3>1. ~InChannel(Barrier)'
      <4>1. SUFFICES ASSUME NEW i \in 1..Len(chan'), chan'[i] = Barrier PROVE FALSE
        BY DEF InChannel
      <4>2. 1 \in 1..Len(chan) /\ i + 1 \in 1..Len(chan) /\ chan[1] = Barrier /\ chan[i + 1] = Barrier
        BY <2>2, <2>5, <4>1
      <4>3. 1 = i + 1
        BY <1>1, <4>2 DEF OneBarrier
      <4> QED  BY <2>2, <4>1, <4>3
    <3>2. InChannel(Barrier) /\ ~LeaderHasBarrier /\ barrier.outcome = Pending
      BY <1>1, <2>2, <2>5 DEF OneBarrier
    <3>3. barrier'.outcome = Pending /\ ~LeaderHasBarrier'
      BY <2>1, <3>2 DEF LeaderHasBarrier
    <3> QED  BY <2>3, <3>1, <3>3 DEF OneBarrier, LeaderHasBarrier
  <2> QED  BY <2>4, <2>5
<1>10. ASSUME CountDown \/ Write \/ LoadHealth \/ FlushSink PROVE OneBarrier'
  <2>1. UNCHANGED <<barrier, chan, fl>>
    BY <1>10 DEF CountDown, Write, LoadHealth, FlushSink
  <2>2. WriterHasBarrier' <=> WriterHasBarrier
    BY <1>1, <1>10 DEF CountDown, Write, LoadHealth, FlushSink, WriterHasBarrier, AuditTypeOK
  <2> QED  BY <1>3, <2>1, <2>2
<1>11. ASSUME Complete PROVE OneBarrier'
  <2>1. WriterHasBarrier /\ chan' = chan /\ writer'.pc = "recv"
    BY <1>1, <1>11 DEF Complete, WriterHasBarrier, AuditTypeOK
  <2>2. ~InChannel(Barrier) /\ ~LeaderHasBarrier
    BY <1>1, <2>1 DEF OneBarrier
  <2>3. \A f \in Flushers : fl'[f].pc = fl[f].pc
    <3>1. fl \in [Flushers -> Flusher]
      BY <1>1 DEF AuditTypeOK, Flusher, FlusherPc
    <3> QED  BY <1>1, <1>11, <3>1, CompleteTells DEF Flusher
  <2>4. ~InChannel(Barrier)' /\ ~LeaderHasBarrier' /\ ~WriterHasBarrier'
    BY <2>1, <2>2, <2>3 DEF InChannel, LeaderHasBarrier, WriterHasBarrier
  <2> QED  BY <1>1, <2>1, <2>4 DEF OneBarrier, LeaderHasBarrier
<1>12. CASE UNCHANGED auditVars
  BY <1>3, <1>12 DEF auditVars, WriterHasBarrier
<1> QED
  BY <1>4, <1>5, <1>6, <1>7, <1>8, <1>9, <1>10, <1>11, <1>12, AuditSteps

-----------------------------------------------------------------------------
(* The events. *)

\* Which steps can change the emitters and what was accepted.
LEMMA EmittersAlone ==
  ASSUME [AuditNext]_auditVars
  PROVE  \/ \E e \in Emitters : \/ Enter(e) \/ CheckHealth(e) \/ Reserve(e) \/ TrySend(e)
                                \/ BumpEpoch(e) \/ Leave(e)
         \/ UNCHANGED <<em, accepted, epoch>> /\ calls'.emit = calls.emit
<1>1. ASSUME Recv \/ CountDown \/ Write \/ LoadHealth \/ FlushSink \/ Complete
      PROVE  UNCHANGED <<em, accepted, epoch, calls>>
  BY <1>1 DEF Recv, CountDown, Write, LoadHealth, FlushSink, Complete
<1>2. ASSUME NEW f \in Flushers,
             \/ Drain(f) \/ Require(f) \/ Join(f) \/ SendBarrier(f) \/ Wake(f) \/ WakeOther(f) \/ Return(f)
             \/ Deadline(f)
      PROVE  UNCHANGED <<em, accepted, epoch, calls>>
  BY <1>2 DEF Drain, Require, Join, SendBarrier, Wake, WakeOther, Return, Deadline
<1>3. ASSUME NEW f \in Flushers, NEW op \in {"flush", "close"}, Flush(f, op)
      PROVE  UNCHANGED <<em, accepted, epoch>> /\ calls'.emit = calls.emit
  BY <1>3 DEF Flush
<1>4. CASE UNCHANGED auditVars
  BY <1>4 DEF auditVars
<1> QED  BY <1>1, <1>2, <1>3, <1>4, AuditSteps

\* What a step of an emitter does to the events.
LEMMA EmitterKeeps ==
  ASSUME AuditTypeOK, NEW e \in Emitters, CheckHealth(e) \/ Reserve(e) \/ TrySend(e) \/ BumpEpoch(e)
  PROVE  /\ accepted' = accepted /\ calls' = calls /\ Inside' = Inside /\ e \in Inside
         /\ \A g \in Emitters : em'[g].event = em[g].event
<1>1. em[e].pc # "idle" /\ accepted' = accepted /\ calls' = calls
  BY DEF CheckHealth, Reserve, TrySend, BumpEpoch
<1>2. PICK pc \in EmitterPc \ {"idle"} : Moves(e, pc, em[e].event)
  BY EmitterStep DEF EmitterPc
<1>3. Inside' = Inside /\ e \in Inside
  BY <1>1, <1>2, MovedSets
<1> QED  BY <1>1, <1>2, <1>3 DEF Moves

LEMMA EventsStep ==
  ASSUME AuditConstants, AuditInv, [AuditNext]_auditVars
  PROVE  EventsDistinct'
<1>1. AuditTypeOK /\ EventsDistinct /\ calls.emit \in Nat
  BY DEF AuditInv, AuditTypeOK
<1>2. ASSUME NEW e \in Emitters, Enter(e) PROVE EventsDistinct'
  <2>1. accepted' = accepted /\ calls'.emit = calls.emit + 1 /\ em[e].pc = "idle"
    BY <1>1, <1>2 DEF Enter, AuditTypeOK
  <2>2. 1..calls.emit \subseteq 1..calls'.emit /\ calls'.emit \in 1..calls'.emit /\ calls'.emit \notin 1..calls.emit
    BY <1>1, <2>1
  <2>3. CASE eventAdmission.closed
    <3>1. em' = em
      BY <1>2, <2>3 DEF Enter
    <3> QED  BY <1>1, <2>1, <2>2, <3>1 DEF EventsDistinct, Inside
  <2>4. CASE ~eventAdmission.closed
    <3>1. Moves(e, "health", calls'.emit)
      BY <1>1, <1>2, <2>1, <2>4, EmitterStep
    <3>2. Inside' = Inside \cup {e} /\ e \notin Inside /\ Inside \subseteq Emitters
      BY <2>1, <3>1, MovedSets DEF Inside
    <3>3. em'[e].event = calls'.emit /\ \A g \in Inside : em'[g].event = em[g].event
      BY <3>1, <3>2 DEF Moves
    <3>4. calls'.emit \notin accepted
      BY <1>1, <2>2 DEF EventsDistinct
    <3>5. \A g \in Inside : em[g].event \in (1..calls'.emit) \ accepted /\ em[g].event # calls'.emit
      BY <1>1, <2>2 DEF EventsDistinct
    <3>6. accepted' \subseteq 1..calls'.emit
      BY <1>1, <2>1, <2>2 DEF EventsDistinct
    <3>7. \A g, h \in Inside : em[g].event = em[h].event => g = h
      BY <1>1 DEF EventsDistinct
    <3> QED  BY <2>1, <2>2, <3>2, <3>3, <3>4, <3>5, <3>6, <3>7 DEF EventsDistinct
  <2> QED  BY <2>3, <2>4
<1>3. ASSUME NEW e \in Emitters, CheckHealth(e) \/ Reserve(e) \/ TrySend(e) \/ BumpEpoch(e) PROVE EventsDistinct'
  <2>1. /\ accepted' = accepted /\ calls' = calls /\ Inside' = Inside /\ Inside \subseteq Emitters
        /\ \A g \in Emitters : em'[g].event = em[g].event
    BY <1>1, <1>3, EmitterKeeps DEF Inside
  <2> QED  BY <1>1, <2>1 DEF EventsDistinct
<1>4. ASSUME NEW e \in Emitters, Leave(e) PROVE EventsDistinct'
  <2>1. /\ calls' = calls /\ em[e].pc \in {"leave", "drop"}
        /\ accepted' \in {accepted, accepted \cup {em[e].event}}
    BY <1>4 DEF Leave
  <2>2. Moves(e, "idle", 0)
    BY <1>1, <1>4, EmitterStep
  <2>3. Inside' = Inside \ {e} /\ e \in Inside /\ Inside \subseteq Emitters
    BY <2>1, <2>2, MovedSets DEF Inside
  <2>4. \A g \in Inside' : em'[g] = em[g] /\ g \in Inside /\ g # e
    BY <2>2, <2>3 DEF Moves
  <2>5. em[e].event \in 1..calls.emit /\ \A g \in Inside : g # e => em[g].event # em[e].event
    BY <1>1, <2>3 DEF EventsDistinct
  <2> QED  BY <1>1, <2>1, <2>4, <2>5 DEF EventsDistinct
<1>5. CASE UNCHANGED <<em, accepted>> /\ calls'.emit = calls.emit
  BY <1>1, <1>5 DEF EventsDistinct, Inside
<1> QED  BY <1>2, <1>3, <1>4, <1>5, EmittersAlone

-----------------------------------------------------------------------------
(* Nothing that was sent is lost unnoticed. *)

LEMMA InSent ==
  ASSUME NEW v
  PROVE  v \in Sent <=> v \in accepted \/ \E g \in Emitters : em[g].pc \in {"epoch", "leave"} /\ em[g].event = v
BY DEF Sent

\* Only a send to the channel adds to what was sent.
LEMMA SentStep ==
  ASSUME AuditInv, [AuditNext]_auditVars, NEW v \in Sent'
  PROVE  v \in Sent \/ \E e \in Emitters : TrySend(e) /\ ~Full /\ v = em[e].event
<1>1. AuditTypeOK
  BY DEF AuditInv
<1>2. v \in accepted' \/ \E g \in Emitters : em'[g].pc \in {"epoch", "leave"} /\ em'[g].event = v
  BY DEF Sent
<1>3. ASSUME UNCHANGED <<em, accepted>> PROVE v \in Sent
  BY <1>2, <1>3, InSent
<1>4. ASSUME NEW e \in Emitters, NEW pc, NEW w, Moves(e, pc, w), accepted' = accepted,
             pc \in {"epoch", "leave"} => em[e].pc \in {"epoch", "leave"} /\ w = em[e].event
      PROVE  v \in Sent
  BY <1>2, <1>4, InSent DEF Moves
<1>5. ASSUME NEW e \in Emitters, Enter(e) PROVE v \in Sent
  <2>1. CASE eventAdmission.closed
    <3>1. UNCHANGED <<em, accepted>>
      BY <1>5, <2>1 DEF Enter
    <3> QED  BY <1>3, <3>1
  <2>2. CASE ~eventAdmission.closed
    <3>1. accepted' = accepted /\ Moves(e, "health", calls.emit + 1)
      BY <1>1, <1>5, <2>2, EmitterStep DEF Enter
    <3> QED  BY <1>4, <3>1
  <2> QED  BY <2>1, <2>2
<1>6. ASSUME NEW e \in Emitters, CheckHealth(e) \/ Reserve(e) PROVE v \in Sent
  <2>1. accepted' = accepted
    BY <1>6 DEF CheckHealth, Reserve
  <2>2. PICK pc \in {"reserve", "drop", "send"} : Moves(e, pc, em[e].event)
    BY <1>1, <1>6, EmitterStep
  <2> QED  BY <1>4, <2>1, <2>2
<1>7. ASSUME NEW e \in Emitters, BumpEpoch(e) PROVE v \in Sent
  <2>1. accepted' = accepted /\ Moves(e, "leave", em[e].event) /\ em[e].pc = "epoch"
    BY <1>1, <1>7, EmitterStep DEF BumpEpoch
  <2> QED  BY <1>4, <2>1
<1>8. ASSUME NEW e \in Emitters, TrySend(e) PROVE v \in Sent \/ (~Full /\ v = em[e].event)
  <2>1. accepted' = accepted
    BY <1>8 DEF TrySend
  <2>2. CASE Full
    <3>1. Moves(e, "drop", em[e].event)
      BY <1>1, <1>8, <2>2, EmitterStep
    <3> QED  BY <1>4, <2>1, <3>1
  <2>3. CASE ~Full
    <3>1. Moves(e, "epoch", em[e].event)
      BY <1>1, <1>8, <2>3, EmitterStep
    <3> QED  BY <1>2, <2>1, <2>3, <3>1, InSent DEF Moves
  <2> QED  BY <2>2, <2>3
<1>9. ASSUME NEW e \in Emitters, Leave(e) PROVE v \in Sent
  <2>1. Moves(e, "idle", 0)
    BY <1>1, <1>9, EmitterStep
  <2>2. v \in accepted' => v \in accepted \/ (em[e].pc = "leave" /\ v = em[e].event)
    BY <1>9 DEF Leave
  <2> QED  BY <1>2, <2>1, <2>2, InSent DEF Moves
<1> QED  BY <1>3, <1>5, <1>6, <1>7, <1>8, <1>9, EmittersAlone

\* Barriers are not sent events.
LEMMA SentIsEvent ==
  ASSUME AuditInv, NEW v \in Sent
  PROVE  v \in Nat /\ v # Barrier
<1>1. calls.emit \in Nat /\ accepted \subseteq 1..calls.emit
  BY DEF AuditInv, AuditTypeOK, EventsDistinct
<1>2. \A g \in Emitters : em[g].pc \in {"epoch", "leave"} => g \in Inside
  BY DEF Inside
<1>3. CASE v \in accepted
  BY <1>1, <1>3 DEF Barrier
<1>4. ASSUME NEW g \in Emitters, em[g].pc \in {"epoch", "leave"}, em[g].event = v
      PROVE  v \in Nat /\ v # Barrier
  BY <1>2, <1>4, OwnEvent
<1> QED  BY <1>3, <1>4, InSent

LEMMA NothingLostStep ==
  ASSUME AuditConstants, AuditInv, [AuditNext]_auditVars
  PROVE  NothingLost'
<1>1. AuditTypeOK /\ NothingLost
  BY DEF AuditInv
<1> DEFINE Kept(v) == \/ InChannel(v) \/ (writer.pc \in {"count", "write"} /\ writer.cmd = v)
                      \/ v \in written \/ ~healthy
           Looked == writer.pc \in {"flush", "complete"} /\ writer.healthy
<1>2. /\ \A v \in Sent : Kept(v)
      /\ Looked => \A v \in Sent : InChannel(v) \/ v \in written
  BY <1>1 DEF NothingLost
<1>3. SUFFICES /\ \A v \in Sent' : Kept(v)'
               /\ Looked' => \A v \in Sent' : InChannel(v)' \/ v \in written'
  BY DEF NothingLost
\* Steps that only add to the channel.
<1>4. ASSUME UNCHANGED <<writer, written, healthy>>, \A v \in Sent : InChannel(v) => InChannel(v)',
             \A v \in Sent' : v \in Sent \/ InChannel(v)'
      PROVE  <1>3!1
  BY <1>2, <1>4
<1>5. ASSUME NEW e \in Emitters, TrySend(e) PROVE <1>3!1
  <2>1. UNCHANGED <<writer, written, healthy>> /\ em[e].pc = "send"
    BY <1>5 DEF TrySend
  <2>2. CASE Full
    <3>1. chan' = chan
      BY <1>5, <2>2 DEF TrySend
    <3>2. \A v \in Sent' : v \in Sent
      <4> SUFFICES ASSUME NEW v \in Sent' PROVE v \in Sent
        OBVIOUS
      <4>1. em[e].pc = "send" /\ e \in Emitters
        BY <2>1
      <4> QED  BY <2>2, SentStep
    <3> QED  BY <1>4, <2>1, <3>1, <3>2, ChannelSame
  <2>3. CASE ~Full
    <3>1. chan' = Append(chan, em[e].event) /\ chan \in Seq(Nat) /\ em[e].event \in Nat
      BY <1>1, <1>5, <2>3 DEF TrySend, AuditTypeOK
    <3>2. \A x : InChannel(x)' <=> InChannel(x) \/ x = em[e].event
      BY <3>1, ChannelAppend
    <3>3. \A v \in Sent' : v \in Sent \/ v = em[e].event
      <4> SUFFICES ASSUME NEW v \in Sent', v \notin Sent PROVE v = em[e].event
        OBVIOUS
      <4>1. PICK d \in Emitters : TrySend(d) /\ ~Full /\ v = em[d].event
        BY SentStep
      <4>2. Moves(e, "epoch", em[e].event) /\ Moves(d, "epoch", em[d].event) /\ em[d].pc = "send"
        BY <1>1, <1>5, <4>1, EmitterStep DEF TrySend
      <4>3. d = e
        BY <4>2 DEF Moves
      <4> QED  BY <4>1, <4>3
    <3> QED  BY <1>4, <2>1, <3>2, <3>3
  <2> QED  BY <2>2, <2>3
<1>6. ASSUME ~(\E e \in Emitters : TrySend(e)) PROVE \A v \in Sent' : v \in Sent
  BY <1>6, SentStep
<1>7. ASSUME NEW e \in Emitters, Enter(e) \/ CheckHealth(e) \/ Reserve(e) \/ BumpEpoch(e) \/ Leave(e)
      PROVE  <1>3!1
  <2>1. UNCHANGED <<chan, writer, written, healthy>>
    BY <1>7 DEF Enter, CheckHealth, Reserve, BumpEpoch, Leave
  <2>2. CASE \E d \in Emitters : TrySend(d)
    BY <1>5, <2>2
  <2>3. CASE ~(\E d \in Emitters : TrySend(d))
    BY <1>4, <1>6, <2>1, <2>3, ChannelSame
  <2> QED  BY <2>2, <2>3
<1>8. ASSUME NEW f \in Flushers,
             \/ Drain(f) \/ Require(f) \/ Join(f) \/ Wake(f) \/ WakeOther(f) \/ Return(f) \/ Deadline(f)
             \/ \E op \in {"flush", "close"} : Flush(f, op)
      PROVE  <1>3!1
  <2>1. UNCHANGED <<chan, writer, written, healthy, em, accepted>>
    BY <1>8 DEF Drain, Require, Join, Wake, WakeOther, Return, Deadline, Flush
  <2>2. Sent' = Sent
    BY <2>1 DEF Sent
  <2> QED  BY <1>4, <2>1, <2>2, ChannelSame
<1>9. ASSUME NEW f \in Flushers, SendBarrier(f) PROVE <1>3!1
  <2>1. UNCHANGED <<writer, written, healthy, em, accepted>> /\ ~Full
    BY <1>9, CountsPositive DEF SendBarrier, ChannelHasRoom
  <2>2. chan' = Append(chan, Barrier) /\ chan \in Seq(Nat) /\ Barrier \in Nat
    BY <1>1, <1>9, <2>1 DEF SendBarrier, AuditTypeOK, Barrier
  <2>3. Sent' = Sent
    BY <2>1 DEF Sent
  <2>4. \A x : InChannel(x) => InChannel(x)'
    BY <2>2, ChannelAppend
  <2> QED  BY <1>4, <2>1, <2>3, <2>4
<1>10. ASSUME Recv PROVE <1>3!1
  <2>1. /\ chan # <<>> /\ chan' = Tail(chan) /\ UNCHANGED <<written, healthy, em, accepted>>
        /\ writer.pc = "recv" /\ writer'.pc = (IF Head(chan) = Barrier THEN "load" ELSE "count")
        /\ writer'.cmd = Head(chan) /\ chan \in Seq(Nat)
    BY <1>1, <1>10 DEF Recv, AuditTypeOK
  <2>2. \A x : InChannel(x) <=> InChannel(x)' \/ x = Head(chan)
    BY <2>1, ChannelTail
  <2>3. Sent' = Sent
    BY <2>1 DEF Sent
  <2>4. ASSUME NEW v \in Sent PROVE Kept(v)'
    <3>1. v # Barrier /\ Kept(v)
      BY <1>2, SentIsEvent
    <3> QED  BY <2>1, <2>2, <3>1
  <2> QED  BY <2>1, <2>3, <2>4
<1>11. ASSUME CountDown PROVE <1>3!1
  <2>1. /\ UNCHANGED <<chan, written, healthy, em, accepted>>
        /\ writer.pc = "count" /\ writer'.pc = "write" /\ writer'.cmd = writer.cmd
    BY <1>1, <1>11 DEF CountDown, AuditTypeOK
  <2>2. Sent' = Sent
    BY <2>1 DEF Sent
  <2> QED  BY <1>2, <2>1, <2>2, ChannelSame
<1>12. ASSUME Write PROVE <1>3!1
  <2>1. /\ UNCHANGED <<chan, em, accepted>> /\ writer.pc = "write" /\ writer'.pc = "recv"
        /\ (healthy' = healthy /\ written' = written \cup {writer.cmd}) \/ healthy' = FALSE
    BY <1>1, <1>12 DEF Write, AuditTypeOK
  <2>2. Sent' = Sent
    BY <2>1 DEF Sent
  <2> QED  BY <1>2, <2>1, <2>2, ChannelSame
<1>13. ASSUME LoadHealth PROVE <1>3!1
  <2>1. /\ UNCHANGED <<chan, em, accepted, written, healthy>> /\ writer.pc = "load" /\ writer'.pc = "flush"
        /\ writer'.healthy = healthy
    BY <1>1, <1>13 DEF LoadHealth, AuditTypeOK
  <2>2. Sent' = Sent
    BY <2>1 DEF Sent
  <2> QED  BY <1>2, <2>1, <2>2, ChannelSame
<1>14. ASSUME FlushSink PROVE <1>3!1
  <2>1. /\ UNCHANGED <<chan, em, accepted, written>> /\ writer.pc = "flush" /\ writer'.pc = "complete"
    BY <1>1, <1>14 DEF FlushSink, AuditTypeOK
  <2>2. Sent' = Sent
    BY <2>1 DEF Sent
  <2>3. CASE healthy' = FALSE /\ writer' = [writer EXCEPT !.pc = "complete", !.healthy = FALSE]
    <3>1. writer'.healthy = FALSE
      BY <1>1, <2>3 DEF AuditTypeOK
    <3> QED  BY <2>3, <3>1
  <2>4. CASE healthy' = healthy /\ writer' = [writer EXCEPT !.pc = "complete"]
    <3>1. writer'.healthy = writer.healthy
      BY <1>1, <2>4 DEF AuditTypeOK
    <3> QED  BY <1>2, <2>1, <2>2, <2>4, <3>1, ChannelSame
  <2> QED  BY <1>14, <2>3, <2>4 DEF FlushSink
<1>15. ASSUME Complete PROVE <1>3!1
  <2>1. /\ UNCHANGED <<chan, em, accepted, written, healthy>> /\ writer.pc = "complete" /\ writer'.pc = "recv"
    BY <1>1, <1>15 DEF Complete, AuditTypeOK
  <2>2. Sent' = Sent
    BY <2>1 DEF Sent
  <2> QED  BY <1>2, <2>1, <2>2, ChannelSame
<1>16. CASE UNCHANGED auditVars
  <2>1. UNCHANGED <<chan, writer, written, healthy, em, accepted>>
    BY <1>16 DEF auditVars
  <2>2. Sent' = Sent
    BY <2>1 DEF Sent
  <2> QED  BY <1>4, <2>1, <2>2, ChannelSame
<1> QED
  BY <1>5, <1>7, <1>8, <1>9, <1>10, <1>11, <1>12, <1>13, <1>14, <1>15, <1>16, AuditSteps

-----------------------------------------------------------------------------
(* What a step does to the state of one flusher. *)

Becomes(f, pc, op, required, outcome, owed) ==
    /\ fl'[f].pc = pc /\ fl'[f].op = op /\ fl'[f].required = required
    /\ fl'[f].outcome = outcome /\ fl'[f].owed = owed

\* f goes on to pc.
Goes(f, pc) == Becomes(f, pc, fl[f].op, fl[f].required, fl[f].outcome, fl[f].owed)

\* A step of f itself.
OwnStep(f) ==
    \/ \E op \in {"flush", "close"} :
        /\ Flush(f, op)
        /\ Becomes(f, IF op = "close" THEN "close" ELSE "require", op, 0, "none", accepted)
    \/ Drain(f) /\ Becomes(f, "require", fl[f].op, fl[f].required, fl[f].outcome, accepted)
    \/ Require(f) /\ Becomes(f, "join", fl[f].op, epoch, fl[f].outcome, fl[f].owed)
    \/ Join(f) /\ barrier.outcome = Pending /\ Covers(fl[f].required) /\ Goes(f, "wait")
    \/ Join(f) /\ barrier.outcome = Pending /\ Goes(f, "wait_other")
    \/ Join(f) /\ barrier.outcome # Pending /\ Goes(f, "send")
    \/ SendBarrier(f) /\ ~Full /\ Goes(f, "wait")
    \/ Wake(f) /\ Goes(f, "done")
    \/ WakeOther(f) /\ fl[f].outcome = "TimedOut" /\ Goes(f, "done")
    \/ WakeOther(f) /\ Becomes(f, "join", fl[f].op, fl[f].required, "none", fl[f].owed)
    \/ Deadline(f) /\ Becomes(f, "done", fl[f].op, fl[f].required, "TimedOut", fl[f].owed)
    \/ Return(f) /\ Becomes(f, "idle", "flush", 0, "none", {})

\* f is told that its barrier is done.
Told(f) ==
    /\ Complete /\ fl[f].pc \in {"wait", "wait_other"} /\ fl[f].outcome = "none"
    /\ Becomes(f, fl[f].pc, fl[f].op, fl[f].required, barrier'.outcome, fl[f].owed)

LEMMA OwnSteps ==
  ASSUME AuditConstants, AuditInv, NEW f \in Flushers,
         \/ Drain(f) \/ Require(f) \/ Join(f) \/ SendBarrier(f) \/ Wake(f) \/ WakeOther(f) \/ Return(f)
         \/ Deadline(f) \/ \E op \in {"flush", "close"} : Flush(f, op)
  PROVE  /\ OwnStep(f)
         /\ \A g \in Flushers : g # f => fl'[g] = fl[g]
<1>1. AuditTypeOK /\ fl[f] \in Flusher
  BY DEF AuditInv, AuditTypeOK, Flusher, FlusherPc
<1> DEFINE Others == \A g \in Flushers : g # f => fl'[g] = fl[g]
<1>3. ASSUME NEW pc, Turns(f, [fl[f] EXCEPT !.pc = pc]) PROVE Others /\ Goes(f, pc)
  BY <1>1, <1>3 DEF Goes, Turns, Becomes, Flusher
<1>4. ASSUME NEW op \in {"flush", "close"}, Flush(f, op) PROVE Others /\ OwnStep(f)
  <2>1. Others /\ Becomes(f, IF op = "close" THEN "close" ELSE "require", op, 0, "none", accepted)
    <3>1. Turns(f, [pc |-> IF op = "close" THEN "close" ELSE "require", op |-> op, required |-> 0,
                    leader |-> FALSE, outcome |-> "none", owed |-> accepted])
      BY <1>1, <1>4, FlusherStep
    <3> QED  BY <3>1 DEF Turns, Becomes
  <2> QED  BY <1>4, <2>1 DEF OwnStep
<1>5. CASE Drain(f)
  <2>1. Others /\ Becomes(f, "require", fl[f].op, fl[f].required, fl[f].outcome, accepted)
    <3>1. Turns(f, [fl[f] EXCEPT !.pc = "require", !.owed = accepted])
      BY <1>1, <1>5, FlusherStep
    <3> QED  BY <1>1, <3>1 DEF Turns, Becomes, Flusher
  <2> QED  BY <1>5, <2>1 DEF OwnStep
<1>6. CASE Require(f)
  <2>1. Others /\ Becomes(f, "join", fl[f].op, epoch, fl[f].outcome, fl[f].owed)
    <3>1. Turns(f, [fl[f] EXCEPT !.pc = "join", !.required = epoch])
      BY <1>1, <1>6, FlusherStep
    <3> QED  BY <1>1, <3>1 DEF Turns, Becomes, Flusher
  <2> QED  BY <1>6, <2>1 DEF OwnStep
<1>7. CASE Join(f) /\ barrier.outcome = Pending
  <2>1. PICK pc \in {"wait", "wait_other"} :
            /\ Turns(f, [fl[f] EXCEPT !.leader = FALSE, !.pc = pc])
            /\ pc = "wait" => Covers(fl[f].required)
    BY <1>1, <1>7, FlusherStep
  <2>2. Others /\ Goes(f, pc)
    BY <1>1, <2>1 DEF Turns, Becomes, Flusher, Goes
  <2> QED  BY <1>7, <2>1, <2>2 DEF OwnStep
<1>8. CASE Join(f) /\ barrier.outcome # Pending
  <2>1. Others /\ Goes(f, "send")
    <3>1. Turns(f, [fl[f] EXCEPT !.leader = TRUE, !.pc = "send"])
      BY <1>1, <1>8, FlusherStep
    <3> QED  BY <1>1, <3>1 DEF Turns, Becomes, Flusher, Goes
  <2> QED  BY <1>8, <2>1 DEF OwnStep
<1>9. CASE SendBarrier(f)
  <2>1. ~Full
    BY <1>9, CountsPositive DEF SendBarrier, ChannelHasRoom
  <2>2. Others /\ Goes(f, "wait")
    BY <1>1, <1>3, <1>9, <2>1, FlusherStep
  <2> QED  BY <1>9, <2>1, <2>2 DEF OwnStep
<1>10. CASE Wake(f)
  <2>1. Others /\ Goes(f, "done")
    BY <1>1, <1>3, <1>10, FlusherStep
  <2> QED  BY <1>10, <2>1 DEF OwnStep
<1>11. CASE WakeOther(f) /\ fl[f].outcome = "TimedOut"
  <2>1. Others /\ Goes(f, "done")
    BY <1>1, <1>3, <1>11, FlusherStep
  <2> QED  BY <1>11, <2>1 DEF OwnStep
<1>12. CASE WakeOther(f) /\ fl[f].outcome # "TimedOut"
  <2>1. Others /\ Becomes(f, "join", fl[f].op, fl[f].required, "none", fl[f].owed)
    <3>1. Turns(f, [fl[f] EXCEPT !.pc = "join", !.outcome = "none"])
      BY <1>1, <1>12, FlusherStep
    <3> QED  BY <1>1, <3>1 DEF Turns, Becomes, Flusher
  <2> QED  BY <1>12, <2>1 DEF OwnStep
<1>13. CASE Deadline(f)
  <2>1. Others /\ Becomes(f, "done", fl[f].op, fl[f].required, "TimedOut", fl[f].owed)
    <3>1. Turns(f, [fl[f] EXCEPT !.pc = "done", !.outcome = "TimedOut"])
      BY <1>1, <1>13, FlusherStep
    <3> QED  BY <1>1, <3>1 DEF Turns, Becomes, Flusher
  <2> QED  BY <1>13, <2>1 DEF OwnStep
<1>14. CASE Return(f)
  <2>1. Others /\ Becomes(f, "idle", "flush", 0, "none", {})
    <3>1. Turns(f, IdleFlusher)
      BY <1>1, <1>14, FlusherStep
    <3> QED  BY <3>1 DEF Turns, Becomes, IdleFlusher
  <2> QED  BY <1>14, <2>1 DEF OwnStep
<1> QED
  BY <1>4, <1>5, <1>6, <1>7, <1>8, <1>9, <1>10, <1>11, <1>12, <1>13, <1>14

\* A flusher changes by its own step or is told; the barrier by the one who makes it and
\* by the writer.
LEMMA FlusherCases ==
  ASSUME AuditConstants, AuditInv, [AuditNext]_auditVars, NEW f \in Flushers
  PROVE  fl'[f] = fl[f] \/ OwnStep(f) \/ Told(f)
<1>1. AuditTypeOK /\ fl[f] \in Flusher
  BY DEF AuditInv, AuditTypeOK, Flusher, FlusherPc
<1>2. ASSUME Complete PROVE fl'[f] = fl[f] \/ Told(f)
  BY <1>1, <1>2, CompleteTells DEF Told, Becomes, Flusher
<1>3. ASSUME Recv \/ CountDown \/ Write \/ LoadHealth \/ FlushSink PROVE fl' = fl
  BY <1>3 DEF Recv, CountDown, Write, LoadHealth, FlushSink
<1>4. ASSUME NEW e \in Emitters,
             Enter(e) \/ CheckHealth(e) \/ Reserve(e) \/ TrySend(e) \/ BumpEpoch(e) \/ Leave(e)
      PROVE  fl' = fl
  BY <1>4 DEF Enter, CheckHealth, Reserve, TrySend, BumpEpoch, Leave
<1>5. ASSUME NEW g \in Flushers,
             \/ Drain(g) \/ Require(g) \/ Join(g) \/ SendBarrier(g) \/ Wake(g) \/ WakeOther(g) \/ Return(g)
             \/ Deadline(g) \/ \E op \in {"flush", "close"} : Flush(g, op)
      PROVE  fl'[f] = fl[f] \/ OwnStep(f)
  BY <1>5, OwnSteps
<1>6. CASE UNCHANGED auditVars
  BY <1>6 DEF auditVars
<1> QED  BY <1>2, <1>3, <1>4, <1>5, <1>6, AuditSteps

NewBarrier(g) == Join(g) /\ barrier.outcome # Pending /\ barrier' = [epoch |-> epoch, outcome |-> Pending]

LEMMA BarrierCases ==
  ASSUME AuditConstants, AuditInv, [AuditNext]_auditVars
  PROVE  barrier' = barrier \/ Complete \/ \E g \in Flushers : NewBarrier(g)
<1>1. ASSUME Recv \/ CountDown \/ Write \/ LoadHealth \/ FlushSink PROVE barrier' = barrier
  BY <1>1 DEF Recv, CountDown, Write, LoadHealth, FlushSink
<1>2. ASSUME NEW e \in Emitters,
             Enter(e) \/ CheckHealth(e) \/ Reserve(e) \/ TrySend(e) \/ BumpEpoch(e) \/ Leave(e)
      PROVE  barrier' = barrier
  BY <1>2 DEF Enter, CheckHealth, Reserve, TrySend, BumpEpoch, Leave
<1>3. ASSUME NEW g \in Flushers,
             \/ Drain(g) \/ Require(g) \/ Wake(g) \/ WakeOther(g) \/ Return(g)
             \/ Deadline(g) \/ \E op \in {"flush", "close"} : Flush(g, op)
      PROVE  barrier' = barrier
  BY <1>3 DEF Drain, Require, Wake, WakeOther, Return, Deadline, Flush
<1>4. ASSUME NEW g \in Flushers, SendBarrier(g) PROVE barrier' = barrier
  <2>1. ~Full
    BY <1>4, CountsPositive DEF SendBarrier, ChannelHasRoom
  <2> QED  BY <1>4, <2>1 DEF SendBarrier
<1>5. ASSUME NEW g \in Flushers, Join(g) PROVE barrier' = barrier \/ NewBarrier(g)
  BY <1>5 DEF Join, NewBarrier
<1>6. CASE UNCHANGED auditVars
  BY <1>6 DEF auditVars
<1> QED  BY <1>1, <1>2, <1>3, <1>4, <1>5, <1>6, AuditSteps

-----------------------------------------------------------------------------
(* What the barrier covers. *)

LEMMA InCounted ==
  ASSUME NEW v
  PROVE  v \in Counted <=> v \in accepted \/ \E g \in Emitters : em[g].pc = "leave" /\ em[g].event = v
BY DEF Counted

\* What was accepted stays; only a new epoch adds to what is counted.
LEMMA CountedStep ==
  ASSUME AuditInv, [AuditNext]_auditVars
  PROVE  /\ accepted \subseteq accepted' /\ epoch' \in {epoch, epoch + 1}
         /\ epoch' = epoch => Counted' \subseteq Counted
<1>1. AuditTypeOK /\ epoch \in Nat
  BY DEF AuditInv, AuditTypeOK
<1> DEFINE Goal == /\ accepted \subseteq accepted' /\ epoch' \in {epoch, epoch + 1}
                   /\ epoch' = epoch => Counted' \subseteq Counted
<1>2. ASSUME UNCHANGED <<em, accepted, epoch>> PROVE Goal
  BY <1>2 DEF Counted
<1>3. ASSUME NEW e \in Emitters, NEW pc, NEW w, Moves(e, pc, w), pc # "leave", UNCHANGED <<accepted, epoch>>
      PROVE  Goal
  <2> SUFFICES ASSUME NEW v \in Counted' PROVE v \in Counted
    BY <1>3
  <2>1. v \in accepted' \/ \E g \in Emitters : em'[g].pc = "leave" /\ em'[g].event = v
    BY DEF Counted
  <2> QED  BY <1>3, <2>1, InCounted DEF Moves
<1>4. ASSUME NEW e \in Emitters, Enter(e) PROVE Goal
  <2>1. UNCHANGED <<accepted, epoch>>
    BY <1>4 DEF Enter
  <2>2. CASE eventAdmission.closed
    <3>1. em' = em
      BY <1>4, <2>2 DEF Enter
    <3> QED  BY <1>2, <2>1, <3>1
  <2>3. CASE ~eventAdmission.closed
    <3>1. Moves(e, "health", calls.emit + 1)
      BY <1>1, <1>4, <2>3, EmitterStep
    <3> QED  BY <1>3, <2>1, <3>1
  <2> QED  BY <2>2, <2>3
<1>5. ASSUME NEW e \in Emitters, CheckHealth(e) \/ Reserve(e) \/ TrySend(e) PROVE Goal
  <2>1. UNCHANGED <<accepted, epoch>>
    BY <1>5 DEF CheckHealth, Reserve, TrySend
  <2>2. PICK pc \in {"reserve", "drop", "send", "epoch"} : Moves(e, pc, em[e].event)
    BY <1>1, <1>5, EmitterStep
  <2> QED  BY <1>3, <2>1, <2>2
<1>6. ASSUME NEW e \in Emitters, BumpEpoch(e) PROVE Goal
  BY <1>1, <1>6 DEF BumpEpoch
<1>7. ASSUME NEW e \in Emitters, Leave(e) PROVE Goal
  <2>1. Moves(e, "idle", 0)
    BY <1>1, <1>7, EmitterStep
  <2>2. /\ epoch' = epoch /\ accepted \subseteq accepted'
        /\ \A v \in accepted' : v \in accepted \/ (em[e].pc = "leave" /\ v = em[e].event)
    BY <1>7 DEF Leave
  <2>3. ASSUME NEW v \in Counted' PROVE v \in Counted
    <3>1. v \in accepted' \/ \E g \in Emitters : em'[g].pc = "leave" /\ em'[g].event = v
      BY <2>3 DEF Counted
    <3> QED  BY <2>1, <2>2, <3>1, InCounted DEF Moves
  <2> QED  BY <2>2, <2>3
<1> QED  BY <1>2, <1>4, <1>5, <1>6, <1>7, EmittersAlone

\* No step puts a counted event behind the barrier.
LEMMA BehindStep ==
  ASSUME AuditConstants, AuditInv, [AuditNext]_auditVars, NEW v \in Counted, Behind(v)'
  PROVE  Behind(v)
<1>1. AuditTypeOK /\ OneBarrier
  BY DEF AuditInv
<1>2. v # Barrier
  <2>1. v \in Sent
    BY InCounted, InSent
  <2> QED  BY <2>1, SentIsEvent
<1>3. (WriterHasBarrier' /\ InChannel(v)') \/ AfterBarrier(v)'
  BY DEF Behind
<1>4. CASE chan' = chan /\ (WriterHasBarrier' => WriterHasBarrier)
  BY <1>3, <1>4, ChannelSame DEF Behind
<1>5. ASSUME NEW e \in Emitters, Enter(e) \/ CheckHealth(e) \/ Reserve(e) \/ BumpEpoch(e) \/ Leave(e)
      PROVE  Behind(v)
  BY <1>4, <1>5 DEF Enter, CheckHealth, Reserve, BumpEpoch, Leave, WriterHasBarrier
<1>6. ASSUME NEW e \in Emitters, TrySend(e) PROVE Behind(v)
  <2>1. writer' = writer /\ em[e].pc = "send" /\ e \in Inside
    BY <1>6 DEF TrySend, Inside
  <2>2. CASE Full
    BY <1>4, <1>6, <2>1, <2>2 DEF TrySend, WriterHasBarrier
  <2>3. CASE ~Full
    <3>1. chan' = Append(chan, em[e].event) /\ chan \in Seq(Nat) /\ em[e].event \in Nat
      BY <1>1, <1>6, <2>3 DEF TrySend, AuditTypeOK
    <3>2. /\ InChannel(v)' <=> InChannel(v) \/ v = em[e].event
          /\ AfterBarrier(v)' <=> AfterBarrier(v) \/ (v = em[e].event /\ InChannel(Barrier))
      BY <3>1, ChannelAppend
    <3>3. v # em[e].event
      <4>1. em[e].event \notin accepted /\ \A g \in Inside : g # e => em[g].event # em[e].event
        BY <2>1, OwnEvent
      <4>2. \A g \in Emitters : em[g].pc = "leave" => g \in Inside /\ g # e
        BY <2>1 DEF Inside
      <4> QED  BY <4>1, <4>2, InCounted
    <3>4. WriterHasBarrier' <=> WriterHasBarrier
      BY <2>1 DEF WriterHasBarrier
    <3> QED  BY <1>3, <3>2, <3>3, <3>4 DEF Behind
  <2> QED  BY <2>2, <2>3
<1>7. ASSUME NEW f \in Flushers,
             \/ Drain(f) \/ Require(f) \/ Join(f) \/ Wake(f) \/ WakeOther(f) \/ Return(f) \/ Deadline(f)
             \/ \E op \in {"flush", "close"} : Flush(f, op)
      PROVE  Behind(v)
  BY <1>4, <1>7 DEF Drain, Require, Join, Wake, WakeOther, Return, Deadline, Flush, WriterHasBarrier
<1>8. ASSUME NEW f \in Flushers, SendBarrier(f) PROVE Behind(v)
  <2>1. ~Full
    BY <1>8, CountsPositive DEF SendBarrier, ChannelHasRoom
  <2>2. writer' = writer /\ chan' = Append(chan, Barrier) /\ chan \in Seq(Nat) /\ Barrier \in Nat
    BY <1>1, <1>8, <2>1 DEF SendBarrier, AuditTypeOK, Barrier
  <2>3. /\ InChannel(v)' <=> InChannel(v) \/ v = Barrier
        /\ AfterBarrier(v)' <=> AfterBarrier(v) \/ (v = Barrier /\ InChannel(Barrier))
    BY <2>2, ChannelAppend
  <2>4. WriterHasBarrier' <=> WriterHasBarrier
    BY <2>2 DEF WriterHasBarrier
  <2> QED  BY <1>2, <1>3, <2>3, <2>4 DEF Behind
<1>9. ASSUME Recv PROVE Behind(v)
  <2>1. /\ chan # <<>> /\ chan' = Tail(chan) /\ chan \in Seq(Nat)
        /\ writer'.pc = IF Head(chan) = Barrier THEN "load" ELSE "count"
    BY <1>1, <1>9 DEF Recv, AuditTypeOK
  <2>2. /\ AfterBarrier(v)' => AfterBarrier(v)
        /\ Head(chan) = Barrier => (InChannel(v)' => AfterBarrier(v))
    BY <2>1, ChannelTail
  <2>3. WriterHasBarrier' => Head(chan) = Barrier
    BY <2>1 DEF WriterHasBarrier
  <2> QED  BY <1>3, <2>2, <2>3 DEF Behind
<1>10. ASSUME CountDown \/ Write \/ LoadHealth \/ FlushSink \/ Complete PROVE Behind(v)
  <2>1. chan' = chan
    BY <1>10 DEF CountDown, Write, LoadHealth, FlushSink, Complete
  <2>2. WriterHasBarrier' => WriterHasBarrier
    BY <1>1, <1>10 DEF CountDown, Write, LoadHealth, FlushSink, Complete, WriterHasBarrier, AuditTypeOK
  <2> QED  BY <1>4, <2>1, <2>2
<1>11. CASE UNCHANGED auditVars
  BY <1>4, <1>11 DEF auditVars, WriterHasBarrier
<1> QED
  BY <1>5, <1>6, <1>7, <1>8, <1>9, <1>10, <1>11, AuditSteps

\* Nothing is behind a barrier that was just made.
LEMMA NewBarrierBehindNothing ==
  ASSUME AuditInv, NEW g \in Flushers, NewBarrier(g)
  PROVE  \A v : ~Behind(v)'
<1>1. ~InChannel(Barrier) /\ ~WriterHasBarrier
  BY DEF AuditInv, OneBarrier, NewBarrier
<1>2. UNCHANGED <<chan, writer>>
  BY DEF NewBarrier, Join
<1>3. ~InChannel(Barrier)' /\ ~WriterHasBarrier'
  BY <1>1, <1>2, ChannelSame DEF WriterHasBarrier
<1> QED  BY <1>3 DEF Behind, AfterBarrier, InChannel

LEMMA CoversStep ==
  ASSUME AuditConstants, AuditInv, [AuditNext]_auditVars
  PROVE  BarrierCovers'
<1>1. AuditTypeOK /\ BarrierCovers /\ epoch \in Nat /\ barrier.epoch \in Nat
  BY DEF AuditInv, AuditTypeOK
<1>2. /\ accepted \subseteq accepted' /\ epoch' \in {epoch, epoch + 1}
      /\ epoch' = epoch => Counted' \subseteq Counted
      /\ accepted \subseteq Counted
  BY CountedStep DEF Counted
<1>3. epoch <= epoch' /\ epoch' \in Nat /\ \A n \in Nat : n <= epoch => n <= epoch'
  BY <1>1, <1>2
<1>4. ASSUME NEW v \in Counted, ~Behind(v) PROVE ~Behind(v)'
  BY <1>4, BehindStep
<1>5. ASSUME Complete PROVE barrier'.outcome # Pending
  BY <1>1, <1>5, CompleteTells DEF Pending
\* The barrier itself.
<1>6. ASSUME barrier'.outcome = Pending
      PROVE  /\ barrier'.epoch <= epoch'
             /\ barrier'.epoch = epoch' => \A v \in Counted' : ~Behind(v)'
  <2>1. ASSUME NEW g \in Flushers, NewBarrier(g) PROVE <1>6!2
    <3>1. barrier'.epoch = epoch
      BY <2>1 DEF NewBarrier
    <3> QED  BY <1>3, <2>1, <3>1, NewBarrierBehindNothing
  <2>2. CASE barrier' = barrier
    <3>1. barrier.epoch <= epoch /\ (barrier.epoch = epoch => \A v \in Counted : ~Behind(v))
      BY <1>1, <1>6, <2>2 DEF BarrierCovers
    <3>2. barrier'.epoch <= epoch'
      BY <1>1, <1>3, <2>2, <3>1
    <3>3. ASSUME barrier'.epoch = epoch' PROVE \A v \in Counted' : ~Behind(v)'
      <4>1. barrier.epoch = epoch /\ epoch' = epoch
        BY <1>1, <1>2, <2>2, <3>1, <3>3
      <4> QED  BY <1>2, <1>4, <3>1, <4>1
    <3> QED  BY <3>2, <3>3
  <2> QED  BY <1>5, <1>6, <2>1, <2>2, BarrierCases
\* A flush and the barrier it may join or wait for.
<1> DEFINE Joined == {"join", "send", "wait", "wait_other"}
<1>7. ASSUME NEW f \in Flushers
      PROVE  /\ fl'[f].owed \subseteq accepted' /\ fl'[f].required <= epoch'
             /\ fl'[f].pc \in Joined /\ barrier'.outcome = Pending /\ Covers(fl[f].required)'
                  => \A v \in fl'[f].owed : ~Behind(v)'
  <2>1. /\ fl[f].owed \subseteq accepted /\ fl[f].required <= epoch /\ fl[f].required \in Nat
        /\ fl[f].pc \in Joined /\ barrier.outcome = Pending /\ barrier.epoch >= fl[f].required
              => \A v \in fl[f].owed : ~Behind(v)
    BY <1>1 DEF BarrierCovers, AuditTypeOK, Covers
  <2>2. Covers(fl[f].required)' <=> barrier'.epoch >= fl'[f].required
    BY DEF Covers
  \* Its events and its epoch stay.
  <2>3. ASSUME fl'[f].owed = fl[f].owed, fl'[f].required = fl[f].required,
               fl'[f].pc \in Joined => fl[f].pc \in Joined
        PROVE  <1>7!2
    <3>1. fl'[f].owed \subseteq accepted' /\ fl'[f].required <= epoch'
      BY <1>2, <1>3, <2>1, <2>3
    <3>2. ASSUME fl'[f].pc \in Joined, barrier'.outcome = Pending, Covers(fl[f].required)',
                 NEW v \in fl'[f].owed
          PROVE  ~Behind(v)'
      <4>1. ASSUME NEW g \in Flushers, NewBarrier(g) PROVE ~Behind(v)'
        BY <4>1, NewBarrierBehindNothing
      <4>2. CASE barrier' = barrier
        <5>1. ~Behind(v) /\ v \in Counted
          BY <1>2, <2>1, <2>2, <2>3, <3>2, <4>2
        <5> QED  BY <1>4, <5>1
      <4> QED  BY <1>5, <3>2, <4>1, <4>2, BarrierCases
    <3> QED  BY <3>1, <3>2
  \* A new flush, one that has drained or one that is over.
  <2>4. ASSUME fl'[f].owed \subseteq accepted, fl'[f].required \in {0, fl[f].required}, fl'[f].pc \notin Joined
        PROVE  <1>7!2
    BY <1>2, <1>3, <2>1, <2>4
  <2>5. ASSUME Require(f), Becomes(f, "join", fl[f].op, epoch, fl[f].outcome, fl[f].owed)
        PROVE  <1>7!2
    <3>1. barrier' = barrier /\ epoch' = epoch /\ fl'[f].required = epoch /\ fl'[f].owed = fl[f].owed
      BY <2>5 DEF Require, Becomes
    <3>2. fl'[f].owed \subseteq accepted' /\ fl'[f].required <= epoch'
      BY <1>1, <1>2, <2>1, <3>1
    <3>3. ASSUME barrier'.outcome = Pending, Covers(fl[f].required)', NEW v \in fl'[f].owed
          PROVE  ~Behind(v)'
      <4>1. barrier.epoch <= epoch /\ barrier.epoch >= epoch /\ barrier.outcome = Pending
        BY <1>1, <2>2, <3>1, <3>3 DEF BarrierCovers
      <4>2. barrier.epoch = epoch
        BY <1>1, <4>1
      <4>3. v \in Counted /\ ~Behind(v)
        BY <1>1, <1>2, <2>1, <3>1, <3>3, <4>1, <4>2 DEF BarrierCovers
      <4> QED  BY <1>4, <4>3
    <3> QED  BY <3>2, <3>3
  <2>6. CASE fl'[f] = fl[f]
    BY <2>3, <2>6
  <2>7. CASE Told(f)
    BY <2>3, <2>7 DEF Told, Becomes
  <2>8. CASE OwnStep(f)
    <3>1. ASSUME NEW pc \in {"wait", "wait_other", "send"}, Join(f), Goes(f, pc) PROVE <1>7!2
      BY <2>3, <3>1 DEF Join, Goes, Becomes
    <3>2. ASSUME SendBarrier(f), Goes(f, "wait") PROVE <1>7!2
      BY <2>3, <3>2 DEF SendBarrier, Goes, Becomes
    <3>3. ASSUME Goes(f, "done") PROVE <1>7!2
      BY <2>3, <3>3 DEF Goes, Becomes
    <3>4. ASSUME WakeOther(f), Becomes(f, "join", fl[f].op, fl[f].required, "none", fl[f].owed) PROVE <1>7!2
      BY <2>3, <3>4 DEF WakeOther, Becomes
    <3>5. ASSUME Becomes(f, "done", fl[f].op, fl[f].required, "TimedOut", fl[f].owed) PROVE <1>7!2
      BY <2>3, <3>5 DEF Becomes
    <3>6. ASSUME Becomes(f, "idle", "flush", 0, "none", {}) PROVE <1>7!2
      BY <2>4, <3>6 DEF Becomes
    <3>7. ASSUME NEW op \in {"flush", "close"},
                 Becomes(f, IF op = "close" THEN "close" ELSE "require", op, 0, "none", accepted)
          PROVE  <1>7!2
      BY <2>4, <3>7 DEF Becomes
    <3>8. ASSUME Becomes(f, "require", fl[f].op, fl[f].required, fl[f].outcome, accepted) PROVE <1>7!2
      BY <2>4, <3>8 DEF Becomes
    <3> QED  BY <2>5, <2>8, <3>1, <3>2, <3>3, <3>4, <3>5, <3>6, <3>7, <3>8 DEF OwnStep
  <2> QED  BY <2>6, <2>7, <2>8, FlusherCases
<1> QED  BY <1>6, <1>7 DEF BarrierCovers, Covers

-----------------------------------------------------------------------------
(* What a flush knows of its barrier. *)

\* The sink takes events and never gives them back.
LEMMA WrittenGrows ==
  ASSUME [AuditNext]_auditVars
  PROVE  written \subseteq written'
<1>1. ASSUME Recv \/ CountDown \/ LoadHealth \/ FlushSink \/ Complete PROVE written' = written
  BY <1>1 DEF Recv, CountDown, LoadHealth, FlushSink, Complete
<1>2. ASSUME Write PROVE written \subseteq written'
  BY <1>2 DEF Write
<1>3. ASSUME NEW e \in Emitters,
             Enter(e) \/ CheckHealth(e) \/ Reserve(e) \/ TrySend(e) \/ BumpEpoch(e) \/ Leave(e)
      PROVE  written' = written
  BY <1>3 DEF Enter, CheckHealth, Reserve, TrySend, BumpEpoch, Leave
<1>4. ASSUME NEW g \in Flushers,
             \/ Drain(g) \/ Require(g) \/ Join(g) \/ SendBarrier(g) \/ Wake(g) \/ WakeOther(g) \/ Return(g)
             \/ Deadline(g) \/ \E op \in {"flush", "close"} : Flush(g, op)
      PROVE  written' = written
  BY <1>4 DEF Drain, Require, Join, SendBarrier, Wake, WakeOther, Return, Deadline, Flush
<1>5. CASE UNCHANGED auditVars
  BY <1>5 DEF auditVars
<1> QED  BY <1>1, <1>2, <1>3, <1>4, <1>5, AuditSteps

\* The heart of the matter: when the writer completes a healthy barrier, everything that
\* a flush waiting for it answers for has been written.
LEMMA CompletedIsWritten ==
  ASSUME AuditInv, Complete, barrier'.outcome = "Flushed", NEW f \in Flushers,
         fl[f].pc = "wait", fl[f].outcome = "none"
  PROVE  fl[f].owed \subseteq written
<1>1. AuditTypeOK /\ NothingLost /\ BarrierCovers /\ FlushKnows
  BY DEF AuditInv
<1>2. writer.pc = "complete" /\ writer.healthy /\ WriterHasBarrier
  BY <1>1, CompleteTells DEF Complete, WriterHasBarrier
<1>3. barrier.outcome = Pending /\ Covers(fl[f].required)
  BY <1>1 DEF FlushKnows, Answered
<1>4. fl[f].owed \subseteq accepted /\ \A v \in fl[f].owed : ~Behind(v)
  BY <1>1, <1>3 DEF BarrierCovers
<1>5. \A v \in accepted : InChannel(v) \/ v \in written
  BY <1>1, <1>2 DEF NothingLost, Sent
<1> QED  BY <1>2, <1>4, <1>5 DEF Behind

LEMMA KnowsStep ==
  ASSUME AuditConstants, AuditInv, [AuditNext]_auditVars
  PROVE  FlushKnows'
<1>1. AuditTypeOK /\ OneBarrier /\ BarrierCovers /\ FlushKnows
  BY DEF AuditInv
<1> DEFINE
      Knows(f) ==
        /\ fl'[f].pc \in {"idle", "close", "require", "join", "send"} => fl'[f].outcome = "none"
        /\ fl'[f].pc = "send" => barrier'.epoch >= fl'[f].required
        /\ fl'[f].pc \in {"wait", "wait_other"} /\ fl'[f].outcome = "none" => barrier'.outcome = Pending
        /\ fl'[f].pc = "wait" /\ fl'[f].outcome = "none" => barrier'.epoch >= fl'[f].required
        /\ fl'[f].pc \in {"wait", "done"} /\ fl'[f].outcome = "Flushed" => fl'[f].owed \subseteq written'
<1>2. SUFFICES ASSUME NEW f \in Flushers PROVE Knows(f)
  BY DEF FlushKnows, Covers, Answered
<1>3. /\ fl[f].pc \in {"idle", "close", "require", "join", "send"} => fl[f].outcome = "none"
      /\ fl[f].pc = "send" => barrier.epoch >= fl[f].required
      /\ fl[f].pc \in {"wait", "wait_other"} /\ fl[f].outcome = "none" => barrier.outcome = Pending
      /\ fl[f].pc = "wait" /\ fl[f].outcome = "none" => barrier.epoch >= fl[f].required
      /\ fl[f].pc \in {"wait", "done"} /\ fl[f].outcome = "Flushed" => fl[f].owed \subseteq written
  BY <1>1 DEF FlushKnows, Covers, Answered
<1>4. written \subseteq written'
  BY WrittenGrows
<1>5. fl[f].pc = "send" => barrier.outcome = Pending /\ ~WriterHasBarrier
  BY <1>1 DEF OneBarrier, LeaderHasBarrier
<1>6. Complete => WriterHasBarrier
  BY DEF Complete, WriterHasBarrier
<1>7. CASE fl'[f] = fl[f]
  <2>1. CASE barrier' = barrier
    BY <1>3, <1>4, <1>7, <2>1
  <2>2. CASE Complete
    <3>1. barrier'.outcome # "none" /\ barrier'.epoch = barrier.epoch
      BY <1>1, <2>2, CompleteTells
    <3>2. ~(fl[f].pc \in {"wait", "wait_other"} /\ fl[f].outcome = "none")
      <4>1. fl[f] \in Flusher
        BY <1>1 DEF AuditTypeOK, Flusher, FlusherPc
      <4>2. [fl[f] EXCEPT !.outcome = barrier'.outcome].outcome = barrier'.outcome
        BY <4>1 DEF Flusher
      <4> QED  BY <1>1, <1>7, <2>2, <3>1, <4>2, CompleteTells
    <3> QED  BY <1>3, <1>4, <1>5, <1>6, <1>7, <2>2, <3>1, <3>2
  <2>3. ASSUME NEW g \in Flushers, NewBarrier(g) PROVE Knows(f)
    BY <1>3, <1>4, <1>5, <1>7, <2>3 DEF NewBarrier
  <2> QED  BY <2>1, <2>2, <2>3, BarrierCases
<1>8. CASE Told(f)
  <2>1. /\ fl'[f].pc = fl[f].pc /\ fl[f].pc \in {"wait", "wait_other"} /\ fl[f].outcome = "none"
        /\ fl'[f].outcome = barrier'.outcome /\ fl'[f].owed = fl[f].owed /\ Complete
    BY <1>8 DEF Told, Becomes
  <2>2. barrier'.outcome # "none"
    BY <1>1, <2>1, CompleteTells
  <2>3. fl[f].pc = "wait" /\ barrier'.outcome = "Flushed" => fl[f].owed \subseteq written
    BY <2>1, CompletedIsWritten
  <2> QED  BY <1>4, <2>1, <2>2, <2>3
<1>9. CASE OwnStep(f)
  <2>1. ASSUME NEW pc \in {"close", "require", "join"}, NEW op, NEW r, NEW owed, Becomes(f, pc, op, r, "none", owed)
        PROVE  Knows(f)
    BY <2>1 DEF Becomes
  <2>2. ASSUME Drain(f), Becomes(f, "require", fl[f].op, fl[f].required, fl[f].outcome, accepted) PROVE Knows(f)
    <3>1. fl[f].outcome = "none"
      BY <1>3, <2>2 DEF Drain
    <3> QED  BY <2>1, <2>2, <3>1
  <2>3. ASSUME Require(f), Becomes(f, "join", fl[f].op, epoch, fl[f].outcome, fl[f].owed) PROVE Knows(f)
    <3>1. fl[f].outcome = "none"
      BY <1>3, <2>3 DEF Require
    <3> QED  BY <2>1, <2>3, <3>1
  <2>4. ASSUME Join(f), barrier.outcome = Pending, Covers(fl[f].required), Goes(f, "wait") PROVE Knows(f)
    <3>1. fl[f].outcome = "none" /\ barrier' = barrier
      BY <1>3, <2>4 DEF Join
    <3> QED  BY <2>4, <3>1 DEF Goes, Becomes, Covers
  <2>5. ASSUME Join(f), barrier.outcome = Pending, Goes(f, "wait_other") PROVE Knows(f)
    <3>1. fl[f].outcome = "none" /\ barrier' = barrier
      BY <1>3, <2>5 DEF Join
    <3> QED  BY <2>5, <3>1 DEF Goes, Becomes
  <2>6. ASSUME Join(f), barrier.outcome # Pending, Goes(f, "send") PROVE Knows(f)
    <3>1. fl[f].outcome = "none" /\ barrier'.epoch = epoch
      BY <1>3, <2>6 DEF Join
    <3>2. fl[f].required <= epoch /\ fl[f].required \in Nat /\ epoch \in Nat
      BY <1>1 DEF BarrierCovers, AuditTypeOK
    <3>3. epoch >= fl[f].required
      BY <3>2
    <3> QED  BY <2>6, <3>1, <3>3 DEF Goes, Becomes
  <2>7. ASSUME SendBarrier(f), ~Full, Goes(f, "wait") PROVE Knows(f)
    <3>1. fl[f].pc = "send" /\ barrier' = barrier
      BY <2>7 DEF SendBarrier
    <3> QED  BY <1>3, <1>5, <2>7, <3>1 DEF Goes, Becomes
  <2>8. ASSUME Wake(f), Goes(f, "done") PROVE Knows(f)
    <3>1. fl[f].pc = "wait"
      BY <2>8 DEF Wake
    <3> QED  BY <1>3, <1>4, <2>8, <3>1 DEF Goes, Becomes
  <2>9. ASSUME fl[f].outcome = "TimedOut", Goes(f, "done") PROVE Knows(f)
    BY <2>9 DEF Goes, Becomes
  <2>10. ASSUME Becomes(f, "done", fl[f].op, fl[f].required, "TimedOut", fl[f].owed) PROVE Knows(f)
    BY <2>10 DEF Becomes
  <2>11. ASSUME Becomes(f, "idle", "flush", 0, "none", {}) PROVE Knows(f)
    BY <2>11 DEF Becomes
  <2>12. ASSUME NEW op \in {"flush", "close"},
                Becomes(f, IF op = "close" THEN "close" ELSE "require", op, 0, "none", accepted)
         PROVE  Knows(f)
    BY <2>1, <2>12
  <2> QED
    BY <1>9, <2>1, <2>2, <2>3, <2>4, <2>5, <2>6, <2>7, <2>8, <2>9, <2>10, <2>11, <2>12 DEF OwnStep
<1> QED  BY <1>7, <1>8, <1>9, FlusherCases

-----------------------------------------------------------------------------
(* Closing is for good. *)

\* A closed dispatcher stays closed, and once its emitters have left, nobody enters and
\* nothing more is accepted.
LEMMA ClosedStays ==
  ASSUME AuditInv, [AuditNext]_auditVars, eventAdmission.closed
  PROVE  eventAdmission'.closed /\ (Inside = {} => Inside' = {} /\ accepted' = accepted)
<1>1. AuditTypeOK /\ eventAdmission \in [closed : BOOLEAN, active : Nat]
  BY DEF AuditInv, AuditTypeOK
<1>2. eventAdmission'.closed
  <2>1. ASSUME Recv \/ CountDown \/ Write \/ LoadHealth \/ FlushSink \/ Complete
        PROVE  eventAdmission' = eventAdmission
    BY <2>1 DEF Recv, CountDown, Write, LoadHealth, FlushSink, Complete
  <2>2. ASSUME NEW e \in Emitters, CheckHealth(e) \/ Reserve(e) \/ TrySend(e) \/ BumpEpoch(e) \/ Enter(e)
        PROVE  eventAdmission' = eventAdmission
    BY <2>2 DEF CheckHealth, Reserve, TrySend, BumpEpoch, Enter
  <2>3. ASSUME NEW e \in Emitters, Leave(e) PROVE eventAdmission'.closed
    <3>1. eventAdmission' = [eventAdmission EXCEPT !.active = @ - 1]
      BY <2>3 DEF Leave
    <3> QED  BY <1>1, <3>1
  <2>4. ASSUME NEW g \in Flushers,
               \/ Drain(g) \/ Require(g) \/ Join(g) \/ SendBarrier(g) \/ Wake(g) \/ WakeOther(g) \/ Return(g)
               \/ Deadline(g)
        PROVE  eventAdmission' = eventAdmission
    BY <2>4 DEF Drain, Require, Join, SendBarrier, Wake, WakeOther, Return, Deadline
  <2>5. ASSUME NEW g \in Flushers, NEW op \in {"flush", "close"}, Flush(g, op) PROVE eventAdmission'.closed
    <3>1. eventAdmission' \in {eventAdmission, [eventAdmission EXCEPT !.closed = TRUE]}
      BY <2>5 DEF Flush
    <3> QED  BY <1>1, <3>1
  <2>6. CASE UNCHANGED auditVars
    BY <2>6 DEF auditVars
  <2> QED  BY <2>1, <2>2, <2>3, <2>4, <2>5, <2>6, AuditSteps
<1>3. ASSUME Inside = {} PROVE Inside' = {} /\ accepted' = accepted
  <2>1. ASSUME NEW e \in Emitters, Enter(e) PROVE UNCHANGED <<em, accepted>>
    BY <2>1 DEF Enter
  <2>2. ASSUME NEW e \in Emitters, CheckHealth(e) \/ Reserve(e) \/ TrySend(e) \/ BumpEpoch(e) \/ Leave(e)
        PROVE  FALSE
    <3>1. em[e].pc # "idle"
      BY <2>2 DEF CheckHealth, Reserve, TrySend, BumpEpoch, Leave
    <3> QED  BY <1>3, <3>1 DEF Inside
  <2>3. UNCHANGED <<em, accepted>>
    BY <2>1, <2>2, EmittersAlone
  <2> QED  BY <1>3, <2>3 DEF Inside
<1> QED  BY <1>2, <1>3

LEMMA ClosedStep ==
  ASSUME AuditConstants, AuditInv, [AuditNext]_auditVars
  PROVE  ClosedForGood'
<1>1. AuditTypeOK /\ ClosedForGood
  BY DEF AuditInv
<1> DEFINE
      Over(f) == \/ fl'[f].pc \in {"require", "join", "send", "wait", "wait_other"}
                 \/ fl'[f].pc = "done" /\ fl'[f].outcome = "Flushed"
      Closed(f) == fl'[f].op = "close" =>
        /\ fl'[f].pc # "idle" /\ eventAdmission'.closed
        /\ Over(f) => Inside' = {} /\ fl'[f].owed = accepted'
<1>2. SUFFICES ASSUME NEW f \in Flushers PROVE Closed(f)
  BY DEF ClosedForGood, Drained
<1>3. fl[f].op = "close" =>
        /\ fl[f].pc # "idle" /\ eventAdmission.closed
        /\ fl[f].pc \in {"require", "join", "send", "wait", "wait_other"} \/ (fl[f].pc = "done" /\ fl[f].outcome = "Flushed")
             => Inside = {} /\ fl[f].owed = accepted
  BY <1>1 DEF ClosedForGood, Drained
\* A step that leaves what the flush answers for.
<1>4. ASSUME fl'[f].op = fl[f].op, fl'[f].owed = fl[f].owed, fl'[f].pc # "idle",
             Over(f) => \/ fl[f].pc \in {"require", "join", "send", "wait", "wait_other"}
                        \/ fl[f].pc = "done" /\ fl[f].outcome = "Flushed"
      PROVE  Closed(f)
  BY <1>3, <1>4, ClosedStays
<1>5. CASE fl'[f] = fl[f]
  <2>1. fl[f].pc = "idle" => fl'[f].op # "close"
    BY <1>3, <1>5
  <2> QED  BY <1>4, <1>5, <2>1
<1>6. CASE Told(f)
  BY <1>4, <1>6 DEF Told, Becomes
<1>7. CASE OwnStep(f)
  <2>1. ASSUME NEW op \in {"flush", "close"}, Flush(f, op),
               Becomes(f, IF op = "close" THEN "close" ELSE "require", op, 0, "none", accepted)
        PROVE  Closed(f)
    <3>1. CASE op = "flush"
      BY <2>1, <3>1 DEF Becomes
    <3>2. CASE op = "close"
      <4>1. eventAdmission' = [eventAdmission EXCEPT !.closed = TRUE]
        BY <2>1, <3>2 DEF Flush
      <4>2. eventAdmission'.closed
        BY <1>1, <4>1 DEF AuditTypeOK
      <4> QED  BY <2>1, <3>2, <4>2 DEF Becomes
    <3> QED  BY <3>1, <3>2
  <2>2. ASSUME Drain(f), Becomes(f, "require", fl[f].op, fl[f].required, fl[f].outcome, accepted) PROVE Closed(f)
    <3>1. Inside = {}
      <4>1. Cardinality(Inside) = 0
        BY <2>2 DEF Drain, AuditInv, AuditCounts
      <4>2. IsFiniteSet(Inside)
        BY EmittersFinite DEF Inside
      <4> QED  BY <4>1, <4>2, FS_EmptySet
    <3> QED  BY <1>3, <2>2, <3>1, ClosedStays DEF Becomes
  <2>3. ASSUME Require(f), Becomes(f, "join", fl[f].op, epoch, fl[f].outcome, fl[f].owed) PROVE Closed(f)
    BY <1>4, <2>3 DEF Require, Becomes
  <2>4. ASSUME NEW pc \in {"wait", "wait_other", "send"}, Join(f), Goes(f, pc) PROVE Closed(f)
    BY <1>4, <2>4 DEF Join, Goes, Becomes
  <2>5. ASSUME SendBarrier(f), Goes(f, "wait") PROVE Closed(f)
    BY <1>4, <2>5 DEF SendBarrier, Goes, Becomes
  <2>6. ASSUME Wake(f) \/ WakeOther(f), Goes(f, "done") PROVE Closed(f)
    BY <1>4, <2>6 DEF Wake, WakeOther, Goes, Becomes
  <2>7. ASSUME WakeOther(f), Becomes(f, "join", fl[f].op, fl[f].required, "none", fl[f].owed) PROVE Closed(f)
    BY <1>4, <2>7 DEF WakeOther, Becomes
  <2>8. ASSUME Becomes(f, "done", fl[f].op, fl[f].required, "TimedOut", fl[f].owed) PROVE Closed(f)
    BY <1>4, <2>8 DEF Becomes
  <2>9. ASSUME Becomes(f, "idle", "flush", 0, "none", {}) PROVE Closed(f)
    BY <2>9 DEF Becomes
  <2> QED
    BY <1>7, <2>1, <2>2, <2>3, <2>4, <2>5, <2>6, <2>7, <2>8, <2>9 DEF OwnStep
<1> QED  BY <1>5, <1>6, <1>7, FlusherCases

-----------------------------------------------------------------------------
(* The theorem. *)

LEMMA AuditInitially ==
  ASSUME AuditConstants, AuditInit
  PROVE  AuditInv
<1>1. AuditTypeOK
  BY DEF AuditInit, AuditTypeOK, IdleEmitter, IdleFlusher, Outcomes, Pending
<1>2. chan = <<>> /\ Len(chan) = 0 /\ \A v : ~InChannel(v) /\ ~AfterBarrier(v)
  BY DEF AuditInit, InChannel, AfterBarrier
<1>3. Inside = {} /\ Sending = {} /\ accepted = {} /\ Cardinality(Inside) = 0 /\ Cardinality(Sending) = 0
  BY FS_EmptySet DEF AuditInit, Inside, Sending, IdleEmitter
<1>4. barrier.outcome = "none" /\ writer.pc = "recv" /\ \A f \in Flushers : fl[f] = IdleFlusher
  BY DEF AuditInit
<1>5. \A f \in Flushers : fl[f].pc = "idle" /\ fl[f].op = "flush" /\ fl[f].outcome = "none"
                          /\ fl[f].required = 0 /\ fl[f].owed = {}
  BY <1>4 DEF IdleFlusher
<1>6. OneBarrier
  BY <1>2, <1>4, <1>5 DEF OneBarrier, WriterHasBarrier, LeaderHasBarrier, Pending
<1>7. AuditCounts
  BY <1>2, <1>3, <1>4 DEF AuditCounts, AuditInit, AuditConstants
<1>8. EventsDistinct
  BY <1>3 DEF EventsDistinct
<1>9. NothingLost
  <2>1. Sent = {}
    <3>1. \A e \in Emitters : em[e].pc = "idle"
      BY DEF AuditInit, IdleEmitter
    <3> QED  BY <1>3, <3>1 DEF Sent
  <2> QED  BY <1>4, <2>1 DEF NothingLost
<1>10. BarrierCovers
  BY <1>4, <1>5 DEF BarrierCovers, AuditInit, Pending
<1>11. FlushKnows
  BY <1>5 DEF FlushKnows
<1>12. ClosedForGood
  BY <1>5 DEF ClosedForGood
<1> QED  BY <1>1, <1>6, <1>7, <1>8, <1>9, <1>10, <1>11, <1>12 DEF AuditInv

LEMMA AuditStep ==
  ASSUME AuditConstants, AuditInv, [AuditNext]_auditVars
  PROVE  AuditInv'
BY AuditTypeStep, OneBarrierStep, CountsStep, EventsStep, NothingLostStep, CoversStep, KnowsStep, ClosedStep
   DEF AuditInv

LEMMA FlushesAreTrue ==
  ASSUME AuditConstants, AuditInv
  PROVE  FlushIsTrue
<1>1. FlushKnows /\ ClosedForGood
  BY DEF AuditInv
<1>2. FlushedIsWritten
  BY <1>1 DEF FlushedIsWritten, FlushKnows, ClosedForGood, Drained
<1>3. ChannelHasRoom
  BY CountsPositive
<1> QED  BY <1>2, <1>3 DEF FlushIsTrue

\* A flush of the audit log that answers Flushed tells the truth, whatever the sink does, however many
\* emitters and flushers there are and whatever the capacity: what was accepted before it
\* began is with the sink, after a close all that was ever accepted; and neither an event
\* that has its slot nor the barrier ever meets a full channel.
THEOREM FlushTellsTheTruth ==
  ASSUME Capacity \in Nat, IsFiniteSet(Emitters)
  PROVE  AuditSpec => []FlushIsTrue
<1>1. AuditConstants
  BY DEF AuditConstants
<1>2. AuditInit => AuditInv
  BY <1>1, AuditInitially
<1>3. AuditInv /\ [AuditNext]_auditVars => AuditInv'
  BY <1>1, AuditStep
<1>4. AuditInv => FlushIsTrue
  BY <1>1, FlushesAreTrue
<1> QED  BY <1>2, <1>3, <1>4, PTL DEF AuditSpec

=============================================================================
