--------------------------- MODULE MessagesProofs ---------------------------
(***************************************************************************)
(* The way of signals and messages into a process, proved: the ingress and *)
(* then the mailbox behind it.                                             *)
(*                                                                         *)
(* The permits of SignalIngress are conserved and the right monitors are   *)
(* told of a death, for any number of senders and any capacities.  A       *)
(* permit is at every moment in one of four places: its semaphore, a send  *)
(* that has reserved it, an envelope in the channel, or a monitor          *)
(* relation.  Lemmas give what each kind of step moves between them.       *)
(* What a sender wants is told by the last monitor or stop call it has in  *)
(* the channel, or by the loop's map when it has none (Follows); the drain *)
(* empties the channel, so that afterwards the map alone tells it.         *)
(*                                                                         *)
(* The mailbox of MessageMailbox strands no message, keeps within its      *)
(* slots and implements selective receive, for any number of messages,     *)
(* tags and slots.  The first and the last are proved for the receives no  *)
(* message can arrive inside of (DirectPush = FALSE); TLC shows that they  *)
(* fail otherwise.                                                         *)
(***************************************************************************)
EXTENDS SignalIngress, MessageMailbox, SequenceLemmas

Capacities == DataCapacity \in Nat /\ SignalCapacity \in Nat

LEMMA CapacitiesNat == Capacities
BY IngressAssumption DEF Capacities, DataCapacity

-----------------------------------------------------------------------------
(* Types *)

\* Changing one counter or one flag of a sender.
LEMMA CounterTypes ==
  ASSUME NEW f \in [Sender -> Nat], NEW s \in Sender
  PROVE  /\ [f EXCEPT ![s] = @ + 1] \in [Sender -> Nat]
         /\ f[s] > 0 => [f EXCEPT ![s] = @ - 1] \in [Sender -> Nat]
OBVIOUS

LEMMA FlagTypes ==
  ASSUME NEW f \in [Sender -> BOOLEAN], NEW s \in Sender, NEW b \in BOOLEAN
  PROVE  [f EXCEPT ![s] = b] \in [Sender -> BOOLEAN]
OBVIOUS

LEMMA IngressTypesInit == Init => TypeOK
<1> SUFFICES ASSUME Init PROVE TypeOK
  OBVIOUS
<1>1. Capacities
  BY CapacitiesNat
<1>2. watching \in [Sender -> BOOLEAN] /\ late \in [Sender -> BOOLEAN]
  BY Zenon DEF Init
<1>3. /\ pc \in [Sender -> {"idle", "reserve", "acquire", "push"}] /\ kind \in [Sender -> Kind]
      /\ observerFree \in [Sender -> Nat] /\ died \in [Sender -> Nat]
  BY IngressAssumption DEF Init, Kind
<1>4. /\ death \in BOOLEAN /\ closed \in BOOLEAN /\ killed \in BOOLEAN /\ surprised \in BOOLEAN
      /\ phase = "running" /\ queue = <<>> /\ monitors = {}
  BY DEF Init
<1>5. dataFree \in Nat /\ monitorFree \in Nat /\ mailFree \in Nat /\ mail \in Nat
  BY <1>1, IngressAssumption DEF Init, Capacities
<1>6. queue \in Seq(Envelope) /\ monitors \in SUBSET Sender
  BY <1>4, EmptySeq
<1> QED
  BY <1>2, <1>3, <1>4, <1>5, <1>6 DEF TypeOK

\* What the loop does to the relations keeps their types.
LEMMA RelationTypes ==
  ASSUME TypeOK, NEW e \in Envelope, MonitorChange(e) \/ DiscardEffect(e)
  PROVE  /\ monitors' \in SUBSET Sender
         /\ monitorFree' \in Nat
         /\ observerFree' \in [Sender -> Nat]
<1>1. e.from \in Sender
  BY DEF Envelope
<1>2. monitors' \in SUBSET Sender
  BY <1>1 DEF TypeOK, MonitorChange, AdmitMonitor, ForgetMonitor, DiscardEffect
<1>3. monitorFree' \in {monitorFree, monitorFree + 1}
  BY DEF MonitorChange, AdmitMonitor, ForgetMonitor, DiscardEffect
<1>4. observerFree' = observerFree \/ observerFree' = [observerFree EXCEPT ![e.from] = @ + 1]
  BY DEF MonitorChange, AdmitMonitor, ForgetMonitor, DiscardEffect
<1>5. observerFree' \in [Sender -> Nat]
  <2>1. observerFree \in [Sender -> Nat]
    BY DEF TypeOK
  <2>2. [observerFree EXCEPT ![e.from] = @ + 1] \in [Sender -> Nat]
    BY <1>1, <2>1, CounterTypes
  <2> QED
    BY <1>4, <2>1, <2>2
<1> QED
  BY <1>2, <1>3, <1>5 DEF TypeOK

LEMMA IngressTypesNext == TypeOK /\ [Next]_vars => TypeOK'
<1> SUFFICES ASSUME TypeOK, [Next]_vars PROVE TypeOK'
  OBVIOUS
<1> USE DEF TypeOK
<1>0. queue # <<>> => Head(queue) \in Envelope /\ Tail(queue) \in Seq(Envelope)
  BY FrontOfQueue
<1>1. CASE UNCHANGED vars
  BY <1>1 DEF vars
<1>2. ASSUME NEW s \in Sender, NEW k \in Kind, SendCheck(s, k) PROVE TypeOK'
  <2>1. UNCHANGED <<phase, death, closed, monitors, killed, queue, dataFree, monitorFree, mailFree,
                     mail, watching, surprised, late>>
    BY <1>2 DEF SendCheck, target, history
  <2>2. /\ pc' \in [Sender -> {"idle", "reserve", "acquire", "push"}]
        /\ kind' \in [Sender -> Kind]
    BY <1>2 DEF SendCheck, AnswerLate, Return, Kind
  <2>3. \/ UNCHANGED <<observerFree, died>>
        \/ /\ observerFree[s] > 0 /\ observerFree' = [observerFree EXCEPT ![s] = @ - 1]
           /\ died' = [died EXCEPT ![s] = @ + 1]
    BY <1>2 DEF SendCheck, AnswerLate, Tell
  <2>4. observerFree' \in [Sender -> Nat] /\ died' \in [Sender -> Nat]
    <3>1. CASE UNCHANGED <<observerFree, died>>
      BY <3>1
    <3>2. CASE /\ observerFree[s] > 0 /\ observerFree' = [observerFree EXCEPT ![s] = @ - 1]
               /\ died' = [died EXCEPT ![s] = @ + 1]
      BY <3>2
    <3> QED
      BY <2>3, <3>1, <3>2
  <2> QED
    BY <2>1, <2>2, <2>4
<1>3. ASSUME NEW s \in Sender, ReadDied(s) PROVE TypeOK'
  BY <1>3 DEF ReadDied, target, history
<1>4. ASSUME NEW s \in Sender, SendKill(s) PROVE TypeOK'
  BY <1>4 DEF SendKill, Return, target, history, Kind
<1>5. ASSUME NEW s \in Sender, SendReserve(s) PROVE TypeOK'
  <2>1. UNCHANGED <<phase, death, closed, monitors, killed, queue, mail, died, watching, surprised, late>>
    BY <1>5 DEF SendReserve, target, history
  <2>2. pc' \in [Sender -> {"idle", "reserve", "acquire", "push"}] /\ kind' \in [Sender -> Kind]
    BY <1>5 DEF SendReserve, Return, Kind
  <2>3. /\ mailFree' = mailFree \/ (mailFree > 0 /\ mailFree' = mailFree - 1)
        /\ dataFree' = dataFree \/ (dataFree > 0 /\ dataFree' = dataFree - 1)
        /\ monitorFree' = monitorFree \/ (monitorFree > 0 /\ monitorFree' = monitorFree - 1)
        /\ \/ observerFree' = observerFree
           \/ observerFree[s] > 0 /\ observerFree' = [observerFree EXCEPT ![s] = @ - 1]
    BY <1>5 DEF SendReserve, HasReservations
  <2>4. mailFree' \in Nat /\ dataFree' \in Nat /\ monitorFree' \in Nat
    BY <2>3
  <2>5. observerFree' \in [Sender -> Nat]
    BY <2>3, CounterTypes
  <2> QED
    BY <2>1, <2>2, <2>4, <2>5
<1>6. ASSUME NEW s \in Sender, SendAcquire(s) PROVE TypeOK'
  BY <1>6 DEF SendAcquire, target, history
<1>7. ASSUME NEW s \in Sender, SendPush(s) PROVE TypeOK'
  <2>1. [from |-> s, kind |-> kind[s]] \in Envelope
    BY DEF Envelope
  <2>2. queue' \in Seq(Envelope)
    BY <1>7, <2>1, AppendProperties DEF SendPush, Enqueue
  <2>3. watching' \in [Sender -> BOOLEAN] /\ late' \in [Sender -> BOOLEAN] /\ surprised' = surprised
    <3>1. CASE kind[s] \in {"monitor", "stop"}
      <4>1. /\ watching' = [watching EXCEPT ![s] = (kind[s] = "monitor")]
            /\ late' = [late EXCEPT ![s] = phase \in {"notifying", "done"}]
            /\ surprised' = surprised
        BY <1>7, <3>1 DEF SendPush, Enqueue
      <4>2. (kind[s] = "monitor") \in BOOLEAN /\ (phase \in {"notifying", "done"}) \in BOOLEAN
        OBVIOUS
      <4> QED
        BY <4>1, <4>2, FlagTypes, Zenon
    <3>2. CASE kind[s] \notin {"monitor", "stop"}
      BY <1>7, <3>2 DEF SendPush, Enqueue
    <3> QED
      BY <3>1, <3>2
  <2> QED
    BY <1>7, <2>2, <2>3 DEF SendPush, Return, target, Kind
<1>8. ASSUME NEW s \in Sender, SendFull(s) \/ SendClosed(s) PROVE TypeOK'
  <2>1. UNCHANGED <<phase, death, closed, monitors, killed, queue, mail, watching, surprised, late>>
    BY <1>8 DEF SendFull, SendClosed, target, history
  <2>2. pc' \in [Sender -> {"idle", "reserve", "acquire", "push"}] /\ kind' \in [Sender -> Kind]
    BY <1>8 DEF SendFull, SendClosed, Return, Kind
  <2>3. /\ mailFree' \in {mailFree, mailFree + 1} /\ dataFree' \in {dataFree, dataFree + 1}
        /\ monitorFree' \in {monitorFree, monitorFree + 1}
    BY <1>8 DEF SendFull, SendClosed, DropsReservations
  <2>4. /\ observerFree' = observerFree \/ observerFree' = [observerFree EXCEPT ![s] = @ + 1]
        /\ died' = died \/ died' = [died EXCEPT ![s] = @ + 1]
    BY <1>8 DEF SendFull, SendClosed, DropsReservations, Tell
  <2>5. observerFree' \in [Sender -> Nat] /\ died' \in [Sender -> Nat]
    <3>1. [observerFree EXCEPT ![s] = @ + 1] \in [Sender -> Nat] /\ [died EXCEPT ![s] = @ + 1] \in [Sender -> Nat]
      BY CounterTypes
    <3> QED
      BY <2>4, <3>1
  <2> QED
    BY <2>1, <2>2, <2>3, <2>5
<1>9. CASE RecvKill \/ PublishDeath \/ CloseChannel \/ DrainEnd \/ NotifyEnd \/ Finish
  BY <1>9 DEF RecvKill, PublishDeath, CloseChannel, DrainEnd, NotifyEnd, Finish, history
<1>10. CASE RecvSignal
  BY <1>0, <1>10, RelationTypes DEF RecvSignal, history
<1>11. CASE Drain
  BY <1>0, <1>11, RelationTypes DEF Drain, HandleDrained, DrainEffect, history
<1>12. ASSUME NEW s \in Sender, NotifyMonitor(s) PROVE TypeOK'
  BY <1>12 DEF NotifyMonitor, Tell
<1>13. CASE ReadMail
  BY <1>13 DEF ReadMail, target, history
<1>14. CASE Abort
  <2>1. Cardinality(monitors) \in Nat
    BY IngressAssumption, FS_Subset, FS_CardinalityType
  <2> QED
    BY <1>14, <2>1 DEF Abort, history
<1>15. CASE DropQueue
  <2>1. DiscardEffect(Head(queue)) /\ Head(queue) \in Envelope /\ queue' \in Seq(Envelope)
    BY <1>0, <1>15 DEF DropQueue
  <2> QED
    <3>1. monitors' \in SUBSET Sender /\ monitorFree' \in Nat /\ observerFree' \in [Sender -> Nat]
      BY <2>1, RelationTypes
    <3>2. mailFree' \in {mailFree, mailFree + 1} /\ dataFree' \in {dataFree, dataFree + 1}
      BY <2>1 DEF DiscardEffect
    <3> QED
      BY <1>15, <2>1, <3>1, <3>2 DEF DropQueue, history
<1> QED
  BY <1>1, <1>2, <1>3, <1>4, <1>5, <1>6, <1>7, <1>8, <1>9, <1>10, <1>11, <1>12, <1>13, <1>14, <1>15
  DEF Next, SenderStep, LoopStep

-----------------------------------------------------------------------------
(* What each kind of step does to the permits that are on their way *)

LEMMA QueuedNat == ASSUME TypeOK, NEW T PROVE Queued(T) \in Nat
<1>1. Queued(T) = Cardinality(Places(queue, T))
  BY DEF Queued, Places
<1> QED
  BY <1>1, PlacesFinite DEF TypeOK

LEMMA HoldingFinite ==
  ASSUME NEW k PROVE IsFiniteSet(Holding(k)) /\ Cardinality(Holding(k)) \in Nat
<1>1. IsFiniteSet(Holding(k))
  BY IngressAssumption, FS_Subset DEF Holding
<1> QED
  BY <1>1, FS_CardinalityType

LEMMA QueuedAppend ==
  ASSUME TypeOK, NEW e \in Envelope, queue' = Append(queue, e), NEW T
  PROVE  Queued(T)' = Queued(T) + One(e \in T)
<1>1. Queued(T) = Cardinality(Places(queue, T))
  BY DEF Queued, Places
<1>2. Queued(T)' = Cardinality(Places(Append(queue, e), T))
  BY DEF Queued, Places
<1> QED
  BY <1>1, <1>2, CountAppend DEF TypeOK, One

LEMMA QueuedTail ==
  ASSUME TypeOK, queue # <<>>, queue' = Tail(queue), NEW T
  PROVE  Queued(T)' = Queued(T) - One(Head(queue) \in T)
<1>1. Queued(T) = Cardinality(Places(queue, T))
  BY DEF Queued, Places
<1>2. Queued(T)' = Cardinality(Places(Tail(queue), T))
  BY DEF Queued, Places
<1> QED
  BY <1>1, <1>2, CountTail DEF TypeOK, One

\* Nothing on the way, in the channel or in the map changes.
LEMMA OnTheWaySame ==
  ASSUME TypeOK, UNCHANGED <<queue, monitors>>, \A k \in Kind : Holding(k)' = Holding(k)
  PROVE  /\ \A k \in Kind : Held(k)' = Held(k)
         /\ \A s \in Sender : Awaited(s)' = Awaited(s)
BY DEF Held, Awaited, Queued, Kind, MonitorOf, One

\* A send that has its reservations joins the ones on the way.
LEMMA SendJoins ==
  ASSUME TypeOK, NEW s \in Sender, pc[s] = "reserve",
         pc' = [pc EXCEPT ![s] = "acquire"], UNCHANGED <<kind, queue, monitors>>
  PROVE  /\ \A k \in Kind : Held(k)' = Held(k) + One(k = kind[s])
         /\ \A t \in Sender : Awaited(t)' = Awaited(t) + One(t = s /\ kind[s] = "monitor")
<1>1. \A k \in Kind : Holding(k)' = IF k = kind[s] THEN Holding(k) \cup {s} ELSE Holding(k)
  BY DEF Holding, TypeOK
<1>2. \A k \in Kind : s \notin Holding(k)
  BY DEF Holding
<1>3. ASSUME NEW k \in Kind
      PROVE  Cardinality(Holding(k))' = Cardinality(Holding(k)) + One(k = kind[s])
  BY <1>1, <1>2, HoldingFinite, FS_AddElement DEF One
<1>4. ASSUME NEW T PROVE Queued(T)' = Queued(T) /\ Queued(T) \in Nat
  BY QueuedNat DEF Queued
<1>5. ASSUME NEW k \in Kind PROVE Held(k)' = Held(k) + One(k = kind[s])
  <2>1. Queued([from : Sender, kind : {k}])' = Queued([from : Sender, kind : {k}])
    BY <1>4
  <2> QED
    BY <1>3, <1>4, <2>1, HoldingFinite DEF Held, One
<1>6. ASSUME NEW t \in Sender PROVE Awaited(t)' = Awaited(t) + One(t = s /\ kind[s] = "monitor")
  <2>1. Queued({MonitorOf(t)})' = Queued({MonitorOf(t)}) /\ Queued({MonitorOf(t)}) \in Nat
    BY <1>4
  <2>2. One(t \in Holding("monitor"))' = One(t \in Holding("monitor")) + One(t = s /\ kind[s] = "monitor")
    BY <1>1, <1>2 DEF One, Kind
  <2>3. One(t \in monitors)' = One(t \in monitors)
    BY DEF One
  <2> QED
    BY <2>1, <2>2, <2>3 DEF Awaited, One
<1> QED
  BY <1>5, <1>6

\* What a send that returns from try_send does to the ones on the way.
LEMMA HoldingLeaves ==
  ASSUME TypeOK, NEW s \in Sender, pc[s] \in {"acquire", "push"}, Return(s)
  PROVE  /\ \A k \in Kind : s \in Holding(k) <=> k = kind[s]
         /\ \A k \in Kind : Cardinality(Holding(k))' = Cardinality(Holding(k)) - One(k = kind[s])
         /\ \A t \in Sender : One(t \in Holding("monitor"))'
              = One(t \in Holding("monitor")) - One(t = s /\ kind[s] = "monitor")
<1>1. \A k \in Kind : Holding(k)' = IF k = kind[s] THEN Holding(k) \ {s} ELSE Holding(k)
  BY DEF Holding, TypeOK, Return
<1>2. \A k \in Kind : s \in Holding(k) <=> k = kind[s]
  BY DEF Holding
<1>3. ASSUME NEW k \in Kind
      PROVE  Cardinality(Holding(k))' = Cardinality(Holding(k)) - One(k = kind[s])
  BY <1>1, <1>2, HoldingFinite, FS_RemoveElement DEF One
<1>4. ASSUME NEW t \in Sender
      PROVE  One(t \in Holding("monitor"))'
               = One(t \in Holding("monitor")) - One(t = s /\ kind[s] = "monitor")
  BY <1>1, <1>2 DEF One, Kind
<1> QED
  BY <1>2, <1>3, <1>4

\* A send that is refused by the channel leaves.
LEMMA SendLeaves ==
  ASSUME TypeOK, NEW s \in Sender, pc[s] = "acquire", Return(s), UNCHANGED <<queue, monitors>>
  PROVE  /\ \A k \in Kind : Held(k)' = Held(k) - One(k = kind[s])
         /\ \A t \in Sender : Awaited(t)' = Awaited(t) - One(t = s /\ kind[s] = "monitor")
<1>1. ASSUME NEW T PROVE Queued(T)' = Queued(T) /\ Queued(T) \in Nat
  BY QueuedNat DEF Queued
<1>2. ASSUME NEW k \in Kind PROVE Held(k)' = Held(k) - One(k = kind[s])
  <2>1. Queued([from : Sender, kind : {k}])' = Queued([from : Sender, kind : {k}])
    BY <1>1
  <2>2. Queued([from : Sender, kind : {k}]) \in Nat /\ Cardinality(Holding(k)) \in Nat
    BY <1>1, HoldingFinite
  <2>3. Cardinality(Holding(k))' = Cardinality(Holding(k)) - One(k = kind[s])
    BY HoldingLeaves
  <2> QED
    BY <2>1, <2>2, <2>3 DEF Held, One
<1>3. ASSUME NEW t \in Sender PROVE Awaited(t)' = Awaited(t) - One(t = s /\ kind[s] = "monitor")
  <2>1. Queued({MonitorOf(t)})' = Queued({MonitorOf(t)}) /\ Queued({MonitorOf(t)}) \in Nat
    BY <1>1
  <2>2. One(t \in Holding("monitor"))' = One(t \in Holding("monitor")) - One(t = s /\ kind[s] = "monitor")
    BY HoldingLeaves
  <2>3. One(t \in monitors)' = One(t \in monitors)
    BY DEF One
  <2> QED
    BY <2>1, <2>2, <2>3 DEF Awaited, One
<1> QED
  BY <1>2, <1>3

\* A send that stores its envelope passes its permits on to the envelope.
LEMMA SendStores ==
  ASSUME TypeOK, NEW s \in Sender, pc[s] = "push", Return(s), UNCHANGED monitors,
         queue' = Append(queue, [from |-> s, kind |-> kind[s]])
  PROVE  /\ \A k \in Kind : Held(k)' = Held(k)
         /\ \A t \in Sender : Awaited(t)' = Awaited(t)
<1> DEFINE e == [from |-> s, kind |-> kind[s]]
<1>1. e \in Envelope
  BY DEF Envelope, TypeOK
<1>2. ASSUME NEW T PROVE Queued(T)' = Queued(T) + One(e \in T) /\ Queued(T) \in Nat
  BY <1>1, QueuedAppend, QueuedNat
<1>3. ASSUME NEW k \in Kind PROVE Held(k)' = Held(k)
  <2>1. e \in [from : Sender, kind : {k}] <=> k = kind[s]
    OBVIOUS
  <2>2. Queued([from : Sender, kind : {k}])' = Queued([from : Sender, kind : {k}]) + One(k = kind[s])
    BY <1>2, <2>1 DEF One
  <2>3. Queued([from : Sender, kind : {k}]) \in Nat /\ Cardinality(Holding(k)) \in Nat
    BY <1>2, HoldingFinite
  <2>4. Cardinality(Holding(k))' = Cardinality(Holding(k)) - One(k = kind[s])
    BY HoldingLeaves
  <2> QED
    BY <2>2, <2>3, <2>4 DEF Held, One
<1>4. ASSUME NEW t \in Sender PROVE Awaited(t)' = Awaited(t)
  <2>1. e \in {MonitorOf(t)} <=> t = s /\ kind[s] = "monitor"
    BY DEF MonitorOf
  <2>2. /\ Queued({MonitorOf(t)})' = Queued({MonitorOf(t)}) + One(t = s /\ kind[s] = "monitor")
        /\ Queued({MonitorOf(t)}) \in Nat
    BY <1>2, <2>1 DEF One
  <2>3. One(t \in Holding("monitor"))' = One(t \in Holding("monitor")) - One(t = s /\ kind[s] = "monitor")
    BY HoldingLeaves
  <2>4. One(t \in monitors)' = One(t \in monitors)
    BY DEF One
  <2> QED
    BY <2>2, <2>3, <2>4 DEF Awaited, One
<1> QED
  BY <1>3, <1>4

\* The head of the channel is taken out.
LEMMA HeadLeaves ==
  ASSUME TypeOK, queue # <<>>, queue' = Tail(queue), UNCHANGED <<pc, kind>>
  PROVE  /\ \A k \in Kind : Held(k)' = Held(k) - One(Head(queue).kind = k)
         /\ \A t \in Sender : Awaited(t)' = Awaited(t) - One(Head(queue) = MonitorOf(t))
              - One(t \in monitors) + One(t \in monitors')
<1>1. Head(queue) \in Envelope
  BY FrontOfQueue DEF TypeOK
<1>2. ASSUME NEW T PROVE Queued(T)' = Queued(T) - One(Head(queue) \in T) /\ Queued(T) \in Nat
  BY QueuedTail, QueuedNat
<1>3. \A k \in Kind : Holding(k)' = Holding(k)
  BY DEF Holding
<1>4. ASSUME NEW k \in Kind PROVE Held(k)' = Held(k) - One(Head(queue).kind = k)
  <2>1. Head(queue) \in [from : Sender, kind : {k}] <=> Head(queue).kind = k
    BY <1>1 DEF Envelope
  <2>2. /\ Queued([from : Sender, kind : {k}])'
             = Queued([from : Sender, kind : {k}]) - One(Head(queue).kind = k)
        /\ Queued([from : Sender, kind : {k}]) \in Nat
    BY <1>2, <2>1 DEF One
  <2>3. Cardinality(Holding(k)) \in Nat /\ Cardinality(Holding(k))' = Cardinality(Holding(k))
    BY <1>3, HoldingFinite
  <2> QED
    BY <2>2, <2>3 DEF Held, One
<1>5. ASSUME NEW t \in Sender
      PROVE  Awaited(t)' = Awaited(t) - One(Head(queue) = MonitorOf(t))
               - One(t \in monitors) + One(t \in monitors')
  <2>1. /\ Queued({MonitorOf(t)})' = Queued({MonitorOf(t)}) - One(Head(queue) = MonitorOf(t))
        /\ Queued({MonitorOf(t)}) \in Nat
    BY <1>2 DEF One
  <2>2. One(t \in Holding("monitor"))' = One(t \in Holding("monitor"))
    BY <1>3 DEF One, Kind
  <2>3. One(t \in monitors)' = One(t \in monitors')
    BY DEF One
  <2> QED
    BY <2>1, <2>2, <2>3 DEF Awaited, One
<1> QED
  BY <1>4, <1>5

\* Only the loop's map changes.
LEMMA MapChanges ==
  ASSUME TypeOK, UNCHANGED <<queue, pc, kind>>
  PROVE  /\ \A k \in Kind : Held(k)' = Held(k)
         /\ \A t \in Sender : Awaited(t)' = Awaited(t) - One(t \in monitors) + One(t \in monitors')
<1>1. \A k \in Kind : Holding(k)' = Holding(k)
  BY DEF Holding
<1>2. ASSUME NEW T PROVE Queued(T)' = Queued(T) /\ Queued(T) \in Nat
  BY QueuedNat DEF Queued
<1>3. ASSUME NEW k \in Kind PROVE Held(k)' = Held(k)
  <2>1. Queued([from : Sender, kind : {k}])' = Queued([from : Sender, kind : {k}])
    BY <1>2
  <2> QED
    BY <1>1, <2>1 DEF Held
<1>4. ASSUME NEW t \in Sender
      PROVE  Awaited(t)' = Awaited(t) - One(t \in monitors) + One(t \in monitors')
  <2>1. Queued({MonitorOf(t)})' = Queued({MonitorOf(t)}) /\ Queued({MonitorOf(t)}) \in Nat
    BY <1>2
  <2>2. One(t \in Holding("monitor"))' = One(t \in Holding("monitor"))
    BY <1>1 DEF One, Kind
  <2>3. One(t \in monitors)' = One(t \in monitors')
    BY DEF One
  <2> QED
    BY <2>1, <2>2, <2>3 DEF Awaited, One
<1> QED
  BY <1>3, <1>4

\* Permits and slots on the way are counted by numbers.
LEMMA OnTheWayNat ==
  ASSUME TypeOK
  PROVE  /\ \A k \in Kind : Held(k) \in Nat
         /\ \A s \in Sender : Awaited(s) \in Nat
         /\ IsFiniteSet(monitors) /\ Cardinality(monitors) \in Nat
<1>1. IsFiniteSet(monitors)
  BY IngressAssumption, FS_Subset DEF TypeOK
<1>2. ASSUME NEW k \in Kind PROVE Held(k) \in Nat
  BY QueuedNat, HoldingFinite DEF Held
<1>3. ASSUME NEW s \in Sender PROVE Awaited(s) \in Nat
  BY QueuedNat DEF Awaited, One
<1> QED
  BY <1>1, <1>2, <1>3, FS_CardinalityType

-----------------------------------------------------------------------------
(* Conservation *)

\* The arithmetic of a step that moves d data permits, n monitor permits and x[t] slots
\* of each observer t between what is on the way and the rest.
LEMMA Balanced ==
  ASSUME TypeOK, TypeOK', PermitsConserved, NEW d \in Int, NEW n \in Int, NEW x \in [Sender -> Int],
         Held("data")' = Held("data") + d, Held("monitor")' = Held("monitor") + n,
         dataFree' = dataFree - d, mailFree' + mail' = mailFree + mail - d,
         monitorFree' + Cardinality(monitors') = monitorFree + Cardinality(monitors) - n,
         \A t \in Sender : Awaited(t)' = Awaited(t) + x[t],
         \A t \in Sender : observerFree'[t] + died'[t] = observerFree[t] + died[t] - x[t]
  PROVE  PermitsConserved'
<1>1. /\ dataFree \in Nat /\ mailFree \in Nat /\ mail \in Nat /\ monitorFree \in Nat
      /\ dataFree' \in Nat /\ mailFree' \in Nat /\ mail' \in Nat /\ monitorFree' \in Nat
      /\ monitors' \in SUBSET Sender
      /\ \A t \in Sender : /\ observerFree[t] \in Nat /\ died[t] \in Nat
                            /\ observerFree'[t] \in Nat /\ died'[t] \in Nat
  BY DEF TypeOK
<1>2. /\ Held("data") \in Nat /\ Held("monitor") \in Nat /\ Cardinality(monitors) \in Nat
      /\ \A t \in Sender : Awaited(t) \in Nat
  BY OnTheWayNat DEF Kind
<1>3. Cardinality(monitors') \in Nat
  BY <1>1, IngressAssumption, FS_Subset, FS_CardinalityType
<1>4. /\ dataFree + Held("data") = DataCapacity
      /\ monitorFree + Held("monitor") + Cardinality(monitors) = SignalCapacity
      /\ mailFree + Held("data") + mail = MailCapacity
      /\ \A t \in Sender : observerFree[t] + died[t] + Awaited(t) = ObserverCapacity
  BY DEF PermitsConserved
<1>5. dataFree' + Held("data")' = DataCapacity
  BY <1>1, <1>2, <1>4
<1>6. monitorFree' + Held("monitor")' + Cardinality(monitors') = SignalCapacity
  BY <1>1, <1>2, <1>3, <1>4
<1>7. mailFree' + Held("data")' + mail' = MailCapacity
  <2>1. Held("data")' \in Int
    BY <1>2
  <2>2. mailFree' + Held("data")' + mail' = (mailFree' + mail') + Held("data")'
    BY <1>1, <2>1
  <2>3. (mailFree + mail - d) + (Held("data") + d) = mailFree + Held("data") + mail
    BY <1>1, <1>2
  <2> QED
    BY <1>4, <2>2, <2>3
<1>8. ASSUME NEW t \in Sender PROVE observerFree'[t] + died'[t] + Awaited(t)' = ObserverCapacity
  <2>1. /\ Awaited(t)' = Awaited(t) + x[t] /\ x[t] \in Int /\ Awaited(t) \in Nat
        /\ observerFree'[t] + died'[t] = observerFree[t] + died[t] - x[t]
        /\ observerFree[t] + died[t] + Awaited(t) = ObserverCapacity
    BY <1>2, <1>4
  <2> QED
    BY <1>1, <2>1
<1> QED
  BY <1>5, <1>6, <1>7, <1>8 DEF PermitsConserved, DataCapacity

\* Admitting, forgetting or discarding the monitor of an envelope balances.
LEMMA RelationEffect ==
  ASSUME TypeOK, NEW e \in Envelope, MonitorChange(e) \/ DiscardEffect(e)
  PROVE  /\ monitorFree' + Cardinality(monitors')
              = monitorFree + Cardinality(monitors) + One(e.kind = "monitor")
         /\ \A t \in Sender : observerFree'[t] + died[t] = observerFree[t] + died[t]
              - (One(t \in monitors') - One(t \in monitors) - One(e = MonitorOf(t)))
<1> DEFINE s == e.from
<1>1. /\ s \in Sender /\ e.kind \in Kind
      /\ \A t \in Sender : e = MonitorOf(t) <=> t = s /\ e.kind = "monitor"
  BY DEF Envelope, MonitorOf
<1>2. IsFiniteSet(monitors) /\ Cardinality(monitors) \in Nat
  BY OnTheWayNat
<1>3. monitorFree \in Nat /\ observerFree \in [Sender -> Nat] /\ died \in [Sender -> Nat]
  BY DEF TypeOK
<1>4. CASE e.kind = "monitor" /\ AdmitMonitor(s)
  <2>1. CASE s \in monitors
    <3>1. monitors' = monitors /\ monitorFree' = monitorFree + 1
          /\ observerFree' = [observerFree EXCEPT ![s] = @ + 1]
      BY <1>4, <2>1 DEF AdmitMonitor
    <3> HIDE DEF s
    <3> QED
      BY <1>1, <1>2, <1>3, <1>4, <2>1, <3>1 DEF One
  <2>2. CASE s \notin monitors
    <3>1. monitors' = monitors \cup {s} /\ monitorFree' = monitorFree
          /\ observerFree' = observerFree
      BY <1>4, <2>2 DEF AdmitMonitor
    <3>2. Cardinality(monitors') = Cardinality(monitors) + 1
      BY <1>2, <2>2, <3>1, FS_AddElement
    <3> HIDE DEF s
    <3> QED
      BY <1>1, <1>2, <1>3, <1>4, <2>2, <3>1, <3>2 DEF One
  <2> QED
    BY <2>1, <2>2
<1>5. CASE e.kind # "monitor" /\ ForgetMonitor(s)
  <2>1. CASE s \in monitors
    <3>1. monitors' = monitors \ {s} /\ monitorFree' = monitorFree + 1
          /\ observerFree' = [observerFree EXCEPT ![s] = @ + 1]
      BY <1>5, <2>1 DEF ForgetMonitor
    <3>2. Cardinality(monitors') = Cardinality(monitors) - 1
      BY <1>2, <2>1, <3>1, FS_RemoveElement
    <3> HIDE DEF s
    <3> QED
      BY <1>1, <1>2, <1>3, <1>5, <2>1, <3>1, <3>2 DEF One
  <2>2. CASE s \notin monitors
    <3>1. monitors' = monitors /\ monitorFree' = monitorFree /\ observerFree' = observerFree
      BY <1>5, <2>2 DEF ForgetMonitor
    <3> HIDE DEF s
    <3> QED
      BY <1>1, <1>2, <1>3, <1>5, <3>1 DEF One
  <2> QED
    BY <2>1, <2>2
<1>6. CASE e.kind # "monitor" /\ UNCHANGED <<monitors, monitorFree, observerFree>>
  BY <1>1, <1>2, <1>3, <1>6 DEF One
<1>7. CASE DiscardEffect(e)
  <2>1. monitors' = monitors /\ monitorFree' = monitorFree + One(e.kind = "monitor")
    BY <1>3, <1>7 DEF DiscardEffect, One
  <2>2. observerFree' = IF e.kind = "monitor" THEN [observerFree EXCEPT ![s] = @ + 1] ELSE observerFree
    BY <1>7 DEF DiscardEffect
  <2> HIDE DEF s
  <2>3. \A t \in Sender : observerFree'[t] = observerFree[t] + One(e = MonitorOf(t))
    BY <1>1, <1>3, <2>2 DEF One
  <2> QED
    BY <1>1, <1>2, <1>3, <2>1, <2>3 DEF One
<1> QED
  BY <1>4, <1>5, <1>6, <1>7 DEF MonitorChange

\* An envelope at the head of the channel is handled, drained or dropped.
LEMMA HeadHandled ==
  ASSUME TypeOK, TypeOK', PermitsConserved, queue # <<>>, queue' = Tail(queue),
         UNCHANGED <<pc, kind, died>>,
         MonitorChange(Head(queue)) \/ DiscardEffect(Head(queue)),
         dataFree' = IF Head(queue).kind = "data" THEN dataFree + 1 ELSE dataFree,
         mailFree' + mail' = IF Head(queue).kind = "data" THEN mailFree + mail + 1 ELSE mailFree + mail
  PROVE  PermitsConserved'
<1> DEFINE e == Head(queue)
           d == IF e.kind = "data" THEN -1 ELSE 0
           n == IF e.kind = "monitor" THEN -1 ELSE 0
           x == [t \in Sender |-> One(t \in monitors') - One(t \in monitors) - One(e = MonitorOf(t))]
<1>1. e \in Envelope
  BY FrontOfQueue DEF TypeOK
<1>2. d \in Int /\ n \in Int
  OBVIOUS
<1>3. x \in [Sender -> Int]
  BY DEF One
<1>4. Held("data")' = Held("data") + d /\ Held("monitor")' = Held("monitor") + n
  <2>1. \A k \in Kind : Held(k)' = Held(k) - One(e.kind = k)
    BY HeadLeaves
  <2>2. Held("data")' = Held("data") - One(e.kind = "data") /\ Held("data") \in Nat
    BY <2>1, OnTheWayNat DEF Kind
  <2>3. Held("monitor")' = Held("monitor") - One(e.kind = "monitor") /\ Held("monitor") \in Nat
    BY <2>1, OnTheWayNat DEF Kind
  <2>4. Held("data")' = Held("data") + d
    BY <2>2 DEF One
  <2>5. Held("monitor")' = Held("monitor") + n
    BY <2>3 DEF One
  <2> QED
    BY <2>4, <2>5
<1>5. dataFree' = dataFree - d /\ mailFree' + mail' = mailFree + mail - d
  <2>1. dataFree \in Nat /\ mailFree \in Nat /\ mail \in Nat
    BY DEF TypeOK
  <2>2. CASE e.kind = "data"
    BY <2>1, <2>2
  <2>3. CASE e.kind # "data"
    BY <2>1, <2>3
  <2> QED
    BY <2>2, <2>3
<1>6. monitorFree' + Cardinality(monitors') = monitorFree + Cardinality(monitors) - n
  <2>1. monitorFree' + Cardinality(monitors')
          = monitorFree + Cardinality(monitors) + One(e.kind = "monitor")
    BY <1>1, RelationEffect
  <2>2. monitorFree \in Nat /\ Cardinality(monitors) \in Nat
    BY OnTheWayNat DEF TypeOK
  <2>3. CASE e.kind = "monitor"
    BY <2>1, <2>2, <2>3 DEF One
  <2>4. CASE e.kind # "monitor"
    BY <2>1, <2>2, <2>4 DEF One
  <2> QED
    BY <2>3, <2>4
<1>7. ASSUME NEW t \in Sender PROVE Awaited(t)' = Awaited(t) + x[t]
  BY HeadLeaves, OnTheWayNat DEF One
<1>8. ASSUME NEW t \in Sender PROVE observerFree'[t] + died'[t] = observerFree[t] + died[t] - x[t]
  <2>1. observerFree'[t] + died[t] = observerFree[t] + died[t]
              - (One(t \in monitors') - One(t \in monitors) - One(e = MonitorOf(t)))
    BY <1>1, RelationEffect
  <2>2. x[t] = One(t \in monitors') - One(t \in monitors) - One(e = MonitorOf(t)) /\ died'[t] = died[t]
    OBVIOUS
  <2> QED
    BY <2>1, <2>2
<1> HIDE DEF d, n, x, e
<1> QED
  BY <1>2, <1>3, <1>4, <1>5, <1>6, <1>7, <1>8, Balanced

\* Nothing on the way moves, and what semaphores, mailboxes and notices hold together
\* stays as it is.
LEMMA NothingMoves ==
  ASSUME TypeOK, TypeOK', PermitsConserved, UNCHANGED <<queue, monitors, dataFree, monitorFree>>,
         \A k \in Kind : Holding(k)' = Holding(k),
         mailFree' + mail' = mailFree + mail,
         \A t \in Sender : observerFree'[t] + died'[t] = observerFree[t] + died[t]
  PROVE  PermitsConserved'
<1> DEFINE x == [t \in Sender |-> 0]
<1>1. x \in [Sender -> Int] /\ 0 \in Int
  OBVIOUS
<1>2. \A k \in Kind : Held(k)' = Held(k) /\ Held(k) \in Nat
  BY OnTheWaySame, OnTheWayNat
<1>3. Held("data")' = Held("data") + 0 /\ Held("monitor")' = Held("monitor") + 0
  BY <1>2 DEF Kind
<1>4. dataFree' = dataFree - 0 /\ mailFree' + mail' = mailFree + mail - 0
  <2>1. dataFree \in Int /\ mailFree \in Int /\ mail \in Int
    BY DEF TypeOK
  <2>2. \A a, b \in Int : a - 0 = a /\ a + b - 0 = a + b
    OBVIOUS
  <2>3. dataFree - 0 = dataFree /\ mailFree + mail - 0 = mailFree + mail
    BY <2>1, <2>2
  <2> QED
    BY <2>3
<1>5. monitorFree' + Cardinality(monitors') = monitorFree + Cardinality(monitors) - 0
  BY OnTheWayNat DEF TypeOK
<1>6. \A t \in Sender : Awaited(t)' = Awaited(t) + x[t]
  BY OnTheWaySame, OnTheWayNat
<1>7. ASSUME NEW t \in Sender PROVE observerFree'[t] + died'[t] = observerFree[t] + died[t] - x[t]
  <2>1. observerFree[t] \in Nat /\ died[t] \in Nat /\ x[t] = 0
    BY DEF TypeOK
  <2> QED
    BY <2>1
<1> HIDE DEF x
<1> QED
  BY <1>1, <1>3, <1>4, <1>5, <1>6, <1>7, Balanced

LEMMA PermitsInit == Init => PermitsConserved
<1> SUFFICES ASSUME Init PROVE PermitsConserved
  OBVIOUS
<1>1. \A k \in Kind : Holding(k) = {}
  BY DEF Init, Holding
<1>2. \A T : Queued(T) = 0
  <2>1. queue = <<>>
    BY DEF Init
  <2>2. ASSUME NEW T PROVE {i \in DOMAIN queue : queue[i] \in T} = {}
    BY <2>1
  <2> QED
    BY <2>2, FS_EmptySet DEF Queued
<1>3. Held("data") = 0 /\ Held("monitor") = 0
  BY <1>1, <1>2, FS_EmptySet DEF Held, Kind
<1>4. \A s \in Sender : Awaited(s) = 0
  BY <1>1, <1>2 DEF Awaited, One, Kind, Init
<1>5. Capacities
  BY CapacitiesNat
<1>6. Cardinality(monitors) = 0
  BY FS_EmptySet DEF Init
<1>7. \A s \in Sender : observerFree[s] = ObserverCapacity /\ died[s] = 0
  BY DEF Init
<1>8. /\ dataFree = DataCapacity /\ monitorFree = SignalCapacity
      /\ mailFree = MailCapacity /\ mail = 0
  BY DEF Init
<1> QED
  BY <1>3, <1>4, <1>5, <1>6, <1>7, <1>8, IngressAssumption DEF PermitsConserved, Capacities

\* The send that has all its reservations.
LEMMA PermitsReserve ==
  ASSUME TypeOK, TypeOK', PermitsConserved, NEW s \in Sender, SendReserve(s), HasReservations(s)
  PROVE  PermitsConserved'
<1> DEFINE d == IF kind[s] = "data" THEN 1 ELSE 0
           n == IF kind[s] = "monitor" THEN 1 ELSE 0
           x == [t \in Sender |-> IF t = s /\ kind[s] = "monitor" THEN 1 ELSE 0]
<1>1. d \in Int /\ n \in Int /\ x \in [Sender -> Int]
  OBVIOUS
<1>2. /\ pc[s] = "reserve" /\ pc' = [pc EXCEPT ![s] = "acquire"]
      /\ UNCHANGED <<kind, queue, monitors, mail, died>>
  BY DEF SendReserve, target
<1>3. /\ mailFree' = IF kind[s] = "data" THEN mailFree - 1 ELSE mailFree
      /\ dataFree' = IF kind[s] = "data" THEN dataFree - 1 ELSE dataFree
      /\ monitorFree' = IF kind[s] = "monitor" THEN monitorFree - 1 ELSE monitorFree
      /\ observerFree' = IF kind[s] = "monitor" THEN [observerFree EXCEPT ![s] = @ - 1] ELSE observerFree
  BY DEF SendReserve
<1>4. Held("data")' = Held("data") + d /\ Held("monitor")' = Held("monitor") + n
  BY <1>2, SendJoins, OnTheWayNat DEF Kind, One
<1>5. \A t \in Sender : Awaited(t)' = Awaited(t) + x[t]
  BY <1>2, SendJoins, OnTheWayNat DEF One
<1>6. dataFree' = dataFree - d /\ mailFree' + mail' = mailFree + mail - d
  BY <1>2, <1>3 DEF TypeOK
<1>7. monitorFree' + Cardinality(monitors') = monitorFree + Cardinality(monitors) - n
  BY <1>2, <1>3, OnTheWayNat DEF TypeOK
<1>8. \A t \in Sender : observerFree'[t] + died'[t] = observerFree[t] + died[t] - x[t]
  BY <1>2, <1>3 DEF TypeOK
<1> HIDE DEF d, n, x
<1> QED
  BY <1>1, <1>4, <1>5, <1>6, <1>7, <1>8, Balanced

\* The send that the channel refuses.
LEMMA PermitsRefused ==
  ASSUME TypeOK, TypeOK', PermitsConserved, NEW s \in Sender, SendFull(s) \/ SendClosed(s)
  PROVE  PermitsConserved'
<1> DEFINE d == IF kind[s] = "data" THEN -1 ELSE 0
           n == IF kind[s] = "monitor" THEN -1 ELSE 0
           x == [t \in Sender |-> IF t = s /\ kind[s] = "monitor" THEN -1 ELSE 0]
<1>1. d \in Int /\ n \in Int /\ x \in [Sender -> Int]
  OBVIOUS
<1>2. pc[s] = "acquire" /\ Return(s) /\ UNCHANGED <<queue, monitors, mail>>
  BY DEF SendFull, SendClosed, target
<1>3. /\ mailFree' = IF kind[s] = "data" THEN mailFree + 1 ELSE mailFree
      /\ dataFree' = IF kind[s] = "data" THEN dataFree + 1 ELSE dataFree
      /\ monitorFree' = IF kind[s] = "monitor" THEN monitorFree + 1 ELSE monitorFree
  BY DEF SendFull, SendClosed, DropsReservations
<1>4. \/ /\ kind[s] = "monitor"
         /\ \/ observerFree' = [observerFree EXCEPT ![s] = @ + 1] /\ died' = died
            \/ observerFree' = observerFree /\ died' = [died EXCEPT ![s] = @ + 1]
      \/ kind[s] # "monitor" /\ observerFree' = observerFree /\ died' = died
  BY DEF SendFull, SendClosed, DropsReservations, Tell
<1>5. Held("data")' = Held("data") + d /\ Held("monitor")' = Held("monitor") + n
  BY <1>2, SendLeaves, OnTheWayNat DEF Kind, One
<1>6. \A t \in Sender : Awaited(t)' = Awaited(t) + x[t]
  BY <1>2, SendLeaves, OnTheWayNat DEF One
<1>7. dataFree' = dataFree - d /\ mailFree' + mail' = mailFree + mail - d
  BY <1>2, <1>3 DEF TypeOK
<1>8. monitorFree' + Cardinality(monitors') = monitorFree + Cardinality(monitors) - n
  BY <1>2, <1>3, OnTheWayNat DEF TypeOK
<1>9. \A t \in Sender : observerFree'[t] + died'[t] = observerFree[t] + died[t] - x[t]
  <2>1. observerFree \in [Sender -> Nat] /\ died \in [Sender -> Nat]
    BY DEF TypeOK
  <2>2. CASE kind[s] = "monitor" /\ observerFree' = [observerFree EXCEPT ![s] = @ + 1] /\ died' = died
    BY <2>1, <2>2
  <2>3. CASE kind[s] = "monitor" /\ observerFree' = observerFree /\ died' = [died EXCEPT ![s] = @ + 1]
    BY <2>1, <2>3
  <2>4. CASE kind[s] # "monitor" /\ observerFree' = observerFree /\ died' = died
    BY <2>1, <2>4
  <2> QED
    BY <1>4, <2>2, <2>3, <2>4
<1> HIDE DEF d, n, x
<1> QED
  BY <1>1, <1>5, <1>6, <1>7, <1>8, <1>9, Balanced

\* Relations leave the loop's map: one with its notice, or all with the task.
LEMMA PermitsUnmapped ==
  ASSUME TypeOK, TypeOK', PermitsConserved, UNCHANGED <<queue, pc, kind, dataFree, mailFree, mail>>,
         monitors' \subseteq monitors,
         monitorFree' + Cardinality(monitors') = monitorFree + Cardinality(monitors),
         \A t \in Sender : observerFree'[t] + died'[t] = observerFree[t] + died[t]
            + (IF t \in monitors /\ t \notin monitors' THEN 1 ELSE 0)
  PROVE  PermitsConserved'
<1> DEFINE x == [t \in Sender |-> IF t \in monitors /\ t \notin monitors' THEN -1 ELSE 0]
<1>1. x \in [Sender -> Int] /\ 0 \in Int
  OBVIOUS
<1>2. Held("data")' = Held("data") + 0 /\ Held("monitor")' = Held("monitor") + 0
  BY MapChanges, OnTheWayNat DEF Kind
<1>3. \A t \in Sender : Awaited(t)' = Awaited(t) + x[t]
  BY MapChanges, OnTheWayNat DEF One
<1>4. dataFree' = dataFree - 0 /\ mailFree' + mail' = mailFree + mail - 0
  BY DEF TypeOK
<1>5. monitorFree' + Cardinality(monitors') = monitorFree + Cardinality(monitors) - 0
  BY OnTheWayNat DEF TypeOK
<1>6. \A t \in Sender : observerFree'[t] + died'[t] = observerFree[t] + died[t] - x[t]
  BY DEF TypeOK
<1> HIDE DEF x
<1> QED
  BY <1>1, <1>2, <1>3, <1>4, <1>5, <1>6, Balanced

\* Every step conserves the permits.
LEMMA PermitsNext == TypeOK /\ TypeOK' /\ PermitsConserved /\ [Next]_vars => PermitsConserved'
<1> SUFFICES ASSUME TypeOK, TypeOK', PermitsConserved, [Next]_vars PROVE PermitsConserved'
  OBVIOUS
<1>1. ASSUME UNCHANGED <<queue, monitors, dataFree, monitorFree, mailFree, mail, observerFree, died>>,
             \A k \in Kind : Holding(k)' = Holding(k)
      PROVE  PermitsConserved'
  BY <1>1, NothingMoves
<1>2. CASE UNCHANGED vars
  <2>1. \A k \in Kind : Holding(k)' = Holding(k)
    BY <1>2 DEF vars, Holding
  <2> QED
    BY <1>1, <1>2, <2>1 DEF vars
<1>3. ASSUME NEW s \in Sender, NEW k \in Kind, SendCheck(s, k) PROVE PermitsConserved'
  <2>1. \A j \in Kind : Holding(j)' = Holding(j)
    BY <1>3 DEF SendCheck, AnswerLate, Return, Holding, TypeOK
  <2>2. UNCHANGED <<queue, monitors, dataFree, monitorFree, mailFree, mail>>
    BY <1>3 DEF SendCheck, target
  <2>3. \/ UNCHANGED <<observerFree, died>>
        \/ /\ observerFree' = [observerFree EXCEPT ![s] = @ - 1]
           /\ died' = [died EXCEPT ![s] = @ + 1]
    BY <1>3 DEF SendCheck, AnswerLate, Tell
  <2>4. \A t \in Sender : observerFree'[t] + died'[t] = observerFree[t] + died[t]
    <3>1. observerFree \in [Sender -> Nat] /\ died \in [Sender -> Nat]
      BY DEF TypeOK
    <3>2. CASE UNCHANGED <<observerFree, died>>
      BY <3>2
    <3>3. CASE observerFree' = [observerFree EXCEPT ![s] = @ - 1] /\ died' = [died EXCEPT ![s] = @ + 1]
      BY <3>1, <3>3
    <3> QED
      BY <2>3, <3>2, <3>3
  <2> QED
    BY <2>1, <2>2, <2>4, NothingMoves
<1>4. ASSUME NEW s \in Sender, ReadDied(s) PROVE PermitsConserved'
  <2>1. \A j \in Kind : Holding(j)' = Holding(j)
    BY <1>4 DEF ReadDied, Holding
  <2>2. /\ UNCHANGED <<queue, monitors, dataFree, monitorFree, mailFree, mail>>
        /\ died' = [died EXCEPT ![s] = @ - 1] /\ observerFree' = [observerFree EXCEPT ![s] = @ + 1]
    BY <1>4 DEF ReadDied, target
  <2>3. \A t \in Sender : observerFree'[t] + died'[t] = observerFree[t] + died[t]
    BY <2>2 DEF TypeOK
  <2> QED
    BY <2>1, <2>2, <2>3, NothingMoves
<1>5. CASE ReadMail
  <2>1. \A j \in Kind : Holding(j)' = Holding(j)
    BY <1>5 DEF ReadMail, Holding
  <2>2. /\ UNCHANGED <<queue, monitors, dataFree, monitorFree, observerFree, died>>
        /\ mail' = mail - 1 /\ mailFree' = mailFree + 1
    BY <1>5 DEF ReadMail, target
  <2>3. mailFree' + mail' = mailFree + mail
    BY <2>2 DEF TypeOK
  <2> QED
    BY <2>1, <2>2, <2>3, NothingMoves
<1>6. ASSUME NEW s \in Sender, SendKill(s) \/ SendAcquire(s) PROVE PermitsConserved'
  <2>1. \A j \in Kind : Holding(j)' = Holding(j)
    BY <1>6 DEF SendKill, SendAcquire, Return, Holding, TypeOK
  <2> QED
    BY <1>1, <1>6, <2>1 DEF SendKill, SendAcquire, target
<1>7. ASSUME NEW s \in Sender, SendReserve(s) PROVE PermitsConserved'
  <2>1. CASE HasReservations(s)
    BY <1>7, <2>1, PermitsReserve
  <2>2. CASE ~HasReservations(s)
    <3>1. \A j \in Kind : Holding(j)' = Holding(j)
      BY <1>7, <2>2 DEF SendReserve, Return, Holding, TypeOK
    <3> QED
      BY <1>1, <1>7, <2>2, <3>1 DEF SendReserve, target
  <2> QED
    BY <2>1, <2>2
<1>8. ASSUME NEW s \in Sender, SendPush(s) PROVE PermitsConserved'
  <2>1. /\ \A k \in Kind : Held(k)' = Held(k)
        /\ \A t \in Sender : Awaited(t)' = Awaited(t)
    BY <1>8, SendStores DEF SendPush, Enqueue, target
  <2>2. UNCHANGED <<monitors, dataFree, monitorFree, mailFree, mail, observerFree, died>>
    BY <1>8 DEF SendPush, target
  <2>3. Held("data")' = Held("data") /\ Held("monitor")' = Held("monitor")
    BY <2>1 DEF Kind
  <2> QED
    BY <2>1, <2>2, <2>3 DEF PermitsConserved, DataCapacity
<1>9. ASSUME NEW s \in Sender, SendFull(s) \/ SendClosed(s) PROVE PermitsConserved'
  BY <1>9, PermitsRefused
<1>10. CASE RecvKill \/ PublishDeath \/ CloseChannel \/ DrainEnd \/ NotifyEnd \/ Finish
  <2>1. \A j \in Kind : Holding(j)' = Holding(j)
    BY <1>10 DEF RecvKill, PublishDeath, CloseChannel, DrainEnd, NotifyEnd, Finish, Holding
  <2> QED
    BY <1>1, <1>10, <2>1 DEF RecvKill, PublishDeath, CloseChannel, DrainEnd, NotifyEnd, Finish
<1>11. CASE RecvSignal
  <2>1. /\ queue # <<>> /\ queue' = Tail(queue) /\ UNCHANGED <<pc, kind, died>>
        /\ MonitorChange(Head(queue)) /\ mailFree' = mailFree
        /\ mail' = IF Head(queue).kind = "data" THEN mail + 1 ELSE mail
        /\ dataFree' = IF Head(queue).kind = "data" THEN dataFree + 1 ELSE dataFree
    BY <1>11 DEF RecvSignal
  <2>2. mailFree' + mail' = IF Head(queue).kind = "data" THEN mailFree + mail + 1 ELSE mailFree + mail
    BY <2>1 DEF TypeOK
  <2> QED
    BY <2>1, <2>2, HeadHandled
<1>12. CASE Drain \/ DropQueue
  <2>1. /\ queue # <<>> /\ queue' = Tail(queue) /\ UNCHANGED <<pc, kind, died, mail>>
        /\ MonitorChange(Head(queue)) \/ DiscardEffect(Head(queue))
        /\ mailFree' = IF Head(queue).kind = "data" THEN mailFree + 1 ELSE mailFree
        /\ dataFree' = IF Head(queue).kind = "data" THEN dataFree + 1 ELSE dataFree
    BY <1>12 DEF Drain, DropQueue, HandleDrained, DrainEffect, DiscardEffect
  <2>2. mailFree' + mail' = IF Head(queue).kind = "data" THEN mailFree + mail + 1 ELSE mailFree + mail
    BY <2>1 DEF TypeOK
  <2> QED
    BY <2>1, <2>2, HeadHandled
<1>13. ASSUME NEW s \in Sender, NotifyMonitor(s) PROVE PermitsConserved'
  <2>1. /\ UNCHANGED <<queue, pc, kind, dataFree, mailFree, mail, observerFree>>
        /\ s \in monitors /\ monitors' = monitors \ {s} /\ monitorFree' = monitorFree + 1
        /\ died' = [died EXCEPT ![s] = @ + 1]
    BY <1>13 DEF NotifyMonitor, Tell
  <2>2. monitorFree' + Cardinality(monitors') = monitorFree + Cardinality(monitors)
    <3>1. Cardinality(monitors') = Cardinality(monitors) - 1 /\ Cardinality(monitors) \in Nat
      BY <2>1, OnTheWayNat, FS_RemoveElement
    <3> QED
      BY <2>1, <3>1 DEF TypeOK
  <2>3. \A t \in Sender : observerFree'[t] + died'[t] = observerFree[t] + died[t]
            + (IF t \in monitors /\ t \notin monitors' THEN 1 ELSE 0)
    BY <2>1 DEF TypeOK
  <2> QED
    BY <2>1, <2>2, <2>3, PermitsUnmapped
<1>14. CASE Abort
  <2>1. /\ UNCHANGED <<queue, pc, kind, dataFree, mailFree, mail, died>>
        /\ monitors' = {} /\ monitorFree' = monitorFree + Cardinality(monitors)
        /\ observerFree' = [s \in Sender |-> IF s \in monitors THEN observerFree[s] + 1 ELSE observerFree[s]]
    BY <1>14 DEF Abort
  <2>2. monitorFree' + Cardinality(monitors') = monitorFree + Cardinality(monitors)
    BY <2>1, OnTheWayNat, FS_EmptySet DEF TypeOK
  <2>3. \A t \in Sender : observerFree'[t] + died'[t] = observerFree[t] + died[t]
            + (IF t \in monitors /\ t \notin monitors' THEN 1 ELSE 0)
    BY <2>1 DEF TypeOK
  <2> QED
    BY <2>1, <2>2, <2>3, PermitsUnmapped
<1> QED
  BY <1>2, <1>3, <1>4, <1>5, <1>6, <1>7, <1>8, <1>9, <1>10, <1>11, <1>12, <1>13, <1>14
  DEF Next, SenderStep, LoopStep

\* No semaphore of the ingress ever goes below zero, whatever sends, kills, drains and
\* drops interleave.
THEOREM IngressTypeCorrect == Spec => []TypeOK
<1>1. Init => TypeOK
  BY IngressTypesInit
<1>2. TypeOK /\ [Next]_vars => TypeOK'
  BY IngressTypesNext
<1> QED
  BY <1>1, <1>2, PTL DEF Spec

\* The permits of the ingress are conserved: at every moment each is in its semaphore,
\* with a send, in an envelope, in a relation or in a message (send_inner, recv,
\* close_signal_ingress, and the drops of SignalReceiver and the task).
THEOREM PermitsAreConserved == Spec => []PermitsConserved
<1>1. Init => TypeOK /\ PermitsConserved
  BY IngressTypesInit, PermitsInit
<1>2. TypeOK /\ PermitsConserved /\ [Next]_vars => TypeOK' /\ PermitsConserved'
  BY IngressTypesNext, PermitsNext
<1> QED
  BY <1>1, <1>2, PTL DEF Spec

-----------------------------------------------------------------------------
(* Monitors *)

\* A step that leaves the channel, the map and the calls alone.
LEMMA FollowsSame ==
  ASSUME UNCHANGED <<queue, watching, monitors>>, NEW s \in Sender, Follows(s)
  PROVE  Follows(s)'
BY DEF Follows, Calls

\* An envelope is stored: when it is a call of t it is t's last.
LEMMA FollowsPush ==
  ASSUME TypeOK, NEW s \in Sender, SendPush(s), NEW t \in Sender, Follows(t)
  PROVE  Follows(t)'
<1> DEFINE e == [from |-> s, kind |-> kind[s]]
           L == Len(queue) + 1
<1>1. e \in Envelope
  BY DEF Envelope, TypeOK
<1>2. queue' = Append(queue, e) /\ monitors' = monitors
  BY DEF SendPush, Enqueue, target
<1>3. /\ Len(queue) \in Nat /\ DOMAIN queue = 1 .. Len(queue)
      /\ DOMAIN queue' = 1 .. L /\ queue'[L] = e
      /\ \A i \in 1 .. Len(queue) : queue'[i] = queue[i]
  BY <1>1, <1>2, AppendProperties DEF TypeOK
<1>4. CASE t = s /\ kind[s] \in {"monitor", "stop"}
  <2>1. watching'[t] <=> kind[s] = "monitor"
    BY <1>4 DEF SendPush, Enqueue, TypeOK
  <2>2. L \in Calls(t)' /\ \A i \in Calls(t)' : i \in Nat /\ i <= L
    BY <1>3, <1>4 DEF Calls
  <2>3. ASSUME NEW i \in Calls(t)', \A j \in Calls(t)' : j <= i PROVE i = L
    BY <1>3, <2>2, <2>3
  <2>4. queue'[L].kind = kind[s]
    BY <1>3
  <2> QED
    BY <2>1, <2>2, <2>3, <2>4 DEF Follows
<1>5. CASE ~(t = s /\ kind[s] \in {"monitor", "stop"})
  <2>1. watching'[t] = watching[t]
    BY <1>5 DEF SendPush, Enqueue, TypeOK
  <2>2. Calls(t)' = Calls(t)
    BY <1>3, <1>5 DEF Calls
  <2>3. \A i \in Calls(t) : queue'[i] = queue[i]
    BY <1>3 DEF Calls
  <2> QED
    BY <1>2, <2>1, <2>2, <2>3 DEF Follows
<1> QED
  BY <1>4, <1>5

\* The head is handled: a call of t moves what t wants into the map.
LEMMA FollowsTail ==
  ASSUME TypeOK, queue # <<>>, queue' = Tail(queue), MonitorChange(Head(queue)), UNCHANGED watching,
         NEW t \in Sender, Follows(t)
  PROVE  Follows(t)'
<1> DEFINE e == Head(queue)
<1>1. /\ Len(queue) \in Nat /\ Len(queue) >= 1 /\ DOMAIN queue = 1 .. Len(queue)
      /\ e = queue[1] /\ e \in Envelope
      /\ DOMAIN queue' = 1 .. Len(queue) - 1
      /\ \A i \in 1 .. Len(queue) - 1 : queue'[i] = queue[i + 1]
  BY FrontOfQueue DEF TypeOK
<1>2. /\ \A i \in Calls(t)' : i \in Nat /\ i + 1 \in Calls(t) /\ queue'[i] = queue[i + 1]
      /\ \A i \in Calls(t) : i \in Nat /\ (i = 1 \/ i - 1 \in Calls(t)')
  BY <1>1 DEF Calls
<1>3. 1 \in Calls(t) <=> e.from = t /\ e.kind \in {"monitor", "stop"}
  BY <1>1 DEF Calls
\* The last call is still there, one place nearer.
<1>4. ASSUME NEW i \in Calls(t)', \A j \in Calls(t)' : j <= i
      PROVE  watching'[t] <=> queue'[i].kind = "monitor"
  <2>1. i + 1 \in Calls(t)
    BY <1>2
  <2>2. ASSUME NEW j \in Calls(t) PROVE j <= i + 1
    <3>1. CASE j = 1
      BY <1>2, <3>1
    <3>2. CASE j - 1 \in Calls(t)'
      BY <1>2, <1>4, <3>2
    <3> QED
      BY <1>2, <3>1, <3>2
  <2>3. watching[t] <=> queue[i + 1].kind = "monitor"
    BY <2>1, <2>2 DEF Follows
  <2> QED
    BY <1>2, <2>3
<1>5. ASSUME Calls(t)' = {} PROVE watching'[t] <=> t \in monitors'
  <2>1. CASE 1 \in Calls(t)
    <3>1. \A j \in Calls(t) : j <= 1
      BY <1>2, <1>5
    <3>2. watching[t] <=> e.kind = "monitor"
      BY <1>1, <2>1, <3>1 DEF Follows
    <3>3. t \in monitors' <=> e.kind = "monitor"
      BY <1>3, <2>1 DEF MonitorChange, AdmitMonitor, ForgetMonitor
    <3> QED
      BY <3>2, <3>3
  <2>2. CASE 1 \notin Calls(t)
    <3>1. Calls(t) = {}
      BY <1>2, <1>5, <2>2
    <3>2. watching[t] <=> t \in monitors
      BY <3>1 DEF Follows
    <3>3. t \in monitors' <=> t \in monitors
      BY <1>3, <2>2 DEF MonitorChange, AdmitMonitor, ForgetMonitor
    <3> QED
      BY <3>2, <3>3
  <2> QED
    BY <2>1, <2>2
<1> QED
  BY <1>4, <1>5 DEF Follows

LEMMA MonitorsInit == Init => MonitorInv
<1> SUFFICES ASSUME Init PROVE MonitorInv
  OBVIOUS
<1>1. phase = "running" /\ ~surprised /\ queue = <<>>
  BY DEF Init
<1>2. ASSUME NEW s \in Sender PROVE Follows(s)
  <2>1. Calls(s) = {}
    BY <1>1 DEF Calls
  <2>2. ~watching[s] /\ s \notin monitors
    BY DEF Init
  <2> QED
    BY <2>1, <2>2 DEF Follows
<1> QED
  BY <1>1, <1>2 DEF MonitorInv, MonitorsExact, OnlyLateMonitorsLost, NoSurprise

\* Every step keeps the map, the channel and what the observers want together.
LEMMA MonitorsNext == TypeOK /\ MonitorInv /\ [Next]_vars => MonitorInv'
<1> SUFFICES ASSUME TypeOK, MonitorInv, [Next]_vars PROVE MonitorInv'
  OBVIOUS
<1> USE DEF MonitorInv, MonitorsExact, OnlyLateMonitorsLost, NoSurprise
<1>1. ASSUME UNCHANGED <<queue, watching, monitors, late, surprised>>,
             \/ phase' = phase
             \/ phase \in {"running", "exiting"} /\ phase' \in {"exiting", "draining"}
      PROVE  MonitorInv'
  <2>1. CASE phase \in {"running", "exiting", "draining"}
    <3>1. \A s \in Sender : Follows(s)'
      BY <1>1, <2>1, FollowsSame
    <3> QED
      BY <1>1, <2>1, <3>1
  <2>2. CASE phase \notin {"running", "exiting", "draining"}
    BY <1>1, <2>2
  <2> QED
    BY <2>1, <2>2
<1>2. CASE UNCHANGED vars
  BY <1>1, <1>2 DEF vars
<1>3. ASSUME NEW s \in Sender, NEW k \in Kind, SendCheck(s, k) PROVE MonitorInv'
  BY <1>1, <1>3 DEF SendCheck, target, history
<1>4. ASSUME NEW s \in Sender, ReadDied(s) PROVE MonitorInv'
  BY <1>1, <1>4 DEF ReadDied, target, history
<1>5. ASSUME NEW s \in Sender, SendKill(s) \/ SendReserve(s) \/ SendAcquire(s) \/ SendFull(s) \/ SendClosed(s)
      PROVE  MonitorInv'
  BY <1>1, <1>5 DEF SendKill, SendReserve, SendAcquire, SendFull, SendClosed, target, history
<1>6. ASSUME NEW s \in Sender, SendPush(s) PROVE MonitorInv'
  <2>1. phase' = phase /\ monitors' = monitors /\ surprised' = surprised
    BY <1>6 DEF SendPush, Enqueue, target
  <2>2. CASE phase \in {"running", "exiting", "draining"}
    <3>1. \A t \in Sender : Follows(t)'
      BY <1>6, <2>2, FollowsPush
    <3> QED
      BY <2>1, <2>2, <3>1
  <2>3. CASE phase \in {"notifying", "done"}
    <3>1. ASSUME NEW t \in Sender
          PROVE  \/ late'[t] = TRUE
                 \/ late'[t] = late[t] /\ watching'[t] = watching[t]
      <4>1. CASE kind[s] \in {"monitor", "stop"} /\ t = s
        BY <1>6, <2>3, <4>1 DEF SendPush, Enqueue, TypeOK
      <4>2. CASE ~(kind[s] \in {"monitor", "stop"} /\ t = s)
        BY <1>6, <4>2 DEF SendPush, Enqueue, TypeOK
      <4> QED
        BY <4>1, <4>2
    <3> QED
      BY <2>1, <2>3, <3>1
  <2>4. CASE phase = "aborted"
    BY <2>1, <2>4
  <2> QED
    BY <2>2, <2>3, <2>4 DEF TypeOK
<1>7. CASE RecvKill \/ Finish \/ PublishDeath \/ CloseChannel
  BY <1>1, <1>7 DEF RecvKill, Finish, PublishDeath, CloseChannel, history
<1>8. CASE ReadMail
  BY <1>1, <1>8 DEF ReadMail, target, history
<1>9. CASE RecvSignal \/ Drain
  <2>1. /\ queue # <<>> /\ queue' = Tail(queue) /\ MonitorChange(Head(queue))
        /\ UNCHANGED <<phase, watching, surprised, late>> /\ phase \in {"running", "draining"}
    BY <1>9 DEF RecvSignal, Drain, HandleDrained, DrainEffect, history
  <2>2. \A t \in Sender : Follows(t)'
    BY <2>1, FollowsTail
  <2> QED
    BY <2>1, <2>2
<1>10. CASE DrainEnd
  <2>1. /\ queue = <<>> /\ UNCHANGED <<watching, surprised, late, monitors>>
        /\ phase = "draining" /\ phase' = "notifying"
    BY <1>10 DEF DrainEnd, history
  <2>2. ASSUME NEW t \in Sender PROVE watching[t] <=> t \in monitors
    <3>1. Calls(t) = {}
      BY <2>1 DEF Calls
    <3> QED
      BY <2>1, <3>1 DEF Follows
  <2> QED
    BY <2>1, <2>2
<1>11. ASSUME NEW s \in Sender, NotifyMonitor(s) PROVE MonitorInv'
  <2>1. /\ phase = "notifying" /\ phase' = phase /\ s \in monitors /\ monitors' = monitors \ {s}
        /\ watching' = [watching EXCEPT ![s] = FALSE] /\ late' = late
        /\ surprised' = (surprised \/ (~watching[s] /\ ~late[s]))
    BY <1>11 DEF NotifyMonitor
  <2>2. ~surprised'
    BY <2>1
  <2>3. ASSUME NEW t \in Sender, ~late'[t] PROVE watching'[t] <=> t \in monitors'
    BY <2>1, <2>3 DEF TypeOK
  <2> QED
    BY <2>1, <2>2, <2>3
<1>12. CASE NotifyEnd
  BY <1>12 DEF NotifyEnd, history
<1>13. CASE Abort
  BY <1>13 DEF Abort, history
<1>14. CASE DropQueue
  BY <1>14 DEF DropQueue, history
<1> QED
  BY <1>2, <1>3, <1>4, <1>5, <1>6, <1>7, <1>8, <1>9, <1>10, <1>11, <1>12, <1>13, <1>14
  DEF Next, SenderStep, LoopStep

\* Every monitor whose envelope is stored before the drain ends is told of the death,
\* and none whose stop was accepted before it (close_signal_ingress, "either leaves its
\* envelope in this drain or completes it directly").
THEOREM MonitorsAreExact == Spec => []MonitorsExact
<1>1. Init => TypeOK /\ MonitorInv
  BY IngressTypesInit, MonitorsInit
<1>2. TypeOK /\ MonitorInv /\ [Next]_vars => TypeOK' /\ MonitorInv'
  BY IngressTypesNext, MonitorsNext
<1>3. MonitorInv => MonitorsExact
  BY DEF MonitorInv
<1> QED
  BY <1>1, <1>2, <1>3, PTL DEF Spec

-----------------------------------------------------------------------------
(* The slot for control signals *)

LEMMA ControlSlot == TypeOK /\ PermitsConserved => ControlSlotKept
<1> SUFFICES ASSUME TypeOK, PermitsConserved, SignalCapacity > 1, SlotsTaken = SignalCapacity,
                    ~ \E i \in DOMAIN queue : queue[i].kind # "data",
                    ~ \E s \in Sender : pc[s] = "push" /\ kind[s] # "data"
             PROVE  FALSE
  BY DEF ControlSlotKept
<1> DEFINE T == [from : Sender, kind : {"data"}]
           P == {s \in Sender : pc[s] = "push"}
<1>1. DOMAIN queue = 1 .. Len(queue) /\ Len(queue) \in Nat
  BY DEF TypeOK
<1>2. {i \in DOMAIN queue : queue[i] \in T} = 1 .. Len(queue)
  <2>1. ASSUME NEW i \in DOMAIN queue PROVE queue[i] \in T
    <3>1. queue[i] \in Envelope /\ queue[i].kind = "data"
      BY <1>1 DEF TypeOK
    <3> QED
      BY <3>1 DEF Envelope
  <2> HIDE DEF T
  <2> QED
    BY <1>1, <2>1
<1>3. Queued(T) = Len(queue)
  <2>1. Cardinality(1 .. Len(queue)) = Len(queue)
    BY <1>1, FS_Interval
  <2> HIDE DEF T
  <2> QED
    BY <1>2, <2>1 DEF Queued
<1>4. P \subseteq Holding("data") /\ IsFiniteSet(Holding("data"))
  BY HoldingFinite DEF Holding
<1>5. Cardinality(P) <= Cardinality(Holding("data")) /\ Cardinality(P) \in Nat
  BY <1>4, FS_Subset, FS_CardinalityType
<1>6. Cardinality(Holding("data")) \in Nat
  BY HoldingFinite
<1>7. Len(queue) + Cardinality(P) = SignalCapacity
  BY DEF SlotsTaken
<1>8. Held("data") = Len(queue) + Cardinality(Holding("data"))
  BY <1>3 DEF Held
<1>9. dataFree + Held("data") = SignalCapacity - 1 /\ dataFree \in Nat
  BY DEF PermitsConserved, DataCapacity, TypeOK
<1> HIDE DEF T, P
<1> QED
  BY <1>1, <1>5, <1>6, <1>7, <1>8, <1>9, IngressAssumption

\* Messages alone never fill a channel of more than one slot, so that a flood of them
\* does not shut out link, monitor and stop signals (data_capacity and data_admission).
THEOREM ControlSlotStays == Spec => []ControlSlotKept
<1>1. Init => TypeOK /\ PermitsConserved
  BY IngressTypesInit, PermitsInit
<1>2. TypeOK /\ PermitsConserved /\ [Next]_vars => TypeOK' /\ PermitsConserved'
  BY IngressTypesNext, PermitsNext
<1>3. TypeOK /\ PermitsConserved => ControlSlotKept
  BY ControlSlot
<1> QED
  BY <1>1, <1>2, <1>3, PTL DEF Spec

-----------------------------------------------------------------------------
(* The mailbox. *)

\* No filter is empty, so a receive under way is told from none.
LEMMA FilterNotEmpty ==
  AnyTag \in Filter /\ \A t \in Filter : t # {}
<1>1. NoTag \in AnyTag
  BY DEF AnyTag
<1>2. AnyTag \in Filter
  BY DEF Filter
<1>3. ASSUME NEW t \in Filter PROVE t # {}
  BY <1>1 DEF Filter
<1> QED  BY <1>2, <1>3

\* A found message always goes back to a place in the queue.
LEMMA RestoredType ==
  ASSUME MailboxTypeOK
  PROVE  /\ RestoreFound \in Seq(Message)
         /\ Len(RestoreFound) = Len(messages) + Len(found)
         /\ found = None => RestoreFound = messages
         /\ (found # None /\ found[1].index <= Len(messages)) =>
              RestoreFound = InsertAt(messages, found[1].index + 1, found[1].message)
<1>1. messages \in Seq(Message) /\ Len(messages) \in Nat
  BY DEF MailboxTypeOK
<1>2. CASE found = None
  BY <1>1, <1>2 DEF RestoreFound, None
<1>3. CASE found # None
  <2> DEFINE at == IF found[1].index <= Len(messages) THEN found[1].index ELSE Len(messages)
  <2>1. found[1].index \in Nat /\ found[1].message \in Message /\ Len(found) = 1
    BY <1>3 DEF MailboxTypeOK
  <2>2. at + 1 \in 1 .. Len(messages) + 1
    BY <1>1, <2>1
  <2>3. RestoreFound = InsertAt(messages, at + 1, found[1].message)
    BY <1>3 DEF RestoreFound
  <2> HIDE DEF at
  <2>4. RestoreFound \in Seq(Message) /\ Len(RestoreFound) = Len(messages) + 1
    BY <1>1, <2>1, <2>2, <2>3, InsertAtByPosition
  <2> QED  BY <1>3, <2>1, <2>3, <2>4 DEF at
<1> QED  BY <1>2, <1>3

\* What SelectInSeq finds: the first match, or that there is none.
FirstIndex(q, t) == SelectInSeq(q, LAMBDA m : Matching(t, m))

LEMMA FirstMatch ==
  ASSUME NEW q \in Seq(Message), NEW t
  PROVE  /\ FirstIndex(q, t) \in 0 .. Len(q)
         /\ FirstIndex(q, t) > 0 =>
              /\ Matching(t, q[FirstIndex(q, t)])
              /\ \A j \in 1 .. FirstIndex(q, t) - 1 : ~Matching(t, q[j])
         /\ ~(FirstIndex(q, t) > 0) => \A j \in 1 .. Len(q) : ~Matching(t, q[j])
<1> DEFINE index == FirstIndex(q, t)
           I == {i \in 1 .. Len(q) : Matching(t, q[i])}
<1>1. Len(q) \in Nat /\ I \in SUBSET Nat /\ \A i \in I : i \in 1 .. Len(q) /\ Matching(t, q[i])
  OBVIOUS
<1>2. index = IF I # {} THEN Min(I) ELSE 0
  BY DEF SelectInSeq, FirstIndex
<1>3. \A j \in 1 .. Len(q) : Matching(t, q[j]) => j \in I
  OBVIOUS
<1> HIDE DEF I, index
<1> SUFFICES /\ index \in 0 .. Len(q)
             /\ index > 0 => Matching(t, q[index]) /\ \A j \in 1 .. index - 1 : ~Matching(t, q[j])
             /\ ~(index > 0) => \A j \in 1 .. Len(q) : ~Matching(t, q[j])
  BY DEF index
<1>4. CASE I # {}
  <2>1. index \in I /\ \A k \in I : index <= k
    <3>1. index = Min(I)
      BY <1>2, <1>4
    <3>2. Min(I) \in I /\ \A k \in I : Min(I) <= k
      BY <1>1, <1>4, MinOfNats
    <3> QED  BY <3>1, <3>2
  <2>2. index \in 1 .. Len(q) /\ Matching(t, q[index])
    BY <1>1, <2>1
  <2>3. ASSUME NEW j \in 1 .. index - 1, Matching(t, q[j]) PROVE FALSE
    BY <1>1, <1>3, <2>1, <2>2, <2>3
  <2> QED  BY <1>1, <2>2, <2>3
<1>5. CASE I = {}
  BY <1>1, <1>2, <1>3, <1>5
<1> QED  BY <1>4, <1>5

-----------------------------------------------------------------------------
(* Types                                                                   *)

LEMMA InitTypes == MailboxInit => MailboxTypeOK
<1>1. <<>> \in Seq(Message)
  OBVIOUS
<1> SUFFICES ASSUME MailboxInit PROVE MailboxTypeOK
  OBVIOUS
<1>2. AnyTag \in Filter
  BY FilterNotEmpty
<1> QED  BY <1>1, <1>2 DEF MailboxInit, MailboxTypeOK, None

LEMMA StepTypes == MailboxTypeOK /\ [MailboxNext]_mailboxVars => MailboxTypeOK'
<1> SUFFICES ASSUME MailboxTypeOK, [MailboxNext]_mailboxVars PROVE MailboxTypeOK'
  OBVIOUS
<1>r. RestoreFound \in Seq(Message) /\ messages \in Seq(Message)
  BY RestoredType DEF MailboxTypeOK
<1>s. ToSet(RestoreFound) \in SUBSET Message
  BY <1>r DEF ToSet
<1>e. <<>> \in Seq(Message)
  OBVIOUS
<1>1. CASE TryReserve
  BY <1>1 DEF MailboxTypeOK, TryReserve
<1>2. CASE DropPermit
  BY <1>2 DEF MailboxTypeOK, DropPermit
<1>3. ASSUME NEW m \in Message, PushWithPermit(m) PROVE MailboxTypeOK'
  <2>1. Append(messages, m) \in Seq(Message) /\ Len(messages) \in Nat
    BY <1>r, AppendProperties
  <2>2. CASE waker /\ Matching(tags, m)
    <3> DEFINE f == [index |-> Len(messages), message |-> m]
    <3>1. f \in [index : Nat, message : Message]
      BY <2>1
    <3>2. found' = <<f>> /\ waker' = FALSE /\ woken' \in BOOLEAN /\ UNCHANGED messages
      BY <1>3, <2>2 DEF PushWithPermit, Wake
    <3> HIDE DEF f
    <3>3. Len(found') = 1 /\ found'[1] \in [index : Nat, message : Message]
      BY <3>1, <3>2
    <3>4. staged' \in Nat /\ arrived' \in Nat /\ UNCHANGED <<tags, snapshot, recv, asked, got>>
      BY <1>3 DEF MailboxTypeOK, PushWithPermit
    <3> QED  BY <3>2, <3>3, <3>4 DEF MailboxTypeOK
  <2>3. CASE ~(waker /\ Matching(tags, m))
    BY <1>3, <2>1, <2>3 DEF MailboxTypeOK, PushWithPermit, WakerAfterMismatch
  <2> QED  BY <2>2, <2>3
<1>4. ASSUME NEW t \in Filter, Pop(t) PROVE MailboxTypeOK'
  <2> DEFINE index == FirstIndex(RestoreFound, t)
  <2>1. index \in 0 .. Len(RestoreFound)
    BY <1>r, FirstMatch
  <2>p. /\ found' = None /\ UNCHANGED <<waker, staged, snapshot, woken, arrived>>
        /\ index > 0 => /\ messages' = RemoveAt(RestoreFound, index) /\ got' = <<RestoreFound[index]>>
                        /\ UNCHANGED <<tags, recv, asked>>
        /\ ~(index > 0) => messages' = RestoreFound /\ Arm(t, {})
    BY <1>4 DEF Pop, FirstIndex
  <2> HIDE DEF index
  <2>2. CASE index > 0
    <3>1. index \in 1 .. Len(RestoreFound) /\ Len(RestoreFound) \in Nat
      BY <1>r, <2>1, <2>2
    <3>2. RemoveAt(RestoreFound, index) \in Seq(Message) /\ RestoreFound[index] \in Message
      BY <1>r, <3>1, RemoveAtByPosition
    <3> QED  BY <2>p, <2>2, <3>2 DEF MailboxTypeOK, None
  <2>3. CASE ~(index > 0)
    BY <1>r, <2>p, <2>3 DEF MailboxTypeOK, None, Arm, MarkTags
  <2> QED  BY <2>2, <2>3
<1>5. ASSUME NEW t \in Filter, PopSkipSearch(t) PROVE MailboxTypeOK'
  BY <1>r, <1>s, <1>5 DEF MailboxTypeOK, PopSkipSearch, Arm, MarkTags, None
<1>6. CASE Poll
  <2>1. CASE found # None
    <3>1. found[1].message \in Message /\ got' = <<found[1].message>>
      BY <1>6, <2>1 DEF MailboxTypeOK, Poll
    <3>2. Len(got') = 1 /\ got'[1] \in Message
      BY <3>1
    <3> QED  BY <1>6, <2>1, <3>2 DEF MailboxTypeOK, Poll
  <2>2. CASE found = None
    BY <1>6, <2>2 DEF MailboxTypeOK, Poll
  <2> QED  BY <2>1, <2>2
<1>7. CASE Cancel
  BY <1>7 DEF MailboxTypeOK, Cancel
<1>8. CASE TakeSnapshot
  BY <1>r, <1>e, <1>8 DEF MailboxTypeOK, TakeSnapshot, None
<1>9. CASE RestoreSnapshot
  <2>1. snapshot[1] \in Seq(Message)
    BY <1>9 DEF MailboxTypeOK, RestoreSnapshot
  <2>2. snapshot[1] \o RestoreFound \in Seq(Message)
    BY <1>r, <2>1, ConcatProperties
  <2> QED  BY <2>2, <1>9 DEF MailboxTypeOK, RestoreSnapshot, None
<1>10. CASE UNCHANGED mailboxVars
  BY <1>10 DEF MailboxTypeOK, mailboxVars
<1> QED  BY <1>1, <1>2, <1>3, <1>4, <1>5, <1>6, <1>7, <1>8, <1>9, <1>10 DEF MailboxNext

\* The messages in the queue, found, snapshotted and returned are messages,
\* wherever InsertAt, RemoveAt and the concatenation of a restore put them.
THEOREM MailboxTypeCorrect == MailboxSpec => []MailboxTypeOK
<1>1. MailboxTypeOK /\ [MailboxNext]_mailboxVars => MailboxTypeOK'
  BY StepTypes
<1> QED  BY <1>1, InitTypes, PTL DEF MailboxSpec

-----------------------------------------------------------------------------
(* The receiver, its waker and what was found for it                       *)

\* Whatever is pending arrived.
LEMMA RestoredNumbers ==
  ASSUME MailboxTypeOK, FoundInv, NumberInv
  PROVE  \A i \in 1 .. Len(RestoreFound) : RestoreFound[i].number <= arrived
<1>1. messages \in Seq(Message) /\ Len(messages) \in Nat
  BY DEF MailboxTypeOK
<1>2. CASE found = None
  BY <1>2, RestoredType DEF NumberInv
<1>3. CASE found # None
  <2> DEFINE k == found[1].index + 1
             e == found[1].message
             r == InsertAt(messages, k, e)
  <2>1. found[1].index \in Nat /\ e \in Message /\ found[1].index <= Len(messages) /\ e.number <= arrived
    BY <1>3 DEF MailboxTypeOK, FoundInv, NumberInv
  <2>2. k \in 1 .. Len(messages) + 1
    BY <1>1, <2>1
  <2>3. RestoreFound = r
    BY <1>3, <2>1, RestoredType
  <2> HIDE DEF k, e
  <2>4. /\ Len(r) = Len(messages) + 1
        /\ \A j \in 1 .. k - 1 : r[j] = messages[j]
        /\ r[k] = e
        /\ \A j \in k + 1 .. Len(messages) + 1 : r[j] = messages[j - 1]
    BY <1>1, <2>1, <2>2, InsertAtByPosition
  <2>5. \A j \in 1 .. Len(messages) : messages[j].number <= arrived
    BY DEF NumberInv
  <2> HIDE DEF r
  <2>6. ASSUME NEW j \in 1 .. Len(r) PROVE r[j].number <= arrived
    <3>1. CASE j < k
      BY <1>1, <2>2, <2>4, <2>5, <3>1
    <3>2. CASE j = k
      BY <2>1, <2>4, <3>2
    <3>3. CASE j > k
      <4>1. j \in k + 1 .. Len(messages) + 1 /\ j - 1 \in 1 .. Len(messages)
        BY <1>1, <2>2, <2>4, <3>3
      <4> QED  BY <2>4, <2>5, <4>1
    <3> QED  BY <1>1, <2>2, <2>4, <3>1, <3>2, <3>3
  <2> QED  BY <2>3, <2>6
<1> QED  BY <1>2, <1>3

\* Every message in sight has a number.
LEMMA KnownMessages ==
  ASSUME MailboxTypeOK, MaxMessages \in Nat
  PROVE  /\ asked.skips \in SUBSET Message /\ \A s \in Message : s.number \in Nat
         /\ \A i \in 1 .. Len(messages) : messages[i] \in Message
         /\ found # None => found[1].message \in Message
         /\ snapshot # None => \A i \in 1 .. Len(snapshot[1]) : snapshot[1][i] \in Message
<1>1. \A s \in Message : s.number \in Nat
  BY DEF Message
<1>2. asked.skips \in SUBSET Message
  BY DEF MailboxTypeOK, NoReceive
<1>3. \A i \in 1 .. Len(messages) : messages[i] \in Message
  BY DEF MailboxTypeOK
<1>4. found # None => found[1].message \in Message
  BY DEF MailboxTypeOK
<1>5. snapshot # None => \A i \in 1 .. Len(snapshot[1]) : snapshot[1][i] \in Message
  BY DEF MailboxTypeOK
<1> QED  BY <1>1, <1>2, <1>3, <1>4, <1>5

LEMMA InitMailbox == MailboxInit => MailboxInv
<1> SUFFICES ASSUME MailboxInit PROVE MailboxInv
  OBVIOUS
<1>1. MailboxTypeOK
  BY InitTypes
<1>2. ReceiverInv
  BY DEF MailboxInit, ReceiverInv
<1>3. FoundInv /\ NumberInv
  BY DEF MailboxInit, FoundInv, NumberInv, NoReceive, None
<1> QED  BY <1>1, <1>2, <1>3 DEF MailboxInv

\* A message arrives for a receive that left its waker.
LEMMA PushFinds ==
  ASSUME MaxMessages \in Nat, ~DirectPush, MailboxInv, NEW m \in Message, PushWithPermit(m),
         waker, Matching(tags, m)
  PROVE  ReceiverInv' /\ FoundInv' /\ NumberInv'
<1>1. /\ found = None /\ recv # "armed"
      /\ Len(messages) \in Nat /\ arrived \in Nat /\ messages \in Seq(Message)
  BY DEF MailboxInv, MailboxTypeOK, FoundInv, PushWithPermit, ArrivesNow
<1>2. /\ found' = <<[index |-> Len(messages), message |-> m]>>
      /\ waker' = FALSE /\ woken' = (recv = "pending")
      /\ m.number = arrived + 1 /\ arrived' = arrived + 1
      /\ UNCHANGED <<messages, tags, snapshot, recv, asked, got>>
  BY DEF PushWithPermit, Wake
<1>3. found'[1].index = Len(messages) /\ found'[1].message = m /\ found' # None
  BY <1>2 DEF None
<1>4. ReceiverInv'
  BY <1>1, <1>2, <1>3 DEF MailboxInv, ReceiverInv
<1>5. recv # "idle" => Wanted(m)
  <2> SUFFICES ASSUME recv # "idle" PROVE Wanted(m)
    OBVIOUS
  <2>1. tags = asked.tags
    BY DEF MailboxInv, ReceiverInv
  <2>2. m \notin asked.skips
    BY <1>1, <1>2 DEF MailboxInv, NumberInv
  <2> QED  BY <2>1, <2>2 DEF Wanted
<1>6. FoundInv'
  <2>1. recv # "idle" => \A i \in 1 .. Len(messages) : ~Wanted(messages[i])
    BY <1>1 DEF MailboxInv, FoundInv
  <2> QED  BY <1>1, <1>2, <1>3, <1>5, <2>1 DEF FoundInv, Wanted
<1>7. NumberInv'
  <2>1. /\ \A s \in asked.skips : s.number <= arrived
        /\ \A i \in 1 .. Len(messages) : messages[i].number <= arrived
        /\ snapshot # None => \A i \in 1 .. Len(snapshot[1]) : snapshot[1][i].number <= arrived
    BY DEF MailboxInv, NumberInv
  <2>2. /\ asked.skips \in SUBSET Message /\ \A s \in Message : s.number \in Nat
        /\ \A i \in 1 .. Len(messages) : messages[i] \in Message
        /\ found # None => found[1].message \in Message
        /\ snapshot # None => \A i \in 1 .. Len(snapshot[1]) : snapshot[1][i] \in Message
    BY KnownMessages DEF MailboxInv
  <2>3. \A s \in Message : s.number <= arrived => s.number <= arrived + 1
    BY <1>1, <2>2
  <2> QED  BY <1>2, <1>3, <2>1, <2>2, <2>3 DEF NumberInv
<1> QED  BY <1>4, <1>6, <1>7

\* A message arrives that no receive waits for.
LEMMA PushQueues ==
  ASSUME MaxMessages \in Nat, ~DirectPush, MailboxInv, NEW m \in Message, PushWithPermit(m),
         ~(waker /\ Matching(tags, m))
  PROVE  ReceiverInv' /\ FoundInv' /\ NumberInv'
<1> DEFINE q == Append(messages, m)
<1>1. /\ recv # "armed" /\ Len(messages) \in Nat /\ arrived \in Nat /\ messages \in Seq(Message)
      /\ found # None => found[1].index \in Nat /\ found[1].index <= Len(messages)
  BY DEF MailboxInv, MailboxTypeOK, FoundInv, PushWithPermit, ArrivesNow
<1>2. /\ messages' = q /\ waker' = waker /\ m.number = arrived + 1 /\ arrived' = arrived + 1
      /\ UNCHANGED <<found, woken, tags, snapshot, recv, asked, got>>
  BY DEF PushWithPermit, WakerAfterMismatch
<1>3. /\ Len(q) = Len(messages) + 1 /\ q[Len(messages) + 1] = m
      /\ \A i \in 1 .. Len(messages) : q[i] = messages[i]
  BY <1>1, AppendProperties
<1> HIDE DEF q
<1>4. ReceiverInv'
  BY <1>2 DEF MailboxInv, ReceiverInv
<1>5. FoundInv'
  <2>1. CASE found = None
    <3>1. recv # "idle" => \A i \in 1 .. Len(messages) : ~Wanted(messages[i])
      BY <2>1 DEF MailboxInv, FoundInv
    <3>2. recv # "idle" => ~Wanted(m)
      BY <1>1, <2>1 DEF MailboxInv, ReceiverInv, MailboxTypeOK, Wanted
    <3>3. recv # "idle" => \A i \in 1 .. Len(q) : ~Wanted(q[i])
      BY <1>1, <1>3, <3>1, <3>2
    <3> QED  BY <1>2, <2>1, <3>3 DEF FoundInv, Wanted
  <2>2. CASE found # None
    <3>1. /\ ~waker
          /\ recv # "idle" => /\ Wanted(found[1].message)
                              /\ \A i \in 1 .. found[1].index : ~Wanted(messages[i])
      BY <2>2 DEF MailboxInv, FoundInv
    <3>2. found[1].index <= Len(q)
      BY <1>1, <1>3, <2>2
    <3>3. recv # "idle" => \A i \in 1 .. found[1].index : ~Wanted(q[i])
      BY <1>1, <1>3, <2>2, <3>1
    <3> QED  BY <1>2, <2>2, <3>1, <3>2, <3>3 DEF FoundInv, Wanted
  <2> QED  BY <2>1, <2>2
<1>6. NumberInv'
  <2>1. /\ \A s \in asked.skips : s.number <= arrived
        /\ \A i \in 1 .. Len(messages) : messages[i].number <= arrived
        /\ found # None => found[1].message.number <= arrived
        /\ snapshot # None => \A i \in 1 .. Len(snapshot[1]) : snapshot[1][i].number <= arrived
    BY DEF MailboxInv, NumberInv
  <2>2. /\ asked.skips \in SUBSET Message /\ \A s \in Message : s.number \in Nat
        /\ \A i \in 1 .. Len(messages) : messages[i] \in Message
        /\ found # None => found[1].message \in Message
        /\ snapshot # None => \A i \in 1 .. Len(snapshot[1]) : snapshot[1][i] \in Message
    BY KnownMessages DEF MailboxInv
  <2>3. \A s \in Message : s.number <= arrived => s.number <= arrived + 1
    BY <1>1, <2>2
  <2>4. \A i \in 1 .. Len(q) : q[i].number <= arrived + 1
    BY <1>1, <1>2, <1>3, <2>1, <2>2, <2>3
  <2> QED  BY <1>2, <2>1, <2>2, <2>3, <2>4 DEF NumberInv
<1> QED  BY <1>4, <1>5, <1>6

\* Each step of the mailbox and of its receiver keeps the invariant.
LEMMA StepMailbox ==
  ASSUME MaxMessages \in Nat, ~DirectPush, MailboxInv, [MailboxNext]_mailboxVars
  PROVE  MailboxInv'
<1> USE DEF MailboxInv
<1>t. MailboxTypeOK'
  BY StepTypes
<1>r. /\ RestoreFound \in Seq(Message) /\ Len(RestoreFound) \in Nat
      /\ \A i \in 1 .. Len(RestoreFound) : RestoreFound[i].number <= arrived
  BY RestoredType, RestoredNumbers
<1>k. /\ asked.skips \in SUBSET Message
      /\ \A i \in 1 .. Len(messages) : messages[i] \in Message
  BY KnownMessages
<1>1. CASE TryReserve
  BY <1>1, <1>t DEF TryReserve, ReceiverInv, FoundInv, NumberInv, Wanted
<1>2. CASE DropPermit
  BY <1>2, <1>t DEF DropPermit, ReceiverInv, FoundInv, NumberInv, Wanted
<1>3. ASSUME NEW m \in Message, PushWithPermit(m) PROVE MailboxInv'
  BY <1>3, <1>t, PushFinds, PushQueues
<1>4. ASSUME NEW t \in Filter, Pop(t) PROVE MailboxInv'
  <2> DEFINE index == FirstIndex(RestoreFound, t)
             rest == RemoveAt(RestoreFound, index)
  <2>1. /\ index \in 0 .. Len(RestoreFound)
        /\ ~(index > 0) => \A j \in 1 .. Len(RestoreFound) : ~Matching(t, RestoreFound[j])
    BY <1>r, FirstMatch
  <2>2. /\ recv = "idle" /\ snapshot = None /\ asked = NoReceive /\ ~woken
        /\ found' = None /\ UNCHANGED <<waker, staged, snapshot, woken, arrived>>
        /\ index > 0 => messages' = rest /\ UNCHANGED <<tags, recv, asked>>
        /\ ~(index > 0) => messages' = RestoreFound /\ Arm(t, {})
    BY <1>4 DEF Pop, FirstIndex, ReceiverInv
  <2> HIDE DEF index
  <2>3. CASE index > 0
    <3>1. index \in 1 .. Len(RestoreFound)
      BY <1>r, <2>1, <2>3
    <3>2. /\ Len(rest) = Len(RestoreFound) - 1
          /\ \A j \in 1 .. index - 1 : rest[j] = RestoreFound[j]
          /\ \A j \in index .. Len(RestoreFound) - 1 : rest[j] = RestoreFound[j + 1]
      BY <1>r, <3>1, RemoveAtByPosition
    <3> HIDE DEF rest
    <3>3. \A j \in 1 .. Len(rest) : rest[j].number <= arrived
      <4>1. ASSUME NEW j \in 1 .. Len(rest), j < index PROVE rest[j].number <= arrived
        BY <1>r, <3>1, <3>2, <4>1
      <4>2. ASSUME NEW j \in 1 .. Len(rest), ~(j < index) PROVE rest[j].number <= arrived
        <5>1. j \in index .. Len(RestoreFound) - 1 /\ j + 1 \in 1 .. Len(RestoreFound)
          BY <1>r, <3>1, <3>2, <4>2
        <5> QED  BY <1>r, <3>2, <5>1
      <4> QED  BY <4>1, <4>2
    <3>4. ReceiverInv'
      BY <2>2, <2>3 DEF ReceiverInv
    <3>5. FoundInv' /\ NumberInv'
      BY <2>2, <2>3, <3>3 DEF FoundInv, NumberInv
    <3> QED  BY <1>t, <3>4, <3>5
  <2>4. CASE ~(index > 0)
    <3>1. /\ messages' = RestoreFound /\ tags' = t /\ recv' = "armed"
          /\ asked' = [tags |-> t, skips |-> {}]
      BY <2>2, <2>4 DEF Arm, MarkTags
    <3>2. asked' # NoReceive /\ asked'.tags = t /\ asked'.skips = {}
      BY <3>1, FilterNotEmpty DEF NoReceive
    <3>3. ReceiverInv'
      BY <2>2, <3>1, <3>2 DEF ReceiverInv
    <3>4. FoundInv' /\ NumberInv'
      BY <1>r, <2>1, <2>2, <2>4, <3>1, <3>2 DEF FoundInv, NumberInv, Wanted
    <3> QED  BY <1>t, <3>3, <3>4
  <2> QED  BY <2>3, <2>4
<1>5. ASSUME NEW t \in Filter, PopSkipSearch(t) PROVE MailboxInv'
  <2> DEFINE all == ToSet(RestoreFound)
  <2>1. /\ recv = "idle" /\ snapshot = None /\ ~woken
        /\ found' = None /\ messages' = RestoreFound
        /\ tags' = t /\ recv' = "armed" /\ asked' = [tags |-> t, skips |-> all]
        /\ UNCHANGED <<waker, staged, snapshot, woken, arrived>>
    BY <1>5 DEF PopSkipSearch, Arm, MarkTags, ReceiverInv
  <2>2. /\ \A i \in 1 .. Len(RestoreFound) : RestoreFound[i] \in all
        /\ \A m \in all : m.number <= arrived
    BY <1>r DEF ToSet
  <2> HIDE DEF all
  <2>3. asked' # NoReceive /\ asked'.tags = t /\ asked'.skips = all
    BY <2>1, FilterNotEmpty DEF NoReceive
  <2>4. ReceiverInv'
    BY <2>1, <2>3 DEF ReceiverInv
  <2>5. FoundInv' /\ NumberInv'
    BY <1>r, <2>1, <2>2, <2>3 DEF FoundInv, NumberInv, Wanted
  <2> QED  BY <1>t, <2>4, <2>5
<1>6. CASE Poll
  <2>1. CASE found # None
    <3>1. /\ found' = None /\ recv' = "idle" /\ asked' = NoReceive /\ woken' = FALSE
          /\ UNCHANGED <<waker, tags, messages, staged, snapshot, arrived>>
      BY <1>6, <2>1 DEF Poll
    <3>2. ReceiverInv'
      BY <3>1 DEF ReceiverInv
    <3>3. FoundInv' /\ NumberInv'
      BY <3>1 DEF FoundInv, NumberInv, NoReceive
    <3> QED  BY <1>t, <3>2, <3>3
  <2>2. CASE found = None
    <3>1. /\ waker' = TRUE /\ recv' = "pending" /\ woken' = FALSE /\ recv # "idle"
          /\ UNCHANGED <<found, got, asked, tags, messages, staged, snapshot, arrived>>
      BY <1>6, <2>2 DEF Poll
    <3>2. ReceiverInv'
      BY <2>2, <3>1 DEF ReceiverInv
    <3>3. FoundInv' /\ NumberInv'
      BY <2>2, <3>1 DEF FoundInv, NumberInv, Wanted
    <3> QED  BY <1>t, <3>2, <3>3
  <2> QED  BY <2>1, <2>2
<1>7. CASE Cancel
  <2>1. ReceiverInv'
    BY <1>7 DEF Cancel, ReceiverInv
  <2>2. FoundInv' /\ NumberInv'
    BY <1>7 DEF Cancel, FoundInv, NumberInv, NoReceive
  <2> QED  BY <1>t, <2>1, <2>2
<1>8. CASE TakeSnapshot
  <2>1. /\ recv = "idle" /\ snapshot' = <<RestoreFound>> /\ found' = None /\ messages' = <<>>
        /\ UNCHANGED <<waker, tags, staged, recv, woken, arrived, asked, got>>
    BY <1>8 DEF TakeSnapshot
  <2>2. snapshot'[1] = RestoreFound /\ Len(messages') = 0
    BY <2>1
  <2>3. ReceiverInv'
    BY <2>1 DEF ReceiverInv
  <2>4. FoundInv' /\ NumberInv'
    BY <1>r, <2>1, <2>2 DEF FoundInv, NumberInv
  <2> QED  BY <1>t, <2>3, <2>4
<1>9. CASE RestoreSnapshot
  <2> DEFINE old == snapshot[1]
             both == old \o RestoreFound
  <2>1. /\ snapshot # None /\ recv = "idle" /\ snapshot' = None /\ found' = None
        /\ messages' = both
        /\ UNCHANGED <<waker, tags, staged, recv, woken, arrived, asked, got>>
    BY <1>9 DEF RestoreSnapshot, ReceiverInv
  <2>2. /\ old \in Seq(Message) /\ Len(old) \in Nat
        /\ \A i \in 1 .. Len(old) : old[i].number <= arrived
    BY <2>1 DEF MailboxTypeOK, NumberInv
  <2> HIDE DEF old
  <2>3. /\ Len(both) = Len(old) + Len(RestoreFound)
        /\ \A i \in 1 .. Len(old) + Len(RestoreFound) :
             both[i] = IF i <= Len(old) THEN old[i] ELSE RestoreFound[i - Len(old)]
    BY <1>r, <2>2, ConcatProperties
  <2> HIDE DEF both
  <2>4. \A i \in 1 .. Len(both) : both[i].number <= arrived
    <3>1. ASSUME NEW i \in 1 .. Len(both), i <= Len(old) PROVE both[i].number <= arrived
      BY <1>r, <2>2, <2>3, <3>1
    <3>2. ASSUME NEW i \in 1 .. Len(both), ~(i <= Len(old)) PROVE both[i].number <= arrived
      <4>1. i \in 1 .. Len(old) + Len(RestoreFound) /\ i - Len(old) \in 1 .. Len(RestoreFound)
        BY <1>r, <2>2, <2>3, <3>2
      <4> QED  BY <1>r, <2>3, <3>2, <4>1
    <3> QED  BY <3>1, <3>2
  <2>5. ReceiverInv'
    BY <2>1 DEF ReceiverInv
  <2>6. FoundInv' /\ NumberInv'
    BY <2>1, <2>4 DEF FoundInv, NumberInv
  <2> QED  BY <1>t, <2>5, <2>6
<1>10. CASE UNCHANGED mailboxVars
  BY <1>10, <1>t DEF mailboxVars, ReceiverInv, FoundInv, NumberInv, Wanted
<1> QED  BY <1>1, <1>2, <1>3, <1>4, <1>5, <1>6, <1>7, <1>8, <1>9, <1>10 DEF MailboxNext

\* With every wake accounted for, the messages a sleeping receive left in the
\* queue are none of those it waits for.
LEMMA NothingStranded == MailboxInv => NoStrandedMessage
<1> SUFFICES ASSUME MailboxInv, recv = "pending", ~woken, NEW m \in ToSet(RestoreFound),
                    Matching(asked.tags, m)
             PROVE  m \in asked.skips
  BY DEF NoStrandedMessage
<1>1. found = None
  BY DEF MailboxInv, ReceiverInv, MailboxTypeOK
<1>2. RestoreFound = messages /\ messages \in Seq(Message)
  BY <1>1, RestoredType DEF MailboxInv, MailboxTypeOK
<1>3. PICK i \in 1 .. Len(messages) : m = messages[i]
  BY <1>2 DEF ToSet
<1>4. ~Wanted(messages[i])
  BY <1>1, <1>3 DEF MailboxInv, FoundInv
<1> QED  BY <1>3, <1>4 DEF Wanted

\* A receive that sleeps has no message in its mailbox that it could take: no
\* wake is lost between the two critical sections of pop and pop_skip_search,
\* by a push that finds the waker of an earlier receive, or over a reload.
THEOREM NoMessageIsStranded ==
  ASSUME MaxMessages \in Nat, ~DirectPush
  PROVE  MailboxSpec => []NoStrandedMessage
<1>1. MailboxInv /\ [MailboxNext]_mailboxVars => MailboxInv'
  BY StepMailbox
<1>2. MailboxInv => NoStrandedMessage
  BY NothingStranded
<1> QED  BY <1>1, <1>2, InitMailbox, PTL DEF MailboxSpec

-----------------------------------------------------------------------------
(* Slots                                                                   *)

\* The waker is gone while a found message waits, so none is overwritten.
WakerInv == found # None => ~waker

LEMMA StepWaker ==
  ASSUME WakerInv, [MailboxNext]_mailboxVars
  PROVE  WakerInv'
BY DEF WakerInv, MailboxNext, mailboxVars, TryReserve, DropPermit, PushWithPermit, WakerAfterMismatch,
       Pop, PopSkipSearch, Poll, Cancel, TakeSnapshot, RestoreSnapshot, None

LEMMA StepCapacity ==
  ASSUME Capacity \in Nat, MailboxTypeOK, WakerInv, WithinCapacity, [MailboxNext]_mailboxVars
  PROVE  WithinCapacity'
<1> DEFINE Kept == IF snapshot = None THEN 0 ELSE Len(snapshot[1])
<1>1. /\ Len(messages) \in Nat /\ staged \in Nat /\ Kept \in Nat /\ messages \in Seq(Message)
      /\ Len(found) \in Nat /\ found = None => Len(found) = 0
      /\ RestoreFound \in Seq(Message) /\ Len(RestoreFound) = Len(messages) + Len(found)
  BY RestoredType DEF MailboxTypeOK, None
<1>2. staged + (Len(messages) + Len(found) + Kept) <= Capacity
  BY DEF WithinCapacity, Admitted
<1>3. SUFFICES staged' + (Len(messages') + Len(found') + Kept') <= Capacity
  BY DEF WithinCapacity, Admitted
<1>s. UNCHANGED snapshot => Kept' = Kept
  OBVIOUS
<1>k. snapshot = None => Kept = 0
  OBVIOUS
<1>k2. snapshot' = None => Kept' = 0
  OBVIOUS
<1>k3. snapshot # None => Kept = Len(snapshot[1])
  OBVIOUS
<1>4. CASE TryReserve
  <2>1. staged + Admitted < Capacity
    BY <1>4 DEF TryReserve, HasRoom
  <2>2. staged + (Len(messages) + Len(found) + Kept) < Capacity
    BY <2>1 DEF Admitted
  <2> HIDE DEF Kept
  <2> QED  BY <1>1, <1>s, <1>4, <2>2 DEF TryReserve
<1> HIDE DEF Kept
<1>5. CASE DropPermit
  BY <1>1, <1>2, <1>s, <1>5 DEF DropPermit
<1>6. ASSUME NEW m \in Message, PushWithPermit(m)
      PROVE  staged' + (Len(messages') + Len(found') + Kept') <= Capacity
  <2>1. staged' = staged - 1 /\ Kept' = Kept
    BY <1>s, <1>6 DEF PushWithPermit
  <2>2. CASE waker /\ Matching(tags, m)
    <3>1. found = None
      BY <2>2 DEF WakerInv
    <3>2. messages' = messages /\ Len(found') = 1
      BY <1>6, <2>2 DEF PushWithPermit
    <3> QED  BY <1>1, <1>2, <2>1, <3>1, <3>2
  <2>3. CASE ~(waker /\ Matching(tags, m))
    <3>1. Len(messages') = Len(messages) + 1 /\ found' = found
      BY <1>1, <1>6, <2>3, AppendProperties DEF PushWithPermit
    <3> QED  BY <1>1, <1>2, <2>1, <3>1
  <2> QED  BY <2>2, <2>3
<1>7. ASSUME NEW t \in Filter, Pop(t)
      PROVE  staged' + (Len(messages') + Len(found') + Kept') <= Capacity
  <2> DEFINE index == FirstIndex(RestoreFound, t)
  <2>1. index \in 0 .. Len(RestoreFound)
    BY <1>1, FirstMatch
  <2>2. /\ found' = None /\ staged' = staged /\ snapshot' = snapshot
        /\ index > 0 => messages' = RemoveAt(RestoreFound, index)
        /\ ~(index > 0) => messages' = RestoreFound
    BY <1>7 DEF Pop, FirstIndex
  <2> HIDE DEF index
  <2>3. index > 0 => Len(messages') = Len(RestoreFound) - 1
    BY <1>1, <2>1, <2>2, RemoveAtByPosition
  <2>4. Len(found') = 0
    BY <2>2 DEF None
  <2> QED  BY <1>1, <1>2, <1>s, <2>2, <2>3, <2>4
<1>8. ASSUME NEW t \in Filter, PopSkipSearch(t)
      PROVE  staged' + (Len(messages') + Len(found') + Kept') <= Capacity
  <2>1. found' = None /\ staged' = staged /\ snapshot' = snapshot /\ messages' = RestoreFound
    BY <1>8 DEF PopSkipSearch
  <2>2. Len(found') = 0
    BY <2>1 DEF None
  <2> QED  BY <1>1, <1>2, <1>s, <2>1, <2>2
<1>9. CASE Poll
  <2>1. staged' = staged /\ snapshot' = snapshot /\ messages' = messages
    BY <1>9 DEF Poll
  <2>2. Len(found') = 0 \/ found' = found
    BY <1>9 DEF Poll, None
  <2> QED  BY <1>1, <1>2, <1>s, <2>1, <2>2
<1>10. CASE Cancel
  BY <1>1, <1>2, <1>s, <1>10 DEF Cancel
<1>11. CASE TakeSnapshot
  <2>1. /\ snapshot = None /\ snapshot' = <<RestoreFound>> /\ found' = None /\ messages' = <<>>
        /\ staged' = staged
    BY <1>11 DEF TakeSnapshot
  <2>2. Kept' = Len(RestoreFound)
    BY <2>1 DEF Kept, None
  <2>3. Len(found') = 0 /\ Len(messages') = 0 /\ Kept = 0
    BY <1>k, <2>1 DEF None
  <2> QED  BY <1>1, <1>2, <2>1, <2>2, <2>3
<1>12. CASE RestoreSnapshot
  <2>1. /\ snapshot # None /\ snapshot[1] \in Seq(Message) /\ Len(snapshot[1]) \in Nat
        /\ messages' = snapshot[1] \o RestoreFound /\ snapshot' = None /\ found' = None
        /\ staged' = staged
    BY <1>12 DEF RestoreSnapshot, MailboxTypeOK
  <2>2. Len(messages') = Len(snapshot[1]) + Len(RestoreFound)
    BY <1>1, <2>1, ConcatProperties
  <2>3. Len(found') = 0 /\ Kept' = 0 /\ Kept = Len(snapshot[1])
    BY <1>k2, <1>k3, <2>1 DEF None
  <2>4. Len(messages') = Kept + (Len(messages) + Len(found)) /\ staged' = staged
    BY <1>1, <2>1, <2>2, <2>3
  <2>5. Kept \in Nat /\ Len(messages) \in Nat /\ Len(found) \in Nat /\ staged \in Nat
    BY <1>1
  <2>6. staged' + (Len(messages') + Len(found') + Kept')
          = staged + ((Kept + (Len(messages) + Len(found))) + 0 + 0)
    BY <2>3, <2>4
  <2>7. staged + ((Kept + (Len(messages) + Len(found))) + 0 + 0)
          = staged + (Len(messages) + Len(found) + Kept)
    BY <2>5
  <2> QED  BY <1>2, <2>6, <2>7
<1>13. CASE UNCHANGED mailboxVars
  BY <1>1, <1>2, <1>s, <1>13 DEF mailboxVars
<1> QED  BY <1>4, <1>5, <1>6, <1>7, <1>8, <1>9, <1>10, <1>11, <1>12, <1>13 DEF MailboxNext

\* Permits under way, queued, found and snapshotted messages together never
\* exceed the capacity of the mailbox, messages arriving inside a receive or not.
THEOREM MailboxWithinCapacity ==
  ASSUME Capacity \in Nat
  PROVE  MailboxSpec => []WithinCapacity
<1> DEFINE I == MailboxTypeOK /\ WakerInv /\ WithinCapacity
<1>1. MailboxInit => I
  <2> SUFFICES ASSUME MailboxInit PROVE I
    OBVIOUS
  <2>1. WakerInv /\ WithinCapacity
    BY DEF MailboxInit, WakerInv, WithinCapacity, Admitted, None
  <2> QED  BY <2>1, InitTypes
<1>2. I /\ [MailboxNext]_mailboxVars => I'
  BY StepTypes, StepWaker, StepCapacity
<1>3. I => WithinCapacity
  OBVIOUS
<1> HIDE DEF I
<1> QED  BY <1>1, <1>2, <1>3, PTL DEF MailboxSpec

-----------------------------------------------------------------------------
(* Selective receive                                                       *)

\* The least element is the one CHOOSE finds.
LEMMA TheOldest ==
  ASSUME NEW E \in SUBSET Nat, NEW i \in E, \A j \in E : i <= j
  PROVE  (CHOOSE k \in E : \A j \in E : k <= j) = i
<1>1. ASSUME NEW k \in E, \A j \in E : k <= j PROVE k = i
  BY <1>1
<1> QED  BY <1>1

\* A step that removes the first message w may take is a Take of the queue.
LEMMA TakesOldest ==
  ASSUME NEW w, NEW i, Pending \in Seq(Message), i \in 1 .. Len(Pending),
         Matching(w.tags, Pending[i]), Pending[i] \notin w.skips,
         \A j \in 1 .. i - 1 : ~(Matching(w.tags, Pending[j]) /\ Pending[j] \notin w.skips),
         Pending' = RemoveAt(Pending, i), got' = <<Pending[i]>>
  PROVE  Abstract!Take(w)
<1> DEFINE E == Abstract!Eligible(w)
<1>1. DOMAIN Pending = 1 .. Len(Pending) /\ Len(Pending) \in Nat
  OBVIOUS
<1>2. /\ E \in SUBSET Nat /\ i \in E
      /\ \A j \in E : j \in 1 .. Len(Pending) /\ Matching(w.tags, Pending[j]) /\ Pending[j] \notin w.skips
  BY <1>1 DEF Abstract!Eligible
<1>3. ASSUME NEW j \in E PROVE i <= j
  BY <1>1, <1>2
<1> HIDE DEF E
<1>4. (CHOOSE k \in E : \A j \in E : k <= j) = i
  BY <1>2, <1>3, TheOldest
<1>5. Abstract!RemoveAt(Pending, i) = RemoveAt(Pending, i)
  BY DEF Abstract!RemoveAt, RemoveAt
<1> QED  BY <1>2, <1>4, <1>5 DEF E, Abstract!Take

\* The queue the receiver sees, with and without a snapshot.
LEMMA PendingType ==
  ASSUME MailboxTypeOK
  PROVE  /\ Pending \in Seq(Message)
         /\ snapshot = None => Pending = RestoreFound
<1>1. RestoreFound \in Seq(Message)
  BY RestoredType
<1>2. CASE snapshot = None
  BY <1>1, <1>2, ConcatEmptySeq DEF Pending
<1>3. CASE snapshot # None
  <2>1. snapshot[1] \in Seq(Message)
    BY <1>3 DEF MailboxTypeOK
  <2> QED  BY <1>1, <1>3, <2>1, ConcatProperties DEF Pending
<1> QED  BY <1>2, <1>3

\* A message that is pushed comes last, found for a receive or not.
LEMMA PushArrives ==
  ASSUME MailboxInv, NEW m \in Message, PushWithPermit(m)
  PROVE  Pending' = Append(Pending, m)
<1>1. messages \in Seq(Message) /\ Len(messages) \in Nat /\ RestoreFound \in Seq(Message)
  BY RestoredType DEF MailboxInv, MailboxTypeOK
<1>2. RestoreFound' = Append(RestoreFound, m)
  <2>1. CASE waker /\ Matching(tags, m)
    <3>1. found = None /\ found' = <<[index |-> Len(messages), message |-> m]>> /\ messages' = messages
      BY <2>1 DEF MailboxInv, FoundInv, PushWithPermit
    <3>2. found' # None /\ found'[1].index = Len(messages) /\ found'[1].message = m
      BY <3>1 DEF None
    <3>3. RestoreFound' = InsertAt(messages, Len(messages) + 1, m)
      BY <1>1, <3>1, <3>2 DEF RestoreFound
    <3>4. RestoreFound = messages
      BY <3>1 DEF RestoreFound
    <3> QED  BY <1>1, <3>3, <3>4, InsertAtEnd
  <2>2. CASE ~(waker /\ Matching(tags, m))
    <3>1. found' = found /\ messages' = Append(messages, m)
      BY <2>2 DEF PushWithPermit
    <3>2. CASE found = None
      BY <3>1, <3>2 DEF RestoreFound
    <3>3. CASE found # None
      <4> DEFINE k == found[1].index + 1
                 e == found[1].message
      <4>1. /\ found[1].index \in Nat /\ found[1].index <= Len(messages)
            /\ e \in Message /\ k \in 1 .. Len(messages) + 1
        BY <1>1, <3>3 DEF MailboxInv, FoundInv, MailboxTypeOK
      <4>2. Len(Append(messages, m)) = Len(messages) + 1
        BY <1>1, AppendProperties
      <4>3. found[1].index <= Len(Append(messages, m))
        BY <1>1, <4>1, <4>2
      <4>4. RestoreFound = InsertAt(messages, k, e)
        BY <3>3, <4>1 DEF RestoreFound
      <4>5. RestoreFound' = InsertAt(Append(messages, m), k, e)
        BY <3>1, <3>3, <4>3 DEF RestoreFound
      <4> HIDE DEF k, e
      <4>6. InsertAt(Append(messages, m), k, e) = Append(InsertAt(messages, k, e), m)
        BY <1>1, <4>1, InsertThenAppend
      <4> QED  BY <4>4, <4>5, <4>6
    <3> QED  BY <3>2, <3>3
  <2> QED  BY <2>1, <2>2
<1>3. snapshot' = snapshot
  BY DEF PushWithPermit
<1> DEFINE kept == IF snapshot = None THEN <<>> ELSE snapshot[1]
<1>4. kept \in Seq(Message)
  BY DEF MailboxInv, MailboxTypeOK
<1>5. Pending = kept \o RestoreFound /\ Pending' = kept \o Append(RestoreFound, m)
  BY <1>2, <1>3 DEF Pending
<1> HIDE DEF kept
<1>6. kept \o Append(RestoreFound, m) = Append(kept \o RestoreFound, m)
  <2>1. Append(RestoreFound, m) = RestoreFound \o <<m>> /\ <<m>> \in Seq(Message)
    BY <1>1, AppendIsConcat
  <2>2. kept \o RestoreFound \in Seq(Message)
    BY <1>1, <1>4, ConcatProperties
  <2>3. Append(kept \o RestoreFound, m) = (kept \o RestoreFound) \o <<m>>
    BY <2>2, AppendIsConcat
  <2>4. (kept \o RestoreFound) \o <<m>> = kept \o (RestoreFound \o <<m>>)
    BY <1>1, <1>4, <2>1, ConcatAssociative
  <2> QED  BY <2>1, <2>3, <2>4
<1> QED  BY <1>5, <1>6

\* A receive that searches takes the oldest match at once, or waits for one.
LEMMA PopReceives ==
  ASSUME MailboxInv, NEW t \in Filter, Pop(t)
  PROVE  Abstract!AReceive(t) \/ Abstract!AWait(t)
<1> DEFINE index == FirstIndex(RestoreFound, t)
           w == [tags |-> t, skips |-> {}]
<1>1. /\ RestoreFound \in Seq(Message) /\ Len(RestoreFound) \in Nat
      /\ asked = NoReceive /\ snapshot = None
      /\ Pending = RestoreFound
  BY RestoredType, PendingType DEF MailboxInv, ReceiverInv, Pop
<1>2. /\ index \in 0 .. Len(RestoreFound)
      /\ index > 0 => /\ Matching(t, RestoreFound[index])
                      /\ \A j \in 1 .. index - 1 : ~Matching(t, RestoreFound[j])
      /\ ~(index > 0) => \A j \in 1 .. Len(RestoreFound) : ~Matching(t, RestoreFound[j])
  BY <1>1, FirstMatch
<1>3. /\ found' = None /\ snapshot' = None
      /\ index > 0 => /\ messages' = RemoveAt(RestoreFound, index) /\ got' = <<RestoreFound[index]>>
                      /\ asked' = asked
      /\ ~(index > 0) => messages' = RestoreFound /\ asked' = w /\ got' = <<>>
  BY <1>1 DEF Pop, FirstIndex, Arm
<1> HIDE DEF index
<1>4. CASE index > 0
  <2>1. index \in 1 .. Len(RestoreFound)
    BY <1>1, <1>2, <1>4
  <2>2. RemoveAt(RestoreFound, index) \in Seq(Message)
    BY <1>1, <2>1, RemoveAtByPosition
  <2>3. Pending' = RemoveAt(RestoreFound, index)
    <3>1. RestoreFound' = messages'
      BY <1>3 DEF RestoreFound
    <3>2. Pending' = <<>> \o messages'
      BY <1>3, <3>1 DEF Pending
    <3> QED  BY <1>3, <1>4, <2>2, <3>2, ConcatEmptySeq
  <2>4. w.tags = t /\ w.skips = {}
    OBVIOUS
  <2> HIDE DEF w
  <2>5. Abstract!Take(w)
    BY <1>1, <1>2, <1>3, <1>4, <2>1, <2>3, <2>4, TakesOldest
  <2> QED  BY <1>1, <1>3, <1>4, <2>5 DEF w, Abstract!AReceive
<1>5. CASE ~(index > 0)
  <2>1. Pending' = Pending
    <3>1. RestoreFound' = messages'
      BY <1>3 DEF RestoreFound
    <3>2. Pending' = <<>> \o messages'
      BY <1>3, <3>1 DEF Pending
    <3> QED  BY <1>1, <1>3, <1>5, <3>2, ConcatEmptySeq
  <2>2. \A i \in DOMAIN Pending : ~Matching(t, Pending[i])
    BY <1>1, <1>2, <1>5
  <2> QED  BY <1>1, <1>3, <1>5, <2>1, <2>2 DEF Abstract!AWait
<1> QED  BY <1>4, <1>5

\* A receive that skips the search waits for what is not there yet.
LEMMA PopSkipWaits ==
  ASSUME MailboxInv, NEW t \in Filter, PopSkipSearch(t)
  PROVE  Abstract!AWait(t)
<1>1. /\ RestoreFound \in Seq(Message) /\ asked = NoReceive /\ Pending = RestoreFound
      /\ found' = None /\ messages' = RestoreFound /\ snapshot' = None
      /\ asked' = [tags |-> t, skips |-> ToSet(RestoreFound)] /\ got' = <<>>
  BY RestoredType, PendingType DEF MailboxInv, ReceiverInv, PopSkipSearch, Arm
<1>2. Pending' = Pending
  <2>1. RestoreFound' = messages'
    BY <1>1 DEF RestoreFound
  <2>2. Pending' = <<>> \o messages'
    BY <1>1, <2>1 DEF Pending
  <2> QED  BY <1>1, <2>2, ConcatEmptySeq
<1>3. Abstract!ToSet(Pending) = ToSet(RestoreFound)
  BY <1>1 DEF Abstract!ToSet, ToSet
<1> QED  BY <1>1, <1>2, <1>3 DEF Abstract!AWait

\* The message a poll returns is the oldest one the receive may take, although
\* others arrived behind it, or did before it that it does not want.
LEMMA PollReturns ==
  ASSUME MailboxInv, Poll, found # None
  PROVE  Abstract!AReturn
<1> DEFINE k == found[1].index + 1
           e == found[1].message
<1>1. /\ messages \in Seq(Message) /\ Len(messages) \in Nat /\ e \in Message
      /\ found[1].index \in Nat /\ found[1].index <= Len(messages)
  BY DEF MailboxInv, MailboxTypeOK, FoundInv
<1>2. /\ recv # "idle" /\ asked # NoReceive /\ snapshot = None
      /\ Wanted(e) /\ \A i \in 1 .. found[1].index : ~Wanted(messages[i])
  BY DEF MailboxInv, ReceiverInv, FoundInv, Poll
<1>3. /\ found' = None /\ got' = <<e>> /\ asked' = NoReceive
      /\ UNCHANGED <<messages, snapshot>>
  BY DEF Poll
<1>4. k \in 1 .. Len(messages) + 1 /\ 1 .. found[1].index = 1 .. k - 1
  BY <1>1
<1>5. Pending = InsertAt(messages, k, e) /\ Pending \in Seq(Message)
  BY <1>1, <1>2, RestoredType, PendingType DEF MailboxInv
<1>6. \A i \in 1 .. k - 1 : ~Wanted(messages[i])
  BY <1>2, <1>4
<1> HIDE DEF k, e
<1>7. /\ Len(Pending) = Len(messages) + 1 /\ Pending[k] = e
      /\ \A j \in 1 .. k - 1 : Pending[j] = messages[j]
  BY <1>1, <1>4, <1>5, InsertAtByPosition
<1>8. Pending' = RemoveAt(Pending, k)
  <2>1. RestoreFound' = messages
    BY <1>3 DEF RestoreFound
  <2>2. Pending' = <<>> \o messages
    BY <1>2, <1>3, <2>1 DEF Pending
  <2>3. Pending' = messages
    BY <1>1, <2>2, ConcatEmptySeq
  <2>4. messages \in Seq(Message) /\ k \in 1 .. Len(messages) + 1 /\ e \in Message
    BY <1>1, <1>4
  <2>5. RemoveAt(InsertAt(messages, k, e), k) = messages
    BY <2>4, RemoveInserted
  <2> QED  BY <1>5, <2>3, <2>5
<1>9. k \in 1 .. Len(Pending)
  BY <1>4, <1>7
<1>10. /\ Matching(asked.tags, Pending[k]) /\ Pending[k] \notin asked.skips
       /\ \A j \in 1 .. k - 1 : ~(Matching(asked.tags, Pending[j]) /\ Pending[j] \notin asked.skips)
  BY <1>2, <1>6, <1>7 DEF Wanted
<1>11. Abstract!Take(asked)
  BY <1>3, <1>5, <1>7, <1>8, <1>9, <1>10, TakesOldest
<1> QED  BY <1>2, <1>3, <1>11 DEF Abstract!AReturn

\* Every step of the mailbox is a step of the queue or leaves it as it is.
LEMMA StepImplements ==
  ASSUME MailboxInv, [MailboxNext]_mailboxVars
  PROVE  [Abstract!ANext]_(Abstract!avars)
<1> USE DEF Abstract!avars
<1>1. CASE TryReserve
  BY <1>1 DEF TryReserve, Pending, RestoreFound
<1>2. CASE DropPermit
  BY <1>2 DEF DropPermit, Pending, RestoreFound
<1>3. ASSUME NEW m \in Message, PushWithPermit(m) PROVE Abstract!ANext
  <2>1. Pending' = Append(Pending, m)
    BY <1>3, PushArrives
  <2>2. UNCHANGED <<asked, got>>
    BY <1>3 DEF PushWithPermit
  <2> QED  BY <2>1, <2>2 DEF Abstract!ANext, Abstract!AArrive
<1>4. ASSUME NEW t \in Filter, Pop(t) PROVE Abstract!ANext
  BY <1>4, PopReceives DEF Abstract!ANext
<1>5. ASSUME NEW t \in Filter, PopSkipSearch(t) PROVE Abstract!ANext
  BY <1>5, PopSkipWaits DEF Abstract!ANext
<1>6. CASE Poll
  <2>1. CASE found # None
    BY <1>6, <2>1, PollReturns DEF Abstract!ANext
  <2>2. CASE found = None
    BY <1>6, <2>2 DEF Poll, Pending, RestoreFound
  <2> QED  BY <2>1, <2>2
<1>7. CASE Cancel
  <2>1. asked # NoReceive
    BY <1>7 DEF Cancel, MailboxInv, ReceiverInv
  <2>2. Pending' = Pending
    BY <1>7 DEF Cancel, Pending, RestoreFound
  <2> QED  BY <1>7, <2>1, <2>2 DEF Cancel, Abstract!ANext, Abstract!ACancel
<1>8. CASE TakeSnapshot
  <2>1. /\ snapshot = None /\ snapshot' = <<RestoreFound>> /\ found' = None /\ messages' = <<>>
        /\ UNCHANGED <<asked, got>>
    BY <1>8 DEF TakeSnapshot
  <2>2. Pending = RestoreFound /\ RestoreFound \in Seq(Message)
    BY <2>1, PendingType, RestoredType DEF MailboxInv
  <2>3. snapshot' # None /\ snapshot'[1] = RestoreFound /\ RestoreFound' = <<>>
    BY <2>1 DEF None, RestoreFound
  <2>4. Pending' = RestoreFound \o <<>>
    BY <2>3 DEF Pending
  <2>5. Pending' = Pending
    BY <2>2, <2>4, ConcatEmptySeq
  <2> QED  BY <2>1, <2>5
<1>9. CASE RestoreSnapshot
  <2>1. /\ snapshot # None /\ messages' = snapshot[1] \o RestoreFound
        /\ snapshot' = None /\ found' = None /\ UNCHANGED <<asked, got>>
    BY <1>9 DEF RestoreSnapshot
  <2>2. Pending = messages' /\ Pending \in Seq(Message)
    BY <2>1, PendingType DEF Pending, MailboxInv
  <2>3. RestoreFound' = messages'
    BY <2>1 DEF RestoreFound
  <2>4. Pending' = <<>> \o messages'
    BY <2>1, <2>3 DEF Pending
  <2>5. Pending' = Pending
    BY <2>2, <2>4, ConcatEmptySeq
  <2> QED  BY <2>1, <2>5
<1>10. CASE UNCHANGED mailboxVars
  BY <1>10 DEF mailboxVars, Pending, RestoreFound
<1> QED  BY <1>1, <1>2, <1>3, <1>4, <1>5, <1>6, <1>7, <1>8, <1>9, <1>10 DEF MailboxNext

\* The mailbox is a queue with selective receive: however receives are woken,
\* cancelled and resumed over a reload, each takes the oldest message it may
\* take, and none is lost, doubled or reordered.
THEOREM MailboxImplementsSelectiveReceive ==
  ASSUME MaxMessages \in Nat, ~DirectPush
  PROVE  MailboxSpec => ImplementsSelectiveReceive
<1>1. MailboxInit => Abstract!AInit
  <2> SUFFICES ASSUME MailboxInit PROVE Abstract!AInit
    OBVIOUS
  <2>1. snapshot = None /\ found = None /\ messages = <<>> /\ asked = NoReceive /\ got = <<>>
    BY DEF MailboxInit
  <2>2. Pending = <<>> \o <<>>
    BY <2>1 DEF Pending, RestoreFound
  <2>3. Pending = <<>>
    BY <2>2
  <2> QED  BY <2>1, <2>3 DEF Abstract!AInit
<1>2. MailboxInv /\ [MailboxNext]_mailboxVars => MailboxInv'
  BY StepMailbox
<1>3. MailboxInv /\ [MailboxNext]_mailboxVars => [Abstract!ANext]_(Abstract!avars)
  BY StepImplements
<1> QED  BY <1>1, <1>2, <1>3, InitMailbox, PTL DEF MailboxSpec, ImplementsSelectiveReceive, Abstract!ASpec

=============================================================================
