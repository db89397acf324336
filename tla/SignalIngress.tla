--------------------------- MODULE SignalIngress ---------------------------
(***************************************************************************)
(* The bounded signal ingress of one process (SignalSender, SignalReceiver *)
(* in crates/lunatic-process/src/state.rs) and the way its execution loop  *)
(* closes it (close_signal_ingress and the end of `new` in lib.rs).        *)
(*                                                                         *)
(* Any number of sender tasks call send_to_process concurrently.  A send   *)
(* is a check of the terminal state, a round of try_acquire reservations,  *)
(* and a try_send into a tokio channel; the receiver may publish its death *)
(* and close the channel between any two of these.  Tokio's try_send takes *)
(* a slot of the channel first and stores the envelope later, and a closed *)
(* channel refuses new slots but not the envelopes of slots already taken, *)
(* so the two are separate steps.                                          *)
(*                                                                         *)
(* Reservations are one step: each is a non-blocking try_acquire, and a    *)
(* send that fails to get one gives back the ones before it.               *)
(* Message contents and the reason of the death are left out.              *)
(***************************************************************************)
EXTENDS Naturals, Sequences, FiniteSets

CONSTANTS Sender,           \* tasks of other processes holding a handle
          SignalCapacity,   \* signal_capacity of the ingress
          MailCapacity,     \* slots of the target's message mailbox
          ObserverCapacity  \* slots of each sender's own message mailbox

ASSUME IngressAssumption ==
  /\ SignalCapacity \in Nat \ {0} /\ MailCapacity \in Nat
  /\ ObserverCapacity \in Nat /\ IsFiniteSet(Sender)

Kind == {"data", "monitor", "stop", "control", "kill"}
Envelope == [from : Sender, kind : Kind]

VARIABLES
  phase,        \* where the target's execution loop is
  death,        \* ProcessLifecycle::death_reason is set
  closed,       \* the receiver has closed the channel
  killed,       \* KillSignal::requested
  queue,        \* envelopes in the channel
  pc,           \* pc[s]: where s's send is
  kind,         \* kind[s]: the signal s is sending ("data" when it is not)
  dataFree,     \* data_admission permits
  monitorFree,  \* monitor_admission permits
  mailFree,     \* unreserved slots of the target's mailbox
  mail,         \* messages in the target's mailbox
  monitors,     \* the observers in the loop's `monitors` map
  observerFree, \* observerFree[s]: unreserved slots of s's own mailbox
  died,         \* died[s]: ProcessDied messages in s's mailbox
  \* What only the properties read:
  watching,     \* watching[s]: of s's accepted monitor and stop calls, the
                \* last was a monitor
  surprised,    \* an admitted monitor was told although it had been stopped
  late          \* late[s]: that call was stored after the drain ended

vars == <<phase, death, closed, killed, queue, pc, kind, dataFree, monitorFree,
          mailFree, mail, monitors, observerFree, died, watching, surprised, late>>
target == <<phase, death, closed, monitors>>
history == <<watching, surprised, late>>

DataCapacityAll == SignalCapacity
\* data_capacity: one slot is kept for control signals, except in a queue of one.
DataCapacity == IF SignalCapacity > 1 THEN SignalCapacity - 1 ELSE 1

Init ==
  /\ phase = "running" /\ death = FALSE /\ closed = FALSE /\ killed = FALSE
  /\ queue = <<>>
  /\ pc = [s \in Sender |-> "idle"] /\ kind = [s \in Sender |-> "data"]
  /\ dataFree = DataCapacity /\ monitorFree = SignalCapacity
  /\ mailFree = MailCapacity /\ mail = 0
  /\ monitors = {}
  /\ observerFree = [s \in Sender |-> ObserverCapacity]
  /\ died = [s \in Sender |-> 0]
  /\ watching = [s \in Sender |-> FALSE] /\ surprised = FALSE
  /\ late = [s \in Sender |-> FALSE]

-----------------------------------------------------------------------------
(* SignalSender::send_inner with a target process id. *)

\* The signal is refused, or answered, without entering the channel.
Return(s) == /\ pc' = [pc EXCEPT ![s] = "idle"]
             /\ kind' = [kind EXCEPT ![s] = "data"]

\* MonitorNotification::deliver into a slot that was reserved before.
Tell(s) == died' = [died EXCEPT ![s] = @ + 1]

\* SignalSender::complete_monitor_after_exit: a monitor of a dead process is
\* answered at once when the caller's mailbox has a slot for the answer.
AnswerLate(s, k) ==
  /\ Return(s)
  /\ IF k = "monitor" /\ observerFree[s] > 0
       THEN /\ observerFree' = [observerFree EXCEPT ![s] = @ - 1]
            /\ Tell(s)
       ELSE UNCHANGED <<observerFree, died>>

\* The checks at the head of send_inner.
SendCheck(s, k) ==
  /\ pc[s] = "idle"
  /\ IF death \/ closed
       THEN AnswerLate(s, k)
       ELSE /\ pc' = [pc EXCEPT ![s] = "reserve"]
            /\ kind' = [kind EXCEPT ![s] = k]
            /\ UNCHANGED <<observerFree, died>>
  /\ UNCHANGED <<target, killed, queue, dataFree, monitorFree, mailFree, mail,
                 history>>

\* Kill is a latch: it never enters the channel.
SendKill(s) ==
  /\ pc[s] = "reserve" /\ kind[s] = "kill"
  /\ killed' = TRUE /\ Return(s)
  /\ UNCHANGED <<target, queue, dataFree, monitorFree, mailFree, mail,
                 observerFree, died, history>>

\* try_reserve on the mailbox, data_admission, monitor_admission, and the slot in
\* the observer's own mailbox for the eventual ProcessDied.
HasReservations(s) ==
  /\ kind[s] = "data" => mailFree > 0 /\ dataFree > 0
  /\ kind[s] = "monitor" => monitorFree > 0 /\ observerFree[s] > 0

\* MailboxFull or QueueFull when a permit is missing; nothing is kept then.
SendReserve(s) ==
  /\ pc[s] = "reserve" /\ kind[s] # "kill"
  /\ IF HasReservations(s)
       THEN /\ pc' = [pc EXCEPT ![s] = "acquire"] /\ UNCHANGED kind
            /\ mailFree' = IF kind[s] = "data" THEN mailFree - 1 ELSE mailFree
            /\ dataFree' = IF kind[s] = "data" THEN dataFree - 1 ELSE dataFree
            /\ monitorFree' = IF kind[s] = "monitor" THEN monitorFree - 1 ELSE monitorFree
            /\ observerFree' = IF kind[s] = "monitor"
                                 THEN [observerFree EXCEPT ![s] = @ - 1]
                                 ELSE observerFree
       ELSE Return(s) /\ UNCHANGED <<mailFree, dataFree, monitorFree, observerFree>>
  /\ UNCHANGED <<target, killed, queue, mail, died, history>>

\* Slots of the channel taken by envelopes and by sends about to store one.
SlotsTaken == Len(queue) + Cardinality({s \in Sender : pc[s] = "push"})

KeepsReservations(s) ==
  UNCHANGED <<mailFree, dataFree, monitorFree, observerFree>>
\* Dropping an envelope gives its permits back.
DropsReservations(s) ==
  /\ mailFree' = IF kind[s] = "data" THEN mailFree + 1 ELSE mailFree
  /\ dataFree' = IF kind[s] = "data" THEN dataFree + 1 ELSE dataFree
  /\ monitorFree' = IF kind[s] = "monitor" THEN monitorFree + 1 ELSE monitorFree
  /\ observerFree' = IF kind[s] = "monitor"
                       THEN [observerFree EXCEPT ![s] = @ + 1]
                       ELSE observerFree

Enqueue(s) ==
  /\ queue' = Append(queue, [from |-> s, kind |-> kind[s]])
  /\ IF kind[s] \in {"monitor", "stop"}
       THEN /\ watching' = [watching EXCEPT ![s] = (kind[s] = "monitor")]
            /\ late' = [late EXCEPT ![s] = phase \in {"notifying", "done"}]
       ELSE UNCHANGED <<watching, late>>
  /\ UNCHANGED surprised

\* try_send takes a slot.
SendAcquire(s) ==
  /\ pc[s] = "acquire" /\ ~closed /\ SlotsTaken < SignalCapacity
  /\ pc' = [pc EXCEPT ![s] = "push"]
  /\ UNCHANGED <<target, killed, queue, kind, dataFree, monitorFree, mailFree,
                 mail, observerFree, died, history>>

\* try_send stores the envelope in the slot it took; send returns Ok.
SendPush(s) ==
  /\ pc[s] = "push"
  /\ Return(s) /\ Enqueue(s)
  /\ UNCHANGED <<target, killed, dataFree, monitorFree, mailFree, mail,
                 observerFree, died>>

\* TrySendError::Full.
SendFull(s) ==
  /\ pc[s] = "acquire" /\ ~closed /\ SlotsTaken = SignalCapacity
  /\ Return(s) /\ DropsReservations(s)
  /\ UNCHANGED <<target, killed, queue, mail, died, history>>

\* TrySendError::Closed: a monitor is answered with the slot it had reserved.
SendClosed(s) ==
  /\ pc[s] = "acquire" /\ closed
  /\ Return(s)
  /\ IF kind[s] = "monitor"
       THEN /\ Tell(s)
            /\ monitorFree' = monitorFree + 1
            /\ UNCHANGED <<mailFree, dataFree, observerFree>>
       ELSE DropsReservations(s) /\ UNCHANGED died
  /\ UNCHANGED <<target, killed, queue, mail, history>>

\* A sender reads a ProcessDied, which frees the slot.
ReadDied(s) ==
  /\ died[s] > 0
  /\ died' = [died EXCEPT ![s] = @ - 1]
  /\ observerFree' = [observerFree EXCEPT ![s] = @ + 1]
  /\ UNCHANGED <<target, killed, queue, pc, kind, dataFree, monitorFree,
                 mailFree, mail, history>>

-----------------------------------------------------------------------------
(* The execution loop of the target. *)

\* admit_monitor: a second monitor of one observer replaces the first, whose
\* permit and reserved slot are dropped.
AdmitMonitor(s) ==
  /\ monitors' = monitors \cup {s}
  /\ IF s \in monitors
       THEN /\ monitorFree' = monitorFree + 1
            /\ observerFree' = [observerFree EXCEPT ![s] = @ + 1]
       ELSE UNCHANGED <<monitorFree, observerFree>>

ForgetNothing(s) == UNCHANGED <<monitors, monitorFree, observerFree>>
\* StopMonitoring: removing a relation drops its permit and its reserved slot.
ForgetMonitor(s) ==
  /\ monitors' = monitors \ {s}
  /\ IF s \in monitors
       THEN /\ monitorFree' = monitorFree + 1
            /\ observerFree' = [observerFree EXCEPT ![s] = @ + 1]
       ELSE UNCHANGED <<monitorFree, observerFree>>

MonitorChange(e) ==
  CASE e.kind = "monitor" -> AdmitMonitor(e.from)
    [] e.kind = "stop" -> ForgetMonitor(e.from)
    [] OTHER -> UNCHANGED <<monitors, monitorFree, observerFree>>

KillWhenIdle == killed /\ queue = <<>>
\* SignalReceiverGuard::recv looks at the latch before the channel.
KillPending == killed

RecvKill ==
  /\ phase = "running" /\ KillPending
  /\ killed' = FALSE /\ phase' = "exiting"
  /\ UNCHANGED <<death, closed, monitors, queue, pc, kind, dataFree, monitorFree,
                 mailFree, mail, observerFree, died, history>>

\* One signal: a message moves, with its slot, into the mailbox.
RecvSignal ==
  /\ phase = "running" /\ ~KillPending /\ queue # <<>>
  /\ queue' = Tail(queue)
  /\ MonitorChange(Head(queue))
  /\ mail' = IF Head(queue).kind = "data" THEN mail + 1 ELSE mail
  /\ dataFree' = IF Head(queue).kind = "data" THEN dataFree + 1 ELSE dataFree
  /\ UNCHANGED <<phase, death, closed, killed, pc, kind, mailFree, died, history>>

\* The guest takes a message out of its mailbox.
ReadMail ==
  /\ phase = "running" /\ mail > 0
  /\ mail' = mail - 1 /\ mailFree' = mailFree + 1
  /\ UNCHANGED <<target, killed, queue, pc, kind, dataFree, monitorFree,
                 observerFree, died, history>>

\* The guest future returns, traps or panics.
Finish ==
  /\ phase = "running" /\ phase' = "exiting"
  /\ UNCHANGED <<death, closed, killed, queue, pc, kind, dataFree, monitorFree,
                 mailFree, mail, monitors, observerFree, died, history>>

\* close_with_reason sets death_reason, then closes the channel.
PublishDeath ==
  /\ phase = "exiting" /\ ~death /\ death' = TRUE
  /\ UNCHANGED <<phase, closed, killed, queue, pc, kind, dataFree, monitorFree,
                 mailFree, mail, monitors, observerFree, died, history>>
CloseChannel ==
  /\ phase = "exiting" /\ death /\ closed' = TRUE /\ phase' = "draining"
  /\ UNCHANGED <<death, killed, queue, pc, kind, dataFree, monitorFree,
                 mailFree, mail, monitors, observerFree, died, history>>

\* What close_signal_ingress does with one drained envelope.
DrainEffect(e) ==
  /\ MonitorChange(e)
  /\ mailFree' = IF e.kind = "data" THEN mailFree + 1 ELSE mailFree
  /\ dataFree' = IF e.kind = "data" THEN dataFree + 1 ELSE dataFree
DiscardEffect(e) ==
  /\ monitors' = monitors
  /\ monitorFree' = IF e.kind = "monitor" THEN monitorFree + 1 ELSE monitorFree
  /\ observerFree' = IF e.kind = "monitor"
                       THEN [observerFree EXCEPT ![e.from] = @ + 1] ELSE observerFree
  /\ mailFree' = IF e.kind = "data" THEN mailFree + 1 ELSE mailFree
  /\ dataFree' = IF e.kind = "data" THEN dataFree + 1 ELSE dataFree
HandleDrained(e) == DrainEffect(e)

Drain ==
  /\ phase = "draining" /\ queue # <<>>
  /\ queue' = Tail(queue)
  /\ HandleDrained(Head(queue))
  /\ UNCHANGED <<phase, death, closed, killed, pc, kind, mail, died, history>>

\* try_recv finds the channel empty.
DrainEnd ==
  /\ phase = "draining" /\ queue = <<>> /\ phase' = "notifying"
  /\ UNCHANGED <<death, closed, killed, queue, pc, kind, dataFree, monitorFree,
                 mailFree, mail, monitors, observerFree, died, history>>

\* Each monitor is told with the slot its relation had reserved.
NotifyMonitor(s) ==
  /\ phase = "notifying" /\ s \in monitors
  /\ monitors' = monitors \ {s}
  /\ monitorFree' = monitorFree + 1
  /\ Tell(s)
  /\ watching' = [watching EXCEPT ![s] = FALSE]
  /\ surprised' = (surprised \/ (~watching[s] /\ ~late[s]))
  /\ UNCHANGED <<late, phase, death, closed, killed, queue, pc, kind, dataFree,
                 mailFree, mail, observerFree>>

NotifyEnd ==
  /\ phase = "notifying" /\ monitors = {} /\ phase' = "done"
  /\ UNCHANGED <<death, closed, killed, queue, pc, kind, dataFree, monitorFree,
                 mailFree, mail, monitors, observerFree, died, history>>

\* The task is dropped at one of its awaits: the task guard publishes NoProcess, the
\* monitors map is dropped without a word, and the receiver closes.
Abort ==
  /\ phase \in {"running", "exiting"} /\ ~death
  /\ phase' = "aborted" /\ death' = TRUE /\ closed' = TRUE
  /\ monitors' = {}
  /\ monitorFree' = monitorFree + Cardinality(monitors)
  /\ observerFree' = [s \in Sender |->
       IF s \in monitors THEN observerFree[s] + 1 ELSE observerFree[s]]
  /\ UNCHANGED <<killed, queue, pc, kind, dataFree, mailFree, mail, died, history>>

\* The last handle to the receiver goes: what is still in the channel, or gets
\* stored there late, is dropped with its permits.
DropQueue ==
  /\ phase \in {"done", "aborted"} /\ queue # <<>>
  /\ queue' = Tail(queue)
  /\ DiscardEffect(Head(queue))
  /\ UNCHANGED <<phase, death, closed, killed, pc, kind, mail, died, history>>

-----------------------------------------------------------------------------

SenderStep(s) == SendKill(s) \/ SendReserve(s) \/ SendAcquire(s) \/ SendPush(s) \/ SendFull(s) \/ SendClosed(s)
LoopStep == RecvKill \/ RecvSignal \/ PublishDeath \/ CloseChannel \/ Drain
            \/ DrainEnd \/ (\E s \in Sender : NotifyMonitor(s)) \/ NotifyEnd

Next ==
  \/ \E s \in Sender, k \in Kind : SendCheck(s, k)
  \/ \E s \in Sender : ReadDied(s)
  \/ \E s \in Sender : SenderStep(s)
  \/ LoopStep
  \/ ReadMail \/ Finish \/ Abort \/ DropQueue

\* The runtime polls every spawned task again; a guest may run for ever.
Fairness == WF_vars(LoopStep) /\ \A s \in Sender : WF_vars(SenderStep(s))

Spec == Init /\ [][Next]_vars
FairSpec == Spec /\ Fairness

-----------------------------------------------------------------------------
(* Properties. *)

\* Every variable has its type: no semaphore goes below zero.
TypeOK ==
  /\ phase \in {"running", "exiting", "draining", "notifying", "done", "aborted"}
  /\ death \in BOOLEAN /\ closed \in BOOLEAN /\ killed \in BOOLEAN /\ surprised \in BOOLEAN
  /\ queue \in Seq(Envelope)
  /\ pc \in [Sender -> {"idle", "reserve", "acquire", "push"}]
  /\ kind \in [Sender -> Kind]
  /\ dataFree \in Nat /\ monitorFree \in Nat /\ mailFree \in Nat /\ mail \in Nat
  /\ monitors \in SUBSET Sender
  /\ observerFree \in [Sender -> Nat] /\ died \in [Sender -> Nat]
  /\ watching \in [Sender -> BOOLEAN] /\ late \in [Sender -> BOOLEAN]

One(b) == IF b THEN 1 ELSE 0
MonitorOf(s) == [from |-> s, kind |-> "monitor"]

\* Envelopes of T in the channel; sends between their reservations and the channel.
Queued(T) == Cardinality({i \in DOMAIN queue : queue[i] \in T})
Holding(k) == {s \in Sender : pc[s] \in {"acquire", "push"} /\ kind[s] = k}

\* Permits of a kind in use on the way, and slots of s's mailbox it keeps for answers.
Held(k) == Queued([from : Sender, kind : {k}]) + Cardinality(Holding(k))
Awaited(s) == Queued({MonitorOf(s)}) + One(s \in Holding("monitor")) + One(s \in monitors)

\* Permits follow their envelope through the send, the channel, the loop, the
\* drain and every way of dropping it: none is lost, none is given back twice.
PermitsConserved ==
  /\ dataFree + Held("data") = DataCapacity
  /\ monitorFree + Held("monitor") + Cardinality(monitors) = SignalCapacity
  /\ mailFree + Held("data") + mail = MailCapacity
  /\ \A s \in Sender : observerFree[s] + died[s] + Awaited(s) = ObserverCapacity

\* "This keeps lifecycle control enqueueable during a data flood": messages
\* alone never fill a channel of more than one slot.
ControlSlotKept ==
  (SignalCapacity > 1 /\ SlotsTaken = SignalCapacity) =>
    \/ \E i \in DOMAIN queue : queue[i].kind # "data"
    \/ \E s \in Sender : pc[s] = "push" /\ kind[s] # "data"

\* The loop, the drain and the refused sender between them tell every accepted
\* monitor of the death ("either leaves its envelope in this drain or completes it
\* directly"); only an envelope stored after the drain found the channel empty,
\* by a sender that took its slot before the close, can be missed.
OnlyLateMonitorsLost == phase = "done" => \A s \in Sender : watching[s] => late[s]

\* A stop_monitoring that was accepted before the drain ended is honoured: no
\* ProcessDied follows.
NoSurprise == ~surprised

\* Of the monitors of a process exactly the ones it should tell are told of its death.
MonitorsExact == OnlyLateMonitorsLost /\ NoSurprise

\* Why MonitorsExact holds.  The monitor and stop calls of s that are still in the
\* channel; the last of them, or else the loop's map, says what s wants.
Calls(s) == {i \in DOMAIN queue : queue[i].from = s /\ queue[i].kind \in {"monitor", "stop"}}
Follows(s) ==
  /\ Calls(s) = {} => (watching[s] <=> s \in monitors)
  /\ \A i \in Calls(s) :
       (\A j \in Calls(s) : j <= i) => (watching[s] <=> queue[i].kind = "monitor")
MonitorInv ==
  /\ phase \in {"running", "exiting", "draining"} => \A s \in Sender : Follows(s)
  /\ phase = "notifying" => \A s \in Sender : ~late[s] => (watching[s] <=> s \in monitors)
  /\ MonitorsExact

\* A kill that was accepted ends the process, whatever else is being sent.
KillTakesEffect ==
  []<>(phase \in {"done", "aborted"} \/ (~killed /\ phase = "running"))
=============================================================================
