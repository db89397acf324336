--------------------------- MODULE MessageMailbox ---------------------------
(***************************************************************************)
(* The message mailbox of a process (crates/lunatic-process/src/mailbox.rs)*)
(* and its one receiver.  pop and pop_skip_search take the mutex once to   *)
(* look for a message and note what they wait for, release it, and take it *)
(* again in the first poll to leave a waker.  A receive can be dropped at  *)
(* any time, and then leaves its waker, its tags or a found message behind.*)
(*                                                                         *)
(* The signals of a process are handled in the task that polls its guest,  *)
(* so they never arrive between the two sections of a receive.  A          *)
(* MonitorNotification is pushed by the task of the process that died:     *)
(* DirectPush says whether it may arrive there.                            *)
(* Sizes of messages and permits of another mailbox are left out.          *)
(***************************************************************************)
EXTENDS Naturals, Sequences, SequencesExt

CONSTANTS Tag,          \* tags of messages
          NoTag,        \* the tag of a message that has none
          Capacity,     \* slots of the mailbox
          MaxMessages,  \* bound: messages pushed in a behaviour
          DirectPush    \* can a message arrive inside a receive call?

\* The number of a message is its place in the order of arrival.
Message == [number : 1 .. MaxMessages, tag : Tag \cup {NoTag}]
AnyTag == {NoTag}               \* tags = None: every message will do
Filter == ((SUBSET Tag) \ {{}}) \cup {AnyTag}

\* mailbox.tags.is_none(), or the message has a tag and tags contains it.
Matching(tags, m) == tags = AnyTag \/ m.tag \in tags

None == <<>>
NoReceive == [tags |-> {}, skips |-> {}]

VARIABLES
  waker,     \* InnerMessageMailbox::waker is Some
  tags,      \* InnerMessageMailbox::tags
  found,     \* InnerMessageMailbox::found: None, or a message and its position
  messages,  \* InnerMessageMailbox::messages
  staged,    \* permits held by signals that are on their way
  snapshot,  \* None, or the messages of a MessageMailboxSnapshot
  recv,      \* the receiver: "idle", "armed" between the sections, "pending"
  woken,     \* the executor owes the receiver a poll
  arrived,   \* messages pushed so far
  \* What only the properties read:
  asked,     \* what the receive under way was called with
  got        \* what the last receive returned

mailboxVars == <<waker, tags, found, messages, staged, snapshot, recv, woken, arrived, asked, got>>

MailboxInit ==
  /\ waker = FALSE /\ tags = AnyTag /\ found = None /\ messages = <<>>
  /\ staged = 0 /\ snapshot = None
  /\ recv = "idle" /\ woken = FALSE /\ arrived = 0
  /\ asked = NoReceive /\ got = <<>>

-----------------------------------------------------------------------------

AppendFound == messages \o IF found = None THEN <<>> ELSE <<found[1].message>>
\* A found message nobody fetched goes back to the position it arrived at.
RestoreFound ==
  IF found = None THEN messages
  ELSE LET index == IF found[1].index <= Len(messages) THEN found[1].index
                                                       ELSE Len(messages)
       IN  InsertAt(messages, index + 1, found[1].message)

\* Messages that hold a permit.
Admitted == Len(messages) + Len(found)
            + (IF snapshot = None THEN 0 ELSE Len(snapshot[1]))

HasRoomAtCapacity == staged + Admitted <= Capacity
HasRoom == staged + Admitted < Capacity

\* try_reserve, by a sender or a monitor relation.
TryReserve ==
  /\ HasRoom
  /\ staged' = staged + 1
  /\ UNCHANGED <<waker, tags, found, messages, snapshot, recv, woken, arrived, asked, got>>

\* The permit is dropped with its signal.
DropPermit ==
  /\ staged > 0 /\ staged' = staged - 1
  /\ UNCHANGED <<waker, tags, found, messages, snapshot, recv, woken, arrived, asked, got>>

NoWake == woken' = woken
\* waker.wake(): the task that left the waker will be polled.
Wake == woken' = (recv = "pending")

WakerTaken == FALSE
\* "Put the waker back if this is not the message we are looking for."
WakerAfterMismatch == waker

\* Only a MonitorNotification is pushed by another task.
ArrivesNow(m) == recv = "armed" => DirectPush /\ m.tag = NoTag

\* push_with_permit.
PushWithPermit(m) ==
  /\ staged > 0 /\ arrived < MaxMessages /\ m.number = arrived + 1
  /\ ArrivesNow(m)
  /\ staged' = staged - 1 /\ arrived' = arrived + 1
  /\ IF waker /\ Matching(tags, m)
       THEN /\ found' = <<[index |-> Len(messages), message |-> m]>>
            /\ waker' = FALSE /\ Wake
            /\ UNCHANGED messages
       ELSE /\ messages' = Append(messages, m)
            /\ waker' = WakerAfterMismatch
            /\ UNCHANGED <<found, woken>>
  /\ UNCHANGED <<tags, snapshot, recv, asked, got>>

\* "Mark the tags to wait on."
MarkTags(t) == tags' = t

\* The receive will be polled for the first time.
Arm(t, skips) ==
  /\ MarkTags(t)
  /\ recv' = "armed" /\ asked' = [tags |-> t, skips |-> skips] /\ got' = <<>>

\* First section of pop: the oldest matching message, if there is one.
Pop(t) ==
  LET restored == RestoreFound
      index == SelectInSeq(restored, LAMBDA m : Matching(t, m))
  IN  /\ recv = "idle" /\ snapshot = None
      /\ found' = None
      /\ IF index > 0
           THEN /\ messages' = RemoveAt(restored, index)
                /\ got' = <<restored[index]>>
                /\ UNCHANGED <<tags, recv, asked>>
           ELSE messages' = restored /\ Arm(t, {})
      /\ UNCHANGED <<waker, staged, snapshot, woken, arrived>>

\* First section of pop_skip_search.
PopSkipSearch(t) ==
  /\ recv = "idle" /\ snapshot = None
  /\ found' = None /\ messages' = RestoreFound
  /\ Arm(t, ToSet(RestoreFound))
  /\ UNCHANGED <<waker, staged, snapshot, woken, arrived>>

\* Future::poll of the mailbox.
Poll ==
  /\ recv = "armed" \/ (recv = "pending" /\ woken)
  /\ woken' = FALSE
  /\ IF found # None
       THEN /\ found' = None /\ got' = <<found[1].message>>
            /\ recv' = "idle" /\ asked' = NoReceive
            /\ UNCHANGED waker
       ELSE /\ waker' = TRUE /\ recv' = "pending"
            /\ UNCHANGED <<found, got, asked>>
  /\ UNCHANGED <<tags, messages, staged, snapshot, arrived>>

\* The future of the receive is dropped: a timeout, or a branch of a select.
Cancel ==
  /\ recv = "pending"
  /\ recv' = "idle" /\ asked' = NoReceive /\ got' = <<>> /\ woken' = FALSE
  /\ UNCHANGED <<waker, tags, found, messages, staged, snapshot, arrived>>

\* snapshot() and restore() of a reload, with no receive under way.
TakeSnapshot ==
  /\ recv = "idle" /\ snapshot = None
  /\ snapshot' = <<RestoreFound>> /\ found' = None /\ messages' = <<>>
  /\ UNCHANGED <<waker, tags, staged, recv, woken, arrived, asked, got>>
RestoreSnapshot ==
  /\ snapshot # None
  /\ messages' = snapshot[1] \o RestoreFound
  /\ snapshot' = None /\ found' = None
  /\ UNCHANGED <<waker, tags, staged, recv, woken, arrived, asked, got>>

MailboxNext ==
  \/ TryReserve \/ DropPermit
  \/ \E m \in Message : PushWithPermit(m)
  \/ \E t \in Filter : Pop(t) \/ PopSkipSearch(t)
  \/ Poll \/ Cancel
  \/ TakeSnapshot \/ RestoreSnapshot

MailboxSpec == MailboxInit /\ [][MailboxNext]_mailboxVars
\* A woken task is polled.
MailboxFairness == WF_mailboxVars(Poll)
FairMailboxSpec == MailboxSpec /\ MailboxFairness

-----------------------------------------------------------------------------
(* Properties. *)

\* Every variable has its type.
MailboxTypeOK ==
  /\ waker \in BOOLEAN /\ woken \in BOOLEAN
  /\ tags \in Filter
  /\ found = None \/ (Len(found) = 1 /\ found[1] \in [index : Nat, message : Message])
  /\ messages \in Seq(Message)
  /\ staged \in Nat
  /\ snapshot = None \/ (Len(snapshot) = 1 /\ snapshot[1] \in Seq(Message))
  /\ recv \in {"idle", "armed", "pending"}
  /\ arrived \in Nat
  /\ asked = NoReceive \/ asked \in [tags : Filter, skips : SUBSET Message]
  /\ got = <<>> \/ (Len(got) = 1 /\ got[1] \in Message)

\* Messages in the mailbox, in a snapshot and under way never exceed the slots.
WithinCapacity == staged + Admitted <= Capacity

\* "If no message exist, blocks until a message is received": a receive that is
\* not about to be polled has no message in the mailbox that it could take.
NoStrandedMessage ==
  (recv = "pending" /\ ~woken) =>
    \A m \in ToSet(RestoreFound) : Matching(asked.tags, m) => m \in asked.skips

\* A receive that has a message to take ends.
CanTake == recv = "pending" /\ \E m \in ToSet(RestoreFound) :
                                  Matching(asked.tags, m) /\ m \notin asked.skips
ReceiveCompletes == CanTake ~> recv = "idle"

\* However receives are woken, cancelled, snapshotted and resumed, messages come
\* out as a queue with selective receive gives them: the oldest match first,
\* each once, none lost.
Pending == (IF snapshot = None THEN <<>> ELSE snapshot[1]) \o RestoreFound
Abstract == INSTANCE SelectiveReceive WITH pending <- Pending, want <- asked
ImplementsSelectiveReceive == Abstract!ASpec

-----------------------------------------------------------------------------
(* Why they hold when no message arrives inside a receive call. *)

Wanted(m) == Matching(asked.tags, m) /\ m \notin asked.skips

\* The receiver, its waker and what was found for it.
ReceiverInv ==
  /\ recv = "idle" <=> asked = NoReceive
  /\ recv # "idle" => tags = asked.tags /\ snapshot = None
  /\ recv # "pending" => ~woken
  /\ recv = "armed" => found = None
  /\ recv = "pending" => (woken <=> found # None) /\ (~woken => waker)

\* A found message belongs where it arrived; it is wanted, and nothing before it is.
FoundInv ==
  /\ found # None => ~waker /\ found[1].index <= Len(messages)
  /\ recv # "idle" =>
       /\ found # None => Wanted(found[1].message)
       /\ \A i \in 1 .. (IF found = None THEN Len(messages) ELSE found[1].index) : ~Wanted(messages[i])

\* What is not to be taken arrived before the receive was called.
NumberInv ==
  /\ \A m \in asked.skips : m.number <= arrived
  /\ \A i \in 1 .. Len(messages) : messages[i].number <= arrived
  /\ found # None => found[1].message.number <= arrived
  /\ snapshot # None => \A i \in 1 .. Len(snapshot[1]) : snapshot[1][i].number <= arrived

MailboxInv == MailboxTypeOK /\ ReceiverInv /\ FoundInv /\ NumberInv
=============================================================================
