---------------------------- MODULE MCMessages ----------------------------
(***************************************************************************)
(* The way of signals and messages into a process, for TLC: the bounded    *)
(* signal ingress and the mailbox behind it.  Two senders are enough for   *)
(* one to hold a channel slot it has not filled while the other's signals  *)
(* are drained; a channel of two slots is the smallest with a slot kept    *)
(* for control; two observer slots let a second monitor of one observer    *)
(* replace the first.  The mailbox is checked on its own: what the signal  *)
(* loop moves into it is any sequence of messages.                         *)
(***************************************************************************)
EXTENDS SignalIngress, MessageMailbox

VARIABLE part     \* the part that runs

allVars == <<part, vars, mailboxVars>>

\* One part runs; the others stay as they start.
PartInit ==
    /\ part \in {"ingress", "mailbox"}
    /\ Init
    /\ MailboxInit

PartNext ==
    /\ UNCHANGED part
    /\ \/ part = "ingress" /\ Next /\ UNCHANGED mailboxVars
       \/ part = "mailbox" /\ MailboxNext /\ UNCHANGED vars

\* The part that runs is as fair as its module says.
PartFairness ==
    /\ WF_vars(part = "ingress" /\ LoopStep)
    /\ \A s \in Sender : WF_vars(part = "ingress" /\ SenderStep(s))

PartSpec == PartInit /\ [][PartNext]_allVars /\ PartFairness
===========================================================================
