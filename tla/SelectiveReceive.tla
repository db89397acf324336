-------------------------- MODULE SelectiveReceive --------------------------
(***************************************************************************)
(* What a process expects of its mailbox: messages are kept in the order   *)
(* they arrived, and a receive takes the oldest one that carries a tag it  *)
(* asked for, waiting when there is none.  A receive that skips the search *)
(* considers only what arrives after the call.  Giving up a receive loses  *)
(* and reorders nothing.                                                   *)
(***************************************************************************)
EXTENDS Naturals, Sequences, SequencesExt

CONSTANTS Message,        \* records with a field tag
          Matching(_, _), \* Matching(tags, m): does a receive of tags take m?
          Filter,         \* what a receive may ask for
          NoReceive       \* no receive is waiting

VARIABLES pending,  \* messages in order of arrival
          want,     \* the waiting receive: what it asks for and may not take
          got       \* what the last receive returned

avars == <<pending, want, got>>

AInit == pending = <<>> /\ want = NoReceive /\ got = <<>>

Eligible(w) == {i \in DOMAIN pending :
                  Matching(w.tags, pending[i]) /\ pending[i] \notin w.skips}

\* The receive w takes the oldest message it may take.
Take(w) ==
  LET i == CHOOSE i \in Eligible(w) : \A j \in Eligible(w) : i <= j
  IN  /\ Eligible(w) # {}
      /\ pending' = RemoveAt(pending, i)
      /\ got' = <<pending[i]>>

AArrive == \E m \in Message : pending' = Append(pending, m) /\ UNCHANGED <<want, got>>

\* A receive that finds its message at once.
AReceive(tags) == want = NoReceive /\ Take([tags |-> tags, skips |-> {}]) /\ want' = want

\* A receive that has to wait, or will not look at what is there.
AWait(tags) ==
  /\ want = NoReceive
  /\ \/ /\ \A i \in DOMAIN pending : ~Matching(tags, pending[i])
        /\ want' = [tags |-> tags, skips |-> {}]
     \/ want' = [tags |-> tags, skips |-> ToSet(pending)]
  /\ got' = <<>> /\ UNCHANGED pending

AReturn == want # NoReceive /\ Take(want) /\ want' = NoReceive

\* A timeout, or the future of the receive is dropped.
ACancel == want # NoReceive /\ want' = NoReceive /\ got' = <<>> /\ UNCHANGED pending

ANext == AArrive \/ (\E t \in Filter : AReceive(t) \/ AWait(t)) \/ AReturn \/ ACancel

ASpec == AInit /\ [][ANext]_avars
=============================================================================
