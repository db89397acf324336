--------------------------- MODULE DeliveryProofs ---------------------------
(***************************************************************************)
(* The way of a message to another node: the lane delivers at most once    *)
(* and in order, and the queues before it keep what they accepted.         *)
(* Proofs for any number of messages, any cache size, any deadlines with   *)
(* Ttl > Window + Life, and any set of calls, routes, shards, lanes and    *)
(* limits.                                                                 *)
(*                                                                         *)
(* Delivery is an argument about time.  When an execution ends, its tombstone  *)
(* has age 0 and what is left of the sender's replay window is at most     *)
(* Window.  From then on age + window stays within Window, and for every   *)
(* attempt on the wire age + life stays within Window + Life < Ttl         *)
(* (TombstoneOutlives).  So as long as an attempt can be made or arrive    *)
(* the tombstone is fresh, the purge keeps it (PurgeSpec), and begin       *)
(* answers from it instead of starting a second execution.                 *)
(*                                                                         *)
(* The queues are an argument about who may change what: a gate has one    *)
(* holder, a channel with messages is the one its route's sender map       *)
(* names, the worker retires a channel only while it holds its gate and    *)
(* the channel is empty, and what is accepted is in one place (RouteInv).  *)
(*                                                                         *)
(* The server at the other end is an argument about amounts: a reservation *)
(* belongs to one message in flight, a step adds one, passes one on or     *)
(* removes those of a stream, and the sum over all is the size of the set  *)
(* of their units (ServerInv, BudgetMoves).                                *)
(***************************************************************************)
EXTENDS Delivery, RouteQueues, RequestServer, SequenceLemmas

-----------------------------------------------------------------------------
(* What VecDeque::retain leaves                                            *)

\* q holds the elements of the first n of s that are in S, each in the order it had.
Selects(q, s, n, S) ==
  /\ q \in Seq(S) /\ Len(q) <= n
  /\ \A j \in 1 .. n : s[j] \in S => \E i \in 1 .. Len(q) : q[i] = s[j]
  /\ \A i \in 1 .. Len(q) : \E j \in 1 .. n : q[i] = s[j]
  /\ \A i1, i2 \in 1 .. Len(q) : i1 < i2 =>
        \E j1, j2 \in 1 .. n : j1 < j2 /\ q[i1] = s[j1] /\ q[i2] = s[j2]

\* An element that is not in S adds nothing.
LEMMA SelectsSkip ==
  ASSUME NEW S, NEW s, NEW q, NEW n \in Nat, n # 0,
         Selects(q, s, n - 1, S), s[n] \notin S
  PROVE  Selects(q, s, n, S)
<1>1. \A j \in 1 .. n : s[j] \in S => j \in 1 .. n - 1
  OBVIOUS
<1>2. \A j \in 1 .. n - 1 : j \in 1 .. n
  OBVIOUS
<1>3. q \in Seq(S) /\ Len(q) <= n
  BY DEF Selects
<1>4. \A j \in 1 .. n : s[j] \in S => \E i \in 1 .. Len(q) : q[i] = s[j]
  BY <1>1 DEF Selects
<1>5. \A i \in 1 .. Len(q) : \E j \in 1 .. n : q[i] = s[j]
  BY <1>2 DEF Selects
<1>6. \A i1, i2 \in 1 .. Len(q) : i1 < i2 =>
        \E j1, j2 \in 1 .. n : j1 < j2 /\ q[i1] = s[j1] /\ q[i2] = s[j2]
  BY <1>2 DEF Selects
<1> QED  BY <1>3, <1>4, <1>5, <1>6 DEF Selects

\* An element that is in S goes to the end.
LEMMA SelectsTake ==
  ASSUME NEW S, NEW s, NEW q, NEW n \in Nat, n # 0,
         Selects(q, s, n - 1, S), s[n] \in S
  PROVE  Selects(Append(q, s[n]), s, n, S)
<1> DEFINE r == Append(q, s[n])
<1>1. q \in Seq(S) /\ Len(q) \in Nat /\ Len(q) <= n - 1
  BY DEF Selects
<1>2. /\ r \in Seq(S) /\ Len(r) = Len(q) + 1
      /\ \A i \in 1 .. Len(q) : r[i] = q[i]
      /\ r[Len(q) + 1] = s[n]
  BY <1>1
<1>3. \A j \in 1 .. n : j = n \/ j \in 1 .. n - 1
  OBVIOUS
<1>4. \A i \in 1 .. Len(r) : i = Len(q) + 1 \/ i \in 1 .. Len(q)
  BY <1>1, <1>2
<1>5. Len(q) + 1 \in 1 .. Len(r) /\ n \in 1 .. n
  BY <1>1, <1>2
<1>6. \A i \in 1 .. Len(q) : i \in 1 .. Len(r)
  BY <1>1, <1>2
<1>7. \A j \in 1 .. n - 1 : j \in 1 .. n /\ j < n
  OBVIOUS
<1> HIDE DEF r
<1>8. ASSUME NEW j \in 1 .. n, s[j] \in S
      PROVE  \E i \in 1 .. Len(r) : r[i] = s[j]
  <2>1. CASE j = n
    BY <2>1, <1>2, <1>5
  <2>2. CASE j \in 1 .. n - 1
    <3>1. PICK i \in 1 .. Len(q) : q[i] = s[j]
      BY <2>2, <1>8 DEF Selects
    <3> QED  BY <3>1, <1>2, <1>6
  <2> QED  BY <2>1, <2>2, <1>3
<1>9. ASSUME NEW i \in 1 .. Len(r)
      PROVE  \E j \in 1 .. n : r[i] = s[j]
  <2>1. CASE i = Len(q) + 1
    BY <2>1, <1>2, <1>5
  <2>2. CASE i \in 1 .. Len(q)
    <3>1. PICK j \in 1 .. n - 1 : q[i] = s[j]
      BY <2>2 DEF Selects
    <3> QED  BY <3>1, <2>2, <1>2, <1>7
  <2> QED  BY <2>1, <2>2, <1>4
<1>10. ASSUME NEW i1 \in 1 .. Len(r), NEW i2 \in 1 .. Len(r), i1 < i2
       PROVE  \E j1, j2 \in 1 .. n : j1 < j2 /\ r[i1] = s[j1] /\ r[i2] = s[j2]
  <2>1. i1 \in 1 .. Len(q) /\ r[i1] = q[i1]
    BY <1>10, <1>1, <1>2, <1>4
  <2>2. CASE i2 = Len(q) + 1
    <3>1. PICK j1 \in 1 .. n - 1 : q[i1] = s[j1]
      BY <2>1 DEF Selects
    <3> QED  BY <3>1, <2>1, <2>2, <1>2, <1>5, <1>7
  <2>3. CASE i2 \in 1 .. Len(q)
    <3>1. PICK j1 \in 1 .. n - 1, j2 \in 1 .. n - 1 :
            j1 < j2 /\ q[i1] = s[j1] /\ q[i2] = s[j2]
      BY <2>1, <2>3, <1>10 DEF Selects
    <3> QED  BY <3>1, <2>1, <2>3, <1>2, <1>7
  <2> QED  BY <2>2, <2>3, <1>4
<1>11. Len(r) <= n
  BY <1>1, <1>2
<1>12. Selects(r, s, n, S)
  BY <1>2, <1>8, <1>9, <1>10, <1>11 DEF Selects
<1> QED  BY <1>12 DEF r

\* What retain leaves: the elements in S, each in the order it had.
LEMMA RetainSpec ==
  ASSUME NEW T, NEW s \in Seq(T), NEW S
  PROVE  Selects(Retain(s, S), s, Len(s), S)
<1> DEFINE Step(g, i) == IF i = 0 THEN <<>>
                         ELSE IF s[i] \in S THEN Append(g[i - 1], s[i]) ELSE g[i - 1]
           Upto(n) == \E g \in [0 .. n -> Seq(T)] : \A i \in 0 .. n : g[i] = Step(g, i)
           kept == CHOOSE g : g = [i \in 0 .. Len(s) |-> Step(g, i)]
<1>0. Len(s) \in Nat /\ s \in [1 .. Len(s) -> T]
  OBVIOUS
<1>1. \A n \in 0 .. Len(s) : Upto(n)
  <2> DEFINE Wrong == {n \in 0 .. Len(s) : ~Upto(n)}
  <2> SUFFICES ASSUME Wrong # {} PROVE FALSE
    OBVIOUS
  <2>1. PICK n \in Wrong : \A k \in Wrong : n <= k
    <3>1. Wrong \in SUBSET Nat
      BY <1>0
    <3> HIDE DEF Wrong
    <3> QED  BY <3>1, LeastNat
  <2>2. CASE n = 0
    <3>1. [i \in 0 .. 0 |-> <<>>] \in [0 .. 0 -> Seq(T)]
      OBVIOUS
    <3>2. Upto(0)
      <4> WITNESS [i \in 0 .. 0 |-> <<>>] \in [0 .. 0 -> Seq(T)]
      <4> QED  OBVIOUS
    <3> QED  BY <2>2, <3>2
  <2>3. CASE n # 0
    <3>1. n \in 1 .. Len(s) /\ n - 1 \in 0 .. Len(s)
      BY <2>3, <1>0
    <3>2. n - 1 \notin Wrong
      <4> HIDE DEF Wrong
      <4> QED  BY <2>1, <3>1, <1>0
    <3>3. PICK g \in [0 .. n - 1 -> Seq(T)] : \A i \in 0 .. n - 1 : g[i] = Step(g, i)
      BY <3>1, <3>2
    <3> DEFINE h == [i \in 0 .. n |-> IF i = n THEN Step(g, n) ELSE g[i]]
    <3>4. Step(g, n) \in Seq(T)
      BY <3>1, <3>3, <1>0
    <3>5. h \in [0 .. n -> Seq(T)]
      <4> HIDE DEF Step
      <4> QED  BY <3>1, <3>3, <3>4
    <3>6. ASSUME NEW i \in 0 .. n PROVE h[i] = Step(h, i)
      <4>1. i # 0 => i - 1 \in 0 .. n - 1 /\ h[i - 1] = g[i - 1]
        BY <3>1, <3>6
      <4>2. CASE i = n
        BY <4>1, <4>2, <3>1
      <4>3. CASE i # n
        <5>1. i \in 0 .. n - 1 /\ h[i] = g[i]
          BY <4>3, <3>1, <3>6
        <5>2. g[i] = Step(g, i)
          BY <5>1, <3>3
        <5> QED  BY <5>1, <5>2, <4>1
      <4> QED  BY <4>2, <4>3
    <3>7. Upto(n)
      <4> HIDE DEF h
      <4> WITNESS h \in [0 .. n -> Seq(T)]
      <4> QED  BY <3>6
    <3> QED  BY <3>7
  <2> QED  BY <2>2, <2>3
<1>2. kept = [i \in 0 .. Len(s) |-> Step(kept, i)]
  <2>1. PICK g \in [0 .. Len(s) -> Seq(T)] : \A i \in 0 .. Len(s) : g[i] = Step(g, i)
    <3>1. Upto(Len(s))
      <4> HIDE DEF Upto
      <4> QED  BY <1>0, <1>1
    <3> QED  BY <3>1
  <2>2. g = [i \in 0 .. Len(s) |-> Step(g, i)]
    <3> HIDE DEF Step
    <3> QED  BY <2>1
  <2> HIDE DEF Step
  <2> QED  BY <2>2
<1>3. Retain(s, S) = kept[Len(s)]
  BY DEF Retain
<1> HIDE DEF kept
<1>4. \A n \in 0 .. Len(s) : Selects(kept[n], s, n, S)
  <2> DEFINE Wrong == {n \in 0 .. Len(s) : ~Selects(kept[n], s, n, S)}
  <2> SUFFICES ASSUME Wrong # {} PROVE FALSE
    OBVIOUS
  <2>1. PICK n \in Wrong : \A k \in Wrong : n <= k
    <3>1. Wrong \in SUBSET Nat
      BY <1>0
    <3> HIDE DEF Wrong
    <3> QED  BY <3>1, LeastNat
  <2>2. CASE n = 0
    <3>1. kept[0] = <<>>
      BY <1>0, <1>2
    <3>2. Selects(<<>>, s, 0, S)
      BY DEF Selects
    <3> QED  BY <2>2, <3>1, <3>2
  <2>3. CASE n # 0
    <3>1. n \in Nat /\ n - 1 \in 0 .. Len(s) /\ n \in 0 .. Len(s)
      BY <2>3, <1>0
    <3>2. Selects(kept[n - 1], s, n - 1, S)
      BY <2>1, <3>1, <1>0
    <3>3. kept[n] = Step(kept, n)
      <4> HIDE DEF Step
      <4> QED  BY <1>2, <3>1
    <3>4. kept[n] = IF s[n] \in S THEN Append(kept[n - 1], s[n]) ELSE kept[n - 1]
      BY <3>3, <2>3
    <3>5. CASE s[n] \notin S
      BY <3>1, <3>2, <3>4, <3>5, <2>3, SelectsSkip
    <3>6. CASE s[n] \in S
      BY <3>1, <3>2, <3>4, <3>6, <2>3, SelectsTake
    <3> QED  BY <3>5, <3>6
  <2> QED  BY <2>2, <2>3
<1> HIDE DEF Step
<1> QED  BY <1>0, <1>3, <1>4

-----------------------------------------------------------------------------
(* The inductive invariant                                                 *)

Typed ==
    /\ queue \in Seq(Messages) /\ retry \in Seq(Messages) /\ flight \in {0} \cup Messages
    /\ window \in [Messages -> -1..Window] /\ tries \in [Messages -> Nat]
    /\ acked \subseteq Messages /\ fate \in [Messages -> {"held", "acked", "expired"}]
    /\ wire \subseteq [msg : Messages, try : Nat, life : 0..Life]
    /\ replies \subseteq Messages \X Answers
    /\ call \in [Messages -> Answers \cup {"waiting"}]
    /\ entry \in [Messages -> {"none", "running", "done"}]
    /\ answer \in [Messages -> Answers \cup {"none"}]
    /\ age \in [Messages -> 0..Ttl] /\ order \in Seq(Messages)
    /\ handler \in [Messages -> {"idle", "queued", "inside"}]
    /\ waiting \subseteq Messages /\ executed \in Seq(Messages)

\* The last message the stream task took from the lane's queue.
Current == N - Len(queue)

\* The lane works on one message at a time and goes on only when it is released.
LaneInOrder ==
    /\ Len(queue) <= N
    /\ \A i \in 1..Len(queue) : queue[i] = Current + i
    /\ flight # 0 => flight = Current /\ retry = <<>> /\ fate[flight] = "held"
    /\ retry # <<>> => Len(retry) = 1 /\ retry[1] = Current /\ fate[retry[1]] = "held"
    /\ \A m \in Messages :
        /\ m > Current => window[m] = -1 /\ fate[m] = "held"
        /\ m < Current => fate[m] # "held"
        /\ m = Current /\ flight = 0 /\ retry = <<>> => fate[m] # "held"

\* Only what was attempted is known to the network and to the peer.
OnlyAttempted ==
    /\ \A a \in wire : window[a.msg] # -1
    /\ \A m \in Messages : entry[m] # "none" \/ answer[m] # "none" => window[m] # -1

\* An execution has the entry of its message, which it completes once.
EntriesMatch ==
    \A m \in Messages :
        /\ handler[m] # "idle" <=> entry[m] = "running"
        /\ entry[m] = "running" => answer[m] = "none"
        /\ entry[m] = "done" => answer[m] # "none"
        /\ m \in ToSet(executed) <=> answer[m] = "sent"

\* Replies, acknowledgements and results repeat what the execution ended with.
RepliesMatch ==
    /\ \A r \in replies : r[2] = "busy" \/ r[2] = answer[r[1]]
    /\ \A m \in acked : <<m, "busy">> \in replies \/ answer[m] # "none"
    /\ \A m \in Messages :
        /\ fate[m] = "acked" => m \in acked
        /\ call[m] \in {"sent", "refused"} => answer[m] = call[m]

\* A completed message keeps its tombstone for as long as an attempt of it can
\* still be made or can still arrive.
TombstoneOutlives ==
    \A m \in Messages : answer[m] # "none" =>
        /\ window[m] > 0 => entry[m] = "done" /\ age[m] + window[m] <= Window
        /\ \A a \in wire : a.msg = m => entry[m] = "done" /\ age[m] + a.life <= Window + Life

Inv == /\ Typed /\ LaneInOrder /\ OnlyAttempted /\ EntriesMatch /\ RepliesMatch
       /\ TombstoneOutlives /\ TombstonesExpire /\ LaneFifo /\ AtMostOnce

\* The constants are positive and related as DeliveryAssumption says.
LEMMA ConstantsOK ==
    /\ N \in Nat /\ Window \in Nat /\ Life \in Nat /\ Ttl \in Nat
    /\ Window > 0 /\ Life > 0 /\ Ttl > Window + Life
<1>1. {N, Window, Life, Ttl, MaxTries} \subseteq Nat \ {0} /\ Ttl > Window + Life
  BY DeliveryAssumption
<1> QED  BY <1>1

\* The initial states satisfy the invariant.
LEMMA InvInit == Init => Inv
<1> SUFFICES ASSUME Init PROVE Inv
  OBVIOUS
<1> USE ConstantsOK DEF Init, Messages
<1>1. Len(queue) = N /\ queue \in Seq(Messages)
  OBVIOUS
<1>2. Typed
  BY <1>1 DEF Typed, Answers
<1>3. LaneInOrder
  BY <1>1 DEF LaneInOrder, Current
<1>4. OnlyAttempted /\ RepliesMatch /\ TombstoneOutlives
  BY DEF OnlyAttempted, RepliesMatch, TombstoneOutlives
<1>5. EntriesMatch
  BY DEF EntriesMatch, ToSet
<1>6. TombstonesExpire /\ LaneFifo /\ AtMostOnce
  BY DEF TombstonesExpire, LaneFifo, AtMostOnce, IsInjective, ToSet
<1> QED  BY <1>2, <1>3, <1>4, <1>5, <1>6 DEF Inv

-----------------------------------------------------------------------------
(* The sending node                                                        *)

\* LaneFifo survives what neither executes nor takes back a fate or a reply.
LEMMA FifoKept ==
    ASSUME LaneFifo, executed' = executed, replies \subseteq replies', executed \in Seq(Messages),
           \A m \in Messages : fate[m] = "expired" => fate'[m] = "expired"
    PROVE  LaneFifo'
BY DEF LaneFifo

\* Reaping the retry queue and connecting.
LEMMA ReconnectInv == Inv /\ Reconnect => Inv'
<1> SUFFICES ASSUME Inv, Reconnect PROVE Inv'
  OBVIOUS
<1> USE ConstantsOK
<1> DEFINE S == {m \in Messages : ~Terminal(m)}
<1>1. Typed /\ LaneInOrder
  BY DEF Inv
<1>0. Selects(Retain(retry, S), retry, Len(retry), S)
  BY <1>1, RetainSpec DEF Typed
<1>2. PICK r : r = Retain(retry, S) /\ Selects(r, retry, Len(retry), S)
  BY <1>0
<1>3. retry' = r /\ UNCHANGED <<queue, flight, window, tries, acked, wire, replies, call, entry,
        answer, age, order, capacity, handler, waiting, executed>>
  BY <1>2 DEF Reconnect, server, cache
<1>4. \A m \in Messages : fate'[m] = IF m \in ToSet(retry) /\ Terminal(m) THEN Why(m) ELSE fate[m]
  BY DEF Reconnect
<1>5. \A m \in Messages : Why(m) \in {"acked", "expired"} /\ (Why(m) = "acked" => m \in acked)
  BY DEF Why
<1>6. r \in Seq(Messages) /\ Len(r) \in Nat /\ Len(r) <= Len(retry)
  <2>1. r \in Seq(S) /\ Len(r) <= Len(retry)
    BY <1>2 DEF Selects
  <2> QED  BY <2>1
<1>7. Typed'
  <2>1. fate' \in [Messages -> {"held", "acked", "expired"}]
    BY <1>1, <1>5 DEF Reconnect, Typed
  <2> QED  BY <1>1, <1>3, <1>6, <2>1 DEF Typed
<1>8. r # <<>> => Len(r) = 1 /\ Len(retry) = 1 /\ r[1] = retry[1] /\ ~Terminal(retry[1])
  <2> SUFFICES ASSUME r # <<>> PROVE Len(r) = 1 /\ Len(retry) = 1 /\ r[1] = retry[1] /\ ~Terminal(retry[1])
    OBVIOUS
  <2>0. Len(r) # 0
    BY <1>6, EmptySeq
  <2>4. retry # <<>>
    BY <1>6, <2>0
  <2>5. Len(retry) = 1
    BY <1>1, <2>4 DEF LaneInOrder
  <2>6. \A n \in Nat : n <= 1 /\ n # 0 => n = 1
    OBVIOUS
  <2>7. Len(r) = 1
    BY <1>6, <2>0, <2>5, <2>6, Zenon
  <2>1. Len(r) >= 1 /\ Len(retry) = 1 /\ Len(r) = 1
    BY <2>5, <2>7
  <2>2. PICK j \in 1..Len(retry) : r[1] = retry[j]
    BY <1>2, <2>1 DEF Selects
  <2>3. r[1] \in S
    BY <1>2, <2>1 DEF Selects
  <2> QED  BY <2>1, <2>2, <2>3
<1>9. r = <<>> /\ retry # <<>> => Terminal(retry[1]) /\ retry[1] \in ToSet(retry)
  <2> SUFFICES ASSUME r = <<>>, retry # <<>> PROVE Terminal(retry[1]) /\ retry[1] \in ToSet(retry)
    OBVIOUS
  <2>1. 1 \in 1..Len(retry) /\ 1 \in DOMAIN retry /\ retry[1] \in Messages
    BY <1>1 DEF LaneInOrder, Typed
  <2>2. retry[1] \notin S
    BY <1>2, <2>1 DEF Selects
  <2> QED  BY <2>1, <2>2 DEF ToSet
<1>10. \A m \in ToSet(retry) : m = Current /\ retry # <<>>
  BY <1>1 DEF ToSet, LaneInOrder, Typed
<1>11. Current \in Int /\ Current' = Current
  BY <1>1, <1>3 DEF Current, Typed
<1>12. LaneInOrder'
  <2>1. /\ Len(queue') <= N
        /\ \A i \in 1..Len(queue') : queue'[i] = Current' + i
    BY <1>1, <1>3, <1>11 DEF LaneInOrder
  <2>2. flight' # 0 => flight' = Current' /\ retry' = <<>> /\ fate'[flight'] = "held"
    <3> SUFFICES ASSUME flight # 0 PROVE flight = Current /\ r = <<>> /\ fate'[flight] = "held"
      BY <1>3, <1>11
    <3>1. flight = Current /\ retry = <<>> /\ fate[flight] = "held" /\ flight \in Messages
      BY <1>1 DEF LaneInOrder, Typed
    <3>2. r = <<>> /\ flight \notin ToSet(retry)
      BY <3>1, <1>8, <1>10
    <3> QED  BY <3>1, <3>2, <1>4
  <2>3. retry' # <<>> => Len(retry') = 1 /\ retry'[1] = Current' /\ fate'[retry'[1]] = "held"
    <3> SUFFICES ASSUME r # <<>> PROVE Len(r) = 1 /\ r[1] = Current /\ fate'[r[1]] = "held"
      BY <1>3, <1>11
    <3>1. retry # <<>>
      BY <1>8
    <3>2. retry[1] = Current /\ fate[retry[1]] = "held" /\ retry[1] \in Messages
      BY <1>1, <1>8, <3>1 DEF LaneInOrder, Typed
    <3> QED  BY <1>4, <1>8, <3>2
  <2>4. ASSUME NEW m \in Messages
        PROVE  /\ m > Current' => window'[m] = -1 /\ fate'[m] = "held"
               /\ m < Current' => fate'[m] # "held"
               /\ m = Current' /\ flight' = 0 /\ retry' = <<>> => fate'[m] # "held"
    <3>1. m \in Int /\ (m # Current => fate'[m] = fate[m])
      BY <1>4, <1>10 DEF Messages
    <3>2. (m > Current => window[m] = -1 /\ fate[m] = "held") /\ (m < Current => fate[m] # "held")
      BY <1>1 DEF LaneInOrder
    <3>3. m = Current /\ flight = 0 /\ r = <<>> => fate'[m] # "held"
      <4> SUFFICES ASSUME m = Current, flight = 0, r = <<>> PROVE fate'[m] # "held"
        OBVIOUS
      <4>1. CASE retry = <<>>
        <5>1. fate[m] # "held"
          BY <1>1, <4>1 DEF LaneInOrder
        <5>2. m \notin ToSet(retry)
          BY <4>1, <1>10
        <5> QED  BY <5>1, <5>2, <1>4
      <4>2. CASE retry # <<>>
        <5>1. retry[1] = m
          BY <1>1, <4>2 DEF LaneInOrder
        <5> QED  BY <5>1, <4>2, <1>4, <1>5, <1>9
      <4> QED  BY <4>1, <4>2
    <3> QED  BY <1>3, <1>11, <3>1, <3>2, <3>3
  <2> QED  BY <2>1, <2>2, <2>3, <2>4 DEF LaneInOrder
<1>13. RepliesMatch'
  BY <1>3, <1>4, <1>5 DEF Inv, RepliesMatch
<1>14. LaneFifo'
  <2>1. \A m \in Messages : fate[m] = "expired" => fate'[m] = "expired"
    BY <1>1, <1>4, <1>10 DEF LaneInOrder
  <2> QED  BY <1>1, <1>3, <2>1, FifoKept DEF Inv, Typed
<1>15. OnlyAttempted' /\ EntriesMatch' /\ TombstoneOutlives' /\ TombstonesExpire' /\ AtMostOnce'
  BY <1>3 DEF Inv, OnlyAttempted, EntriesMatch, TombstoneOutlives, TombstonesExpire, AtMostOnce
<1> QED  BY <1>7, <1>12, <1>13, <1>14, <1>15 DEF Inv

\* PutBack only moves the message in flight to the empty retry queue.
LEMMA PutBackInv ==
    ASSUME Inv, PutBack, UNCHANGED <<queue, window, tries, fate, acked, wire, replies, call, server>>
    PROVE  Inv'
<1> USE ConstantsOK
<1>1. Typed /\ LaneInOrder
  BY DEF Inv
<1>2. UNCHANGED <<queue, window, tries, fate, acked, wire, replies, call, entry, answer, age, order,
                  handler, waiting, executed>>
  BY DEF server, cache
<1>3. flight' = 0 /\ retry' = IF flight = 0 THEN retry ELSE <<flight>>
  <2>1. CASE flight = 0
    BY <2>1 DEF PutBack
  <2>2. CASE flight # 0
    <3>1. retry = <<>> /\ flight \in Messages
      BY <1>1, <2>2 DEF LaneInOrder, Typed
    <3>2. <<flight>> \in Seq(Messages)
      BY <3>1
    <3>3. <<flight>> \o retry = <<flight>>
      BY <3>1, <3>2, ConcatEmptySeq
    <3> QED  BY <2>2, <3>3 DEF PutBack
  <2> QED  BY <2>1, <2>2
<1>4. Typed'
  <2>1. retry' \in Seq(Messages) /\ flight' \in {0} \cup Messages
    BY <1>1, <1>3 DEF Typed
  <2> QED  BY <1>1, <1>2, <2>1 DEF Typed
<1>5. LaneInOrder'
  BY <1>1, <1>2, <1>3 DEF LaneInOrder, Current, Typed, Messages
<1>6. OnlyAttempted' /\ EntriesMatch' /\ TombstoneOutlives' /\ TombstonesExpire' /\ AtMostOnce'
  BY <1>2 DEF Inv, OnlyAttempted, EntriesMatch, TombstoneOutlives, TombstonesExpire, AtMostOnce
<1>7. RepliesMatch' /\ LaneFifo'
  BY <1>2 DEF Inv, RepliesMatch, LaneFifo
<1> QED  BY <1>4, <1>5, <1>6, <1>7 DEF Inv

\* Taking the next message, with its first or a further attempt.
LEMMA TakeMessageInv == Inv /\ TakeMessage => Inv'
<1> SUFFICES ASSUME Inv, TakeMessage PROVE Inv'
  OBVIOUS
<1> USE ConstantsOK
<1> DEFINE m == Head(retry \o queue)
<1>1. Typed /\ LaneInOrder
  BY DEF Inv
<1>2. /\ flight = 0 /\ retry \o queue # <<>>
      /\ IF retry # <<>> THEN retry' = Tail(retry) /\ queue' = queue
                         ELSE queue' = Tail(queue) /\ retry' = retry
      /\ UNCHANGED <<acked, replies, call, entry, answer, age, order, handler, waiting, executed>>
  BY DEF TakeMessage, server, cache
<1>3. \/ Terminal(m) /\ fate' = [fate EXCEPT ![m] = Why(m)] /\ UNCHANGED <<flight, window, tries, wire>>
      \/ ~Terminal(m) /\ flight' = m /\ StartReplayWindow(m) /\ SendOnFreshStream(m) /\ UNCHANGED fate
  BY DEF TakeMessage
<1>4. /\ queue' \in Seq(Messages) /\ retry' = <<>> /\ m \in Messages
      /\ m = N - Len(queue') /\ Len(queue') <= N
      /\ \A i \in 1..Len(queue') : queue'[i] = N - Len(queue') + i
      /\ fate[m] = "held"
      /\ \A x \in Messages : /\ x > m => window[x] = -1 /\ fate[x] = "held"
                             /\ x < m => fate[x] # "held"
  <2>1. CASE retry # <<>>
    <3>1. Len(retry) = 1 /\ retry[1] = Current /\ queue' = queue /\ retry' = Tail(retry)
      BY <1>1, <1>2, <2>1 DEF LaneInOrder
    <3>2. Head(retry \o queue) = retry[1] /\ retry[1] \in Messages
      BY <1>1, <2>1, FrontOfQueue, HeadOfConcat DEF Typed
    <3>3. Tail(retry) = <<>>
      BY <1>1, <3>1, TailOfOne DEF Typed
    <3>4. m = N - Len(queue) /\ m \in Messages /\ retry' = <<>> /\ queue' = queue
      BY <3>1, <3>2, <3>3 DEF Current
    <3> HIDE DEF m
    <3>5. /\ queue' \in Seq(Messages) /\ Len(queue) <= N
          /\ \A i \in 1..Len(queue) : queue[i] = N - Len(queue) + i
      BY <1>1, <3>4 DEF LaneInOrder, Current, Typed
    <3>6. /\ fate[m] = "held"
          /\ \A x \in Messages : /\ x > m => window[x] = -1 /\ fate[x] = "held"
                                 /\ x < m => fate[x] # "held"
      BY <1>1, <1>2, <2>1, <3>4 DEF LaneInOrder, Current
    <3> QED  BY <3>4, <3>5, <3>6
  <2>2. CASE retry = <<>>
    <3>1. retry \o queue = queue /\ queue # <<>> /\ queue' = Tail(queue) /\ retry' = <<>>
      BY <1>1, <1>2, <2>2, ConcatEmptySeq DEF Typed
    <3>2. /\ queue' \in Seq(Messages) /\ Len(queue) \in Nat /\ Len(queue) > 0
          /\ Len(queue') = Len(queue) - 1
          /\ \A i \in 1..Len(queue') : queue'[i] = queue[i + 1]
      <4>1. /\ Tail(queue) \in Seq(Messages) /\ Len(queue) \in Nat /\ Len(queue) >= 1
            /\ Len(Tail(queue)) = Len(queue) - 1
            /\ \A i \in 1..Len(queue) - 1 : Tail(queue)[i] = queue[i + 1]
        BY <1>1, <3>1, FrontOfQueue DEF Typed
      <4> QED  BY <3>1, <4>1
    <3>3. m = queue[1] /\ m = Current + 1 /\ m \in Messages
      <4>1. m = queue[1] /\ m \in Messages
        BY <1>1, <3>1, FrontOfQueue DEF Typed
      <4>2. 1 \in 1..Len(queue)
        BY <3>2
      <4> HIDE DEF m
      <4> QED  BY <1>1, <4>1, <4>2 DEF LaneInOrder
    <3>4. \A i \in 1..Len(queue') : queue'[i] = N - Len(queue') + i
      BY <1>1, <3>2 DEF LaneInOrder, Current
    <3>5. Current \in Int /\ N - Len(queue') = Current + 1 /\ Len(queue') <= N
      BY <1>1, <3>2 DEF Current, LaneInOrder
    <3> HIDE DEF m
    <3>6. m > Current
      BY <3>3, <3>5
    <3>7. fate[m] = "held"
      BY <1>1, <3>3, <3>6 DEF LaneInOrder
    <3>8. ASSUME NEW x \in Messages
          PROVE  /\ x > m => window[x] = -1 /\ fate[x] = "held"
                 /\ x < m => fate[x] # "held"
      <4>1. x \in Int /\ (x > m => x > Current) /\ (x < m => x < Current \/ x = Current)
        BY <3>3, <3>5 DEF Messages
      <4> QED  BY <1>1, <1>2, <2>2, <4>1 DEF LaneInOrder
    <3> QED  BY <3>1, <3>2, <3>3, <3>4, <3>5, <3>7, <3>8
  <2> QED  BY <2>1, <2>2
<1> HIDE DEF m
<1>5. m # 0 /\ m \in Int
  BY <1>4 DEF Messages
<1>6. CASE Terminal(m)
  <2>1. fate' = [fate EXCEPT ![m] = Why(m)] /\ UNCHANGED <<flight, window, tries, wire>>
    BY <1>3, <1>6
  <2>2. Why(m) \in {"acked", "expired"} /\ (Why(m) = "acked" => m \in acked)
    BY DEF Why
  <2>3. Typed'
    <3>1. fate' \in [Messages -> {"held", "acked", "expired"}]
      BY <1>1, <1>4, <2>1, <2>2 DEF Typed
    <3>2. retry' \in Seq(Messages)
      BY <1>4
    <3> QED  BY <1>1, <1>2, <1>4, <2>1, <3>1, <3>2 DEF Typed
  <2>4. LaneInOrder'
    BY <1>1, <1>2, <1>4, <1>5, <2>1, <2>2 DEF LaneInOrder, Current, Typed
  <2>5. RepliesMatch'
    BY <1>1, <1>2, <1>4, <2>1, <2>2 DEF Inv, RepliesMatch, Typed
  <2>6. LaneFifo'
    <3>1. \A x \in Messages : fate[x] = "expired" => fate'[x] = "expired"
      BY <1>1, <1>4, <2>1 DEF Typed
    <3> QED  BY <1>1, <1>2, <3>1, FifoKept DEF Inv, Typed
  <2>7. OnlyAttempted' /\ EntriesMatch' /\ TombstoneOutlives' /\ TombstonesExpire' /\ AtMostOnce'
    BY <1>2, <2>1 DEF Inv, OnlyAttempted, EntriesMatch, TombstoneOutlives, TombstonesExpire, AtMostOnce
  <2> QED  BY <2>3, <2>4, <2>5, <2>6, <2>7 DEF Inv
<1>7. CASE ~Terminal(m)
  <2>1. /\ flight' = m /\ fate' = fate
        /\ window' = [window EXCEPT ![m] = IF @ = -1 THEN Window ELSE @]
    BY <1>3, <1>7 DEF StartReplayWindow
  <2>2. /\ tries' \in [Messages -> Nat]
        /\ \E t \in Nat : wire' \subseteq wire \cup {[msg |-> m, try |-> t, life |-> Life]}
    <3>1. SendOnFreshStream(m) /\ tries \in [Messages -> Nat]
      BY <1>1, <1>3, <1>7 DEF Typed
    <3>2. CASE AttemptsLeft
      <4>1. /\ tries' = [tries EXCEPT ![m] = @ + 1]
            /\ wire' = wire \cup {[msg |-> m, try |-> tries[m] + 1, life |-> Life]}
        BY <3>1, <3>2 DEF SendOnFreshStream
      <4>2. tries[m] + 1 \in Nat
        BY <1>4, <3>1
      <4> QED  BY <3>1, <4>1, <4>2
    <3>3. CASE ~AttemptsLeft
      BY <3>1, <3>3 DEF SendOnFreshStream
    <3> QED  BY <3>2, <3>3
  <2>3. PICK t \in Nat : wire' \subseteq wire \cup {[msg |-> m, try |-> t, life |-> Life]}
    BY <2>2
  <2>4. /\ window' \in [Messages -> -1..Window]
        /\ \A x \in Messages : x # m => window'[x] = window[x]
        /\ window'[m] = IF window[m] = -1 THEN Window ELSE window[m]
    BY <1>1, <1>4, <2>1 DEF Typed
  <2>5. window[m] # 0 /\ window[m] \in -1..Window
    BY <1>1, <1>4, <1>7 DEF Terminal, Expired, Typed
  <2>6. \A a \in wire' : a \in wire \/ (a.msg = m /\ a.life = Life /\ a \in [msg : Messages, try : Nat, life : 0..Life])
    BY <1>4, <2>3
  <2>7. Typed'
    <3>1. wire' \subseteq [msg : Messages, try : Nat, life : 0..Life]
      BY <1>1, <2>6 DEF Typed
    <3>2. retry' \in Seq(Messages) /\ flight' \in {0} \cup Messages
      BY <1>4, <2>1
    <3> QED  BY <1>1, <1>2, <1>4, <2>1, <2>2, <2>4, <3>1, <3>2 DEF Typed
  <2>8. LaneInOrder'
    <3>1. Current' = m
      BY <1>4 DEF Current
    <3>2. \A x \in Messages : x \in Int /\ (x > m => window'[x] = -1)
      <4>1. \A x \in Messages : x \in Int
        BY DEF Messages
      <4> QED  BY <1>4, <1>5, <2>4, <4>1
    <3> QED  BY <1>2, <1>4, <1>5, <2>1, <3>1, <3>2 DEF LaneInOrder
  <2>9. OnlyAttempted'
    <3>1. window'[m] # -1
      BY <2>4, <2>5
    <3> QED  BY <1>1, <1>2, <2>4, <2>6, <3>1 DEF Inv, OnlyAttempted, Typed
  <2>10. TombstoneOutlives'
    <3> SUFFICES ASSUME NEW x \in Messages, answer[x] # "none"
                 PROVE  /\ window'[x] > 0 => entry[x] = "done" /\ age[x] + window'[x] <= Window
                        /\ \A a \in wire' : a.msg = x => entry[x] = "done" /\ age[x] + a.life <= Window + Life
      BY <1>2 DEF TombstoneOutlives
    <3>1. window'[x] = window[x]
      BY <2>4 DEF Inv, OnlyAttempted
    <3>2. window'[x] > 0 => entry[x] = "done" /\ age[x] + window'[x] <= Window
      BY <3>1 DEF Inv, TombstoneOutlives
    <3>3. ASSUME NEW a \in wire', a.msg = x
          PROVE  entry[x] = "done" /\ age[x] + a.life <= Window + Life
      <4>1. CASE a \in wire
        BY <3>3, <4>1 DEF Inv, TombstoneOutlives
      <4>2. CASE a.msg = m /\ a.life = Life
        <5>1. window[x] > 0 /\ x = m /\ age[x] \in Nat /\ window[x] \in Int
          BY <1>1, <3>3, <4>2, <2>5 DEF Inv, OnlyAttempted, Typed
        <5> QED  BY <5>1, <3>1, <3>2, <4>2
      <4> QED  BY <2>6, <4>1, <4>2
    <3> QED  BY <3>2, <3>3
  <2>11. EntriesMatch' /\ RepliesMatch' /\ TombstonesExpire' /\ LaneFifo' /\ AtMostOnce'
    BY <1>2, <2>1 DEF Inv, EntriesMatch, RepliesMatch, TombstonesExpire, LaneFifo, AtMostOnce
  <2> QED  BY <2>7, <2>8, <2>9, <2>10, <2>11 DEF Inv
<1> QED  BY <1>6, <1>7

\* The end of a send by acknowledgement or deadline.
LEMMA CommitInv == Inv /\ Commit => Inv'
<1> SUFFICES ASSUME Inv, Commit PROVE Inv'
  OBVIOUS
<1> USE ConstantsOK
<1>1. Typed /\ LaneInOrder
  BY DEF Inv
<1>2. /\ flight # 0 /\ flight \in Messages
      /\ fate' = [fate EXCEPT ![flight] = Why(flight)] /\ flight' = 0
      /\ UNCHANGED <<queue, retry, window, tries, acked, wire, replies, call, entry, answer, age, order,
                     handler, waiting, executed>>
  BY <1>1 DEF Commit, server, cache, Typed
<1>3. Why(flight) \in {"acked", "expired"} /\ (Why(flight) = "acked" => flight \in acked)
  BY DEF Why
<1>4. Typed'
  BY <1>1, <1>2, <1>3 DEF Typed
<1>5. LaneInOrder'
  <2>1. Current' = Current /\ Current \in Int /\ flight = Current /\ retry = <<>>
    BY <1>1, <1>2 DEF LaneInOrder, Current, Typed
  <2>2. fate'[flight] # "held" /\ \A x \in Messages : x # flight => fate'[x] = fate[x]
    BY <1>1, <1>2, <1>3 DEF Typed
  <2>3. \A x \in Messages : x \in Int
    BY DEF Messages
  <2> QED  BY <1>1, <1>2, <2>1, <2>2, <2>3 DEF LaneInOrder
<1>6. RepliesMatch'
  BY <1>1, <1>2, <1>3 DEF Inv, RepliesMatch, Typed
<1>7. LaneFifo'
  <2>1. \A x \in Messages : fate[x] = "expired" => fate'[x] = "expired"
    BY <1>1, <1>2 DEF Typed, LaneInOrder
  <2> QED  BY <1>1, <1>2, <2>1, FifoKept DEF Inv, Typed
<1>8. OnlyAttempted' /\ EntriesMatch' /\ TombstoneOutlives' /\ TombstonesExpire' /\ AtMostOnce'
  BY <1>2 DEF Inv, OnlyAttempted, EntriesMatch, TombstoneOutlives, TombstonesExpire, AtMostOnce
<1> QED  BY <1>4, <1>5, <1>6, <1>7, <1>8 DEF Inv

\* A response, or the expiry of a call.
LEMMA ResponseInv == Inv /\ (RecvResponse \/ ExpireResponses) => Inv'
<1> SUFFICES ASSUME Inv, RecvResponse \/ ExpireResponses PROVE Inv'
  OBVIOUS
<1>1. Typed /\ RepliesMatch
  BY DEF Inv
<1>2. UNCHANGED <<queue, retry, flight, window, tries, fate, wire, replies, entry, answer, age, order,
                  handler, waiting, executed>>
  BY DEF RecvResponse, ExpireResponses, sender, server, cache
<1>3. Typed' /\ RepliesMatch'
  <2>1. CASE RecvResponse
    <3>1. PICK r \in replies : Acknowledge(r[1]) /\ (DeliverResponse(r[1], r[2]) \/ UNCHANGED call)
      BY <2>1 DEF RecvResponse
    <3>2. r[1] \in Messages /\ r[2] \in Answers /\ r = <<r[1], r[2]>>
      BY <1>1 DEF Typed
    <3>3. acked' \subseteq acked \cup {r[1]} /\ acked \subseteq acked'
      BY <3>1 DEF Acknowledge
    <3>4. call' \in [Messages -> Answers \cup {"waiting"}]
          /\ \A x \in Messages : call'[x] = call[x] \/ (x = r[1] /\ call'[x] = r[2])
      BY <1>1, <3>1, <3>2 DEF DeliverResponse, Typed
    <3>5. Typed'
      BY <1>1, <1>2, <3>2, <3>3, <3>4 DEF Typed
    <3>6. <<r[1], "busy">> \in replies \/ (answer[r[1]] = r[2] /\ r[2] # "none")
      BY <1>1, <3>2 DEF RepliesMatch, Answers
    <3>7. ASSUME NEW x \in Messages, call'[x] \in {"sent", "refused"} PROVE answer[x] = call'[x]
      BY <1>1, <3>2, <3>4, <3>7 DEF RepliesMatch
    <3>8. RepliesMatch'
      BY <1>1, <1>2, <3>3, <3>6, <3>7 DEF RepliesMatch
    <3> QED  BY <3>5, <3>8
  <2>2. CASE ExpireResponses
    BY <1>1, <1>2, <2>2 DEF ExpireResponses, Typed, RepliesMatch, Answers
  <2> QED  BY <2>1, <2>2
<1>4. LaneInOrder' /\ OnlyAttempted' /\ EntriesMatch'
  BY <1>2 DEF Inv, LaneInOrder, Current, OnlyAttempted, EntriesMatch
<1>5. TombstoneOutlives' /\ TombstonesExpire' /\ AtMostOnce' /\ LaneFifo'
  BY <1>2 DEF Inv, TombstoneOutlives, TombstonesExpire, AtMostOnce, LaneFifo
<1> QED  BY <1>3, <1>4, <1>5 DEF Inv

-----------------------------------------------------------------------------
(* The receiving node                                                      *)

\* Facts about the entry and the tombstones that begin's purge leaves: what it
\* drops has expired, what is fresh stays, and the list still matches the entries.
LEMMA PurgeSpec ==
    ASSUME Typed, TombstonesExpire
    PROVE  /\ Purged \in Seq(Messages) /\ IsInjective(Purged)
           /\ \A i, j \in DOMAIN Purged : i < j => age[Purged[i]] >= age[Purged[j]]
           /\ Kept \in [Messages -> {"none", "running", "done"}]
           /\ ToSet(Purged) = {m \in Messages : Kept[m] = "done"}
           /\ \A m \in Messages : \/ Kept[m] = entry[m]
                                  \/ Kept[m] = "none" /\ entry[m] = "done" /\ age[m] >= Ttl
<1> USE ConstantsOK
<1> DEFINE I == {i \in 1..Len(order) : Fresh(order[i])}
           k == SelectInSeq(order, Fresh)
<1>1. order \in Seq(Messages) /\ Len(order) \in Nat /\ DOMAIN order = 1..Len(order)
  BY DEF Typed
<1>2. k = IF I # {} THEN Min(I) ELSE 0
  BY DEF SelectInSeq
<1>3. I \in SUBSET Nat
  BY <1>1
<1> HIDE DEF k, I
<1>4. CASE I = {}
  <2>1. Purged = <<>> /\ ToSet(Purged) = {}
    BY <1>2, <1>4 DEF Purged, k, ToSet
  <2>2. \A m \in ToSet(order) : ~Fresh(m)
    BY <1>1, <1>4 DEF I, ToSet
  <2>3. ASSUME NEW m \in Messages
        PROVE  /\ Kept[m] # "done" /\ Kept[m] \in {"none", "running", "done"}
               /\ \/ Kept[m] = entry[m]
                  \/ Kept[m] = "none" /\ entry[m] = "done" /\ age[m] >= Ttl
    <3>1. entry[m] = "done" <=> m \in ToSet(order)
      BY DEF TombstonesExpire
    <3>2. age[m] \in 0..Ttl /\ entry[m] \in {"none", "running", "done"}
      BY DEF Typed
    <3>3. Kept[m] = IF m \in ToSet(order) THEN "none" ELSE entry[m]
      BY <2>1 DEF Kept
    <3> QED  BY <2>2, <3>1, <3>2, <3>3 DEF Fresh
  <2>4. Kept = [m \in Messages |-> Kept[m]]
    BY DEF Kept
  <2>5. Kept \in [Messages -> {"none", "running", "done"}]
    BY <2>3, <2>4
  <2> QED  BY <2>1, <2>3, <2>5 DEF IsInjective
<1>5. CASE I # {}
  <2>1. k \in I /\ \A i \in I : k <= i
    BY <1>2, <1>3, <1>5, MinOfNats
  <2>2. k \in 1..Len(order) /\ k \in Nat
    BY <1>1, <2>1 DEF I
  <2>3. Purged = SubSeq(order, k, Len(order))
    BY <2>2 DEF Purged, k
  <2>4. /\ Purged \in Seq(Messages) /\ Len(Purged) = Len(order) - k + 1
        /\ \A i \in 1..Len(order) - k + 1 : Purged[i] = order[k + i - 1]
    <3>1. \A i \in k..Len(order) : order[i] \in Messages
      BY <1>1, <2>2
    <3> QED  BY <1>1, <2>2, <2>3, <3>1, SubSeqProperties
  <2>5. DOMAIN Purged = 1..Len(order) - k + 1
    BY <2>4
  <2>6. \A i \in DOMAIN Purged : k + i - 1 \in 1..Len(order) /\ Purged[i] = order[k + i - 1]
    BY <1>1, <2>2, <2>4, <2>5
  <2>7. \A i, j \in 1..Len(order) : order[i] = order[j] => i = j
    BY <1>1 DEF TombstonesExpire, IsInjective
  <2>8. \A i, j \in 1..Len(order) : i < j => age[order[i]] >= age[order[j]]
    BY <1>1 DEF TombstonesExpire
  <2>9. IsInjective(Purged)
    <3> SUFFICES ASSUME NEW i \in DOMAIN Purged, NEW j \in DOMAIN Purged, Purged[i] = Purged[j]
                 PROVE  i = j
      BY DEF IsInjective
    <3>1. k + i - 1 = k + j - 1
      BY <2>6, <2>7
    <3> QED  BY <3>1, <2>2, <2>5
  <2>10. ASSUME NEW i \in DOMAIN Purged, NEW j \in DOMAIN Purged, i < j
         PROVE  age[Purged[i]] >= age[Purged[j]]
    <3>1. k + i - 1 < k + j - 1
      BY <2>2, <2>5, <2>10
    <3> QED  BY <2>6, <2>8, <3>1
  <2>11. \A i \in 1..Len(order) : order[i] \in ToSet(Purged) <=> i >= k
    <3> TAKE i \in 1..Len(order)
    <3>1. ASSUME i >= k PROVE order[i] \in ToSet(Purged)
      <4>1. i - k + 1 \in DOMAIN Purged /\ k + (i - k + 1) - 1 = i
        BY <1>1, <2>2, <2>5, <3>1
      <4>2. Purged[i - k + 1] = order[i]
        BY <2>6, <4>1
      <4> QED  BY <4>1, <4>2 DEF ToSet
    <3>2. ASSUME order[i] \in ToSet(Purged) PROVE i >= k
      <4>1. PICK j \in DOMAIN Purged : order[i] = Purged[j]
        BY <3>2 DEF ToSet
      <4>2. i = k + j - 1
        BY <2>6, <2>7, <4>1
      <4> QED  BY <4>2, <2>2, <2>5
    <3> QED  BY <3>1, <3>2
  <2>12. \A i \in 1..Len(order) : i < k => ~Fresh(order[i])
    BY <1>1, <2>1, <2>2 DEF I
  <2>13. ASSUME NEW m \in Messages
         PROVE  /\ Kept[m] = "done" <=> m \in ToSet(Purged)
                /\ Kept[m] \in {"none", "running", "done"}
                /\ \/ Kept[m] = entry[m]
                   \/ Kept[m] = "none" /\ entry[m] = "done" /\ age[m] >= Ttl
    <3>1. entry[m] = "done" <=> m \in ToSet(order)
      BY DEF TombstonesExpire
    <3>2. age[m] \in 0..Ttl /\ entry[m] \in {"none", "running", "done"}
      BY DEF Typed
    <3>3. Kept[m] = IF m \in ToSet(order) \ ToSet(Purged) THEN "none" ELSE entry[m]
      BY DEF Kept
    <3>4. m \in ToSet(Purged) => m \in ToSet(order)
      <4>1. SUFFICES ASSUME NEW j \in DOMAIN Purged, m = Purged[j] PROVE m \in ToSet(order)
        BY DEF ToSet
      <4> QED  BY <1>1, <2>6, <4>1 DEF ToSet
    <3>5. m \in ToSet(order) \ ToSet(Purged) => age[m] >= Ttl
      <4>1. SUFFICES ASSUME NEW i \in 1..Len(order), m = order[i], m \notin ToSet(Purged)
                     PROVE  age[m] >= Ttl
        BY <1>1 DEF ToSet
      <4>2. ~Fresh(m)
        BY <2>2, <2>11, <2>12, <4>1
      <4> QED  BY <4>2, <3>2 DEF Fresh
    <3> QED  BY <3>1, <3>2, <3>3, <3>4, <3>5
  <2>14. Kept = [m \in Messages |-> Kept[m]]
    BY DEF Kept
  <2>15. Kept \in [Messages -> {"none", "running", "done"}]
    BY <2>13, <2>14
  <2>16. \A m \in ToSet(Purged) : m \in Messages
    BY <2>4 DEF ToSet
  <2> QED  BY <2>4, <2>9, <2>10, <2>13, <2>15, <2>16
<1> QED  BY <1>4, <1>5

\* A complete request reaches handle_message: what begin decides.
LEMMA ArriveInv == Inv /\ Arrive => Inv'
<1> SUFFICES ASSUME Inv, Arrive PROVE Inv'
  OBVIOUS
<1> USE ConstantsOK
<1>1. Typed /\ OnlyAttempted /\ EntriesMatch /\ RepliesMatch /\ TombstoneOutlives /\ TombstonesExpire
  BY DEF Inv
<1>2. PICK a \in wire : /\ wire' = wire \ {a}
                        /\ Saturated(a.msg) \/ Begin(a.msg) \/ Wait(a.msg) \/ Cached(a.msg)
  BY DEF Arrive
<1>3. UNCHANGED <<queue, retry, flight, window, tries, fate, acked, call, executed>>
  BY DEF Arrive, sender
<1>4. PICK m \in Messages : m = a.msg
  BY <1>1, <1>2 DEF Typed
<1>5. /\ Purged \in Seq(Messages) /\ IsInjective(Purged)
      /\ \A i, j \in DOMAIN Purged : i < j => age[Purged[i]] >= age[Purged[j]]
      /\ Kept \in [Messages -> {"none", "running", "done"}]
      /\ ToSet(Purged) = {x \in Messages : Kept[x] = "done"}
      /\ \A x \in Messages : \/ Kept[x] = entry[x]
                             \/ Kept[x] = "none" /\ entry[x] = "done" /\ age[x] >= Ttl
  BY <1>1, PurgeSpec
<1> DEFINE Late(x) == window[x] <= 0 /\ \A b \in wire : b.msg # x
\* Nothing more can be sent or arrive of what begin forgets.
<1>6. ASSUME NEW x \in Messages, entry[x] = "done", age[x] >= Ttl PROVE Late(x)
  <2>1. answer[x] # "none" /\ age[x] \in Nat /\ window[x] \in Int
    BY <1>1, <1>6 DEF EntriesMatch, Typed
  <2>2. window[x] > 0 => age[x] + window[x] <= Window
    BY <1>1, <2>1 DEF TombstoneOutlives
  <2>3. \A b \in wire : b.msg = x => age[x] + b.life <= Window + Life /\ b.life \in Nat
    <3>1. \A b \in wire : b.life \in Nat
      BY <1>1 DEF Typed
    <3> QED  BY <1>1, <2>1, <3>1 DEF TombstoneOutlives
  <2> QED  BY <1>6, <2>1, <2>2, <2>3
<1>7. \A x \in Messages : Kept[x] = entry[x] \/ (Kept[x] = "none" /\ entry[x] = "done" /\ Late(x))
  BY <1>5, <1>6
<1>8. answer[m] # "none" => Kept[m] = "done"
  <2> SUFFICES ASSUME answer[m] # "none" PROVE Kept[m] = "done"
    OBVIOUS
  <2>1. entry[m] = "done"
    BY <1>1, <1>2, <1>4 DEF TombstoneOutlives
  <2>2. ~Late(m)
    BY <1>2, <1>4
  <2> HIDE DEF Late
  <2> QED  BY <1>7, <2>1, <2>2
<1>9. window[m] # -1
  BY <1>1, <1>2, <1>4 DEF OnlyAttempted
\* The four answers of begin, as far as they are alike.
<1>10. /\ answer' = answer /\ waiting' \subseteq Messages
       /\ entry' \in [Messages -> {"none", "running", "done"}]
       /\ age' \in [Messages -> 0..Ttl]
       /\ handler' \in [Messages -> {"idle", "queued", "inside"}]
       /\ \A x \in Messages : /\ x # m => entry'[x] = Kept[x] /\ handler'[x] = handler[x]
                              /\ x # m => age'[x] = age[x]
       /\ age'[m] = age[m] \/ age'[m] = 0
       /\ \/ entry'[m] = Kept[m] /\ handler'[m] = handler[m]
          \/ Kept[m] = "none" /\ entry'[m] = "running" /\ handler'[m] = "queued"
       /\ replies \subseteq replies'
       /\ \A r \in replies' : r \in replies \/ r = <<m, "busy">> \/ (r = <<m, answer[m]>> /\ Kept[m] = "done")
  <2>1. CASE Saturated(m)
    BY <1>1, <1>5, <2>1 DEF Saturated, Reply, Typed
  <2>2. CASE Begin(m)
    BY <1>1, <1>5, <2>2 DEF Begin, Typed
  <2>3. CASE Wait(m)
    BY <1>1, <1>5, <2>3 DEF Wait, Typed
  <2>4. CASE Cached(m)
    <3>1. /\ Kept[m] = "done" /\ entry' = Kept /\ age' = [age EXCEPT ![m] = 0]
          /\ replies' = replies \cup {<<m, answer[m]>>}
          /\ answer' = answer /\ handler' = handler /\ waiting' = waiting
      BY <2>4 DEF Cached, Reply
    <3>2. /\ age' \in [Messages -> 0..Ttl] /\ age'[m] = 0
          /\ \A x \in Messages : x # m => age'[x] = age[x]
      BY <1>1, <3>1, ConstantsOK DEF Typed
    <3>3. \A r \in replies' : r \in replies \/ r = <<m, answer[m]>>
      BY <3>1
    <3> QED  BY <1>1, <1>5, <3>1, <3>2, <3>3 DEF Typed
  <2> QED  BY <1>2, <1>4, <2>1, <2>2, <2>3, <2>4
<1>11. order' \in Seq(Messages) /\ TombstonesExpire'
  <2>1. CASE Cached(m)
    <3> DEFINE S == Messages \ {m}
    <3>1. Selects(Retain(Purged, S), Purged, Len(Purged), S)
      BY <1>5, RetainSpec
    <3>2. PICK r : r = Retain(Purged, S) /\ Selects(r, Purged, Len(Purged), S)
      BY <3>1
    <3>3. Kept[m] = "done" /\ entry' = Kept /\ order' = Append(r, m) /\ age' = [age EXCEPT ![m] = 0]
      BY <2>1, <3>2 DEF Cached
    <3>4. r \in Seq(S) /\ r \in Seq(Messages) /\ Len(r) \in Nat
      <4>1. r \in Seq(S)
        BY <3>2 DEF Selects
      <4> QED  BY <4>1
    <3>5. /\ order' \in Seq(Messages) /\ Len(order') = Len(r) + 1
          /\ DOMAIN order' = 1..Len(r) + 1
          /\ \A i \in 1..Len(r) : order'[i] = r[i]
          /\ order'[Len(r) + 1] = m
      BY <3>3, <3>4
    <3>6. \A i \in 1..Len(r) : r[i] \in S
      BY <3>4
    <3>7. DOMAIN Purged = 1..Len(Purged) /\ Len(Purged) \in Nat
      BY <1>5
    <3>8. \A i, j \in 1..Len(r) : i < j => age[r[i]] >= age[r[j]] /\ r[i] # r[j]
      <4> TAKE i, j \in 1..Len(r)
      <4> HAVE i < j
      <4>1. PICK i1 \in 1..Len(Purged), j1 \in 1..Len(Purged) :
              i1 < j1 /\ r[i] = Purged[i1] /\ r[j] = Purged[j1]
        BY <3>2 DEF Selects
      <4>2. Purged[i1] # Purged[j1]
        BY <1>5, <3>7, <4>1 DEF IsInjective
      <4> QED  BY <1>5, <3>7, <4>1, <4>2
    <3>9. \A x \in Messages : age'[x] = IF x = m THEN 0 ELSE age[x]
      BY <1>1, <3>3 DEF Typed
    <3>10. \A x \in Messages : age[x] \in Nat
      BY <1>1 DEF Typed
    <3>11. ASSUME NEW i \in DOMAIN order', NEW j \in DOMAIN order', i < j
           PROVE  age'[order'[i]] >= age'[order'[j]] /\ order'[i] # order'[j]
      <4>1. i \in 1..Len(r)
        BY <3>4, <3>5, <3>11
      <4>2. order'[i] \in Messages /\ order'[i] # m /\ order'[i] = r[i]
        BY <3>5, <3>6, <4>1
      <4>3. CASE j = Len(r) + 1
        BY <3>5, <3>9, <3>10, <4>2, <4>3
      <4>4. CASE j \in 1..Len(r)
        <5>1. order'[j] \in Messages /\ order'[j] # m /\ order'[j] = r[j]
          BY <3>5, <3>6, <4>4
        <5> QED  BY <3>8, <3>9, <3>11, <4>1, <4>2, <4>4, <5>1
      <4> QED  BY <3>4, <3>5, <4>3, <4>4
    <3>12. IsInjective(order')
      <4> SUFFICES ASSUME NEW i \in DOMAIN order', NEW j \in DOMAIN order', order'[i] = order'[j], i # j
                   PROVE  FALSE
        BY DEF IsInjective
      <4>1. i < j \/ j < i
        BY <3>4, <3>5
      <4> QED  BY <4>1, <3>11
    <3>13. ToSet(order') = {x \in Messages : entry'[x] = "done"}
      <4>1. ASSUME NEW x \in Messages PROVE x \in ToSet(order') <=> Kept[x] = "done"
        <5>1. CASE x = m
          <6>1. Len(r) + 1 \in DOMAIN order'
            BY <3>4, <3>5
          <6> QED  BY <5>1, <6>1, <3>3, <3>5 DEF ToSet
        <5>2. CASE x # m
          <6>1. x \in ToSet(order') => x \in ToSet(Purged)
            <7>1. SUFFICES ASSUME NEW i \in DOMAIN order', x = order'[i] PROVE x \in ToSet(Purged)
              BY DEF ToSet
            <7>2. i \in 1..Len(r)
              BY <3>4, <3>5, <5>2, <7>1
            <7>3. PICK j \in 1..Len(Purged) : r[i] = Purged[j]
              BY <3>2, <7>2 DEF Selects
            <7> QED  BY <3>5, <3>7, <7>1, <7>2, <7>3 DEF ToSet
          <6>2. x \in ToSet(Purged) => x \in ToSet(order')
            <7>1. SUFFICES ASSUME NEW j \in 1..Len(Purged), x = Purged[j] PROVE x \in ToSet(order')
              BY <3>7 DEF ToSet
            <7>2. PICK i \in 1..Len(r) : r[i] = Purged[j]
              BY <3>2, <5>2, <7>1 DEF Selects
            <7>3. i \in DOMAIN order' /\ order'[i] = x
              BY <3>4, <3>5, <7>1, <7>2
            <7> QED  BY <7>3 DEF ToSet
          <6> QED  BY <6>1, <6>2, <1>5
        <5> QED  BY <5>1, <5>2
      <4>2. \A x \in ToSet(order') : x \in Messages
        BY <3>5 DEF ToSet
      <4> QED  BY <3>3, <4>1, <4>2
    <3> QED  BY <3>5, <3>11, <3>12, <3>13 DEF TombstonesExpire
  <2>2. CASE Saturated(m) \/ Begin(m) \/ Wait(m)
    <3>1. order' = Purged /\ age' = age
      BY <2>2 DEF Saturated, Begin, Wait
    <3>2. \A x \in Messages : entry'[x] = "done" <=> Kept[x] = "done"
      BY <1>5, <2>2 DEF Saturated, Begin, Wait
    <3>3. ToSet(order') = {x \in Messages : entry'[x] = "done"}
      BY <1>5, <3>1, <3>2
    <3> QED  BY <1>5, <3>1, <3>3 DEF TombstonesExpire
  <2> QED  BY <1>2, <1>4, <2>1, <2>2
<1>12. Typed'
  <2>1. replies' \subseteq Messages \X Answers
    <3>1. answer[m] \in Answers \/ Kept[m] # "done"
      BY <1>1, <1>7 DEF EntriesMatch, Typed
    <3>2. <<m, "busy">> \in Messages \X Answers
      BY DEF Answers
    <3>3. ASSUME Kept[m] = "done" PROVE <<m, answer[m]>> \in Messages \X Answers
      BY <3>1, <3>3
    <3>4. \A r \in replies : r \in Messages \X Answers
      BY <1>1 DEF Typed
    <3>5. \A r \in replies' : r \in replies \/ r = <<m, "busy">> \/ (r = <<m, answer[m]>> /\ Kept[m] = "done")
      BY <1>10
    <3> QED  BY <3>2, <3>3, <3>4, <3>5
  <2>2. wire' \subseteq [msg : Messages, try : Nat, life : 0..Life]
    BY <1>1, <1>2 DEF Typed
  <2> QED  BY <1>1, <1>3, <1>10, <1>11, <2>1, <2>2 DEF Typed
<1>13. OnlyAttempted'
  BY <1>1, <1>2, <1>3, <1>7, <1>9, <1>10 DEF OnlyAttempted
<1>14. EntriesMatch'
  <2> SUFFICES ASSUME NEW x \in Messages
               PROVE  /\ handler'[x] # "idle" <=> entry'[x] = "running"
                      /\ entry'[x] = "running" => answer[x] = "none"
                      /\ entry'[x] = "done" => answer[x] # "none"
                      /\ x \in ToSet(executed) <=> answer[x] = "sent"
    BY <1>3, <1>10 DEF EntriesMatch
  <2>1. /\ handler[x] # "idle" <=> entry[x] = "running"
        /\ entry[x] = "running" => answer[x] = "none"
        /\ entry[x] = "done" => answer[x] # "none"
        /\ x \in ToSet(executed) <=> answer[x] = "sent"
    BY <1>1 DEF EntriesMatch
  <2> HIDE DEF Late
  <2> QED  BY <1>7, <1>8, <1>10, <2>1
<1>15. RepliesMatch'
  <2>1. \A r \in replies' : r[2] = "busy" \/ r[2] = answer[r[1]]
    BY <1>1, <1>10 DEF RepliesMatch
  <2> QED  BY <1>1, <1>3, <1>10, <2>1 DEF RepliesMatch
<1>16. TombstoneOutlives'
  <2> SUFFICES ASSUME NEW x \in Messages, answer[x] # "none"
               PROVE  /\ window[x] > 0 => entry'[x] = "done" /\ age'[x] + window[x] <= Window
                      /\ \A b \in wire' : b.msg = x => entry'[x] = "done" /\ age'[x] + b.life <= Window + Life
    BY <1>3, <1>10 DEF TombstoneOutlives
  <2>1. age[x] \in Nat /\ window[x] \in -1..Window /\ \A b \in wire : b.life \in 0..Life
    BY <1>1 DEF Typed
  <2>2. age'[x] = age[x] \/ age'[x] = 0
    BY <1>10
  <2>3. /\ window[x] > 0 => entry[x] = "done" /\ age[x] + window[x] <= Window
        /\ \A b \in wire : b.msg = x => entry[x] = "done" /\ age[x] + b.life <= Window + Life
    BY <1>1 DEF TombstoneOutlives
  <2>4. entry[x] = "done" /\ ~Late(x) => entry'[x] = "done"
    <3> HIDE DEF Late
    <3> QED  BY <1>7, <1>10
  <2>5. ASSUME window[x] > 0 PROVE entry'[x] = "done" /\ age'[x] + window[x] <= Window
    BY <2>1, <2>2, <2>3, <2>4, <2>5
  <2>6. ASSUME NEW b \in wire', b.msg = x
        PROVE  entry'[x] = "done" /\ age'[x] + b.life <= Window + Life
    <3>1. b \in wire
      BY <1>2
    <3> QED  BY <2>1, <2>2, <2>3, <2>4, <2>6, <3>1
  <2> QED  BY <2>5, <2>6
<1>17. LaneInOrder' /\ AtMostOnce'
  BY <1>3 DEF Inv, LaneInOrder, Current, AtMostOnce
<1>18. LaneFifo'
  BY <1>1, <1>3, <1>10, FifoKept DEF Inv, Typed
<1> QED  BY <1>11, <1>12, <1>13, <1>14, <1>15, <1>16, <1>17, <1>18 DEF Inv

\* The loss of an attempt.
LEMMA LoseInv == Inv /\ Lose => Inv'
<1> SUFFICES ASSUME Inv, Lose PROVE Inv'
  OBVIOUS
<1>1. wire' \subseteq wire /\ UNCHANGED <<queue, retry, flight, window, tries, fate, acked, replies, call,
        entry, answer, age, order, handler, waiting, executed>>
  BY DEF Lose, sender, server, cache
<1>2. Typed'
  BY <1>1 DEF Inv, Typed
<1>3. LaneInOrder' /\ OnlyAttempted' /\ EntriesMatch' /\ RepliesMatch'
  BY <1>1 DEF Inv, LaneInOrder, Current, OnlyAttempted, EntriesMatch, RepliesMatch
<1>4. TombstoneOutlives' /\ TombstonesExpire' /\ LaneFifo' /\ AtMostOnce'
  BY <1>1 DEF Inv, TombstoneOutlives, TombstonesExpire, LaneFifo, AtMostOnce
<1> QED  BY <1>2, <1>3, <1>4 DEF Inv

\* An execution gets the inbound route lock.
LEMMA LockInboundRouteInv == Inv /\ LockInboundRoute => Inv'
<1> SUFFICES ASSUME Inv, LockInboundRoute PROVE Inv'
  OBVIOUS
<1>1. UNCHANGED <<queue, retry, flight, window, tries, fate, acked, wire, replies, call,
        entry, answer, age, order, waiting, executed>>
  BY DEF LockInboundRoute, sender, cache
<1>2. PICK m \in Messages : handler[m] = "queued" /\ handler' = [handler EXCEPT ![m] = "inside"]
  BY DEF LockInboundRoute
<1>3. Typed' /\ EntriesMatch'
  BY <1>1, <1>2 DEF Inv, Typed, EntriesMatch
<1>4. LaneInOrder' /\ OnlyAttempted' /\ RepliesMatch'
  BY <1>1 DEF Inv, LaneInOrder, Current, OnlyAttempted, RepliesMatch
<1>5. TombstoneOutlives' /\ TombstonesExpire' /\ LaneFifo' /\ AtMostOnce'
  BY <1>1 DEF Inv, TombstoneOutlives, TombstonesExpire, LaneFifo, AtMostOnce
<1> QED  BY <1>3, <1>4, <1>5 DEF Inv

\* The end of an execution, whatever it ends with.  A message enters the mailbox
\* only here, and then for the first time.
LEMMA FinishInv ==
    ASSUME Inv, NEW m \in Messages, NEW a \in {"sent", "refused", "timeout"},
           handler[m] # "idle", Finish(m, a),
           executed' = IF a = "sent" THEN Append(executed, m) ELSE executed,
           Reply(m, a) \/ UNCHANGED replies,
           UNCHANGED <<sender, acked, wire, call, waiting>>
    PROVE  Inv'
<1> USE ConstantsOK
<1>1. Typed /\ LaneInOrder /\ OnlyAttempted /\ EntriesMatch /\ RepliesMatch /\ TombstoneOutlives /\ TombstonesExpire
  BY DEF Inv
<1>2. UNCHANGED <<queue, retry, flight, window, tries, fate, acked, wire, call, waiting>>
  BY DEF sender
<1>3. /\ entry' = [entry EXCEPT ![m] = "done"] /\ answer' = [answer EXCEPT ![m] = a]
      /\ age' = [age EXCEPT ![m] = 0] /\ order' = Append(order, m)
      /\ handler' = [handler EXCEPT ![m] = "idle"]
  BY DEF Finish
<1>4. entry[m] = "running" /\ answer[m] = "none" /\ m \notin ToSet(executed)
  BY <1>1 DEF EntriesMatch
<1>5. window[m] # -1
  BY <1>1, <1>4 DEF OnlyAttempted
<1>6. /\ \A x \in Messages : entry'[x] = IF x = m THEN "done" ELSE entry[x]
      /\ \A x \in Messages : answer'[x] = IF x = m THEN a ELSE answer[x]
      /\ \A x \in Messages : age'[x] = IF x = m THEN 0 ELSE age[x]
      /\ \A x \in Messages : handler'[x] = IF x = m THEN "idle" ELSE handler[x]
  BY <1>1, <1>3 DEF Typed
<1>7. replies \subseteq replies' /\ \A r \in replies' : r \in replies \/ r = <<m, a>>
  BY DEF Reply
<1>8. /\ executed' \in Seq(Messages)
      /\ \A x \in Messages : x \in ToSet(executed') <=> x \in ToSet(executed) \/ (x = m /\ a = "sent")
  <2>1. executed \in Seq(Messages) /\ Len(executed) \in Nat
    BY <1>1 DEF Typed
  <2>2. CASE a = "sent"
    <3>1. /\ executed' \in Seq(Messages) /\ DOMAIN executed' = 1..Len(executed) + 1
          /\ \A i \in 1..Len(executed) : executed'[i] = executed[i]
          /\ executed'[Len(executed) + 1] = m
      BY <2>1, <2>2
    <3>2. DOMAIN executed = 1..Len(executed)
      BY <2>1
    <3> QED  BY <2>1, <2>2, <3>1, <3>2 DEF ToSet
  <2>3. CASE a # "sent"
    BY <2>1, <2>3
  <2> QED  BY <2>2, <2>3
<1>9. order \in Seq(Messages) /\ Len(order) \in Nat /\ DOMAIN order = 1..Len(order)
  BY <1>1 DEF Typed
<1>10. /\ order' \in Seq(Messages) /\ DOMAIN order' = 1..Len(order) + 1
       /\ \A i \in 1..Len(order) : order'[i] = order[i]
       /\ order'[Len(order) + 1] = m
  BY <1>3, <1>9
<1>11. Typed'
  <2>1. replies' \subseteq Messages \X Answers
    BY <1>1, <1>7 DEF Typed, Answers
  <2>2. /\ entry' \in [Messages -> {"none", "running", "done"}]
        /\ answer' \in [Messages -> Answers \cup {"none"}]
        /\ age' \in [Messages -> 0..Ttl]
        /\ handler' \in [Messages -> {"idle", "queued", "inside"}]
    BY <1>1, <1>3 DEF Typed, Answers
  <2> QED  BY <1>1, <1>2, <1>8, <1>10, <2>1, <2>2 DEF Typed
<1>12. OnlyAttempted'
  BY <1>1, <1>2, <1>5, <1>6 DEF OnlyAttempted
<1>13. EntriesMatch'
  BY <1>1, <1>4, <1>6, <1>8 DEF EntriesMatch
<1>14. RepliesMatch'
  <2>1. \A r \in replies' : r[2] = "busy" \/ r[2] = answer'[r[1]]
    <3> TAKE r \in replies'
    <3>1. CASE r \in replies
      <4>1. r[1] \in Messages /\ r[2] \in Answers
        BY <1>1, <3>1 DEF Typed
      <4>2. r[2] # "none"
        BY <4>1 DEF Answers
      <4> QED  BY <1>1, <1>4, <1>6, <3>1, <4>1, <4>2 DEF RepliesMatch
    <3>2. CASE r = <<m, a>>
      BY <1>6, <3>2
    <3> QED  BY <1>7, <3>1, <3>2
  <2>2. \A x \in acked' : <<x, "busy">> \in replies' \/ answer'[x] # "none"
    BY <1>1, <1>2, <1>6, <1>7 DEF RepliesMatch, Typed
  <2>3. \A x \in Messages : call'[x] \in {"sent", "refused"} => answer'[x] = call'[x]
    BY <1>1, <1>2, <1>4, <1>6 DEF RepliesMatch
  <2> QED  BY <1>1, <1>2, <2>1, <2>2, <2>3 DEF RepliesMatch
<1>15. TombstoneOutlives'
  <2>1. window[m] \in -1..Window /\ \A b \in wire : b.life \in 0..Life
    BY <1>1 DEF Typed
  <2> QED  BY <1>1, <1>2, <1>6, <2>1 DEF TombstoneOutlives
<1>16. TombstonesExpire'
  <2>1. ToSet(order) = {x \in Messages : entry[x] = "done"} /\ m \notin ToSet(order)
    BY <1>1, <1>4 DEF TombstonesExpire
  <2>2. \A i \in 1..Len(order) : order[i] # m /\ order[i] \in Messages
    BY <1>9, <2>1 DEF ToSet
  <2>3. \A x \in Messages : age[x] \in Nat
    BY <1>1 DEF Typed
  <2>4. ASSUME NEW i \in DOMAIN order', NEW j \in DOMAIN order', i < j
        PROVE  age'[order'[i]] >= age'[order'[j]] /\ order'[i] # order'[j]
    <3>1. i \in 1..Len(order) /\ order'[i] = order[i] /\ order[i] # m /\ order[i] \in Messages
      BY <1>9, <1>10, <2>2, <2>4
    <3>2. CASE j = Len(order) + 1
      <4>1. order'[j] = m /\ m \in Messages
        BY <1>10, <3>2
      <4>2. age'[m] = 0 /\ age'[order[i]] = age[order[i]] /\ age[order[i]] \in Nat
        BY <1>6, <2>3, <3>1, <4>1
      <4>3. age'[order'[i]] >= age'[order'[j]]
        BY <3>1, <4>1, <4>2
      <4> QED  BY <3>1, <4>1, <4>3
    <3>3. CASE j \in 1..Len(order)
      <4>1. order'[j] = order[j] /\ order[j] # m /\ order[j] \in Messages
        BY <1>10, <2>2, <3>3
      <4>2. age[order[i]] >= age[order[j]] /\ order[i] # order[j]
        BY <1>1, <1>9, <2>4, <3>1, <3>3 DEF TombstonesExpire, IsInjective
      <4> QED  BY <1>6, <3>1, <4>1, <4>2
    <3> QED  BY <1>9, <1>10, <3>2, <3>3
  <2>5. IsInjective(order')
    <3> SUFFICES ASSUME NEW i \in DOMAIN order', NEW j \in DOMAIN order', order'[i] = order'[j], i # j
                 PROVE  FALSE
      BY DEF IsInjective
    <3>1. i < j \/ j < i
      BY <1>9, <1>10
    <3> QED  BY <3>1, <2>4
  <2>6. ToSet(order') = {x \in Messages : entry'[x] = "done"}
    <3>1. ToSet(order') = ToSet(order) \cup {m}
      BY <1>9, <1>10 DEF ToSet
    <3> QED  BY <1>6, <2>1, <3>1
  <2> QED  BY <2>4, <2>5, <2>6 DEF TombstonesExpire
<1>17. LaneInOrder'
  BY <1>1, <1>2 DEF LaneInOrder, Current
<1>18. AtMostOnce' /\ LaneFifo'
  <2>1. CASE a # "sent"
    <3>1. executed' = executed
      BY <2>1
    <3>2. AtMostOnce'
      BY <3>1 DEF Inv, AtMostOnce
    <3> QED  BY <1>1, <1>2, <1>7, <3>1, <3>2, FifoKept DEF Inv, Typed
  <2>2. CASE a = "sent"
    <3> DEFINE n == Len(executed)
    <3>1. n \in Nat /\ DOMAIN executed = 1..n /\ executed \in Seq(Messages)
      BY <1>1 DEF Typed
    <3>2. /\ DOMAIN executed' = 1..n + 1
          /\ \A i \in 1..n : executed'[i] = executed[i]
          /\ executed'[n + 1] = m
      BY <2>2, <3>1
    <3>3. \A i \in 1..n : executed[i] \in ToSet(executed) /\ executed[i] # m /\ executed[i] \in Messages
      BY <1>4, <3>1 DEF ToSet
    <3> HIDE DEF n
    <3>4. AtMostOnce'
      <4>1. \A i, j \in 1..n : executed[i] = executed[j] => i = j
        BY <3>1 DEF Inv, AtMostOnce, IsInjective
      <4>2. \A i \in 1..n + 1 : i = n + 1 \/ i \in 1..n
        BY <3>1
      <4> SUFFICES ASSUME NEW i \in DOMAIN executed', NEW j \in DOMAIN executed', executed'[i] = executed'[j]
                   PROVE  i = j
        BY DEF AtMostOnce, IsInjective
      <4>3. CASE i \in 1..n /\ j \in 1..n
        BY <3>2, <4>1, <4>3
      <4>4. CASE i = n + 1 \/ j = n + 1
        BY <3>2, <3>3, <4>2, <4>4
      <4> QED  BY <3>2, <4>2, <4>3, <4>4
    \* A later message that was executed before this one was attempted after the lane
    \* had released this one: not because of an answer, for there is none yet.
    <3>5. ASSUME NEW x \in ToSet(executed), x \in Messages, x > m
          PROVE  fate[m] = "expired" \/ <<m, "busy">> \in replies
      <4>1. window[x] # -1
        BY <1>1, <3>5 DEF EntriesMatch, OnlyAttempted
      <4>2. Current \in Int /\ x \in Int /\ m \in Int
        BY <1>1, <3>5 DEF Current, Typed, Messages
      <4>3. ~(x > Current)
        BY <1>1, <3>5, <4>1 DEF LaneInOrder
      <4>4. m < Current
        BY <3>5, <4>2, <4>3
      <4>5. fate[m] # "held" /\ fate[m] \in {"held", "acked", "expired"}
        BY <1>1, <4>4 DEF LaneInOrder, Typed
      <4> QED  BY <1>1, <1>4, <4>5 DEF RepliesMatch
    <3>6. LaneFifo'
      <4> SUFFICES ASSUME NEW i \in DOMAIN executed', NEW j \in DOMAIN executed',
                          i < j, executed'[i] > executed'[j]
                   PROVE  fate[executed'[j]] = "expired" \/ <<executed'[j], "busy">> \in replies'
        BY <1>2 DEF LaneFifo
      <4>1. i \in 1..n /\ executed'[i] = executed[i]
        BY <3>1, <3>2
      <4>2. CASE j = n + 1
        <5>1. executed'[j] = m
          BY <3>2, <4>2
        <5>2. executed[i] \in ToSet(executed) /\ executed[i] \in Messages /\ executed[i] > m
          BY <3>3, <4>1, <5>1
        <5> QED  BY <1>7, <3>5, <5>1, <5>2
      <4>3. CASE j \in 1..n
        <5>1. executed'[j] = executed[j] /\ j \in DOMAIN executed /\ i \in DOMAIN executed
          BY <3>1, <3>2, <4>1, <4>3
        <5>2. LaneFifo /\ i < j /\ executed[i] > executed[j]
          BY <4>1, <5>1 DEF Inv
        <5>3. fate[executed[j]] = "expired" \/ <<executed[j], "busy">> \in replies
          BY <5>1, <5>2 DEF LaneFifo
        <5> QED  BY <1>7, <5>1, <5>3
      <4>4. j = n + 1 \/ j \in 1..n
        BY <3>1, <3>2
      <4> QED  BY <4>2, <4>3, <4>4
    <3> QED  BY <3>4, <3>6
  <2> QED  BY <2>1, <2>2
<1> QED  BY <1>11, <1>12, <1>13, <1>14, <1>15, <1>16, <1>17, <1>18 DEF Inv

\* A duplicate that waited is answered.
LEMMA AnswerDuplicateInv == Inv /\ AnswerDuplicate => Inv'
<1> SUFFICES ASSUME Inv, AnswerDuplicate PROVE Inv'
  OBVIOUS
<1>1. Typed /\ RepliesMatch
  BY DEF Inv
<1>2. UNCHANGED <<queue, retry, flight, window, tries, fate, acked, wire, call,
        entry, answer, age, order, handler, executed>>
  BY DEF AnswerDuplicate, sender, cache
<1>3. PICK m \in waiting : /\ answer[m] # "none" /\ waiting' = waiting \ {m}
                           /\ Reply(m, answer[m]) \/ UNCHANGED replies
  BY DEF AnswerDuplicate
<1>4. /\ replies \subseteq replies' /\ m \in Messages /\ answer[m] \in Answers
      /\ \A r \in replies' : r \in replies \/ r = <<m, answer[m]>>
  BY <1>1, <1>3 DEF Reply, Typed
<1>5. Typed'
  BY <1>1, <1>2, <1>3, <1>4 DEF Typed
<1>6. RepliesMatch'
  BY <1>1, <1>2, <1>4 DEF RepliesMatch
<1>7. LaneFifo'
  BY <1>1, <1>2, <1>4, FifoKept DEF Inv, Typed
<1>8. LaneInOrder' /\ OnlyAttempted' /\ EntriesMatch'
  BY <1>2 DEF Inv, LaneInOrder, Current, OnlyAttempted, EntriesMatch
<1>9. TombstoneOutlives' /\ TombstonesExpire' /\ AtMostOnce'
  BY <1>2 DEF Inv, TombstoneOutlives, TombstonesExpire, AtMostOnce
<1> QED  BY <1>5, <1>6, <1>7, <1>8, <1>9 DEF Inv

\* Time passes: tombstones and attempts age together.
LEMMA TickInv == Inv /\ Tick => Inv'
<1> SUFFICES ASSUME Inv, Tick PROVE Inv'
  OBVIOUS
<1> USE ConstantsOK
<1>1. Typed /\ OnlyAttempted /\ EntriesMatch /\ TombstoneOutlives /\ TombstonesExpire
  BY DEF Inv
<1>2. UNCHANGED <<queue, retry, flight, tries, fate, acked, replies, call,
        entry, answer, order, handler, waiting, executed>>
  BY DEF Tick
<1>3. /\ window' \in [Messages -> -1..Window]
      /\ \A x \in Messages : window'[x] = IF window[x] > 0 THEN window[x] - 1 ELSE window[x]
  BY <1>1 DEF Tick, Typed
<1>4. /\ age' \in [Messages -> 0..Ttl]
      /\ \A x \in Messages : age'[x] = IF entry[x] = "done" /\ age[x] < Ttl THEN age[x] + 1 ELSE age[x]
  BY <1>1 DEF Tick, Typed
<1>5. \A x \in Messages : window[x] \in -1..Window /\ age[x] \in 0..Ttl
  BY <1>1 DEF Typed
\* An attempt that is not being sent has lost one tick of its life.
<1>6. \A b \in wire' : \E a \in wire :
        /\ b.msg = a.msg /\ b \in [msg : Messages, try : Nat, life : 0..Life]
        /\ window[a.msg] > 0 \/ b.life = a.life - 1
  <2> TAKE b \in wire'
  <2>1. PICK a \in wire : b = IF BeingSent(a) THEN a ELSE [a EXCEPT !.life = @ - 1]
    BY DEF Tick
  <2>2. a \in [msg : Messages, try : Nat, life : 0..Life] /\ (BeingSent(a) \/ a.life > 0)
    BY <1>1 DEF Tick, Typed
  <2>3. CASE BeingSent(a)
    <3>1. b = a /\ window[a.msg] > 0
      BY <2>1, <2>3 DEF BeingSent
    <3> QED  BY <2>2, <3>1
  <2>4. CASE ~BeingSent(a)
    <3>1. b = [a EXCEPT !.life = @ - 1] /\ a.life > 0
      BY <2>1, <2>2, <2>4
    <3>2. b \in [msg : Messages, try : Nat, life : 0..Life] /\ b.msg = a.msg /\ b.life = a.life - 1
      BY <2>2, <3>1
    <3> QED  BY <3>2
  <2> QED  BY <2>3, <2>4
<1>7. Typed'
  <2>1. wire' \subseteq [msg : Messages, try : Nat, life : 0..Life]
    BY <1>6
  <2> QED  BY <1>1, <1>2, <1>3, <1>4, <2>1 DEF Typed
<1>8. LaneInOrder'
  BY <1>2, <1>3 DEF Inv, LaneInOrder, Current
<1>9. \A x \in Messages : window[x] # -1 <=> window'[x] # -1
  BY <1>3, <1>5
<1>10. OnlyAttempted'
  <2>1. \A b \in wire' : window'[b.msg] # -1
    <3> TAKE b \in wire'
    <3>1. PICK a \in wire : b.msg = a.msg /\ b.msg \in Messages
      BY <1>6
    <3> QED  BY <1>1, <1>9, <3>1 DEF OnlyAttempted
  <2> QED  BY <1>1, <1>2, <1>9, <2>1 DEF OnlyAttempted
<1>11. TombstoneOutlives'
  <2> SUFFICES ASSUME NEW x \in Messages, answer[x] # "none"
               PROVE  /\ window'[x] > 0 => entry[x] = "done" /\ age'[x] + window'[x] <= Window
                      /\ \A b \in wire' : b.msg = x => entry[x] = "done" /\ age'[x] + b.life <= Window + Life
    BY <1>2 DEF TombstoneOutlives
  <2>1. /\ window[x] > 0 => entry[x] = "done" /\ age[x] + window[x] <= Window
        /\ \A a \in wire : a.msg = x => entry[x] = "done" /\ age[x] + a.life <= Window + Life
    BY <1>1 DEF TombstoneOutlives
  <2>2. age'[x] <= age[x] + 1 /\ age'[x] \in Nat /\ age[x] \in Nat /\ window[x] \in Int
    BY <1>4, <1>5
  <2>3. window'[x] > 0 => entry[x] = "done" /\ age'[x] + window'[x] <= Window
    BY <1>3, <2>1, <2>2
  <2>4. ASSUME NEW b \in wire', b.msg = x
        PROVE  entry[x] = "done" /\ age'[x] + b.life <= Window + Life
    <3>1. PICK a \in wire :
            /\ b.msg = a.msg /\ b.life \in 0..Life
            /\ window[a.msg] > 0 \/ b.life = a.life - 1
      BY <1>6
    <3>2. a.life \in Nat
      BY <1>1 DEF Typed
    <3>3. CASE window[x] > 0
      <4>1. entry[x] = "done" /\ age[x] + window[x] <= Window
        BY <2>1, <3>3
      <4>2. age'[x] <= Window
        BY <2>2, <3>3, <4>1
      <4>3. b.life \in Nat /\ b.life <= Life
        BY <3>1
      <4> QED  BY <2>2, <4>1, <4>2, <4>3
    <3>4. CASE b.life = a.life - 1
      <4>1. entry[x] = "done" /\ age[x] + a.life <= Window + Life
        BY <2>1, <2>4, <3>1
      <4> QED  BY <2>2, <3>2, <3>4, <4>1
    <3> QED  BY <2>4, <3>1, <3>3, <3>4
  <2> QED  BY <2>3, <2>4
<1>12. TombstonesExpire'
  <2>1. order \in Seq(Messages) /\ \A i \in DOMAIN order : order[i] \in Messages /\ entry[order[i]] = "done"
    BY <1>1 DEF Typed, TombstonesExpire, ToSet
  <2>2. \A i, j \in DOMAIN order : i < j => age'[order[i]] >= age'[order[j]]
    <3> TAKE i, j \in DOMAIN order
    <3> HAVE i < j
    <3>1. age[order[i]] >= age[order[j]]
      BY <1>1 DEF TombstonesExpire
    <3> QED  BY <1>4, <1>5, <2>1, <3>1
  <2> QED  BY <1>1, <1>2, <2>2 DEF TombstonesExpire
<1>13. EntriesMatch' /\ RepliesMatch' /\ LaneFifo' /\ AtMostOnce'
  BY <1>2 DEF Inv, EntriesMatch, RepliesMatch, LaneFifo, AtMostOnce
<1> QED  BY <1>7, <1>8, <1>10, <1>11, <1>12, <1>13 DEF Inv

-----------------------------------------------------------------------------
(* The theorems                                                            *)

\* Every step preserves the invariant.
LEMMA InvNext == Inv /\ [Next]_vars => Inv'
<1> SUFFICES ASSUME Inv, [Next]_vars PROVE Inv'
  OBVIOUS
<1>1. CASE Reconnect
  BY <1>1, ReconnectInv
<1>2. CASE ConnectionFailed
  BY <1>2, PutBackInv DEF ConnectionFailed
<1>3. CASE TakeMessage
  BY <1>3, TakeMessageInv
<1>4. CASE Commit
  BY <1>4, CommitInv
<1>5. CASE Replay
  BY <1>5, PutBackInv DEF Replay
<1>6. CASE RecvResponse \/ ExpireResponses
  BY <1>6, ResponseInv
<1>7. CASE Arrive
  BY <1>7, ArriveInv
<1>8. CASE Lose
  BY <1>8, LoseInv
<1>9. CASE LockInboundRoute
  BY <1>9, LockInboundRouteInv
<1>10. CASE HandleProcessMessage
  <2>1. PICK m \in Messages, a \in {"sent", "refused"} :
          /\ handler[m] = "inside" /\ Finish(m, a)
          /\ executed' = IF a = "sent" THEN Append(executed, m) ELSE executed
          /\ Reply(m, a) \/ UNCHANGED replies
    BY <1>10 DEF HandleProcessMessage
  <2>2. UNCHANGED <<sender, acked, wire, call, waiting>>
    BY <1>10 DEF HandleProcessMessage
  <2> QED  BY <2>1, <2>2, FinishInv
<1>11. CASE DropGuard
  <2>1. PICK m \in Messages : handler[m] # "idle" /\ Finish(m, "timeout")
    BY <1>11 DEF DropGuard
  <2>2. UNCHANGED <<sender, acked, wire, call, waiting, replies, executed>>
    BY <1>11 DEF DropGuard
  <2> QED  BY <2>1, <2>2, FinishInv
<1>12. CASE AnswerDuplicate
  BY <1>12, AnswerDuplicateInv
<1>13. CASE Tick
  BY <1>13, TickInv
<1>14. CASE UNCHANGED vars
  <2>1. UNCHANGED <<queue, retry, flight, window, tries, fate, acked, wire, replies, call,
          entry, answer, age, order, handler, waiting, executed>>
    BY <1>14 DEF vars, sender, server, cache
  <2>2. Typed' /\ LaneInOrder' /\ OnlyAttempted' /\ EntriesMatch' /\ RepliesMatch'
    BY <2>1 DEF Inv, Typed, LaneInOrder, Current, OnlyAttempted, EntriesMatch, RepliesMatch
  <2>3. TombstoneOutlives' /\ TombstonesExpire' /\ LaneFifo' /\ AtMostOnce'
    BY <2>1 DEF Inv, TombstoneOutlives, TombstonesExpire, LaneFifo, AtMostOnce
  <2> QED  BY <2>2, <2>3 DEF Inv
<1> QED
  BY <1>1, <1>2, <1>3, <1>4, <1>5, <1>6, <1>7, <1>8, <1>9, <1>10, <1>11, <1>12, <1>13, <1>14 DEF Next

\* The retries of congestion/mod.rs and the replay cache of client.rs together
\* deliver a message at most once, for any number of messages, any cache size and
\* any deadlines with INBOUND_REPLAY_TTL longer than the replay window and the
\* life of a given-up stream together.
THEOREM DeliveredAtMostOnce == Spec => []AtMostOnce
<1>1. Inv => AtMostOnce
  BY DEF Inv
<1> QED  BY InvInit, InvNext, <1>1, PTL DEF Spec

\* Results are true, messages of a lane stay in order and tombstones go in order.
THEOREM DeliveryIsSafe == Spec => []DeliverySafe
<1>1. Inv => DeliverySafe
  <2> SUFFICES ASSUME Inv PROVE AnswersAreTrue
    BY DEF Inv, DeliverySafe
  <2> QED  BY DEF Inv, AnswersAreTrue, EntriesMatch, RepliesMatch
<1> QED  BY InvInit, InvNext, <1>1, PTL DEF Spec

-----------------------------------------------------------------------------
(* Sequences without repetition                                            *)

\* What is in a queue is at one of its places.
LEMMA InSequence ==
  ASSUME NEW S, NEW s \in Seq(S)
  PROVE  ToSet(s) = {s[i] : i \in 1 .. Len(s)} /\ ToSet(s) \subseteq S /\ (s = <<>> <=> ToSet(s) = {})
<1>1. DOMAIN s = 1 .. Len(s) /\ Len(s) \in Nat /\ \A i \in 1 .. Len(s) : s[i] \in S
  OBVIOUS
<1>2. ToSet(s) = {s[i] : i \in 1 .. Len(s)}
  BY <1>1 DEF ToSet
<1>3. s = <<>> => ToSet(s) = {}
  BY <1>2
<1>4. s # <<>> => 1 \in 1 .. Len(s)
  BY <1>1, EmptySeq
<1> QED  BY <1>1, <1>2, <1>3, <1>4

\* A new element at the end joins the set and repeats nothing.
LEMMA AppendedSet ==
  ASSUME NEW S, NEW s \in Seq(S), NEW e \in S
  PROVE  /\ Append(s, e) \in Seq(S)
         /\ ToSet(Append(s, e)) = ToSet(s) \cup {e}
         /\ Distinct(s) /\ e \notin ToSet(s) => Distinct(Append(s, e))
<1>1. /\ Append(s, e) \in Seq(S) /\ Len(s) \in Nat /\ Len(Append(s, e)) = Len(s) + 1
      /\ \A i \in 1 .. Len(s) : Append(s, e)[i] = s[i]
      /\ Append(s, e)[Len(s) + 1] = e
  BY AppendProperties
<1>2. ToSet(s) = {s[i] : i \in 1 .. Len(s)} /\ ToSet(Append(s, e)) = {Append(s, e)[i] : i \in 1 .. Len(s) + 1}
  <2>1. ToSet(s) = {s[i] : i \in 1 .. Len(s)}
    BY InSequence
  <2>2. ToSet(Append(s, e)) = {Append(s, e)[i] : i \in 1 .. Len(Append(s, e))}
    BY <1>1, InSequence
  <2> QED  BY <1>1, <2>1, <2>2
<1>3. \A i : i \in 1 .. Len(s) + 1 <=> i \in 1 .. Len(s) \/ i = Len(s) + 1
  BY <1>1
<1>4. ToSet(Append(s, e)) = ToSet(s) \cup {e}
  BY <1>1, <1>2, <1>3
<1>5. ASSUME Distinct(s), e \notin ToSet(s) PROVE Distinct(Append(s, e))
  <2> SUFFICES ASSUME NEW i \in 1 .. Len(s) + 1, NEW j \in 1 .. Len(s) + 1, Append(s, e)[i] = Append(s, e)[j]
               PROVE  i = j
    BY <1>1 DEF Distinct
  <2>1. CASE i \in 1 .. Len(s) /\ j \in 1 .. Len(s)
    BY <1>1, <1>5, <2>1 DEF Distinct
  <2>2. CASE ~(i \in 1 .. Len(s) /\ j \in 1 .. Len(s))
    BY <1>1, <1>2, <1>3, <1>5, <2>2
  <2> QED  BY <2>1, <2>2
<1> QED  BY <1>1, <1>4, <1>5

\* Without its head a queue that repeats nothing has the others.
LEMMA TailSet ==
  ASSUME NEW S, NEW s \in Seq(S), s # <<>>, Distinct(s)
  PROVE  /\ Head(s) \in ToSet(s) /\ Head(s) \in S /\ Tail(s) \in Seq(S)
         /\ ToSet(Tail(s)) = ToSet(s) \ {Head(s)}
         /\ Distinct(Tail(s))
<1>1. /\ Len(s) \in Nat /\ Len(s) >= 1 /\ Head(s) = s[1] /\ Head(s) \in S
      /\ Tail(s) \in Seq(S) /\ Len(Tail(s)) = Len(s) - 1
      /\ \A i \in 1 .. Len(s) - 1 : Tail(s)[i] = s[i + 1]
  BY FrontOfQueue
<1>2. ToSet(s) = {s[i] : i \in 1 .. Len(s)} /\ ToSet(Tail(s)) = {Tail(s)[i] : i \in 1 .. Len(s) - 1}
  <2>1. ToSet(s) = {s[i] : i \in 1 .. Len(s)}
    BY InSequence
  <2>2. ToSet(Tail(s)) = {Tail(s)[i] : i \in 1 .. Len(Tail(s))}
    BY <1>1, InSequence
  <2> QED  BY <1>1, <2>1, <2>2
<1>3. Head(s) \in ToSet(s)
  BY <1>1, <1>2
<1>4. \A i \in 1 .. Len(s) - 1 : i + 1 \in 1 .. Len(s) /\ i + 1 # 1 /\ 1 \in 1 .. Len(s)
  BY <1>1
<1>5. ASSUME NEW i \in 1 .. Len(s), s[i] # s[1] PROVE i - 1 \in 1 .. Len(s) - 1 /\ (i - 1) + 1 = i
  <2>1. i # 1
    BY <1>5
  <2> QED  BY <1>1, <2>1
<1>6. ToSet(Tail(s)) \subseteq ToSet(s) \ {Head(s)}
  BY <1>1, <1>2, <1>4 DEF Distinct
<1>7. ToSet(s) \ {Head(s)} \subseteq ToSet(Tail(s))
  <2> SUFFICES ASSUME NEW x \in ToSet(s), x # s[1] PROVE x \in ToSet(Tail(s))
    BY <1>1
  <2>1. PICK i \in 1 .. Len(s) : x = s[i]
    BY <1>2
  <2>2. i - 1 \in 1 .. Len(s) - 1 /\ Tail(s)[i - 1] = s[i]
    BY <1>1, <1>5, <2>1
  <2> QED  BY <1>2, <2>1, <2>2
<1>8. Distinct(Tail(s))
  <2> SUFFICES ASSUME NEW i \in 1 .. Len(s) - 1, NEW j \in 1 .. Len(s) - 1, Tail(s)[i] = Tail(s)[j]
               PROVE  i = j
    BY <1>1 DEF Distinct
  <2>1. i + 1 = j + 1
    BY <1>1, <1>4 DEF Distinct
  <2> QED  BY <2>1
<1> QED  BY <1>1, <1>3, <1>6, <1>7, <1>8

-----------------------------------------------------------------------------
(* What most steps leave alone                                             *)

CallType == [pc : CallPlaces, gen : 0 .. MaxGen, nq : Nat]

\* A step that moves no message and accepts none keeps every message in its place; without
\* a node queue there is no lane it could disturb.
LEMMA PlacesFrame ==
  ASSUME PlacesOK, UNCHANGED <<chan, lane, parked, home, outcome>>,
         nodeQueue' = nodeQueue \/ nodeQueue = 0,
         worker'.msg = worker.msg,
         \A x \in Calls : At(x, "ok")' <=> At(x, "ok")
  PROVE  PlacesOK' /\ Held' = Held
<1>1. Held' = Held
  BY DEF Held
<1>2. \A x : /\ InQueue(x)' <=> InQueue(x)
             /\ Taken(x)' <=> Taken(x)
             /\ Parked(x)' <=> Parked(x)
             /\ InLane(x)' <=> InLane(x)
  BY DEF InQueue, Taken, Parked, InLane
<1>3. \A x \in Calls :
          /\ (x \in Held <=> InQueue(x) \/ Taken(x) \/ Parked(x) \/ InLane(x))'
          /\ ~(InQueue(x) /\ Taken(x))' /\ ~(InQueue(x) /\ Parked(x))' /\ ~(InQueue(x) /\ InLane(x))'
          /\ ~(Taken(x) /\ Parked(x))' /\ ~(Taken(x) /\ InLane(x))' /\ ~(Parked(x) /\ InLane(x))'
  BY <1>1, <1>2 DEF PlacesOK
<1>4. nodeQueue = 0 => \A l \in Lanes : ToSet(lane[l]) = {}
  BY DEF PlacesOK
<1>5. (\A l \in Lanes : \A x \in ToSet(lane[l]) : LaneOf[RouteOf[x]] = l /\ nodeQueue # 0 /\ home[x] = nodeQueue)'
  BY <1>4 DEF PlacesOK
<1>6. /\ \A g \in Gens : Distinct(chan[g])'
      /\ \A l \in Lanes : Distinct(lane[l])'
      /\ (\A r \in Routes : parked[r] # NoOne => RouteOf[parked[r]] = r)'
  BY DEF PlacesOK, Distinct
<1> QED  BY <1>1, <1>3, <1>5, <1>6 DEF PlacesOK

\* Nor does it change the order of anything.
LEMMA OrderFrame ==
  ASSUME OrderOK, UNCHANGED <<chan, parked, accepted, laned>>, worker'.msg = worker.msg,
         \A x \in Calls : At(x, "ok")' <=> At(x, "ok")
  PROVE  OrderOK'
<1>1. /\ \A x : InQueue(x)' <=> InQueue(x)
      /\ \A x : Taken(x)' <=> Taken(x)
      /\ \A x : Parked(x)' <=> Parked(x)
      /\ \A r, x, y : Before(r, x, y)' <=> Before(r, x, y)
  BY DEF InQueue, Taken, Parked, Before
<1>2. \A x \in Calls : (At(x, "ok") => x \in ToSet(accepted[RouteOf[x]]))'
  BY DEF OrderOK
<1>3. (\A r \in Routes : \A x \in ToSet(laned[r]) : x \in ToSet(accepted[r]))'
  BY DEF OrderOK
<1>4. (\A r \in Routes : \A i, j \in 1 .. Len(laned[r]) : i < j => Before(r, laned[r][i], laned[r][j]))'
  BY <1>1 DEF OrderOK
<1>5. (\A d \in Calls : InQueue(d) \/ Taken(d) \/ Parked(d) => \A x \in ToSet(laned[RouteOf[d]]) : Before(RouteOf[d], x, d))'
  BY <1>1 DEF OrderOK
<1>6. (\A x, d \in Calls : (Taken(x) \/ Parked(x)) /\ InQueue(d) /\ RouteOf[x] = RouteOf[d] => Before(RouteOf[d], x, d))'
  BY <1>1 DEF OrderOK
<1>7. (\A g \in Gens : \A i, j \in 1 .. Len(chan[g]) : i < j => Before(RouteOf[chan[g][j]], chan[g][i], chan[g][j]))'
  BY <1>1 DEF OrderOK
<1> QED  BY <1>2, <1>3, <1>4, <1>5, <1>6, <1>7 DEF OrderOK

\* A step that changes no reservation and no call keeps the counts.
LEMMA CountsFrame ==
  ASSUME CountsOK, UNCHANGED <<leases, acks, slots, home, nodeQueue, queues, outcome>>,
         Held' = Held,
         \A x \in Calls : /\ At(x, "ok")' <=> At(x, "ok")
                          /\ calls'[x].pc \in {"start", "ok", "refused"} <=> calls[x].pc \in {"start", "ok", "refused"}
                          /\ calls'[x].pc \in {"lookup", "insert", "gate", "admit"} => calls'[x].nq \in 1 .. queues
  PROVE  CountsOK'
<1>1. {x \in Calls : calls'[x].pc \notin {"start", "ok", "refused"}} = {x \in Calls : calls[x].pc \notin {"start", "ok", "refused"}}
  OBVIOUS
<1>2. ReservationsExact'
  BY <1>1 DEF CountsOK, ReservationsExact
<1> QED  BY <1>2 DEF CountsOK

\* What is in a channel or in the worker's hands is an accepted call.
LEMMA HeldIsAccepted ==
  ASSUME RouteTypes, PlacesOK
  PROVE  /\ \A g \in Gens : \A x \in ToSet(chan[g]) : x \in Calls /\ x \in Held /\ InQueue(x)
         /\ worker.msg \in Calls => worker.msg \in Held
         /\ \A x \in Held : x \in Calls /\ calls[x].pc = "ok" /\ outcome[x] = "none"
<1>1. ASSUME NEW g \in Gens, NEW x \in ToSet(chan[g]) PROVE x \in Calls /\ x \in Held /\ InQueue(x)
  <2>1. chan[g] \in Seq(Calls)
    BY DEF RouteTypes
  <2>2. x \in Calls
    BY <2>1, InSequence
  <2>3. InQueue(x)
    BY DEF InQueue
  <2> QED  BY <2>2, <2>3 DEF PlacesOK
<1>2. worker.msg \in Calls => worker.msg \in Held
  BY DEF PlacesOK, Taken
<1>3. \A x \in Held : x \in Calls /\ calls[x].pc = "ok" /\ outcome[x] = "none"
  BY DEF Held, At
<1> QED  BY <1>1, <1>2, <1>3

\* The bound on generations is a number.
LEMMA MaxGenNat == MaxGen \in Nat /\ 0 \in 0 .. MaxGen
<1>1. MaxGen \in Nat
  BY RouteAssumption
<1> QED  BY <1>1

\* The generations in use have channels and gates.
LEMMA UsedGenerations ==
  ASSUME nextGen \in 1 .. MaxGen + 1
  PROVE  \A g \in 1 .. nextGen - 1 : g \in Gens /\ g \in Nat /\ g < nextGen /\ g # 0 /\ g \in 0 .. MaxGen
<1>1. MaxGen \in Nat
  BY RouteAssumption
<1>2. nextGen \in Int /\ nextGen <= MaxGen + 1
  BY <1>1
<1> SUFFICES ASSUME NEW g \in 1 .. nextGen - 1
             PROVE  g \in Gens /\ g \in Nat /\ g < nextGen /\ g # 0 /\ g \in 0 .. MaxGen
  OBVIOUS
<1> QED  BY <1>1, <1>2 DEF Gens

\* The worker does not notice what the senders do with the gates they may take.
LEMMA WorkerFrame ==
  ASSUME RouteTypes, WorkerOK, UNCHANGED <<tx, rx, chan, parked, worker, rxGuard, nextGen>>,
         worker.msg \in Calls => calls'[worker.msg] = calls[worker.msg],
         \A g \in Gens : gate[g] = Worker => gate'[g] = Worker
  PROVE  WorkerOK'
<1>1. /\ worker.pc \in {"guard", "gate", "park", "retire", "cleanup"} => worker.gen \in Gens
  BY UsedGenerations DEF RouteTypes, WorkerOK
<1>2. /\ (worker.pc \in {"guard", "gate", "park", "retire", "cleanup"} => worker.gen \in 1..nextGen - 1)'
      /\ (worker.pc = "gate" => rxGuard /\ rx[worker.route] = worker.gen)'
      /\ (worker.pc \in {"retire", "cleanup"} => chan[worker.gen] = <<>>)'
      /\ (worker.pc = "cleanup" => \A r \in Routes : tx[r] # worker.gen)'
      /\ (worker.pc \in {"guard", "gate", "park"} => parked[worker.route] = NoOne)'
      /\ (worker.pc # "park" => worker.msg = NoOne)'
  BY DEF WorkerOK
<1>3. (worker.pc \in {"park", "retire", "cleanup"} => gate[worker.gen] = Worker)'
  BY <1>1 DEF WorkerOK
<1>4. (worker.pc = "park" =>
          /\ worker.msg \in Calls /\ calls[worker.msg].gen = worker.gen
          /\ RouteOf[worker.msg] = worker.route /\ tx[worker.route] = worker.gen)'
  BY DEF WorkerOK
<1> QED  BY <1>2, <1>3, <1>4 DEF WorkerOK

\* A call that moves before it is accepted moves nothing else.
LEMMA CallerFrame ==
  ASSUME RouteInv, NEW c \in Calls, calls[c].pc # "ok", calls'[c].pc # "ok",
         \A x \in Calls : x # c => calls'[x] = calls[x],
         UNCHANGED <<tx, rx, chan, rxGuard, nextGen, lane, parked, worker, home, outcome, accepted, laned>>,
         \A g \in Gens : gate[g] = Worker => gate'[g] = Worker,
         nodeQueue' = nodeQueue \/ nodeQueue = 0
  PROVE  RoutesOK' /\ WorkerOK' /\ PlacesOK' /\ Held' = Held /\ OrderOK'
<1>1. \A x \in Calls : At(x, "ok")' <=> At(x, "ok")
  BY DEF At
<1>2. PlacesOK' /\ Held' = Held
  BY <1>1, PlacesFrame DEF RouteInv
<1>3. OrderOK'
  BY <1>1, OrderFrame DEF RouteInv
<1>4. /\ \A g \in Gens : \A x \in ToSet(chan[g]) : calls'[x] = calls[x]
      /\ worker.msg \in Calls => calls'[worker.msg] = calls[worker.msg]
  BY HeldIsAccepted DEF RouteInv
<1>5. WorkerOK'
  BY <1>4, WorkerFrame DEF RouteInv
<1>6. RoutesOK'
  <2>1. /\ (\A r \in Routes : (tx[r] # 0 => rx[r] = tx[r]) /\ rx[r] < nextGen)'
        /\ (\A r, q \in Routes : rx[r] # 0 /\ rx[r] = rx[q] => r = q)'
    BY DEF RouteInv, RoutesOK
  <2>2. (\A g \in Gens : \A x \in ToSet(chan[g]) : calls[x].gen = g /\ tx[RouteOf[x]] = g)'
    BY <1>4 DEF RouteInv, RoutesOK
  <2> QED  BY <2>1, <2>2 DEF RoutesOK
<1> QED  BY <1>2, <1>3, <1>5, <1>6

-----------------------------------------------------------------------------
(* new_message                                                             *)

\* A call moves on, with the queue it found.
LEMMA CallMoves ==
  ASSUME calls \in [Calls -> CallType], NEW c \in Calls, NEW p \in CallPlaces, NEW k
  PROVE  /\ k \in Nat /\ calls' = [calls EXCEPT ![c].pc = p, ![c].nq = k] =>
              /\ calls' \in [Calls -> CallType]
              /\ \A x \in Calls : x # c => calls'[x] = calls[x]
              /\ calls'[c].pc = p /\ calls'[c].gen = calls[c].gen /\ calls'[c].nq = k
         /\ k \in 0 .. MaxGen /\ calls' = [calls EXCEPT ![c].pc = p, ![c].gen = k] =>
              /\ calls' \in [Calls -> CallType]
              /\ \A x \in Calls : x # c => calls'[x] = calls[x]
              /\ calls'[c].pc = p /\ calls'[c].gen = k /\ calls'[c].nq = calls[c].nq
         /\ calls' = [calls EXCEPT ![c].pc = p] =>
              /\ calls' \in [Calls -> CallType]
              /\ \A x \in Calls : x # c => calls'[x] = calls[x]
              /\ calls'[c].pc = p /\ calls'[c].gen = calls[c].gen /\ calls'[c].nq = calls[c].nq
<1>1. ASSUME k \in Nat, calls' = [calls EXCEPT ![c].pc = p, ![c].nq = k]
      PROVE  /\ calls' \in [Calls -> CallType]
             /\ \A x \in Calls : x # c => calls'[x] = calls[x]
             /\ calls'[c].pc = p /\ calls'[c].gen = calls[c].gen /\ calls'[c].nq = k
  BY <1>1 DEF CallType
<1>2. ASSUME k \in 0 .. MaxGen, calls' = [calls EXCEPT ![c].pc = p, ![c].gen = k]
      PROVE  /\ calls' \in [Calls -> CallType]
             /\ \A x \in Calls : x # c => calls'[x] = calls[x]
             /\ calls'[c].pc = p /\ calls'[c].gen = k /\ calls'[c].nq = calls[c].nq
  BY <1>2 DEF CallType
<1>3. ASSUME calls' = [calls EXCEPT ![c].pc = p]
      PROVE  /\ calls' \in [Calls -> CallType]
             /\ \A x \in Calls : x # c => calls'[x] = calls[x]
             /\ calls'[c].pc = p /\ calls'[c].gen = calls[c].gen /\ calls'[c].nq = calls[c].nq
  BY <1>3 DEF CallType
<1> QED  BY <1>1, <1>2, <1>3

LEMMA StartMessageStep ==
  ASSUME RouteInv, NEW c \in Calls, StartMessage(c)
  PROVE  RouteInv'
<1>1. /\ calls \in [Calls -> CallType] /\ nodeQueue \in Nat
      /\ "lookup" \in CallPlaces /\ "create" \in CallPlaces /\ "refused" \in CallPlaces
  BY DEF RouteInv, RouteTypes, CallType, CallPlaces
<1>2. /\ UNCHANGED <<maps, node, parked, worker, notified, topo, outcome, hist>> /\ calls[c].pc = "start"
      /\ \/ /\ leases' = leases \cup {c} /\ acks' = acks \cup {c} /\ nodeQueue # 0
            /\ calls' = [calls EXCEPT ![c].pc = "lookup", ![c].nq = nodeQueue]
         \/ /\ leases' = leases \cup {c} /\ acks' = acks \cup {c}
            /\ calls' = [calls EXCEPT ![c].pc = "create"]
         \/ /\ leases' = leases /\ acks' = acks
            /\ calls' = [calls EXCEPT ![c].pc = "refused"]
  BY DEF StartMessage, Found, Goto, At
<1>3. /\ calls' \in [Calls -> CallType]
      /\ \A x \in Calls : x # c => calls'[x] = calls[x]
      /\ calls'[c].gen = calls[c].gen
      /\ \/ leases' = leases \cup {c} /\ acks' = acks \cup {c} /\ nodeQueue # 0 /\ calls'[c].pc = "lookup" /\ calls'[c].nq = nodeQueue
         \/ leases' = leases \cup {c} /\ acks' = acks \cup {c} /\ calls'[c].pc = "create"
         \/ leases' = leases /\ acks' = acks /\ calls'[c].pc = "refused"
  BY <1>1, <1>2, CallMoves
<1>4. RouteTypes'
  BY <1>2, <1>3 DEF RouteInv, RouteTypes, CallType, maps, node, hist
<1>5. RoutesOK' /\ WorkerOK' /\ PlacesOK' /\ Held' = Held /\ OrderOK'
  BY <1>2, <1>3, CallerFrame DEF maps, node, hist
<1>6. SendersOK'
  BY <1>2, <1>3 DEF RouteInv, SendersOK, At, maps
<1>7. CountsOK'
  <2> DEFINE pending == {x \in Calls : calls[x].pc \notin {"start", "ok", "refused"}}
  <2>1. leases = pending \cup Held /\ acks = leases
    BY DEF RouteInv, CountsOK, ReservationsExact
  <2>2. \/ leases' = leases \cup {c} /\ acks' = acks \cup {c} /\ pending' = pending \cup {c}
        \/ leases' = leases /\ acks' = acks /\ pending' = pending
    BY <1>2, <1>3
  <2>3. leases' = pending' \cup Held' /\ acks' = leases'
    BY <1>5, <2>1, <2>2
  <2>4. ReservationsExact'
    BY <1>2, <1>5, <2>3 DEF RouteInv, CountsOK, ReservationsExact, node
  <2>5. nodeQueue # 0 => nodeQueue \in 1 .. queues
    BY DEF RouteInv, RouteTypes, CountsOK
  <2>6. \A x \in Calls : calls'[x].pc \in {"lookup", "insert", "gate", "admit"} => calls'[x].nq \in 1 .. queues
    BY <1>2, <1>3, <2>5 DEF RouteInv, CountsOK
  <2>7. \A x \in Calls : home'[x] <= queues' /\ (~At(x, "ok")' => outcome'[x] = "none")
    BY <1>2, <1>3 DEF RouteInv, CountsOK, node, At
  <2> QED  BY <1>2, <2>4, <2>6, <2>7 DEF RouteInv, CountsOK, node
<1> QED  BY <1>4, <1>5, <1>6, <1>7 DEF RouteInv

\* Nothing has a slot in a new incarnation.
LEMMA FreshQueue ==
  ASSUME RouteTypes, PlacesOK, CountsOK, NewNodeQueue, nodeQueue = 0,
         UNCHANGED <<leases, acks, home, outcome>>,
         \A x \in Calls : /\ At(x, "ok")' <=> At(x, "ok")
                          /\ calls'[x].pc \in {"start", "ok", "refused"} <=> calls[x].pc \in {"start", "ok", "refused"}
                          /\ calls'[x].pc \in {"lookup", "insert", "gate", "admit"} => calls'[x].nq \in 1 .. queues + 1
  PROVE  /\ CountsOK' /\ lane' = lane
         /\ nodeQueue' \in Nat /\ queues' \in Nat /\ slots' \in [Lanes -> Int]
<1>1. queues \in Nat /\ queues' = queues + 1 /\ nodeQueue' = queues + 1 /\ slots' = [l \in Lanes |-> 0] /\ nodeQueue' # 0
  BY DEF NewNodeQueue, RouteTypes
<1>2. lane' = lane
  <2>1. ASSUME NEW l \in Lanes PROVE lane[l] = <<>>
    <3>1. lane[l] \in Seq(Calls)
      BY DEF RouteTypes
    <3>2. ToSet(lane[l]) = {}
      BY DEF PlacesOK
    <3> QED  BY <3>1, <3>2, InSequence
  <2> QED  BY <2>1 DEF RouteTypes, NewNodeQueue
<1>3. {x \in Calls : calls'[x].pc \notin {"start", "ok", "refused"}} = {x \in Calls : calls[x].pc \notin {"start", "ok", "refused"}}
  OBVIOUS
<1>4. Held' = Held
  BY DEF Held
<1>5. ASSUME NEW l \in Lanes PROVE {x \in Held' : home'[x] = nodeQueue' /\ LaneOf[RouteOf[x]] = l} = {}
  <2>1. \A x \in Calls : home[x] \in Nat /\ home[x] <= queues
    BY DEF RouteTypes, CountsOK
  <2> QED  BY <1>1, <1>4, <2>1 DEF Held
<1>6. ReservationsExact'
  BY <1>1, <1>3, <1>4, <1>5, FS_EmptySet DEF CountsOK, ReservationsExact
<1>7. \A x \in Calls : home'[x] <= queues' /\ (calls'[x].pc \in {"lookup", "insert", "gate", "admit"} => calls'[x].nq \in 1 .. queues')
  BY <1>1 DEF RouteTypes, CountsOK
<1>8. nodeQueue' <= queues' /\ \A x \in Calls : ~At(x, "ok")' => outcome'[x] = "none"
  BY <1>1 DEF CountsOK
<1> QED  BY <1>1, <1>2, <1>6, <1>7, <1>8 DEF CountsOK

LEMMA CreateNodeQueueStep ==
  ASSUME RouteInv, NEW c \in Calls, CreateNodeQueue(c)
  PROVE  RouteInv'
<1>1. /\ calls \in [Calls -> CallType] /\ nodeQueue \in Nat /\ queues + 1 \in Nat /\ "lookup" \in CallPlaces
  BY DEF RouteInv, RouteTypes, CallType, CallPlaces
<1>2. /\ UNCHANGED <<leases, acks, maps, home, parked, worker, notified, topo, outcome, hist>>
      /\ calls[c].pc = "create"
      /\ \/ /\ nodeQueue # 0 /\ UNCHANGED <<nodeQueue, queues, slots, lane>>
            /\ calls' = [calls EXCEPT ![c].pc = "lookup", ![c].nq = nodeQueue]
         \/ /\ nodeQueue = 0 /\ NewNodeQueue
            /\ calls' = [calls EXCEPT ![c].pc = "lookup", ![c].nq = queues + 1]
  BY DEF CreateNodeQueue, At
<1>3. /\ calls' \in [Calls -> CallType]
      /\ \A x \in Calls : x # c => calls'[x] = calls[x]
      /\ calls'[c].pc = "lookup" /\ calls'[c].gen = calls[c].gen
      /\ \/ nodeQueue # 0 /\ UNCHANGED <<nodeQueue, queues, slots, lane>> /\ calls'[c].nq = nodeQueue
         \/ nodeQueue = 0 /\ NewNodeQueue /\ calls'[c].nq = queues + 1
  BY <1>1, <1>2, CallMoves
<1>4. \A x \in Calls : At(x, "ok")' <=> At(x, "ok")
  BY <1>2, <1>3 DEF At
<1>5. SendersOK'
  BY <1>2, <1>3 DEF RouteInv, SendersOK, At, maps
<1>6. CASE nodeQueue # 0
  <2>1. RouteTypes'
    BY <1>2, <1>3, <1>6 DEF RouteInv, RouteTypes, CallType, maps, hist
  <2>2. RoutesOK' /\ WorkerOK' /\ PlacesOK' /\ Held' = Held /\ OrderOK'
    BY <1>2, <1>3, <1>6, CallerFrame DEF maps, hist
  <2>3. nodeQueue \in 1 .. queues
    BY <1>6 DEF RouteInv, RouteTypes, CountsOK
  <2>4. \A x \in Calls :
            /\ calls'[x].pc \in {"start", "ok", "refused"} <=> calls[x].pc \in {"start", "ok", "refused"}
            /\ calls'[x].pc \in {"lookup", "insert", "gate", "admit"} => calls'[x].nq \in 1 .. queues
    BY <1>2, <1>3, <1>6, <2>3 DEF RouteInv, CountsOK
  <2>5. CountsOK'
    BY <1>2, <1>3, <1>4, <1>6, <2>2, <2>4, CountsFrame DEF RouteInv
  <2> QED  BY <1>5, <2>1, <2>2, <2>5 DEF RouteInv
<1>7. CASE nodeQueue = 0
  <2>1. 1 .. queues \subseteq 1 .. queues + 1 /\ queues + 1 \in 1 .. queues + 1
    BY DEF RouteInv, RouteTypes
  <2>2. \A x \in Calls :
            /\ calls'[x].pc \in {"start", "ok", "refused"} <=> calls[x].pc \in {"start", "ok", "refused"}
            /\ calls'[x].pc \in {"lookup", "insert", "gate", "admit"} => calls'[x].nq \in 1 .. queues + 1
    BY <1>2, <1>3, <1>7, <2>1 DEF RouteInv, CountsOK
  <2>3. CountsOK' /\ lane' = lane /\ nodeQueue' \in Nat /\ queues' \in Nat /\ slots' \in [Lanes -> Int]
    BY <1>2, <1>3, <1>4, <1>7, <2>2, FreshQueue DEF RouteInv
  <2>4. RouteTypes'
    BY <1>2, <1>3, <2>3 DEF RouteInv, RouteTypes, CallType, maps, hist
  <2>5. RoutesOK' /\ WorkerOK' /\ PlacesOK' /\ Held' = Held /\ OrderOK'
    BY <1>2, <1>3, <1>7, <2>3, CallerFrame DEF maps, hist
  <2> QED  BY <1>5, <2>3, <2>4, <2>5 DEF RouteInv
<1> QED  BY <1>6, <1>7

\* A lookup that finds a sender goes on with its generation; one that does not locks the shard.
LEMMA LookupSenderStep ==
  ASSUME RouteInv, NEW c \in Calls, LookupSender(c)
  PROVE  RouteInv'
<1> DEFINE r == RouteOf[c]
<1>1. /\ calls \in [Calls -> CallType] /\ r \in Routes /\ Shard[r] \in Shards /\ tx[r] \in 0 .. MaxGen
      /\ "gate" \in CallPlaces /\ "insert" \in CallPlaces /\ txLock \in [Shards -> Calls \cup {NoOne}]
  <2>1. r \in Routes
    BY RouteAssumption
  <2>2. /\ calls \in [Calls -> CallType] /\ tx \in [Routes -> 0 .. MaxGen]
        /\ txLock \in [Shards -> Calls \cup {NoOne}]
    BY DEF RouteInv, RouteTypes, CallType
  <2> QED  BY <2>1, <2>2 DEF Shards, CallPlaces
<1>2. /\ UNCHANGED <<leases, acks, tx, rx, chan, gate, rxGuard, nextGen, node, parked, worker, notified, topo, outcome, hist>>
      /\ calls[c].pc = "lookup" /\ txLock[Shard[r]] = NoOne
      /\ \/ /\ tx[r] # 0 /\ UNCHANGED txLock
            /\ calls' = [calls EXCEPT ![c].pc = "gate", ![c].gen = tx[r]]
         \/ /\ tx[r] = 0 /\ txLock' = [txLock EXCEPT ![Shard[r]] = c]
            /\ calls' = [calls EXCEPT ![c].pc = "insert"]
  BY DEF LookupSender, At, Goto
<1>3. /\ calls' \in [Calls -> CallType]
      /\ \A x \in Calls : x # c => calls'[x] = calls[x]
      /\ calls'[c].nq = calls[c].nq
      /\ \/ tx[r] # 0 /\ UNCHANGED txLock /\ calls'[c].pc = "gate" /\ calls'[c].gen = tx[r]
         \/ tx[r] = 0 /\ txLock' = [txLock EXCEPT ![Shard[r]] = c] /\ calls'[c].pc = "insert"
  BY <1>1, <1>2, CallMoves
<1>4. \A x \in Calls : At(x, "ok")' <=> At(x, "ok")
  BY <1>2, <1>3 DEF At
<1>5. RouteTypes'
  <2>1. txLock' \in [Shards -> Calls \cup {NoOne}]
    BY <1>1, <1>3 DEF RouteInv, RouteTypes
  <2> QED  BY <1>2, <1>3, <2>1 DEF RouteInv, RouteTypes, CallType, node, hist
<1>6. RoutesOK' /\ WorkerOK' /\ PlacesOK' /\ Held' = Held /\ OrderOK'
  BY <1>2, <1>3, CallerFrame DEF node, hist
<1>7. SendersOK'
  <2>1. tx[r] # 0 => tx[r] \in 1 .. nextGen - 1
    BY <1>1 DEF RouteInv, RouteTypes, RoutesOK
  <2>2. \A x \in Calls : /\ NoOne \notin Calls
                         /\ calls[x].pc = "insert" => txLock[Shard[RouteOf[x]]] = x /\ tx[RouteOf[x]] = 0
                         /\ Shard[RouteOf[x]] \in Shards
    BY RouteAssumption DEF RouteInv, SendersOK, At, NoOne, Shards
  <2>3. txLock'[Shard[r]] = c \/ txLock' = txLock
    BY <1>1, <1>3
  <2>4. ASSUME NEW x \in Calls, x # c, calls[x].pc = "insert"
        PROVE  txLock'[Shard[RouteOf[x]]] = x /\ tx'[RouteOf[x]] = 0
    <3>1. txLock[Shard[RouteOf[x]]] = x /\ x # NoOne /\ tx[RouteOf[x]] = 0 /\ Shard[RouteOf[x]] # Shard[r]
      BY <1>2, <2>2, <2>4
    <3>2. txLock'[Shard[RouteOf[x]]] = txLock[Shard[RouteOf[x]]]
      BY <1>1, <1>3, <2>2, <3>1
    <3> QED  BY <1>2, <3>1, <3>2
  <2>5. \A x \in Calls : At(x, "insert")' => txLock'[Shard[RouteOf[x]]] = x /\ tx'[RouteOf[x]] = 0
    <3>1. calls'[c].pc = "insert" => txLock'[Shard[RouteOf[c]]] = c /\ tx'[RouteOf[c]] = 0
      BY <1>1, <1>2, <1>3
    <3> QED  BY <1>3, <2>4, <3>1 DEF At
  <2>6. \A x \in Calls : /\ (calls[x].pc \in {"gate", "admit", "ok"} => calls[x].gen \in 1..nextGen - 1)'
                         /\ (At(x, "admit") => gate[calls[x].gen] = x)'
    BY <1>2, <1>3, <2>1 DEF RouteInv, SendersOK, At
  <2> QED  BY <2>5, <2>6 DEF SendersOK
<1>8. CountsOK'
  <2>1. \A x \in Calls :
            /\ calls'[x].pc \in {"start", "ok", "refused"} <=> calls[x].pc \in {"start", "ok", "refused"}
            /\ calls'[x].pc \in {"lookup", "insert", "gate", "admit"} => calls'[x].nq \in 1 .. queues
    BY <1>2, <1>3 DEF RouteInv, CountsOK
  <2> QED  BY <1>2, <1>4, <1>6, <2>1, CountsFrame DEF RouteInv, node
<1> QED  BY <1>5, <1>6, <1>7, <1>8 DEF RouteInv

LEMMA LockGateStep ==
  ASSUME RouteInv, NEW c \in Calls, LockGate(c)
  PROVE  RouteInv'
<1> DEFINE g == calls[c].gen
<1>1. /\ calls \in [Calls -> CallType] /\ "admit" \in CallPlaces /\ gate \in [Gens -> Calls \cup {NoOne, Worker}]
      /\ NoOne \notin Calls /\ Worker \notin Calls /\ NoOne # Worker
  BY RouteAssumption DEF RouteInv, RouteTypes, CallType, CallPlaces, NoOne, Worker
<1>2. /\ UNCHANGED <<leases, acks, tx, rx, chan, txLock, rxGuard, nextGen, node, parked, worker, notified, topo, outcome, hist>>
      /\ calls[c].pc = "gate" /\ gate[g] = NoOne
      /\ gate' = [gate EXCEPT ![g] = c]
      /\ calls' = [calls EXCEPT ![c].pc = "admit"]
  BY DEF LockGate, At, Goto
<1>3. /\ calls' \in [Calls -> CallType]
      /\ \A x \in Calls : x # c => calls'[x] = calls[x]
      /\ calls'[c].pc = "admit" /\ calls'[c].gen = g /\ calls'[c].nq = calls[c].nq
  BY <1>1, <1>2, CallMoves
<1>4. g \in Gens /\ g \in 1 .. nextGen - 1
  BY <1>2, UsedGenerations DEF RouteInv, RouteTypes, SendersOK
<1>5. /\ gate' \in [Gens -> Calls \cup {NoOne, Worker}] /\ gate'[g] = c
      /\ \A k \in Gens : k # g => gate'[k] = gate[k]
  BY <1>1, <1>2, <1>4
<1>6. \A x \in Calls : At(x, "ok")' <=> At(x, "ok")
  BY <1>2, <1>3 DEF At
<1>7. RouteTypes'
  BY <1>2, <1>3, <1>5 DEF RouteInv, RouteTypes, CallType, node, hist
<1>8. \A k \in Gens : gate[k] = Worker => gate'[k] = Worker
  BY <1>1, <1>2, <1>5
<1>9. RoutesOK' /\ WorkerOK' /\ PlacesOK' /\ Held' = Held /\ OrderOK'
  BY <1>2, <1>3, <1>8, CallerFrame DEF node, hist
<1>10. SendersOK'
  <2>1. ASSUME NEW x \in Calls, x # c, calls[x].pc = "admit" PROVE gate'[calls[x].gen] = x
    <3>1. gate[calls[x].gen] = x /\ calls[x].gen \in Gens
      BY <2>1, UsedGenerations DEF RouteInv, RouteTypes, SendersOK, At
    <3> QED  BY <1>1, <1>2, <1>5, <3>1
  <2>2. \A x \in Calls : At(x, "admit")' => gate'[calls'[x].gen] = x
    BY <1>3, <1>5, <2>1 DEF At
  <2>3. \A x \in Calls : /\ (At(x, "insert") => txLock[Shard[RouteOf[x]]] = x /\ tx[RouteOf[x]] = 0)'
                         /\ (calls[x].pc \in {"gate", "admit", "ok"} => calls[x].gen \in 1..nextGen - 1)'
    BY <1>2, <1>3, <1>4 DEF RouteInv, SendersOK, At
  <2> QED  BY <2>2, <2>3 DEF SendersOK
<1>11. CountsOK'
  <2>1. \A x \in Calls :
            /\ calls'[x].pc \in {"start", "ok", "refused"} <=> calls[x].pc \in {"start", "ok", "refused"}
            /\ calls'[x].pc \in {"lookup", "insert", "gate", "admit"} => calls'[x].nq \in 1 .. queues
    BY <1>2, <1>3 DEF RouteInv, CountsOK
  <2> QED  BY <1>2, <1>6, <1>9, <2>1, CountsFrame DEF RouteInv, node
<1> QED  BY <1>7, <1>9, <1>10, <1>11 DEF RouteInv

\* A fresh generation is nobody else's.
LEMMA InsertQueueStep ==
  ASSUME RouteInv, NEW c \in Calls, InsertQueue(c)
  PROVE  RouteInv'
<1> DEFINE r == RouteOf[c]
<1>1. /\ calls \in [Calls -> CallType] /\ r \in Routes /\ Shard[r] \in Shards
      /\ tx \in [Routes -> 0 .. MaxGen] /\ rx \in [Routes -> 0 .. MaxGen]
      /\ txLock \in [Shards -> Calls \cup {NoOne}] /\ "gate" \in CallPlaces
      /\ MaxGen \in Nat /\ nextGen \in 1 .. MaxGen + 1
  <2>1. r \in Routes /\ MaxGen \in Nat
    BY RouteAssumption
  <2>2. /\ calls \in [Calls -> CallType] /\ tx \in [Routes -> 0 .. MaxGen] /\ rx \in [Routes -> 0 .. MaxGen]
        /\ txLock \in [Shards -> Calls \cup {NoOne}] /\ nextGen \in 1 .. MaxGen + 1
    BY DEF RouteInv, RouteTypes, CallType
  <2> QED  BY <2>1, <2>2 DEF Shards, CallPlaces
<1>2. /\ UNCHANGED <<leases, acks, chan, gate, rxGuard, node, parked, worker, notified, topo, outcome, hist>>
      /\ calls[c].pc = "insert" /\ rxGuard = FALSE /\ nextGen <= MaxGen /\ nextGen' = nextGen + 1
      /\ tx' = [tx EXCEPT ![r] = nextGen] /\ rx' = [rx EXCEPT ![r] = nextGen]
      /\ txLock' = [txLock EXCEPT ![Shard[r]] = NoOne]
      /\ calls' = [calls EXCEPT ![c].pc = "gate", ![c].gen = nextGen]
  <2>1. ~rxGuard /\ UNCHANGED <<leases, acks, chan, gate, rxGuard, node, parked, worker, notified, topo, outcome, hist>>
    BY DEF InsertQueue
  <2> QED  BY <2>1 DEF InsertQueue, At
<1>3. /\ calls' \in [Calls -> CallType]
      /\ \A x \in Calls : x # c => calls'[x] = calls[x]
      /\ calls'[c].nq = calls[c].nq /\ calls'[c].pc = "gate" /\ calls'[c].gen = nextGen
  <2>1. nextGen \in 0 .. MaxGen
    BY <1>1, <1>2
  <2> QED  BY <1>1, <1>2, <2>1, CallMoves
<1>4. /\ tx' \in [Routes -> 0 .. MaxGen] /\ rx' \in [Routes -> 0 .. MaxGen] /\ txLock' \in [Shards -> Calls \cup {NoOne}]
      /\ tx'[r] = nextGen /\ rx'[r] = nextGen
      /\ \A q \in Routes : q # r => tx'[q] = tx[q] /\ rx'[q] = rx[q]
      /\ \A s \in Shards : s # Shard[r] => txLock'[s] = txLock[s]
      /\ nextGen' \in 1 .. MaxGen + 1
  BY <1>1, <1>2
<1>5. tx[r] = 0 /\ txLock[Shard[r]] = c
  BY <1>2 DEF RouteInv, SendersOK, At
<1>6. \A x \in Calls : At(x, "ok")' <=> At(x, "ok")
  BY <1>2, <1>3 DEF At
<1>7. RouteTypes'
  <2>1. 1 .. nextGen - 1 \subseteq 1 .. nextGen' - 1
    BY <1>1, <1>2
  <2>2. worker.todo \subseteq Routes \X (1 .. nextGen' - 1)
    <3>1. worker.todo \subseteq Routes \X (1 .. nextGen - 1)
      BY DEF RouteInv, RouteTypes
    <3> QED  BY <2>1, <3>1
  <2>3. worker' \in [pc : WorkerPlaces, todo : SUBSET (Routes \X (1..nextGen' - 1)), progress : BOOLEAN,
                     route : Routes, gen : 0..MaxGen, msg : Calls \cup {NoOne}]
    BY <1>2, <2>2 DEF RouteInv, RouteTypes
  <2>4. /\ chan' \in [Gens -> Seq(Calls)] /\ gate' \in [Gens -> Calls \cup {NoOne, Worker}]
        /\ nodeQueue' \in Nat /\ queues' \in Nat /\ home' \in [Calls -> Nat]
        /\ slots' \in [Lanes -> Int] /\ lane' \in [Lanes -> Seq(Calls)]
        /\ parked' \in [Routes -> Calls \cup {NoOne}]
        /\ outcome' \in [Calls -> {"none", "sent", "gone"}]
        /\ accepted' \in [Routes -> Seq(Calls)] /\ laned' \in [Routes -> Seq(Calls)]
    BY <1>2 DEF RouteInv, RouteTypes, node, hist
  <2> QED  BY <1>3, <1>4, <2>3, <2>4 DEF RouteTypes, CallType
<1>8. PlacesOK' /\ Held' = Held
  BY <1>2, <1>6, PlacesFrame DEF RouteInv, node
<1>9. OrderOK'
  BY <1>2, <1>6, OrderFrame DEF RouteInv, hist
<1>10. \A q \in Routes : tx[q] \in Nat /\ rx[q] \in Nat /\ (tx[q] # 0 => rx[q] = tx[q]) /\ rx[q] < nextGen
  BY <1>1 DEF RouteInv, RoutesOK
<1>11. RoutesOK'
  <2>1. (\A q \in Routes : (tx[q] # 0 => rx[q] = tx[q]) /\ rx[q] < nextGen)'
    BY <1>1, <1>2, <1>4, <1>10
  <2>2. (\A q, p \in Routes : rx[q] # 0 /\ rx[q] = rx[p] => q = p)'
    <3>1. \A q, p \in Routes : rx[q] # 0 /\ rx[q] = rx[p] => q = p
      BY DEF RouteInv, RoutesOK
    <3>2. \A q \in Routes : q # r => rx'[q] # nextGen
      BY <1>1, <1>4, <1>10
    <3> QED  BY <1>4, <3>1, <3>2
  <2>3. ASSUME NEW g \in Gens, NEW x \in ToSet(chan[g])
        PROVE  calls'[x].gen = g /\ tx'[RouteOf[x]] = g
    <3>1. x \in Calls /\ calls[x].pc = "ok" /\ calls[x].gen = g /\ tx[RouteOf[x]] = g
      BY HeldIsAccepted DEF RouteInv, RoutesOK
    <3>a. g # 0
      BY <1>1 DEF Gens
    <3>b. RouteOf[x] \in Routes
      BY <3>1, RouteAssumption
    <3>2. g # 0 /\ x # c /\ RouteOf[x] # r /\ RouteOf[x] \in Routes
      BY <1>2, <1>5, <3>1, <3>a, <3>b
    <3> QED  BY <1>3, <1>4, <3>1, <3>2
  <2> QED  BY <1>2, <2>1, <2>2, <2>3 DEF RoutesOK
<1>12. SendersOK'
  <2>1. ASSUME NEW x \in Calls, x # c
        PROVE  /\ calls[x].pc = "insert" => txLock'[Shard[RouteOf[x]]] = x /\ tx'[RouteOf[x]] = 0
               /\ calls[x].pc \in {"gate", "admit", "ok"} => calls[x].gen \in 1 .. nextGen' - 1
               /\ calls[x].pc = "admit" => gate[calls[x].gen] = x
    <3>1. /\ calls[x].pc = "insert" => txLock[Shard[RouteOf[x]]] = x /\ tx[RouteOf[x]] = 0
          /\ calls[x].pc \in {"gate", "admit", "ok"} => calls[x].gen \in 1 .. nextGen - 1
          /\ calls[x].pc = "admit" => gate[calls[x].gen] = x
      BY DEF RouteInv, SendersOK, At
    <3>2. RouteOf[x] \in Routes /\ Shard[RouteOf[x]] \in Shards
      BY RouteAssumption DEF Shards
    <3>3. calls[x].pc = "insert" => Shard[RouteOf[x]] # Shard[r] /\ RouteOf[x] # r
      BY <1>5, <2>1, <3>1
    <3>4. calls[x].pc = "insert" => txLock'[Shard[RouteOf[x]]] = x /\ tx'[RouteOf[x]] = 0
      BY <1>4, <3>1, <3>2, <3>3
    <3>5. 1 .. nextGen - 1 \subseteq 1 .. nextGen' - 1
      BY <1>1, <1>2
    <3> QED  BY <3>1, <3>4, <3>5
  <2>2. nextGen \in 1 .. nextGen' - 1
    BY <1>1, <1>2
  <2> QED  BY <1>2, <1>3, <2>1, <2>2 DEF SendersOK, At
<1>13. WorkerOK'
  <2>1. worker.pc # "gate" /\ worker' = worker /\ parked' = parked /\ gate' = gate /\ chan' = chan
    BY <1>2 DEF RouteInv, WorkerOK
  <2>2. 1 .. nextGen - 1 \subseteq 1 .. nextGen' - 1 /\ \A g \in 1 .. nextGen - 1 : g # nextGen /\ g # 0
    BY <1>1, <1>2
  <2>3. worker.pc = "cleanup" => \A q \in Routes : tx'[q] # worker.gen
    BY <1>4, <2>2 DEF RouteInv, WorkerOK
  <2>4. worker.pc = "park" => /\ worker.msg \in Calls /\ calls'[worker.msg].gen = worker.gen
                              /\ RouteOf[worker.msg] = worker.route /\ tx'[worker.route] = worker.gen
    <3> SUFFICES ASSUME worker.pc = "park"
                 PROVE  /\ worker.msg \in Calls /\ calls'[worker.msg].gen = worker.gen
                        /\ RouteOf[worker.msg] = worker.route /\ tx'[worker.route] = worker.gen
      OBVIOUS
    <3>1. /\ worker.msg \in Calls /\ calls[worker.msg].gen = worker.gen
          /\ RouteOf[worker.msg] = worker.route /\ tx[worker.route] = worker.gen /\ worker.gen \in 1 .. nextGen - 1
      BY DEF RouteInv, WorkerOK
    <3>2. worker.route # r /\ worker.route \in Routes
      BY <1>5, <2>2, <3>1, RouteAssumption
    <3>3. worker.msg # c
      BY <3>1, <3>2
    <3> QED  BY <1>3, <1>4, <3>1, <3>2, <3>3
  <2> QED  BY <2>1, <2>2, <2>3, <2>4 DEF RouteInv, WorkerOK
<1>14. CountsOK'
  <2>1. \A x \in Calls :
            /\ calls'[x].pc \in {"start", "ok", "refused"} <=> calls[x].pc \in {"start", "ok", "refused"}
            /\ calls'[x].pc \in {"lookup", "insert", "gate", "admit"} => calls'[x].nq \in 1 .. queues
    BY <1>2, <1>3 DEF RouteInv, CountsOK
  <2> QED  BY <1>2, <1>6, <1>8, <2>1, CountsFrame DEF RouteInv, node
<1> QED  BY <1>7, <1>8, <1>9, <1>11, <1>12, <1>13, <1>14 DEF RouteInv

\* What was accepted before stays so, and comes before what is accepted now.
LEMMA AcceptedLater ==
  ASSUME NEW r \in Routes, NEW c \in Calls, accepted \in [Routes -> Seq(Calls)],
         accepted' = [accepted EXCEPT ![r] = Append(@, c)]
  PROVE  /\ accepted' \in [Routes -> Seq(Calls)]
         /\ \A q \in Routes : \A x, y : Before(q, x, y) => Before(q, x, y)'
         /\ \A x \in ToSet(accepted[r]) : Before(r, x, c)'
         /\ \A q \in Routes : ToSet(accepted[q]) \subseteq ToSet(accepted'[q])
         /\ c \in ToSet(accepted'[r])
<1> DEFINE s == accepted[r]
           t == accepted'[r]
<1>1. /\ s \in Seq(Calls) /\ t = Append(s, c) /\ \A q \in Routes : q # r => accepted'[q] = accepted[q]
      /\ accepted' \in [Routes -> Seq(Calls)]
  BY AppendProperties
<1>2. /\ Len(s) \in Nat /\ Len(t) = Len(s) + 1
      /\ \A i \in 1 .. Len(s) : t[i] = s[i]
      /\ t[Len(s) + 1] = c
  BY <1>1, AppendProperties
<1>3. 1 .. Len(s) \subseteq 1 .. Len(t) /\ Len(s) + 1 \in 1 .. Len(t) /\ \A i \in 1 .. Len(s) : i < Len(s) + 1
  BY <1>2
<1>4. ToSet(t) = ToSet(s) \cup {c} /\ ToSet(s) = {s[i] : i \in 1 .. Len(s)}
  BY <1>1, AppendedSet, InSequence
<1>5. \A x, y : Before(r, x, y) => Before(r, x, y)'
  BY <1>2, <1>3 DEF Before
<1>6. \A q \in Routes : q # r => \A x, y : Before(q, x, y) => Before(q, x, y)'
  BY <1>1 DEF Before
<1>7. \A x \in ToSet(s) : Before(r, x, c)'
  BY <1>2, <1>3, <1>4 DEF Before
<1> HIDE DEF s, t
<1>8. \A q \in Routes : ToSet(accepted[q]) \subseteq ToSet(accepted'[q])
  BY <1>1, <1>4 DEF s, t
<1> QED  BY <1>1, <1>4, <1>5, <1>6, <1>7, <1>8 DEF s, t

\* The gate a call holds is not the worker's, and no other call holds it.
LEMMA AdmitGate ==
  ASSUME RouteInv, NEW c \in Calls, calls[c].pc = "admit", gate' = [gate EXCEPT ![calls[c].gen] = NoOne]
  PROVE  /\ calls[c].gen \in Gens /\ calls[c].gen \in 1 .. nextGen - 1 /\ gate[calls[c].gen] = c
         /\ gate' \in [Gens -> Calls \cup {NoOne, Worker}]
         /\ \A g \in Gens : gate[g] = Worker => gate'[g] = Worker
         /\ \A x \in Calls : x # c /\ calls[x].pc = "admit" => gate'[calls[x].gen] = x
<1>1. /\ calls[c].gen \in Gens /\ calls[c].gen \in 1 .. nextGen - 1 /\ gate[calls[c].gen] = c
      /\ gate \in [Gens -> Calls \cup {NoOne, Worker}] /\ Worker \notin Calls
  BY UsedGenerations, RouteAssumption DEF RouteInv, RouteTypes, SendersOK, At, Worker
<1>2. \A x \in Calls : calls[x].pc = "admit" => gate[calls[x].gen] = x /\ calls[x].gen \in Gens
  BY UsedGenerations DEF RouteInv, RouteTypes, SendersOK, At
<1>3. gate' \in [Gens -> Calls \cup {NoOne, Worker}] /\ \A g \in Gens : g # calls[c].gen => gate'[g] = gate[g]
  BY <1>1
<1> QED  BY <1>1, <1>2, <1>3

\* A call that finds its queue retired looks again; one that is refused drops its message.
LEMMA AdmitFails ==
  ASSUME RouteInv, NEW c \in Calls, calls[c].pc = "admit", gate' = [gate EXCEPT ![calls[c].gen] = NoOne],
         UNCHANGED <<tx, rx, chan, txLock, rxGuard, nextGen, node, parked, worker, outcome, hist>>,
         \/ calls' = [calls EXCEPT ![c].pc = "lookup"] /\ leases' = leases /\ acks' = acks
         \/ calls' = [calls EXCEPT ![c].pc = "refused"] /\ leases' = leases \ {c} /\ acks' = acks \ {c}
  PROVE  RouteInv'
<1>1. calls \in [Calls -> CallType] /\ "lookup" \in CallPlaces /\ "refused" \in CallPlaces
  BY DEF RouteInv, RouteTypes, CallType, CallPlaces
<1>2. /\ calls' \in [Calls -> CallType]
      /\ \A x \in Calls : x # c => calls'[x] = calls[x]
      /\ calls'[c].nq = calls[c].nq /\ calls'[c].pc \in {"lookup", "refused"} /\ calls'[c].gen = calls[c].gen
      /\ \/ leases' = leases /\ acks' = acks /\ calls'[c].pc = "lookup"
         \/ leases' = leases \ {c} /\ acks' = acks \ {c} /\ calls'[c].pc = "refused"
  BY <1>1, CallMoves
<1>3. /\ gate' \in [Gens -> Calls \cup {NoOne, Worker}]
      /\ \A g \in Gens : gate[g] = Worker => gate'[g] = Worker
      /\ \A x \in Calls : x # c /\ calls[x].pc = "admit" => gate'[calls[x].gen] = x
  BY AdmitGate
<1>4. RouteTypes'
  BY <1>2, <1>3 DEF RouteInv, RouteTypes, CallType, node, hist
<1>5. RoutesOK' /\ WorkerOK' /\ PlacesOK' /\ Held' = Held /\ OrderOK'
  BY <1>2, <1>3, CallerFrame DEF node, hist
<1>6. SendersOK'
  BY <1>2, <1>3 DEF RouteInv, SendersOK, At
<1>7. CountsOK'
  <2> DEFINE pending == {x \in Calls : calls[x].pc \notin {"start", "ok", "refused"}}
  <2>1. leases = pending \cup Held /\ acks = leases /\ c \notin Held
    BY DEF RouteInv, CountsOK, ReservationsExact, Held, At
  <2>2. \/ leases' = leases \ {c} /\ acks' = acks \ {c} /\ pending' = pending \ {c}
        \/ leases' = leases /\ acks' = acks /\ pending' = pending
    BY <1>2
  <2>3. leases' = pending' \cup Held' /\ acks' = leases'
    BY <1>5, <2>1, <2>2
  <2>4. ReservationsExact'
    BY <1>5, <2>3 DEF RouteInv, CountsOK, ReservationsExact, node
  <2>6. \A x \in Calls : calls'[x].pc \in {"lookup", "insert", "gate", "admit"} => calls'[x].nq \in 1 .. queues
    BY <1>2 DEF RouteInv, CountsOK
  <2>7. \A x \in Calls : home'[x] <= queues' /\ (~At(x, "ok")' => outcome'[x] = "none")
    BY <1>2 DEF RouteInv, CountsOK, node, At
  <2> QED  BY <2>4, <2>6, <2>7 DEF RouteInv, CountsOK, node
<1> QED  BY <1>4, <1>5, <1>6, <1>7 DEF RouteInv

\* The accepted message joins the channel of its route's queue, and its lane's count.
LEMMA AdmitAccepts ==
  ASSUME RouteInv, NEW c \in Calls, NEW r, NEW g, r = RouteOf[c], g = calls[c].gen,
         calls[c].pc = "admit", gate' = [gate EXCEPT ![g] = NoOne],
         tx[r] = g, calls[c].nq = nodeQueue, calls' = [calls EXCEPT ![c].pc = "ok"],
         chan' = [chan EXCEPT ![g] = Append(@, c)],
         home' = [home EXCEPT ![c] = nodeQueue],
         slots' = [slots EXCEPT ![LaneOf[r]] = @ + 1],
         accepted' = [accepted EXCEPT ![r] = Append(@, c)],
         UNCHANGED <<leases, acks, tx, rx, txLock, rxGuard, nextGen, nodeQueue, queues, lane, parked, worker, outcome, laned>>
  PROVE  RouteInv'
<1>1. /\ calls \in [Calls -> CallType] /\ "ok" \in CallPlaces
      /\ chan \in [Gens -> Seq(Calls)] /\ slots \in [Lanes -> Int] /\ home \in [Calls -> Nat]
      /\ accepted \in [Routes -> Seq(Calls)] /\ nodeQueue \in Nat
  BY DEF RouteInv, RouteTypes, CallType, CallPlaces
<1>2. r \in Routes /\ LaneOf[r] \in Lanes
  BY RouteAssumption DEF Lanes
<1>3. /\ calls' \in [Calls -> CallType]
      /\ \A x \in Calls : x # c => calls'[x] = calls[x]
      /\ calls'[c].nq = calls[c].nq /\ calls'[c].pc = "ok" /\ calls'[c].gen = calls[c].gen
  BY <1>1, CallMoves
<1>4. /\ g \in Gens /\ g \in 1 .. nextGen - 1 /\ gate[g] = c
      /\ gate' \in [Gens -> Calls \cup {NoOne, Worker}]
      /\ \A k \in Gens : gate[k] = Worker => gate'[k] = Worker
      /\ \A x \in Calls : x # c /\ calls[x].pc = "admit" => gate'[calls[x].gen] = x
  BY AdmitGate
<1>5. /\ chan[g] \in Seq(Calls) /\ chan'[g] = Append(chan[g], c) /\ chan' \in [Gens -> Seq(Calls)]
      /\ \A k \in Gens : k # g => chan'[k] = chan[k]
  BY <1>1, <1>4, AppendProperties
<1>6. ToSet(chan'[g]) = ToSet(chan[g]) \cup {c}
  BY <1>5, AppendedSet
<1>7. c \notin Held /\ outcome[c] = "none" /\ Held' = Held \cup {c}
  BY <1>3 DEF RouteInv, CountsOK, Held, At
<1>8. ~InQueue(c) /\ ~Taken(c) /\ ~Parked(c) /\ ~InLane(c)
  BY <1>7 DEF RouteInv, PlacesOK
<1>9. /\ \A x : InQueue(x)' <=> InQueue(x) \/ x = c
      /\ \A x : Taken(x)' <=> Taken(x)
      /\ \A x : Parked(x)' <=> Parked(x)
      /\ \A x : InLane(x)' <=> InLane(x)
  <2>1. \A k \in Gens : \A x : x \in ToSet(chan'[k]) <=> x \in ToSet(chan[k]) \/ (k = g /\ x = c)
    BY <1>5, <1>6
  <2>2. \A x : InQueue(x)' <=> InQueue(x) \/ x = c
    BY <1>4, <2>1 DEF InQueue
  <2> QED  BY <2>2 DEF Taken, Parked, InLane
<1>10. RouteTypes'
  <2>1. /\ home' \in [Calls -> Nat] /\ slots' \in [Lanes -> Int] /\ accepted' \in [Routes -> Seq(Calls)]
    BY <1>1, <1>2, AppendProperties
  <2> QED  BY <1>3, <1>4, <1>5, <2>1 DEF RouteInv, RouteTypes, CallType
<1>11. RoutesOK'
  <2>1. /\ (\A q \in Routes : (tx[q] # 0 => rx[q] = tx[q]) /\ rx[q] < nextGen)'
        /\ (\A q, p \in Routes : rx[q] # 0 /\ rx[q] = rx[p] => q = p)'
    BY DEF RouteInv, RoutesOK
  <2>2. ASSUME NEW k \in Gens, NEW x \in ToSet(chan'[k]) PROVE calls'[x].gen = k /\ tx'[RouteOf[x]] = k
    <3>1. CASE x \in ToSet(chan[k])
      <4>1. x \in Calls /\ x # c /\ calls[x].gen = k /\ tx[RouteOf[x]] = k
        BY <1>7, <3>1, HeldIsAccepted DEF RouteInv, RoutesOK
      <4> QED  BY <1>3, <4>1
    <3>2. CASE x \notin ToSet(chan[k])
      <4>1. k = g /\ x = c
        BY <1>5, <1>6, <3>2
      <4> QED  BY <1>3, <4>1
    <3> QED  BY <3>1, <3>2
  <2> QED  BY <2>1, <2>2 DEF RoutesOK
<1>12. SendersOK'
  BY <1>3, <1>4 DEF RouteInv, SendersOK, At
<1>13. WorkerOK'
  <2>1. worker.pc \in {"retire", "cleanup"} => chan'[worker.gen] = <<>>
    <3> SUFFICES ASSUME worker.pc \in {"retire", "cleanup"} PROVE chan'[worker.gen] = <<>>
      OBVIOUS
    <3>1. worker.gen \in Gens /\ gate[worker.gen] = Worker /\ chan[worker.gen] = <<>>
      BY UsedGenerations DEF RouteInv, RouteTypes, WorkerOK
    <3>2. worker.gen # g
      BY <1>4, <3>1, RouteAssumption DEF Worker
    <3> QED  BY <1>5, <3>1, <3>2
  <2>2. worker.msg # c
    BY <1>8 DEF Taken
  <2>3. worker.pc \in {"park", "retire", "cleanup"} => worker.gen \in Gens /\ gate'[worker.gen] = Worker
    BY <1>4, UsedGenerations DEF RouteInv, RouteTypes, WorkerOK
  <2>4. worker.msg \in Calls => calls'[worker.msg] = calls[worker.msg]
    BY <1>3, <2>2
  <2> QED  BY <2>1, <2>3, <2>4 DEF RouteInv, WorkerOK
<1>14. PlacesOK'
  <2>1. \A k \in Gens : Distinct(chan[k])'
    <3>1. Distinct(chan[g]) /\ c \notin ToSet(chan[g])
      BY <1>4, <1>8 DEF RouteInv, PlacesOK, InQueue
    <3>2. Distinct(chan'[g])
      BY <1>5, <3>1, AppendedSet
    <3>3. \A k \in Gens : k # g => Distinct(chan[k]) /\ chan'[k] = chan[k]
      BY <1>5 DEF RouteInv, PlacesOK
    <3>4. \A k \in Gens : Distinct(chan'[k])
      BY <3>2, <3>3
    <3> QED  BY <3>4 DEF Distinct
  <2>2. /\ \A l \in Lanes : Distinct(lane[l])'
        /\ (\A q \in Routes : parked[q] # NoOne => RouteOf[parked[q]] = q)'
    BY DEF RouteInv, PlacesOK, Distinct
  <2>3. ASSUME NEW l \in Lanes, NEW x \in ToSet(lane[l])
        PROVE  LaneOf[RouteOf[x]] = l /\ nodeQueue' # 0 /\ home'[x] = nodeQueue'
    <3>1. LaneOf[RouteOf[x]] = l /\ nodeQueue # 0 /\ home[x] = nodeQueue /\ x # c
      BY <1>8 DEF RouteInv, PlacesOK, InLane
    <3>2. lane[l] \in Seq(Calls)
      BY DEF RouteInv, RouteTypes
    <3>3. x \in Calls
      BY <3>2, InSequence
    <3> QED  BY <1>1, <3>1, <3>3
  <2>4. \A x \in Calls :
          /\ (x \in Held <=> InQueue(x) \/ Taken(x) \/ Parked(x) \/ InLane(x))'
          /\ ~(InQueue(x) /\ Taken(x))' /\ ~(InQueue(x) /\ Parked(x))' /\ ~(InQueue(x) /\ InLane(x))'
          /\ ~(Taken(x) /\ Parked(x))' /\ ~(Taken(x) /\ InLane(x))' /\ ~(Parked(x) /\ InLane(x))'
    BY <1>7, <1>8, <1>9 DEF RouteInv, PlacesOK
  <2> QED  BY <2>1, <2>2, <2>3, <2>4 DEF PlacesOK
<1>15. OrderOK'
  <2>1. /\ \A q \in Routes : \A x, y : Before(q, x, y) => Before(q, x, y)'
        /\ \A x \in ToSet(accepted[r]) : Before(r, x, c)'
        /\ \A q \in Routes : ToSet(accepted[q]) \subseteq ToSet(accepted'[q])
        /\ c \in ToSet(accepted'[r])
    BY <1>1, <1>2, AcceptedLater
  <2>2. \A x \in Calls : RouteOf[x] \in Routes
    BY RouteAssumption
  <2>3. \A x \in Held : x \in Calls /\ x \in ToSet(accepted[RouteOf[x]])
    BY DEF RouteInv, OrderOK, Held
  <2>4. \A x \in Calls : (At(x, "ok") => x \in ToSet(accepted[RouteOf[x]]))'
    BY <1>3, <2>1, <2>2 DEF RouteInv, OrderOK, At
  <2>5. (\A q \in Routes : \A x \in ToSet(laned[q]) : x \in ToSet(accepted[q]))'
    BY <2>1 DEF RouteInv, OrderOK
  <2>6. (\A q \in Routes : \A i, j \in 1 .. Len(laned[q]) : i < j => Before(q, laned[q][i], laned[q][j]))'
    BY <2>1 DEF RouteInv, OrderOK
  <2>7. (\A d \in Calls : InQueue(d) \/ Taken(d) \/ Parked(d) => \A x \in ToSet(laned[RouteOf[d]]) : Before(RouteOf[d], x, d))'
    <3>1. ASSUME NEW d \in Calls, InQueue(d) \/ Taken(d) \/ Parked(d) \/ d = c, NEW x \in ToSet(laned[RouteOf[d]])
          PROVE  Before(RouteOf[d], x, d)'
      <4>1. CASE d = c
        <5>1. x \in ToSet(accepted[r])
          BY <1>2, <4>1 DEF RouteInv, OrderOK
        <5> QED  BY <2>1, <4>1, <5>1
      <4>2. CASE d # c
        <5>1. Before(RouteOf[d], x, d)
          BY <3>1, <4>2 DEF RouteInv, OrderOK
        <5> QED  BY <2>1, <2>2, <5>1
      <4> QED  BY <4>1, <4>2
    <3> QED  BY <1>9, <3>1
  <2>8. (\A x, d \in Calls : (Taken(x) \/ Parked(x)) /\ InQueue(d) /\ RouteOf[x] = RouteOf[d] => Before(RouteOf[d], x, d))'
    <3>1. ASSUME NEW d \in Calls, NEW x \in Calls, Taken(x) \/ Parked(x), InQueue(d) \/ d = c, RouteOf[x] = RouteOf[d]
          PROVE  Before(RouteOf[d], x, d)'
      <4>1. CASE d = c
        <5>1. x \in Held
          BY <3>1 DEF RouteInv, PlacesOK
        <5> QED  BY <2>1, <2>3, <3>1, <4>1, <5>1
      <4>2. CASE d # c
        <5>1. Before(RouteOf[d], x, d)
          BY <3>1, <4>2 DEF RouteInv, OrderOK
        <5> QED  BY <2>1, <2>2, <5>1
      <4> QED  BY <4>1, <4>2
    <3> QED  BY <1>9, <3>1
  <2>9. ASSUME NEW k \in Gens, NEW i \in 1 .. Len(chan'[k]), NEW j \in 1 .. Len(chan'[k]), i < j,
               NEW x, NEW y, x = chan'[k][i], y = chan'[k][j]
        PROVE  Before(RouteOf[y], x, y)'
    <3>0. chan[k] \in Seq(Calls)
      BY <1>1
    <3>1. CASE j \in 1 .. Len(chan[k])
      <4>1. i \in 1 .. Len(chan[k])
        BY <2>9, <3>0, <3>1
      <4>2. chan'[k][i] = chan[k][i] /\ chan'[k][j] = chan[k][j] /\ chan[k][j] \in Calls
        BY <1>5, <3>0, <3>1, <4>1, AppendProperties
      <4>3. Before(RouteOf[chan[k][j]], chan[k][i], chan[k][j])
        BY <2>9, <3>1, <4>1 DEF RouteInv, OrderOK
      <4>4. RouteOf[y] \in Routes
        BY <2>2, <2>9, <4>2
      <4>5. Before(RouteOf[y], x, y)
        BY <2>9, <4>2, <4>3
      <4> QED  BY <2>1, <4>4, <4>5
    <3>2. CASE j \notin 1 .. Len(chan[k])
      <4>1. k = g
        BY <1>5, <3>2
      <4>2. /\ Len(chan[g]) \in Nat /\ Len(chan'[g]) = Len(chan[g]) + 1 /\ chan'[g][Len(chan[g]) + 1] = c
            /\ \A n \in 1 .. Len(chan[g]) : chan'[g][n] = chan[g][n]
        BY <1>5, AppendProperties
      <4>3. j = Len(chan[g]) + 1 /\ i \in 1 .. Len(chan[g])
        BY <2>9, <3>2, <4>1, <4>2
      <4>4. y = c /\ x = chan[g][i] /\ x \in ToSet(chan[g])
        BY <1>5, <2>9, <4>1, <4>2, <4>3, InSequence
      <4>5. /\ x \in Calls /\ x \in Held /\ tx[RouteOf[x]] = g
        BY <1>4, <4>4, HeldIsAccepted DEF RouteInv, RoutesOK
      <4>6. RouteOf[x] = r
        <5>1. g # 0
          BY <1>4, UsedGenerations DEF RouteInv, RouteTypes
        <5>2. RouteOf[x] \in Routes
          BY <2>2, <4>5
        <5>3. rx[r] = g /\ rx[RouteOf[x]] = g
          BY <1>2, <4>5, <5>1, <5>2 DEF RouteInv, RoutesOK
        <5>4. \A q, p \in Routes : rx[q] # 0 /\ rx[q] = rx[p] => q = p
          BY DEF RouteInv, RoutesOK
        <5> QED  BY <1>2, <5>1, <5>2, <5>3, <5>4
      <4> QED  BY <2>1, <2>3, <4>4, <4>5, <4>6
    <3> QED  BY <3>1, <3>2
  <2>10. (\A k \in Gens : \A i, j \in 1 .. Len(chan[k]) : i < j => Before(RouteOf[chan[k][j]], chan[k][i], chan[k][j]))'
    <3>2. ASSUME NEW k \in Gens, NEW i \in 1 .. Len(chan'[k]), NEW j \in 1 .. Len(chan'[k]), i < j
          PROVE  \E m, n \in 1 .. Len(accepted'[RouteOf[chan'[k][j]]]) :
                    /\ m < n /\ accepted'[RouteOf[chan'[k][j]]][m] = chan'[k][i]
                    /\ accepted'[RouteOf[chan'[k][j]]][n] = chan'[k][j]
      <4>1. PICK x : x = chan'[k][i]
        OBVIOUS
      <4>2. PICK y : y = chan'[k][j]
        OBVIOUS
      <4>3. Before(RouteOf[y], x, y)'
        BY <2>9, <3>2, <4>1, <4>2
      <4> QED  BY <4>1, <4>2, <4>3 DEF Before
    <3> QED  BY <3>2 DEF Before
  <2> QED  BY <2>4, <2>5, <2>6, <2>7, <2>8, <2>10 DEF OrderOK
<1>16. CountsOK'
  <2> DEFINE pending == {x \in Calls : calls[x].pc \notin {"start", "ok", "refused"}}
             S(l) == {x \in Held : home[x] = nodeQueue /\ LaneOf[RouteOf[x]] = l}
  <2>1. leases = pending \cup Held /\ acks = leases /\ nodeQueue \in 1 .. queues
    BY DEF RouteInv, CountsOK, ReservationsExact
  <2>2. pending' = pending \ {c} /\ c \in pending
    BY <1>3
  <2>3. leases' = pending' \cup Held' /\ acks' = leases'
    BY <1>7, <2>1, <2>2
  <2>4. ASSUME NEW l \in Lanes PROVE slots'[l] = Cardinality(S(l)')
    <3>1. slots[l] = Cardinality(S(l)) /\ IsFiniteSet(S(l))
      <4>1. nodeQueue # 0
        BY <2>1
      <4>2. S(l) \subseteq Calls
        BY DEF Held
      <4>3. IsFiniteSet(S(l))
        BY <4>2, RouteAssumption, FS_Subset
      <4> QED  BY <4>1, <4>3 DEF RouteInv, CountsOK, ReservationsExact
    <3>2. \A x \in Held : home'[x] = home[x]
      BY <1>1, <1>7 DEF Held
    <3>3. home'[c] = nodeQueue /\ c \notin S(l)
      BY <1>1, <1>7
    <3>4. CASE l = LaneOf[r]
      <4>1. S(l)' = S(l) \cup {c}
        BY <1>7, <3>2, <3>3, <3>4
      <4>2. slots'[l] = slots[l] + 1
        BY <1>1, <1>2, <3>4
      <4>3. Cardinality(S(l) \cup {c}) = Cardinality(S(l)) + 1
        BY <3>1, <3>3, FS_AddElement
      <4> QED  BY <3>1, <4>1, <4>2, <4>3
    <3>5. CASE l # LaneOf[r]
      <4>1. S(l)' = S(l)
        BY <1>7, <3>2, <3>3, <3>5
      <4>2. slots'[l] = slots[l]
        BY <1>1, <1>2, <3>5
      <4> QED  BY <3>1, <4>1, <4>2
    <3> QED  BY <3>4, <3>5
  <2>5. ReservationsExact'
    BY <2>3, <2>4 DEF ReservationsExact
  <2>6. \A x \in Calls : calls'[x].pc \in {"lookup", "insert", "gate", "admit"} => calls'[x].nq \in 1 .. queues
    BY <1>3 DEF RouteInv, CountsOK
  <2>7. \A x \in Calls : home'[x] <= queues' /\ (~At(x, "ok")' => outcome'[x] = "none")
    BY <1>1, <1>3, <2>1 DEF RouteInv, CountsOK, At
  <2> QED  BY <2>5, <2>6, <2>7 DEF RouteInv, CountsOK
<1> QED  BY <1>10, <1>11, <1>12, <1>13, <1>14, <1>15, <1>16 DEF RouteInv

LEMMA AdmitStep ==
  ASSUME RouteInv, NEW c \in Calls, Admit(c)
  PROVE  RouteInv'
<1> DEFINE r == RouteOf[c]
           g == calls[c].gen
<1>1. CASE ~CurrentQueue(r, g)
  BY <1>1, AdmitFails DEF Admit, At, Goto, node, hist
<1>2. CASE CurrentQueue(r, g) /\ CanAdmit(calls[c].nq, r) /\ Len(chan[g]) < QueueCap
  BY <1>2, AdmitAccepts DEF Admit, At, Goto, CurrentQueue, CanAdmit
<1>3. CASE CurrentQueue(r, g) /\ ~(CanAdmit(calls[c].nq, r) /\ Len(chan[g]) < QueueCap)
  BY <1>3, AdmitFails DEF Admit, At, Goto, node, hist, Release
<1> QED  BY <1>1, <1>2, <1>3

-----------------------------------------------------------------------------
(* congestion_control_worker                                               *)

WorkerType == [pc : WorkerPlaces, todo : SUBSET (Routes \X (1..nextGen - 1)), progress : BOOLEAN,
               route : Routes, gen : 0..MaxGen, msg : Calls \cup {NoOne}]

\* A step of the worker alone, which may take or return a gate.
LEMMA WorkerOnly ==
  ASSUME RouteInv, UNCHANGED <<calls, leases, acks, tx, rx, chan, txLock, nextGen, node, parked, outcome, hist>>,
         worker' \in WorkerType, worker'.msg = worker.msg, gate' \in [Gens -> Calls \cup {NoOne, Worker}],
         \A x \in Calls : calls[x].pc = "admit" => gate'[calls[x].gen] = x,
         WorkerOK'
  PROVE  RouteInv'
<1>1. \A x \in Calls : At(x, "ok")' <=> At(x, "ok")
  BY DEF At
<1>2. PlacesOK' /\ Held' = Held
  BY <1>1, PlacesFrame DEF RouteInv, node
<1>3. OrderOK'
  BY <1>1, OrderFrame DEF RouteInv, hist
<1>4. CountsOK'
  <2>1. \A x \in Calls :
            /\ calls'[x].pc \in {"start", "ok", "refused"} <=> calls[x].pc \in {"start", "ok", "refused"}
            /\ calls'[x].pc \in {"lookup", "insert", "gate", "admit"} => calls'[x].nq \in 1 .. queues
    BY DEF RouteInv, CountsOK
  <2> QED  BY <1>1, <1>2, <2>1, CountsFrame DEF RouteInv, node
<1>5. RouteTypes'
  BY DEF RouteInv, RouteTypes, WorkerType, node, hist
<1>6. RoutesOK'
  BY DEF RouteInv, RoutesOK
<1>7. SendersOK'
  BY DEF RouteInv, SendersOK, At
<1> QED  BY <1>2, <1>3, <1>4, <1>5, <1>6, <1>7 DEF RouteInv

\* The gates calls hold are the ones they say, and none is the worker's.
LEMMA SendersGates ==
  ASSUME RouteInv
  PROVE  /\ \A x \in Calls : calls[x].pc = "admit" => gate[calls[x].gen] = x /\ calls[x].gen \in Gens
         /\ gate \in [Gens -> Calls \cup {NoOne, Worker}]
         /\ NoOne \notin Calls /\ Worker \notin Calls /\ NoOne # Worker
<1>1. \A x \in Calls : calls[x].pc = "admit" => gate[calls[x].gen] = x /\ calls[x].gen \in Gens
  BY UsedGenerations DEF RouteInv, RouteTypes, SendersOK, At
<1>2. gate \in [Gens -> Calls \cup {NoOne, Worker}]
  BY DEF RouteInv, RouteTypes
<1>3. NoOne \notin Calls /\ Worker \notin Calls /\ NoOne # Worker
  BY RouteAssumption DEF NoOne, Worker
<1> QED  BY <1>1, <1>2, <1>3

\* A gate that no call holds changes hands.
LEMMA GateOfWorker ==
  ASSUME RouteInv, NEW g \in Gens, NEW h \in {NoOne, Worker}, gate[g] \in {NoOne, Worker}, gate' = [gate EXCEPT ![g] = h]
  PROVE  /\ gate' \in [Gens -> Calls \cup {NoOne, Worker}] /\ gate'[g] = h
         /\ \A x \in Calls : calls[x].pc = "admit" => gate'[calls[x].gen] = x
<1>1. /\ \A x \in Calls : calls[x].pc = "admit" => gate[calls[x].gen] = x /\ calls[x].gen \in Gens
      /\ gate \in [Gens -> Calls \cup {NoOne, Worker}]
      /\ NoOne \notin Calls /\ Worker \notin Calls
  BY SendersGates
<1>2. /\ gate' \in [Gens -> Calls \cup {NoOne, Worker}] /\ gate'[g] = h
      /\ \A k \in Gens : k # g => gate'[k] = gate[k]
  BY <1>1
<1>3. ASSUME NEW x \in Calls, calls[x].pc = "admit" PROVE gate'[calls[x].gen] = x
  <2>1. gate[calls[x].gen] = x /\ calls[x].gen \in Gens
    BY <1>1, <1>3
  <2>2. calls[x].gen # g
    BY <1>1, <2>1
  <2> QED  BY <1>2, <2>1, <2>2
<1> QED  BY <1>2, <1>3

\* A pass has the receivers there are.
LEMMA PassType ==
  ASSUME RouteInv
  PROVE  Pass \in WorkerType /\ Pass.pc = "pick" /\ Pass.msg = worker.msg
<1>1. worker \in WorkerType
  BY DEF RouteInv, RouteTypes, WorkerType
<1>2. \A r \in Routes : rx[r] # 0 => rx[r] \in 1 .. nextGen - 1
  BY DEF RouteInv, RouteTypes, RoutesOK
<1>3. {<<r, rx[r]>> : r \in {q \in Routes : rx[q] # 0}} \subseteq Routes \X (1 .. nextGen - 1)
  BY <1>2
<1>4. "pick" \in WorkerPlaces
  BY DEF WorkerPlaces
<1> HIDE <1>2
<1>5. PICK td : td = {<<r, rx[r]>> : r \in {q \in Routes : rx[q] # 0}}
  OBVIOUS
<1>6. td \in SUBSET (Routes \X (1 .. nextGen - 1)) /\ Pass = [worker EXCEPT !.pc = "pick", !.progress = FALSE, !.todo = td]
  BY <1>3, <1>5 DEF Pass
<1> QED  BY <1>1, <1>4, <1>6 DEF WorkerType

LEMMA PassStep ==
  ASSUME RouteInv, EndPass \/ Wake
  PROVE  RouteInv'
<1>1. /\ UNCHANGED <<calls, leases, acks, tx, rx, chan, gate, txLock, nextGen, node, parked, outcome, hist>>
      /\ worker' = Pass \/ worker' = [worker EXCEPT !.pc = "wait"]
      /\ worker.pc \in {"pick", "wait"}
  BY DEF EndPass, Wake, maps
<1>2. worker \in WorkerType /\ worker.msg = NoOne
  BY <1>1 DEF RouteInv, RouteTypes, WorkerType, WorkerOK
<1>3. worker' \in WorkerType /\ worker'.pc \in {"pick", "wait"} /\ worker'.msg = worker.msg
  <2>1. CASE worker' = Pass
    BY <2>1, PassType
  <2>2. CASE worker' = [worker EXCEPT !.pc = "wait"]
    BY <1>2, <2>2 DEF WorkerType, WorkerPlaces
  <2> QED  BY <1>1, <2>1, <2>2
<1>4. WorkerOK'
  BY <1>2, <1>3 DEF WorkerOK
<1> QED  BY <1>1, <1>3, <1>4, SendersGates, WorkerOnly

LEMMA RefreshNodesStep ==
  ASSUME RouteInv, RefreshNodes
  PROVE  RouteInv'
<1>1. UNCHANGED <<calls, leases, acks, tx, rx, chan, gate, txLock, rxGuard, nextGen, node, parked, worker, outcome, hist>>
  BY DEF RefreshNodes, maps
<1>2. worker' \in WorkerType
  BY <1>1 DEF RouteInv, RouteTypes, WorkerType
<1>3. WorkerOK'
  BY <1>1 DEF RouteInv, WorkerOK
<1> QED  BY <1>1, <1>2, <1>3, SendersGates, WorkerOnly

LEMMA GuardReceiverStep ==
  ASSUME RouteInv, GuardReceiver
  PROVE  RouteInv'
<1>1. /\ UNCHANGED <<calls, leases, acks, tx, rx, chan, gate, txLock, nextGen, node, parked, outcome, hist>>
      /\ worker.pc = "guard"
      /\ \/ rx[worker.route] = worker.gen /\ rxGuard' = TRUE /\ worker' = [worker EXCEPT !.pc = "gate"]
         \/ worker' = [worker EXCEPT !.pc = "pick"]
  BY DEF GuardReceiver
<1>2. worker \in WorkerType /\ worker.msg = NoOne
  BY <1>1 DEF RouteInv, RouteTypes, WorkerType, WorkerOK
<1>3. /\ worker' \in WorkerType /\ worker'.msg = worker.msg /\ worker'.route = worker.route /\ worker'.gen = worker.gen
      /\ \/ rx[worker.route] = worker.gen /\ rxGuard' = TRUE /\ worker'.pc = "gate"
         \/ worker'.pc = "pick"
  BY <1>1, <1>2 DEF WorkerType, WorkerPlaces
<1>4. WorkerOK'
  BY <1>1, <1>2, <1>3 DEF RouteInv, WorkerOK
<1> QED  BY <1>1, <1>3, <1>4, SendersGates, WorkerOnly

\* An empty channel is retired: its sender goes before its receiver.
LEMMA RetireSenderStep ==
  ASSUME RouteInv, RetireSender
  PROVE  RouteInv'
<1> DEFINE r == worker.route
           g == worker.gen
<1>1. /\ UNCHANGED <<calls, leases, acks, rx, chan, txLock, rxGuard, nextGen, node, parked, outcome, hist>>
      /\ worker.pc = "retire"
      /\ \/ tx[r] = g /\ tx' = [tx EXCEPT ![r] = 0] /\ worker' = [worker EXCEPT !.pc = "cleanup"] /\ UNCHANGED gate
         \/ worker' = [worker EXCEPT !.pc = "pick"] /\ gate' = [gate EXCEPT ![g] = NoOne] /\ UNCHANGED tx
  BY DEF RetireSender
<1>2. /\ worker \in WorkerType /\ worker.msg = NoOne /\ r \in Routes
      /\ g \in Gens /\ g \in 1 .. nextGen - 1 /\ g # 0 /\ gate[g] = Worker /\ chan[g] = <<>>
  BY <1>1, UsedGenerations DEF RouteInv, RouteTypes, WorkerType, WorkerOK
<1>3. CASE worker' = [worker EXCEPT !.pc = "pick"] /\ gate' = [gate EXCEPT ![g] = NoOne] /\ UNCHANGED tx
  <2>1. worker' \in WorkerType /\ worker'.msg = worker.msg /\ worker'.pc = "pick"
    BY <1>2, <1>3 DEF WorkerType, WorkerPlaces
  <2>2. /\ gate' \in [Gens -> Calls \cup {NoOne, Worker}]
        /\ \A x \in Calls : calls[x].pc = "admit" => gate'[calls[x].gen] = x
    BY <1>2, <1>3, GateOfWorker
  <2>3. WorkerOK'
    BY <1>2, <2>1 DEF WorkerOK
  <2> QED  BY <1>1, <1>3, <2>1, <2>2, <2>3, WorkerOnly
<1>4. CASE tx[r] = g /\ tx' = [tx EXCEPT ![r] = 0] /\ worker' = [worker EXCEPT !.pc = "cleanup"] /\ UNCHANGED gate
  <2>1. worker' \in WorkerType /\ worker'.msg = worker.msg /\ worker'.pc = "cleanup" /\ worker'.gen = g
    BY <1>2, <1>4 DEF WorkerType, WorkerPlaces
  <2>2. tx \in [Routes -> 0 .. MaxGen] /\ 0 \in 0 .. MaxGen
    BY MaxGenNat DEF RouteInv, RouteTypes
  <2>3. tx' \in [Routes -> 0 .. MaxGen] /\ tx'[r] = 0 /\ \A q \in Routes : q # r => tx'[q] = tx[q]
    BY <1>2, <1>4, <2>2
  <2>4. \A x \in Calls : At(x, "ok")' <=> At(x, "ok")
    BY <1>1 DEF At
  <2>5. PlacesOK' /\ Held' = Held
    BY <1>1, <2>1, <2>4, PlacesFrame DEF RouteInv, node
  <2>6. OrderOK'
    BY <1>1, <2>1, <2>4, OrderFrame DEF RouteInv, hist
  <2>7. CountsOK'
    <3>1. \A x \in Calls :
              /\ calls'[x].pc \in {"start", "ok", "refused"} <=> calls[x].pc \in {"start", "ok", "refused"}
              /\ calls'[x].pc \in {"lookup", "insert", "gate", "admit"} => calls'[x].nq \in 1 .. queues
      BY <1>1 DEF RouteInv, CountsOK
    <3> QED  BY <1>1, <2>4, <2>5, <3>1, CountsFrame DEF RouteInv, node
  <2>8. RouteTypes'
    BY <1>1, <1>4, <2>1, <2>3 DEF RouteInv, RouteTypes, WorkerType, node, hist
  <2>9. \A q \in Routes : (tx[q] # 0 => rx[q] = tx[q])
    BY DEF RouteInv, RoutesOK
  <2>10. RoutesOK'
    <3>1. /\ (\A q \in Routes : (tx[q] # 0 => rx[q] = tx[q]) /\ rx[q] < nextGen)'
          /\ (\A q, p \in Routes : rx[q] # 0 /\ rx[q] = rx[p] => q = p)'
      BY <1>1, <2>3 DEF RouteInv, RoutesOK
    <3>2. ASSUME NEW k \in Gens, NEW x \in ToSet(chan[k]) PROVE calls[x].gen = k /\ tx'[RouteOf[x]] = k
      <4>1. x \in Calls /\ calls[x].gen = k /\ tx[RouteOf[x]] = k
        BY HeldIsAccepted DEF RouteInv, RoutesOK
      <4>2. RouteOf[x] \in Routes
        BY <4>1, RouteAssumption
      <4>3. k # g
        BY <1>2 DEF ToSet
      <4>4. RouteOf[x] # r
        BY <1>4, <4>1, <4>3
      <4> QED  BY <2>3, <4>1, <4>2, <4>4
    <3> QED  BY <1>1, <3>1, <3>2 DEF RoutesOK
  <2>11. SendersOK'
    <3>1. \A x \in Calls : RouteOf[x] \in Routes
      BY RouteAssumption
    <3> QED  BY <1>1, <1>4, <2>3, <3>1 DEF RouteInv, SendersOK, At
  <2>12. WorkerOK'
    <3>1. \A q \in Routes : tx'[q] # g
      <4>1. \A q, p \in Routes : rx[q] # 0 /\ rx[q] = rx[p] => q = p
        BY DEF RouteInv, RoutesOK
      <4>2. \A q \in Routes : tx[q] = g => q = r
        BY <1>2, <1>4, <2>9, <4>1
      <4> QED  BY <1>2, <2>3, <4>2
    <3> QED  BY <1>1, <1>2, <1>4, <2>1, <3>1 DEF WorkerOK
  <2> QED  BY <2>5, <2>6, <2>7, <2>8, <2>10, <2>11, <2>12 DEF RouteInv
<1> QED  BY <1>1, <1>3, <1>4

\* The receiver of a retired generation goes, another one stays.
LEMMA CleanupGenerationStep ==
  ASSUME RouteInv, CleanupGeneration
  PROVE  RouteInv'
<1> DEFINE r == worker.route
           g == worker.gen
<1>1. /\ UNCHANGED <<calls, leases, acks, tx, chan, txLock, rxGuard, nextGen, node, parked, outcome, hist>>
      /\ worker.pc = "cleanup"
      /\ rx' = [rx EXCEPT ![r] = IF @ = g THEN 0 ELSE @]
      /\ gate' = [gate EXCEPT ![g] = NoOne]
      /\ worker' = [worker EXCEPT !.pc = "pick"]
  BY DEF CleanupGeneration
<1>2. /\ worker \in WorkerType /\ worker.msg = NoOne /\ r \in Routes
      /\ g \in Gens /\ gate[g] = Worker /\ \A q \in Routes : tx[q] # g
  BY <1>1, UsedGenerations DEF RouteInv, RouteTypes, WorkerType, WorkerOK
<1>3. worker' \in WorkerType /\ worker'.msg = worker.msg /\ worker'.pc = "pick"
  BY <1>1, <1>2 DEF WorkerType, WorkerPlaces
<1>4. /\ gate' \in [Gens -> Calls \cup {NoOne, Worker}]
      /\ \A x \in Calls : calls[x].pc = "admit" => gate'[calls[x].gen] = x
  BY <1>1, <1>2, GateOfWorker
<1>5. rx \in [Routes -> 0 .. MaxGen] /\ 0 \in 0 .. MaxGen
  BY MaxGenNat DEF RouteInv, RouteTypes
<1>6. /\ rx' \in [Routes -> 0 .. MaxGen] /\ \A q \in Routes : rx'[q] = rx[q] \/ (q = r /\ rx[r] = g /\ rx'[q] = 0)
  BY <1>1, <1>2, <1>5
<1>7. \A x \in Calls : At(x, "ok")' <=> At(x, "ok")
  BY <1>1 DEF At
<1>8. PlacesOK' /\ Held' = Held
  BY <1>1, <1>3, <1>7, PlacesFrame DEF RouteInv, node
<1>9. OrderOK'
  BY <1>1, <1>3, <1>7, OrderFrame DEF RouteInv, hist
<1>10. CountsOK'
  <2>1. \A x \in Calls :
            /\ calls'[x].pc \in {"start", "ok", "refused"} <=> calls[x].pc \in {"start", "ok", "refused"}
            /\ calls'[x].pc \in {"lookup", "insert", "gate", "admit"} => calls'[x].nq \in 1 .. queues
    BY <1>1 DEF RouteInv, CountsOK
  <2> QED  BY <1>1, <1>7, <1>8, <2>1, CountsFrame DEF RouteInv, node
<1>11. RouteTypes'
  BY <1>1, <1>3, <1>4, <1>6 DEF RouteInv, RouteTypes, WorkerType, node, hist
<1>12. RoutesOK'
  <2>1. (\A q \in Routes : (tx[q] # 0 => rx[q] = tx[q]) /\ rx[q] < nextGen)'
    <3>1. \A q \in Routes : (tx[q] # 0 => rx[q] = tx[q]) /\ rx[q] < nextGen
      BY DEF RouteInv, RoutesOK
    <3>2. nextGen \in Int /\ 0 < nextGen
      BY MaxGenNat DEF RouteInv, RouteTypes
    <3> QED  BY <1>1, <1>2, <1>6, <3>1, <3>2
  <2>2. (\A q, p \in Routes : rx[q] # 0 /\ rx[q] = rx[p] => q = p)'
    BY <1>6 DEF RouteInv, RoutesOK
  <2>3. (\A k \in Gens : \A x \in ToSet(chan[k]) : calls[x].gen = k /\ tx[RouteOf[x]] = k)'
    BY <1>1 DEF RouteInv, RoutesOK
  <2> QED  BY <2>1, <2>2, <2>3 DEF RoutesOK
<1>13. SendersOK'
  BY <1>1, <1>4 DEF RouteInv, SendersOK, At
<1>14. WorkerOK'
  BY <1>2, <1>3 DEF WorkerOK
<1> QED  BY <1>8, <1>9, <1>10, <1>11, <1>12, <1>13, <1>14 DEF RouteInv

\* The worker turns to a route of its pass.
LEMMA OnType ==
  ASSUME RouteInv, worker.pc = "pick", NEW q \in worker.todo, NEW p \in {"pick", "guard"}
  PROVE  /\ q[1] \in Routes /\ q[2] \in 1 .. nextGen - 1
         /\ worker.msg = NoOne
         /\ On(q, p) \in WorkerType
         /\ On(q, p).msg = NoOne /\ On(q, p).pc = p /\ On(q, p).route = q[1] /\ On(q, p).gen = q[2]
         /\ [On(q, p) EXCEPT !.progress = TRUE] \in WorkerType
         /\ [On(q, p) EXCEPT !.progress = TRUE].msg = NoOne /\ [On(q, p) EXCEPT !.progress = TRUE].pc = p
         /\ [On(q, p) EXCEPT !.progress = TRUE].route = q[1] /\ [On(q, p) EXCEPT !.progress = TRUE].gen = q[2]
<1>1. worker \in WorkerType /\ worker.msg = NoOne /\ nextGen \in 1 .. MaxGen + 1
  BY DEF RouteInv, RouteTypes, WorkerType, WorkerOK
<1>2. worker.todo \in SUBSET (Routes \X (1 .. nextGen - 1))
  BY <1>1 DEF WorkerType
<1>3. q[1] \in Routes /\ q[2] \in 1 .. nextGen - 1
  BY <1>2
<1>4. q[2] \in 0 .. MaxGen
  BY <1>1, <1>3, UsedGenerations
<1>5. p \in WorkerPlaces
  BY DEF WorkerPlaces
<1>6. PICK td : td = worker.todo \ {q}
  OBVIOUS
<1>7. td \in SUBSET (Routes \X (1 .. nextGen - 1))
  BY <1>2, <1>6
<1>8. On(q, p) = [worker EXCEPT !.todo = td, !.pc = p, !.route = q[1], !.gen = q[2]]
  BY <1>6 DEF On
<1>9. On(q, p) \in WorkerType /\ On(q, p).msg = NoOne /\ On(q, p).pc = p /\ On(q, p).route = q[1] /\ On(q, p).gen = q[2]
  BY <1>1, <1>3, <1>4, <1>5, <1>7, <1>8 DEF WorkerType
<1>10. /\ [On(q, p) EXCEPT !.progress = TRUE] \in WorkerType
       /\ [On(q, p) EXCEPT !.progress = TRUE].msg = NoOne /\ [On(q, p) EXCEPT !.progress = TRUE].pc = p
       /\ [On(q, p) EXCEPT !.progress = TRUE].route = q[1] /\ [On(q, p) EXCEPT !.progress = TRUE].gen = q[2]
  BY <1>9 DEF WorkerType
<1> QED  BY <1>1, <1>3, <1>9, <1>10

\* The worker has nothing in its hands: what it must know is about its route alone.
LEMMA IdleWorker ==
  ASSUME worker'.msg = NoOne, nextGen' = nextGen,
         \/ worker'.pc = "pick"
         \/ /\ worker'.pc = "guard" /\ worker'.gen \in 1 .. nextGen - 1 /\ parked'[worker'.route] = NoOne
  PROVE  WorkerOK'
BY DEF WorkerOK

\* A parked message is its route's only one.
LEMMA ParkedOnce ==
  ASSUME RouteInv, NEW r \in Routes, parked[r] # NoOne
  PROVE  /\ parked[r] \in Calls /\ RouteOf[parked[r]] = r /\ parked[r] \in Held
         /\ \A q \in Routes : q # r => parked[q] # parked[r]
         /\ Parked(parked[r]) /\ ~InQueue(parked[r]) /\ ~Taken(parked[r]) /\ ~InLane(parked[r])
<1>1. parked[r] \in Calls /\ RouteOf[parked[r]] = r
  BY DEF RouteInv, RouteTypes, PlacesOK
<1>2. Parked(parked[r])
  BY DEF Parked
<1>3. \A q \in Routes : parked[q] # NoOne => RouteOf[parked[q]] = q
  BY DEF RouteInv, PlacesOK
<1> QED  BY <1>1, <1>2, <1>3 DEF RouteInv, PlacesOK

\* A step that ends the messages of a set: nothing holds them any more, nothing else moves.
LEMMA MessagesEnd ==
  ASSUME RouteInv, NEW gone \in SUBSET Held, UNCHANGED <<calls, chan, home>>,
         worker'.msg = worker.msg,
         \A x \in Calls : outcome'[x] = "none" <=> outcome[x] = "none" /\ x \notin gone,
         \A x \in gone : ~InQueue(x) /\ ~Taken(x),
         \A x \in Calls : Parked(x)' <=> Parked(x) /\ x \notin gone,
         \A x \in Calls : InLane(x)' <=> InLane(x) /\ x \notin gone,
         \A l \in Lanes : Distinct(lane'[l]) /\ ToSet(lane'[l]) \subseteq ToSet(lane[l]),
         nodeQueue' = nodeQueue \/ \A l \in Lanes : ToSet(lane'[l]) = {},
         \A q \in Routes : parked'[q] = parked[q] \/ parked'[q] = NoOne
  PROVE  PlacesOK' /\ Held' = Held \ gone
<1>1. Held' = Held \ gone
  BY DEF Held, At
<1>2. \A x : /\ InQueue(x)' <=> InQueue(x)
             /\ Taken(x)' <=> Taken(x)
  BY DEF InQueue, Taken
<1>3. \A x \in Calls :
          /\ (x \in Held <=> InQueue(x) \/ Taken(x) \/ Parked(x) \/ InLane(x))'
          /\ ~(InQueue(x) /\ Taken(x))' /\ ~(InQueue(x) /\ Parked(x))' /\ ~(InQueue(x) /\ InLane(x))'
          /\ ~(Taken(x) /\ Parked(x))' /\ ~(Taken(x) /\ InLane(x))' /\ ~(Parked(x) /\ InLane(x))'
  BY <1>1, <1>2 DEF RouteInv, PlacesOK
<1>4. (\A l \in Lanes : \A x \in ToSet(lane[l]) : LaneOf[RouteOf[x]] = l /\ nodeQueue # 0 /\ home[x] = nodeQueue)'
  BY DEF RouteInv, PlacesOK
<1>5. \A g \in Gens : Distinct(chan[g])'
  BY DEF RouteInv, PlacesOK, Distinct
<1>6. \A l \in Lanes : Distinct(lane[l])'
  BY DEF Distinct
<1>7. (\A r \in Routes : parked[r] # NoOne => RouteOf[parked[r]] = r)'
  BY DEF RouteInv, PlacesOK
<1> QED  BY <1>1, <1>3, <1>4, <1>5, <1>6, <1>7 DEF PlacesOK

\* Messages that leave their places disturb no order.
LEMMA OrderShrinks ==
  ASSUME OrderOK, UNCHANGED <<calls, chan, accepted, laned>>, worker'.msg = worker.msg,
         \A x \in Calls : Parked(x)' => Parked(x)
  PROVE  OrderOK'
<1>1. /\ \A x : InQueue(x)' <=> InQueue(x)
      /\ \A x : Taken(x)' <=> Taken(x)
      /\ \A r, x, y : Before(r, x, y)' <=> Before(r, x, y)
  BY DEF InQueue, Taken, Before
<1>2. \A x \in Calls : (At(x, "ok") => x \in ToSet(accepted[RouteOf[x]]))'
  BY DEF OrderOK, At
<1>3. (\A r \in Routes : \A x \in ToSet(laned[r]) : x \in ToSet(accepted[r]))'
  BY DEF OrderOK
<1>4. (\A r \in Routes : \A i, j \in 1 .. Len(laned[r]) : i < j => Before(r, laned[r][i], laned[r][j]))'
  BY <1>1 DEF OrderOK
<1>5. (\A d \in Calls : InQueue(d) \/ Taken(d) \/ Parked(d) => \A x \in ToSet(laned[RouteOf[d]]) : Before(RouteOf[d], x, d))'
  BY <1>1 DEF OrderOK
<1>6. (\A x, d \in Calls : (Taken(x) \/ Parked(x)) /\ InQueue(d) /\ RouteOf[x] = RouteOf[d] => Before(RouteOf[d], x, d))'
  BY <1>1 DEF OrderOK
<1>7. (\A g \in Gens : \A i, j \in 1 .. Len(chan[g]) : i < j => Before(RouteOf[chan[g][j]], chan[g][i], chan[g][j]))'
  BY <1>1 DEF OrderOK
<1> QED  BY <1>2, <1>3, <1>4, <1>5, <1>6, <1>7 DEF OrderOK

\* The parked message of a node that left is dropped.
LEMMA DropParked ==
  ASSUME RouteInv, NEW r \in Routes, NEW c, c = parked[r], c # NoOne, nodeQueue = 0,
         leases' = leases \ {c}, acks' = acks \ {c}, outcome' = [outcome EXCEPT ![c] = "gone"],
         parked' = [parked EXCEPT ![r] = NoOne],
         UNCHANGED <<calls, tx, rx, chan, gate, txLock, rxGuard, nextGen, node, hist>>,
         worker' \in WorkerType, worker'.msg = worker.msg, WorkerOK'
  PROVE  RouteInv'
<1>1. /\ c \in Calls /\ RouteOf[c] = r /\ c \in Held
      /\ \A q \in Routes : q # r => parked[q] # c
      /\ Parked(c) /\ ~InQueue(c) /\ ~Taken(c) /\ ~InLane(c)
  BY ParkedOnce
<1>2. /\ outcome \in [Calls -> {"none", "sent", "gone"}] /\ parked \in [Routes -> Calls \cup {NoOne}] /\ NoOne \notin Calls
  BY RouteAssumption DEF RouteInv, RouteTypes, NoOne
<1>3. /\ outcome' \in [Calls -> {"none", "sent", "gone"}] /\ parked' \in [Routes -> Calls \cup {NoOne}]
      /\ \A x \in Calls : outcome'[x] = "none" <=> outcome[x] = "none" /\ x \notin {c}
      /\ parked'[r] = NoOne /\ \A q \in Routes : q # r => parked'[q] = parked[q]
  BY <1>1, <1>2
<1>4. \A x \in Calls : Parked(x)' <=> Parked(x) /\ x \notin {c}
  BY <1>1, <1>2, <1>3 DEF Parked
<1>5. \A x \in Calls : InLane(x)' <=> InLane(x) /\ x \notin {c}
  BY <1>1 DEF InLane, node
<1>6. PlacesOK' /\ Held' = Held \ {c}
  <2>1. \A l \in Lanes : Distinct(lane'[l]) /\ ToSet(lane'[l]) \subseteq ToSet(lane[l])
    BY DEF RouteInv, PlacesOK, node
  <2>2. nodeQueue' = nodeQueue /\ home' = home
    BY DEF node
  <2>3. {c} \in SUBSET Held /\ \A x \in {c} : ~InQueue(x) /\ ~Taken(x)
    BY <1>1
  <2>4. \A q \in Routes : parked'[q] = parked[q] \/ parked'[q] = NoOne
    BY <1>3
  <2> HIDE DEF Held
  <2>5. PICK gone \in SUBSET Held : gone = {c}
    BY <2>3
  <2> QED  BY <1>3, <1>4, <1>5, <2>1, <2>2, <2>3, <2>4, <2>5, MessagesEnd
<1>7. OrderOK'
  BY <1>4, OrderShrinks DEF RouteInv, hist
<1>8. RouteTypes'
  BY <1>3 DEF RouteInv, RouteTypes, WorkerType, node, hist
<1>9. RoutesOK' /\ SendersOK'
  BY DEF RouteInv, RoutesOK, SendersOK, At
<1>10. CountsOK'
  <2> DEFINE pending == {x \in Calls : calls[x].pc \notin {"start", "ok", "refused"}}
  <2>1. leases = pending \cup Held /\ acks = leases /\ c \notin pending
    BY <1>1 DEF RouteInv, CountsOK, ReservationsExact, Held, At
  <2>2. pending' = pending
    OBVIOUS
  <2>3. leases' = pending' \cup Held' /\ acks' = leases'
    BY <1>6, <2>1, <2>2
  <2>4. ReservationsExact'
    BY <2>3 DEF ReservationsExact, node
  <2>5. \A x \in Calls : ~At(x, "ok")' => outcome'[x] = "none"
    BY <1>1, <1>2, <1>3 DEF RouteInv, CountsOK, At, Held
  <2> QED  BY <2>4, <2>5 DEF RouteInv, CountsOK, node
<1> QED  BY <1>6, <1>7, <1>8, <1>9, <1>10 DEF RouteInv

\* A recovered node queue has room for everything.
LEMMA RecoverQueue ==
  ASSUME RouteInv, nodeQueue = 0, NewNodeQueue,
         UNCHANGED <<calls, leases, acks, tx, rx, chan, gate, txLock, rxGuard, nextGen, home, parked, outcome, hist>>,
         worker' \in WorkerType, worker'.msg = worker.msg, WorkerOK'
  PROVE  RouteInv'
<1>1. \A x \in Calls : At(x, "ok")' <=> At(x, "ok")
  BY DEF At
<1>2. 1 .. queues \subseteq 1 .. queues + 1
  BY DEF RouteInv, RouteTypes
<1>3. \A x \in Calls :
          /\ calls'[x].pc \in {"start", "ok", "refused"} <=> calls[x].pc \in {"start", "ok", "refused"}
          /\ calls'[x].pc \in {"lookup", "insert", "gate", "admit"} => calls'[x].nq \in 1 .. queues + 1
  BY <1>2 DEF RouteInv, CountsOK
<1>4. CountsOK' /\ lane' = lane /\ nodeQueue' \in Nat /\ queues' \in Nat /\ slots' \in [Lanes -> Int]
  BY <1>1, <1>3, FreshQueue DEF RouteInv
<1>5. PlacesOK' /\ Held' = Held
  BY <1>1, <1>4, PlacesFrame DEF RouteInv
<1>6. OrderOK'
  BY <1>1, OrderFrame DEF RouteInv, hist
<1>7. RouteTypes'
  BY <1>4 DEF RouteInv, RouteTypes, WorkerType, hist
<1>8. RoutesOK' /\ SendersOK'
  BY DEF RouteInv, RoutesOK, SendersOK, At
<1> QED  BY <1>4, <1>5, <1>6, <1>7, <1>8 DEF RouteInv

\* The parked message enters its lane, with a slot of the current queue.
LEMMA EnterLane ==
  ASSUME RouteInv, worker.pc = "pick", NEW r \in Routes, NEW c, NEW l, c = parked[r], c # NoOne, l = LaneOf[r], nodeQueue # 0,
         Rehome(c, l),
         lane' = [lane EXCEPT ![l] = Append(@, c)],
         laned' = [laned EXCEPT ![r] = Append(@, c)],
         parked' = [parked EXCEPT ![r] = NoOne],
         UNCHANGED <<calls, leases, acks, tx, rx, chan, gate, txLock, rxGuard, nextGen, nodeQueue, queues, outcome, accepted>>,
         worker' \in WorkerType, worker'.msg = worker.msg, WorkerOK'
  PROVE  RouteInv'
<1>1. /\ c \in Calls /\ RouteOf[c] = r /\ c \in Held /\ l \in Lanes
      /\ \A q \in Routes : q # r => parked[q] # c
      /\ Parked(c) /\ ~InQueue(c) /\ ~Taken(c) /\ ~InLane(c)
  BY ParkedOnce DEF Lanes
<1>2. /\ parked \in [Routes -> Calls \cup {NoOne}] /\ NoOne \notin Calls /\ worker.msg = NoOne
      /\ lane \in [Lanes -> Seq(Calls)] /\ laned \in [Routes -> Seq(Calls)]
      /\ home \in [Calls -> Nat] /\ slots \in [Lanes -> Int] /\ nodeQueue \in Nat
  BY RouteAssumption DEF RouteInv, RouteTypes, WorkerOK, NoOne
<1>3. /\ parked' \in [Routes -> Calls \cup {NoOne}] /\ parked'[r] = NoOne
      /\ \A q \in Routes : q # r => parked'[q] = parked[q]
      /\ home' \in [Calls -> Nat] /\ home'[c] = nodeQueue /\ \A x \in Calls : x # c => home'[x] = home[x]
      /\ slots' \in [Lanes -> Int]
      /\ slots'[l] = IF home[c] = nodeQueue THEN slots[l] ELSE slots[l] + 1
      /\ \A k \in Lanes : k # l => slots'[k] = slots[k]
  BY <1>1, <1>2 DEF Rehome
<1>4. /\ lane[l] \in Seq(Calls) /\ lane'[l] = Append(lane[l], c) /\ lane' \in [Lanes -> Seq(Calls)]
      /\ \A k \in Lanes : k # l => lane'[k] = lane[k]
  BY <1>1, <1>2, AppendProperties
<1>5. /\ laned[r] \in Seq(Calls) /\ laned'[r] = Append(laned[r], c) /\ laned' \in [Routes -> Seq(Calls)]
      /\ \A q \in Routes : q # r => laned'[q] = laned[q]
  BY <1>1, <1>2, AppendProperties
<1>6. ToSet(lane'[l]) = ToSet(lane[l]) \cup {c} /\ ToSet(laned'[r]) = ToSet(laned[r]) \cup {c}
  BY <1>1, <1>4, <1>5, AppendedSet
<1>7. /\ \A x \in Calls : Parked(x)' <=> Parked(x) /\ x # c
      /\ \A x \in Calls : InLane(x)' <=> InLane(x) \/ x = c
      /\ \A x : InQueue(x)' <=> InQueue(x)
      /\ \A x : Taken(x)' <=> Taken(x)
      /\ Held' = Held
  <2>1. \A x \in Calls : Parked(x)' <=> Parked(x) /\ x # c
    BY <1>1, <1>2, <1>3 DEF Parked
  <2>2. \A k \in Lanes : \A x : x \in ToSet(lane'[k]) <=> x \in ToSet(lane[k]) \/ (k = l /\ x = c)
    BY <1>4, <1>6
  <2>3. \A x \in Calls : InLane(x)' <=> InLane(x) \/ x = c
    BY <1>1, <2>2 DEF InLane
  <2>4. Held' = Held
    BY DEF Held, At
  <2> QED  BY <2>1, <2>3, <2>4 DEF InQueue, Taken
<1>8. PlacesOK'
  <2>1. \A k \in Gens : Distinct(chan[k])'
    BY DEF RouteInv, PlacesOK, Distinct
  <2>2. \A k \in Lanes : Distinct(lane[k])'
    <3>1. Distinct(lane[l]) /\ c \notin ToSet(lane[l])
      BY <1>1 DEF RouteInv, PlacesOK, InLane
    <3>2. Distinct(lane'[l])
      BY <1>1, <1>4, <3>1, AppendedSet
    <3>3. \A k \in Lanes : Distinct(lane'[k])
      BY <1>4, <3>2 DEF RouteInv, PlacesOK
    <3> QED  BY <3>3 DEF Distinct
  <2>3. (\A q \in Routes : parked[q] # NoOne => RouteOf[parked[q]] = q)'
    BY <1>3 DEF RouteInv, PlacesOK
  <2>4. ASSUME NEW k \in Lanes, NEW x \in ToSet(lane'[k])
        PROVE  LaneOf[RouteOf[x]] = k /\ nodeQueue' # 0 /\ home'[x] = nodeQueue'
    <3>1. CASE k = l /\ x = c
      BY <1>1, <1>3, <3>1
    <3>2. CASE ~(k = l /\ x = c)
      <4>1. x \in ToSet(lane[k]) /\ lane[k] \in Seq(Calls)
        BY <1>2, <1>4, <1>6, <3>2
      <4>2. x \in Calls /\ x # c
        BY <1>1, <4>1, InSequence DEF InLane
      <4>3. LaneOf[RouteOf[x]] = k /\ home[x] = nodeQueue
        BY <4>1 DEF RouteInv, PlacesOK
      <4> QED  BY <1>3, <4>2, <4>3
    <3> QED  BY <3>1, <3>2
  <2>5. \A x \in Calls :
          /\ (x \in Held <=> InQueue(x) \/ Taken(x) \/ Parked(x) \/ InLane(x))'
          /\ ~(InQueue(x) /\ Taken(x))' /\ ~(InQueue(x) /\ Parked(x))' /\ ~(InQueue(x) /\ InLane(x))'
          /\ ~(Taken(x) /\ Parked(x))' /\ ~(Taken(x) /\ InLane(x))' /\ ~(Parked(x) /\ InLane(x))'
    BY <1>1, <1>7 DEF RouteInv, PlacesOK
  <2> QED  BY <2>1, <2>2, <2>3, <2>4, <2>5 DEF PlacesOK
<1>9. OrderOK'
  <2>1. \A q, x, y : Before(q, x, y)' <=> Before(q, x, y)
    BY DEF Before
  <2>2. \A x \in Calls : (At(x, "ok") => x \in ToSet(accepted[RouteOf[x]]))'
    BY DEF RouteInv, OrderOK, At
  <2>3. c \in ToSet(accepted[r])
    BY <1>1 DEF RouteInv, OrderOK, Held
  <2>4. (\A q \in Routes : \A x \in ToSet(laned[q]) : x \in ToSet(accepted[q]))'
    BY <1>5, <1>6, <2>3 DEF RouteInv, OrderOK
  <2>5. \A x \in ToSet(laned[r]) : Before(r, x, c)
    BY <1>1 DEF RouteInv, OrderOK
  <2>6. \A q \in Routes : \A i, j \in 1 .. Len(laned'[q]) : i < j => Before(q, laned'[q][i], laned'[q][j])
    <3> SUFFICES ASSUME NEW q \in Routes, NEW i \in 1 .. Len(laned'[q]), NEW j \in 1 .. Len(laned'[q]), i < j
                 PROVE  Before(q, laned'[q][i], laned'[q][j])
      OBVIOUS
    <3>1. CASE q # r
      BY <1>5, <3>1 DEF RouteInv, OrderOK
    <3>2. CASE q = r
      <4>1. /\ Len(laned[r]) \in Nat /\ Len(laned'[r]) = Len(laned[r]) + 1 /\ laned'[r][Len(laned[r]) + 1] = c
            /\ \A n \in 1 .. Len(laned[r]) : laned'[r][n] = laned[r][n]
        BY <1>1, <1>5, AppendProperties
      <4>2. i \in 1 .. Len(laned[r]) /\ (j \in 1 .. Len(laned[r]) \/ j = Len(laned[r]) + 1)
        BY <3>2, <4>1
      <4>3. CASE j \in 1 .. Len(laned[r])
        BY <3>2, <4>1, <4>2, <4>3 DEF RouteInv, OrderOK
      <4>4. CASE j = Len(laned[r]) + 1
        <5>1. laned[r][i] \in ToSet(laned[r])
          BY <1>5, <4>2, InSequence
        <5> QED  BY <2>5, <3>2, <4>1, <4>2, <4>4, <5>1
      <4> QED  BY <4>2, <4>3, <4>4
    <3> QED  BY <3>1, <3>2
  <2>7. (\A q \in Routes : \A i, j \in 1 .. Len(laned[q]) : i < j => Before(q, laned[q][i], laned[q][j]))'
    <3>1. ASSUME NEW q \in Routes, NEW i \in 1 .. Len(laned'[q]), NEW j \in 1 .. Len(laned'[q]), i < j
          PROVE  \E m, n \in 1 .. Len(accepted'[q]) :
                    m < n /\ accepted'[q][m] = laned'[q][i] /\ accepted'[q][n] = laned'[q][j]
      <4>1. Before(q, laned'[q][i], laned'[q][j])
        BY <2>6, <3>1
      <4> QED  BY <4>1 DEF Before
    <3> QED  BY <3>1 DEF Before
  <2>8. ASSUME NEW d \in Calls, InQueue(d)' \/ Taken(d)' \/ Parked(d)', NEW x \in ToSet(laned'[RouteOf[d]])
        PROVE  Before(RouteOf[d], x, d)
    <3>1. (InQueue(d) \/ Parked(d)) /\ RouteOf[d] \in Routes
      BY <1>2, <1>7, <2>8, RouteAssumption DEF Taken
    <3>2. CASE x \in ToSet(laned[RouteOf[d]])
      BY <3>1, <3>2 DEF RouteInv, OrderOK
    <3>3. CASE x \notin ToSet(laned[RouteOf[d]])
      <4>1. x = c /\ RouteOf[d] = r
        BY <1>5, <1>6, <2>8, <3>1, <3>3
      <4>2. ~Parked(d)'
        <5>1. \A q \in Routes : parked'[q] # NoOne => RouteOf[parked'[q]] = q
          BY <1>8 DEF PlacesOK
        <5> QED  BY <1>2, <1>3, <4>1, <5>1 DEF Parked
      <4>3. InQueue(d)
        BY <1>2, <1>7, <2>8, <4>2 DEF Taken
      <4> QED  BY <1>1, <4>1, <4>3 DEF RouteInv, OrderOK
    <3> QED  BY <3>2, <3>3
  <2>9. (\A d \in Calls : InQueue(d) \/ Taken(d) \/ Parked(d) => \A x \in ToSet(laned[RouteOf[d]]) : Before(RouteOf[d], x, d))'
    BY <2>1, <2>8
  <2>10. (\A x, d \in Calls : (Taken(x) \/ Parked(x)) /\ InQueue(d) /\ RouteOf[x] = RouteOf[d] => Before(RouteOf[d], x, d))'
    BY <1>7, <2>1 DEF RouteInv, OrderOK
  <2>11. (\A g \in Gens : \A i, j \in 1 .. Len(chan[g]) : i < j => Before(RouteOf[chan[g][j]], chan[g][i], chan[g][j]))'
    BY <2>1 DEF RouteInv, OrderOK
  <2> QED  BY <2>2, <2>4, <2>7, <2>9, <2>10, <2>11 DEF OrderOK
<1>10. RouteTypes'
  BY <1>3, <1>4, <1>5 DEF RouteInv, RouteTypes, WorkerType
<1>11. RoutesOK' /\ SendersOK'
  BY DEF RouteInv, RoutesOK, SendersOK, At
<1>12. CountsOK'
  <2> DEFINE pending == {x \in Calls : calls[x].pc \notin {"start", "ok", "refused"}}
             S(k) == {x \in Held : home[x] = nodeQueue /\ LaneOf[RouteOf[x]] = k}
  <2>1. leases = pending \cup Held /\ acks = leases /\ nodeQueue <= queues
    BY DEF RouteInv, CountsOK, ReservationsExact
  <2>2. leases' = pending' \cup Held' /\ acks' = leases'
    BY <1>7, <2>1
  <2>3. ASSUME NEW k \in Lanes PROVE slots'[k] = Cardinality(S(k)')
    <3>1. slots[k] = Cardinality(S(k)) /\ IsFiniteSet(S(k))
      <4>1. S(k) \subseteq Calls
        BY DEF Held
      <4>2. IsFiniteSet(S(k))
        BY <4>1, RouteAssumption, FS_Subset
      <4> QED  BY <4>2 DEF RouteInv, CountsOK, ReservationsExact
    <3>2. \A x \in Held : x # c => home'[x] = home[x]
      BY <1>3 DEF Held
    <3>3. CASE k = l /\ home[c] # nodeQueue
      <4>1. S(k)' = S(k) \cup {c} /\ c \notin S(k)
        BY <1>1, <1>3, <1>7, <3>2, <3>3
      <4>2. slots'[k] = slots[k] + 1
        BY <1>3, <3>3
      <4>3. Cardinality(S(k) \cup {c}) = Cardinality(S(k)) + 1
        BY <3>1, <4>1, FS_AddElement
      <4> QED  BY <3>1, <4>1, <4>2, <4>3
    <3>4. CASE ~(k = l /\ home[c] # nodeQueue)
      <4>1. S(k)' = S(k)
        <5>1. CASE k = l
          BY <1>1, <1>3, <1>7, <3>2, <3>4, <5>1
        <5>2. CASE k # l
          <6>1. LaneOf[RouteOf[c]] # k
            BY <1>1, <5>2
          <6> QED  BY <1>7, <3>2, <6>1
        <5> QED  BY <5>1, <5>2
      <4>2. slots'[k] = slots[k]
        BY <1>3, <3>4
      <4> QED  BY <3>1, <4>1, <4>2
    <3> QED  BY <3>3, <3>4
  <2>4. ReservationsExact'
    BY <2>2, <2>3 DEF ReservationsExact
  <2>5. \A x \in Calls : home'[x] <= queues' /\ (~At(x, "ok")' => outcome'[x] = "none")
    BY <1>3, <2>1 DEF RouteInv, CountsOK, At
  <2>6. \A x \in Calls : calls'[x].pc \in {"lookup", "insert", "gate", "admit"} => calls'[x].nq \in 1 .. queues
    BY DEF RouteInv, CountsOK
  <2> QED  BY <2>1, <2>4, <2>5, <2>6 DEF CountsOK
<1> QED  BY <1>8, <1>9, <1>10, <1>11, <1>12 DEF RouteInv

LEMMA ForwardStep ==
  ASSUME RouteInv, NEW q \in worker.todo, Forward(q)
  PROVE  RouteInv'
<1> DEFINE r == q[1]
           c == parked[r]
<1>1. /\ worker.pc = "pick"
      /\ UNCHANGED <<calls, tx, rx, chan, gate, txLock, rxGuard, nextGen, accepted>>
  BY DEF Forward, maps
<1>2. r \in Routes /\ q[2] \in 1 .. nextGen - 1 /\ worker.msg = NoOne
  BY <1>1, OnType
<1>3. ASSUME NEW p \in {"pick", "guard"}, worker' = On(q, p) \/ worker' = [On(q, p) EXCEPT !.progress = TRUE]
      PROVE  worker' \in WorkerType /\ worker'.msg = worker.msg /\ worker'.msg = NoOne /\ worker'.pc = p /\ worker'.route = r /\ worker'.gen = q[2]
  <2>1. /\ On(q, p) \in WorkerType
        /\ On(q, p).msg = NoOne /\ On(q, p).pc = p /\ On(q, p).route = q[1] /\ On(q, p).gen = q[2]
        /\ [On(q, p) EXCEPT !.progress = TRUE] \in WorkerType
        /\ [On(q, p) EXCEPT !.progress = TRUE].msg = NoOne /\ [On(q, p) EXCEPT !.progress = TRUE].pc = p
        /\ [On(q, p) EXCEPT !.progress = TRUE].route = q[1] /\ [On(q, p) EXCEPT !.progress = TRUE].gen = q[2]
    BY <1>1, OnType
  <2>2. CASE worker' = On(q, p)
    BY <1>2, <2>1, <2>2
  <2>3. CASE worker' = [On(q, p) EXCEPT !.progress = TRUE]
    BY <1>2, <2>1, <2>3
  <2> QED  BY <1>3, <2>2, <2>3
<1>4. ASSUME worker' = On(q, "pick") \/ worker' = [On(q, "pick") EXCEPT !.progress = TRUE]
      PROVE  worker' \in WorkerType /\ worker'.msg = worker.msg /\ WorkerOK'
  BY <1>1, <1>3, <1>4, IdleWorker
<1>5. ASSUME worker' = On(q, "guard") \/ worker' = [On(q, "guard") EXCEPT !.progress = TRUE], parked'[r] = NoOne
      PROVE  worker' \in WorkerType /\ worker'.msg = worker.msg /\ WorkerOK'
  BY <1>1, <1>2, <1>3, <1>5, IdleWorker
<1>6. CASE c = NoOne /\ worker' = On(q, "guard") /\ UNCHANGED <<leases, acks, node, parked, outcome, laned>>
  <2>1. worker' \in WorkerType /\ worker'.msg = worker.msg /\ WorkerOK'
    BY <1>5, <1>6
  <2> QED  BY <1>1, <1>6, <2>1, SendersGates, WorkerOnly DEF hist
<1>7. CASE worker' = On(q, "pick") /\ UNCHANGED <<leases, acks, node, parked, outcome, laned>>
  <2>1. worker' \in WorkerType /\ worker'.msg = worker.msg /\ WorkerOK'
    BY <1>4, <1>7
  <2> QED  BY <1>1, <1>7, <2>1, SendersGates, WorkerOnly DEF hist
<1>8. CASE c # NoOne /\ RecoverNodeQueue(q, r)
  <2>1. worker' \in WorkerType /\ worker'.msg = worker.msg /\ WorkerOK'
    BY <1>4, <1>8 DEF RecoverNodeQueue
  <2>2. CASE NewNodeQueue /\ UNCHANGED <<leases, acks, parked, outcome>>
    BY <1>1, <1>8, <2>1, <2>2, RecoverQueue DEF RecoverNodeQueue, hist
  <2>3. CASE /\ Release({c}) /\ outcome' = [outcome EXCEPT ![c] = "gone"]
             /\ parked' = [parked EXCEPT ![r] = NoOne] /\ UNCHANGED <<nodeQueue, queues, slots, lane>>
    BY <1>1, <1>2, <1>8, <2>1, <2>3, DropParked DEF RecoverNodeQueue, hist, node, Release
  <2> QED  BY <1>8, <2>2, <2>3 DEF RecoverNodeQueue
<1>9. CASE c # NoOne /\ RehomeAndEnqueue(q, r)
  <2>1. CASE worker' = On(q, "pick") /\ UNCHANGED <<home, slots, lane, parked, laned>>
    <3>1. UNCHANGED <<leases, acks, node, parked, outcome, laned>>
      BY <1>9, <2>1 DEF RehomeAndEnqueue, node
    <3> QED  BY <1>7, <2>1, <3>1
  <2>2. CASE /\ Rehome(c, LaneOf[r]) /\ lane' = [lane EXCEPT ![LaneOf[r]] = Append(@, c)]
             /\ laned' = [laned EXCEPT ![r] = Append(@, c)]
             /\ parked' = [parked EXCEPT ![r] = NoOne]
             /\ worker' = [On(q, "guard") EXCEPT !.progress = TRUE]
    <3>1. parked'[r] = NoOne
      BY <1>2, <2>2 DEF RouteInv, RouteTypes
    <3>2. worker' \in WorkerType /\ worker'.msg = worker.msg /\ WorkerOK'
      BY <1>5, <2>2, <3>1
    <3>3. nodeQueue # 0 /\ UNCHANGED <<leases, acks, nodeQueue, queues, outcome>>
      BY <1>9 DEF RehomeAndEnqueue
    <3> QED  BY <1>1, <1>2, <1>9, <2>2, <3>2, <3>3, EnterLane
  <2> QED  BY <1>9, <2>1, <2>2 DEF RehomeAndEnqueue
<1> QED  BY <1>6, <1>7, <1>8, <1>9 DEF Forward

\* The worker takes the oldest message of the channel.
LEMMA TakeOldest ==
  ASSUME RouteInv, NEW g, g = worker.gen, worker.pc = "gate", gate[g] = NoOne, gate' = [gate EXCEPT ![g] = Worker],
         chan[g] # <<>>, worker' = [worker EXCEPT !.pc = "park", !.msg = Head(chan[g])],
         chan' = [chan EXCEPT ![g] = Tail(@)],
         UNCHANGED <<calls, leases, acks, tx, rx, txLock, nextGen, node, parked, outcome, hist>>
  PROVE  RouteInv'
<1>1. /\ worker \in WorkerType /\ worker.msg = NoOne /\ worker.route \in Routes
      /\ g \in Gens /\ g \in 1 .. nextGen - 1 /\ g # 0 /\ rx[worker.route] = g /\ parked[worker.route] = NoOne
      /\ chan \in [Gens -> Seq(Calls)] /\ NoOne \notin Calls
  BY UsedGenerations, SendersGates DEF RouteInv, RouteTypes, WorkerType, WorkerOK
<1>2. chan[g] \in Seq(Calls) /\ Distinct(chan[g])
  BY <1>1 DEF RouteInv, PlacesOK
<1>3. PICK m \in Calls : m = Head(chan[g])
  BY <1>2, FrontOfQueue
<1>4. /\ m \in ToSet(chan[g]) /\ Tail(chan[g]) \in Seq(Calls)
      /\ ToSet(Tail(chan[g])) = ToSet(chan[g]) \ {m} /\ Distinct(Tail(chan[g]))
  BY <1>2, <1>3, TailSet
<1>5. /\ chan'[g] = Tail(chan[g]) /\ chan' \in [Gens -> Seq(Calls)] /\ \A k \in Gens : k # g => chan'[k] = chan[k]
  BY <1>1, <1>4
<1>6. /\ worker' \in WorkerType /\ worker'.msg = m /\ worker'.pc = "park" /\ worker'.gen = g /\ worker'.route = worker.route
  BY <1>1, <1>3 DEF WorkerType, WorkerPlaces
<1>7. /\ gate' \in [Gens -> Calls \cup {NoOne, Worker}] /\ gate'[g] = Worker
      /\ \A x \in Calls : calls[x].pc = "admit" => gate'[calls[x].gen] = x
  BY <1>1, GateOfWorker
<1>8. /\ \A k \in Gens : \A x \in ToSet(chan[k]) : x \in Calls /\ calls[x].gen = k /\ tx[RouteOf[x]] = k /\ RouteOf[x] \in Routes
      /\ InQueue(m)
  <2>1. \A k \in Gens : \A x \in ToSet(chan[k]) : x \in Calls /\ calls[x].gen = k /\ tx[RouteOf[x]] = k
    BY HeldIsAccepted DEF RouteInv, RoutesOK
  <2>2. \A x \in Calls : RouteOf[x] \in Routes
    BY RouteAssumption
  <2> QED  BY <1>1, <1>4, <2>1, <2>2 DEF InQueue
<1>9. calls[m].gen = g /\ RouteOf[m] = worker.route /\ tx[worker.route] = g
  <2>1. calls[m].gen = g /\ tx[RouteOf[m]] = g /\ RouteOf[m] \in Routes
    BY <1>1, <1>4, <1>8
  <2>2. rx[RouteOf[m]] = g
    BY <1>1, <2>1 DEF RouteInv, RoutesOK
  <2>3. \A q, p \in Routes : rx[q] # 0 /\ rx[q] = rx[p] => q = p
    BY DEF RouteInv, RoutesOK
  <2>4. RouteOf[m] = worker.route
    BY <1>1, <2>1, <2>2, <2>3
  <2> QED  BY <2>1, <2>4
<1>10. \A k \in Gens : \A x : x \in ToSet(chan'[k]) <=> x \in ToSet(chan[k]) /\ x # m
  <2>1. ASSUME NEW k \in Gens, k # g PROVE m \notin ToSet(chan[k])
    BY <1>8, <1>9, <2>1
  <2> QED  BY <1>4, <1>5, <2>1
<1>11. /\ \A x : InQueue(x)' <=> InQueue(x) /\ x # m
       /\ \A x : Taken(x)' <=> x = m
       /\ \A x \in Calls : ~Taken(x)
       /\ \A x : Parked(x)' <=> Parked(x)
       /\ \A x : InLane(x)' <=> InLane(x)
       /\ Held' = Held
  <2>1. \A x : InQueue(x)' <=> InQueue(x) /\ x # m
    BY <1>10 DEF InQueue
  <2>2. \A x : Taken(x)' <=> x = m
    BY <1>6 DEF Taken
  <2>3. \A x \in Calls : ~Taken(x)
    BY <1>1 DEF Taken
  <2>4. \A x : (Parked(x)' <=> Parked(x)) /\ (InLane(x)' <=> InLane(x))
    BY DEF Parked, InLane, node
  <2>5. Held' = Held
    BY DEF Held, At
  <2> QED  BY <2>1, <2>2, <2>3, <2>4, <2>5
<1>12. RouteTypes'
  BY <1>5, <1>6, <1>7 DEF RouteInv, RouteTypes, WorkerType, node, hist
<1>13. RoutesOK'
  <2>1. /\ (\A q \in Routes : (tx[q] # 0 => rx[q] = tx[q]) /\ rx[q] < nextGen)'
        /\ (\A q, p \in Routes : rx[q] # 0 /\ rx[q] = rx[p] => q = p)'
    BY DEF RouteInv, RoutesOK
  <2>2. \A k \in Gens : \A x \in ToSet(chan'[k]) : calls[x].gen = k /\ tx[RouteOf[x]] = k
    BY <1>8, <1>10
  <2> QED  BY <2>1, <2>2 DEF RoutesOK
<1>14. SendersOK'
  BY <1>7 DEF RouteInv, SendersOK, At
<1>15. WorkerOK'
  BY <1>1, <1>6, <1>7, <1>9 DEF WorkerOK
<1>16. PlacesOK'
  <2>1. \A k \in Gens : Distinct(chan[k])'
    <3>1. \A k \in Gens : Distinct(chan'[k])
      BY <1>4, <1>5 DEF RouteInv, PlacesOK
    <3> QED  BY <3>1 DEF Distinct
  <2>2. /\ \A l \in Lanes : Distinct(lane[l])'
        /\ (\A q \in Routes : parked[q] # NoOne => RouteOf[parked[q]] = q)'
        /\ (\A l \in Lanes : \A x \in ToSet(lane[l]) : LaneOf[RouteOf[x]] = l /\ nodeQueue # 0 /\ home[x] = nodeQueue)'
    BY DEF RouteInv, PlacesOK, Distinct, node
  <2>3. \A x \in Calls :
          /\ (x \in Held <=> InQueue(x) \/ Taken(x) \/ Parked(x) \/ InLane(x))'
          /\ ~(InQueue(x) /\ Taken(x))' /\ ~(InQueue(x) /\ Parked(x))' /\ ~(InQueue(x) /\ InLane(x))'
          /\ ~(Taken(x) /\ Parked(x))' /\ ~(Taken(x) /\ InLane(x))' /\ ~(Parked(x) /\ InLane(x))'
    BY <1>8, <1>11 DEF RouteInv, PlacesOK
  <2> QED  BY <2>1, <2>2, <2>3 DEF PlacesOK
<1>17. OrderOK'
  <2>1. \A q, x, y : Before(q, x, y)' <=> Before(q, x, y)
    BY DEF Before, hist
  <2>2. /\ \A x \in Calls : (At(x, "ok") => x \in ToSet(accepted[RouteOf[x]]))'
        /\ (\A q \in Routes : \A x \in ToSet(laned[q]) : x \in ToSet(accepted[q]))'
    BY DEF RouteInv, OrderOK, At, hist
  <2>3. (\A q \in Routes : \A i, j \in 1 .. Len(laned[q]) : i < j => Before(q, laned[q][i], laned[q][j]))'
    BY <2>1 DEF RouteInv, OrderOK, hist
  <2>4. (\A d \in Calls : InQueue(d) \/ Taken(d) \/ Parked(d) => \A x \in ToSet(laned[RouteOf[d]]) : Before(RouteOf[d], x, d))'
    BY <1>8, <1>11, <2>1 DEF RouteInv, OrderOK, hist
  <2>5. ASSUME NEW x \in Calls, NEW d \in Calls, Taken(x)' \/ Parked(x)', InQueue(d)', RouteOf[x] = RouteOf[d]
        PROVE  Before(RouteOf[d], x, d)
    <3>1. CASE Parked(x)
      BY <1>11, <2>5, <3>1 DEF RouteInv, OrderOK
    <3>2. CASE ~Parked(x)
      <4>1. x = m /\ d # m /\ InQueue(d)
        BY <1>11, <2>5, <3>2
      <4>2. PICK k \in Gens : d \in ToSet(chan[k])
        BY <4>1 DEF InQueue
      <4>3. k = g
        BY <1>1, <1>4, <1>8, <2>5, <4>1, <4>2
      <4>4. PICK j \in 1 .. Len(chan[g]) : d = chan[g][j]
        BY <1>2, <4>2, <4>3, InSequence
      <4>5. m = chan[g][1] /\ 1 \in 1 .. Len(chan[g]) /\ 1 < j
        <5>1. Len(chan[g]) \in Nat /\ Len(chan[g]) >= 1 /\ m = chan[g][1]
          BY <1>2, <1>3, FrontOfQueue
        <5>2. j # 1
          BY <4>1, <4>4, <5>1
        <5> QED  BY <5>1, <5>2
      <4>6. Before(RouteOf[chan[g][j]], chan[g][1], chan[g][j])
        BY <1>1, <4>5 DEF RouteInv, OrderOK
      <4> QED  BY <4>1, <4>4, <4>5, <4>6
    <3> QED  BY <3>1, <3>2
  <2>6. (\A x, d \in Calls : (Taken(x) \/ Parked(x)) /\ InQueue(d) /\ RouteOf[x] = RouteOf[d] => Before(RouteOf[d], x, d))'
    BY <2>1, <2>5
  <2>7. ASSUME NEW k \in Gens, NEW i \in 1 .. Len(chan'[k]), NEW j \in 1 .. Len(chan'[k]), i < j
        PROVE  Before(RouteOf[chan'[k][j]], chan'[k][i], chan'[k][j])
    <3>1. CASE k # g
      <4>1. chan'[k] = chan[k]
        BY <1>5, <3>1
      <4> QED  BY <2>7, <4>1 DEF RouteInv, OrderOK
    <3>2. CASE k = g
      <4>1. /\ Len(chan[g]) \in Nat /\ Len(chan'[g]) = Len(chan[g]) - 1
            /\ \A n \in 1 .. Len(chan[g]) - 1 : chan'[g][n] = chan[g][n + 1]
        BY <1>2, <1>5, FrontOfQueue
      <4>2. i + 1 \in 1 .. Len(chan[g]) /\ j + 1 \in 1 .. Len(chan[g]) /\ i + 1 < j + 1
        BY <2>7, <3>2, <4>1
      <4>3. chan'[k][i] = chan[g][i + 1] /\ chan'[k][j] = chan[g][j + 1]
        BY <3>2, <4>1
      <4>4. Before(RouteOf[chan[g][j + 1]], chan[g][i + 1], chan[g][j + 1])
        BY <1>1, <4>2 DEF RouteInv, OrderOK
      <4> QED  BY <4>3, <4>4
    <3> QED  BY <3>1, <3>2
  <2>8. (\A k \in Gens : \A i, j \in 1 .. Len(chan[k]) : i < j => Before(RouteOf[chan[k][j]], chan[k][i], chan[k][j]))'
    <3>1. ASSUME NEW k \in Gens, NEW i \in 1 .. Len(chan'[k]), NEW j \in 1 .. Len(chan'[k]), i < j
          PROVE  \E a, n \in 1 .. Len(accepted'[RouteOf[chan'[k][j]]]) :
                    /\ a < n /\ accepted'[RouteOf[chan'[k][j]]][a] = chan'[k][i]
                    /\ accepted'[RouteOf[chan'[k][j]]][n] = chan'[k][j]
      <4>1. Before(RouteOf[chan'[k][j]], chan'[k][i], chan'[k][j])
        BY <2>7, <3>1
      <4> QED  BY <4>1 DEF Before, hist
    <3> QED  BY <3>1 DEF Before
  <2> QED  BY <2>2, <2>3, <2>4, <2>6, <2>8 DEF OrderOK
<1>18. CountsOK'
  <2>1. \A x \in Calls : At(x, "ok")' <=> At(x, "ok")
    BY DEF At
  <2>2. \A x \in Calls :
            /\ calls'[x].pc \in {"start", "ok", "refused"} <=> calls[x].pc \in {"start", "ok", "refused"}
            /\ calls'[x].pc \in {"lookup", "insert", "gate", "admit"} => calls'[x].nq \in 1 .. queues
    BY DEF RouteInv, CountsOK
  <2> QED  BY <1>11, <2>1, <2>2, CountsFrame DEF RouteInv, node
<1> QED  BY <1>12, <1>13, <1>14, <1>15, <1>16, <1>17, <1>18 DEF RouteInv

LEMMA ReceiveStep ==
  ASSUME RouteInv, Receive
  PROVE  RouteInv'
<1> DEFINE g == worker.gen
<1>1. /\ worker.pc = "gate" /\ gate[g] = NoOne /\ gate' = [gate EXCEPT ![g] = Worker]
      /\ UNCHANGED <<calls, leases, acks, tx, rx, txLock, nextGen, node, parked, outcome, hist>>
  BY DEF Receive
<1>2. CASE chan[g] = <<>> /\ worker' = [worker EXCEPT !.pc = "retire"] /\ UNCHANGED chan
  <2>1. worker \in WorkerType /\ worker.msg = NoOne /\ g \in Gens /\ g \in 1 .. nextGen - 1
    BY <1>1, UsedGenerations DEF RouteInv, RouteTypes, WorkerType, WorkerOK
  <2>2. worker' \in WorkerType /\ worker'.msg = worker.msg /\ worker'.pc = "retire" /\ worker'.gen = g
    BY <1>2, <2>1 DEF WorkerType, WorkerPlaces
  <2>3. /\ gate' \in [Gens -> Calls \cup {NoOne, Worker}] /\ gate'[g] = Worker
        /\ \A x \in Calls : calls[x].pc = "admit" => gate'[calls[x].gen] = x
    BY <1>1, <2>1, GateOfWorker
  <2>4. WorkerOK'
    BY <1>1, <1>2, <2>1, <2>2, <2>3 DEF WorkerOK
  <2> QED  BY <1>1, <1>2, <2>2, <2>3, <2>4, WorkerOnly
<1>3. CASE /\ chan[g] # <<>> /\ worker' = [worker EXCEPT !.pc = "park", !.msg = Head(chan[g])]
           /\ chan' = [chan EXCEPT ![g] = Tail(@)]
  BY <1>1, <1>3, TakeOldest
<1> QED  BY <1>2, <1>3 DEF Receive

\* Its queue cannot have been retired meanwhile: the message becomes the one in progress.
LEMMA ParkStep ==
  ASSUME RouteInv, Park
  PROVE  RouteInv'
<1> DEFINE r == worker.route
           c == worker.msg
           g == worker.gen
<1>1. /\ worker.pc = "park" /\ worker \in WorkerType /\ r \in Routes /\ c \in Calls
      /\ g \in Gens /\ gate[g] = Worker /\ calls[c].gen = g /\ RouteOf[c] = r /\ tx[r] = g /\ parked[r] = NoOne
  BY UsedGenerations DEF Park, RouteInv, RouteTypes, WorkerType, WorkerOK
<1>2. /\ parked' = [parked EXCEPT ![r] = c] /\ gate' = [gate EXCEPT ![g] = NoOne]
      /\ worker' = [worker EXCEPT !.pc = "pick", !.progress = TRUE, !.msg = NoOne]
      /\ UNCHANGED <<calls, leases, acks, tx, rx, chan, txLock, rxGuard, nextGen, node, outcome, hist>>
  BY <1>1 DEF Park, CurrentQueue, node
<1>3. /\ gate' \in [Gens -> Calls \cup {NoOne, Worker}]
      /\ \A x \in Calls : calls[x].pc = "admit" => gate'[calls[x].gen] = x
  BY <1>1, <1>2, GateOfWorker
<1>4. worker' \in WorkerType /\ worker'.msg = NoOne /\ worker'.pc = "pick"
  BY <1>1, <1>2 DEF WorkerType, WorkerPlaces
<1>5. parked \in [Routes -> Calls \cup {NoOne}] /\ NoOne \notin Calls
  BY SendersGates DEF RouteInv, RouteTypes
<1>6. parked' \in [Routes -> Calls \cup {NoOne}] /\ parked'[r] = c /\ \A q \in Routes : q # r => parked'[q] = parked[q]
  BY <1>1, <1>2, <1>5
<1>7. /\ \A x : InQueue(x)' <=> InQueue(x)
      /\ \A x \in Calls : ~Taken(x)'
      /\ \A x \in Calls : Taken(x) <=> x = c
      /\ \A x \in Calls : Parked(x)' <=> Parked(x) \/ x = c
      /\ \A x : InLane(x)' <=> InLane(x)
      /\ Held' = Held
  <2>1. \A x : (InQueue(x)' <=> InQueue(x)) /\ (InLane(x)' <=> InLane(x))
    BY <1>2 DEF InQueue, InLane, node
  <2>2. \A x \in Calls : ~Taken(x)'
    BY <1>4, <1>5 DEF Taken
  <2>3. \A x \in Calls : Parked(x)' <=> Parked(x) \/ x = c
    BY <1>1, <1>5, <1>6 DEF Parked
  <2>4. Held' = Held
    BY <1>2 DEF Held, At
  <2> QED  BY <2>1, <2>2, <2>3, <2>4 DEF Taken
<1>8. PlacesOK'
  <2>1. /\ \A k \in Gens : Distinct(chan[k])'
        /\ \A l \in Lanes : Distinct(lane[l])'
        /\ (\A l \in Lanes : \A x \in ToSet(lane[l]) : LaneOf[RouteOf[x]] = l /\ nodeQueue # 0 /\ home[x] = nodeQueue)'
    BY <1>2 DEF RouteInv, PlacesOK, Distinct, node
  <2>2. (\A q \in Routes : parked[q] # NoOne => RouteOf[parked[q]] = q)'
    BY <1>1, <1>6 DEF RouteInv, PlacesOK
  <2>3. \A x \in Calls :
          /\ (x \in Held <=> InQueue(x) \/ Taken(x) \/ Parked(x) \/ InLane(x))'
          /\ ~(InQueue(x) /\ Taken(x))' /\ ~(InQueue(x) /\ Parked(x))' /\ ~(InQueue(x) /\ InLane(x))'
          /\ ~(Taken(x) /\ Parked(x))' /\ ~(Taken(x) /\ InLane(x))' /\ ~(Parked(x) /\ InLane(x))'
    BY <1>7 DEF RouteInv, PlacesOK
  <2> QED  BY <2>1, <2>2, <2>3 DEF PlacesOK
<1>9. OrderOK'
  <2>1. \A q, x, y : Before(q, x, y)' <=> Before(q, x, y)
    BY <1>2 DEF Before, hist
  <2>2. /\ \A x \in Calls : (At(x, "ok") => x \in ToSet(accepted[RouteOf[x]]))'
        /\ (\A q \in Routes : \A x \in ToSet(laned[q]) : x \in ToSet(accepted[q]))'
    BY <1>2 DEF RouteInv, OrderOK, At, hist
  <2>3. (\A q \in Routes : \A i, j \in 1 .. Len(laned[q]) : i < j => Before(q, laned[q][i], laned[q][j]))'
    BY <1>2, <2>1 DEF RouteInv, OrderOK, hist
  <2>4. (\A d \in Calls : InQueue(d) \/ Taken(d) \/ Parked(d) => \A x \in ToSet(laned[RouteOf[d]]) : Before(RouteOf[d], x, d))'
    BY <1>2, <1>7, <2>1 DEF RouteInv, OrderOK, hist
  <2>5. (\A x, d \in Calls : (Taken(x) \/ Parked(x)) /\ InQueue(d) /\ RouteOf[x] = RouteOf[d] => Before(RouteOf[d], x, d))'
    BY <1>7, <2>1 DEF RouteInv, OrderOK
  <2>6. (\A k \in Gens : \A i, j \in 1 .. Len(chan[k]) : i < j => Before(RouteOf[chan[k][j]], chan[k][i], chan[k][j]))'
    BY <1>2, <2>1 DEF RouteInv, OrderOK
  <2> QED  BY <2>2, <2>3, <2>4, <2>5, <2>6 DEF OrderOK
<1>10. CountsOK'
  <2>1. \A x \in Calls : At(x, "ok")' <=> At(x, "ok")
    BY <1>2 DEF At
  <2>2. \A x \in Calls :
            /\ calls'[x].pc \in {"start", "ok", "refused"} <=> calls[x].pc \in {"start", "ok", "refused"}
            /\ calls'[x].pc \in {"lookup", "insert", "gate", "admit"} => calls'[x].nq \in 1 .. queues
    BY <1>2 DEF RouteInv, CountsOK
  <2> QED  BY <1>2, <1>7, <2>1, <2>2, CountsFrame DEF RouteInv, node
<1>11. RouteTypes'
  BY <1>2, <1>3, <1>4, <1>6 DEF RouteInv, RouteTypes, WorkerType, node, hist
<1>12. RoutesOK'
  BY <1>2 DEF RouteInv, RoutesOK
<1>13. SendersOK'
  BY <1>2, <1>3 DEF RouteInv, SendersOK, At
<1>14. WorkerOK'
  BY <1>2, <1>4, IdleWorker
<1> QED  BY <1>8, <1>9, <1>10, <1>11, <1>12, <1>13, <1>14 DEF RouteInv

-----------------------------------------------------------------------------
(* The lanes and the topology                                              *)

\* The messages that end return what they reserved.
LEMMA ReservationsReturn ==
  ASSUME RouteInv, NEW gone \in SUBSET Held, UNCHANGED <<calls, home, queues>>,
         leases' = leases \ gone, acks' = acks \ gone, Held' = Held \ gone,
         \A x \in Calls : outcome'[x] = "none" <=> outcome[x] = "none" /\ x \notin gone,
         \/ nodeQueue' = 0
         \/ nodeQueue' = nodeQueue /\
            \A l \in Lanes : nodeQueue # 0 =>
               slots'[l] = Cardinality({x \in Held' : home[x] = nodeQueue /\ LaneOf[RouteOf[x]] = l})
  PROVE  CountsOK'
<1> DEFINE pending == {x \in Calls : calls[x].pc \notin {"start", "ok", "refused"}}
<1>1. leases = pending \cup Held /\ acks = leases /\ nodeQueue <= queues /\ queues \in Nat
  BY DEF RouteInv, RouteTypes, CountsOK, ReservationsExact
<1>2. pending' = pending /\ \A x \in gone : x \notin pending /\ At(x, "ok")
  BY DEF Held, At
<1>3. leases' = pending' \cup Held' /\ acks' = leases'
  BY <1>1, <1>2
<1>4. \A l \in Lanes : nodeQueue' # 0 =>
         slots'[l] = Cardinality({x \in Held' : home'[x] = nodeQueue' /\ LaneOf[RouteOf[x]] = l})
  OBVIOUS
<1>5. ReservationsExact'
  BY <1>3, <1>4 DEF ReservationsExact
<1>6. \A x \in Calls : /\ home'[x] <= queues' /\ (calls'[x].pc \in {"lookup", "insert", "gate", "admit"} => calls'[x].nq \in 1 .. queues')
                       /\ ~At(x, "ok")' => outcome'[x] = "none"
  BY <1>2 DEF RouteInv, CountsOK, At
<1>7. nodeQueue' <= queues'
  BY <1>1
<1> QED  BY <1>5, <1>6, <1>7 DEF CountsOK

LEMMA LaneDoneStep ==
  ASSUME RouteInv, NEW l \in Lanes, LaneDone(l)
  PROVE  RouteInv'
<1>1. /\ lane[l] # <<>> /\ lane[l] \in Seq(Calls) /\ Distinct(lane[l]) /\ lane \in [Lanes -> Seq(Calls)]
      /\ outcome \in [Calls -> {"none", "sent", "gone"}] /\ slots \in [Lanes -> Int]
  BY DEF LaneDone, RouteInv, RouteTypes, PlacesOK
<1>2. PICK c \in Calls : c = Head(lane[l])
  BY <1>1, FrontOfQueue
<1>3. /\ leases' = leases \ {c} /\ acks' = acks \ {c} /\ slots' = SlotsWithout({c})
      /\ outcome' = [outcome EXCEPT ![c] = "sent"]
      /\ lane' = [lane EXCEPT ![l] = Tail(@)]
      /\ UNCHANGED <<calls, tx, rx, chan, gate, txLock, rxGuard, nextGen, nodeQueue, queues, home, parked, worker, hist>>
  BY <1>2 DEF LaneDone, Release, maps
<1>4. /\ c \in ToSet(lane[l]) /\ Tail(lane[l]) \in Seq(Calls)
      /\ ToSet(Tail(lane[l])) = ToSet(lane[l]) \ {c} /\ Distinct(Tail(lane[l]))
  BY <1>1, <1>2, TailSet
<1>5. /\ lane'[l] = Tail(lane[l]) /\ lane' \in [Lanes -> Seq(Calls)] /\ \A k \in Lanes : k # l => lane'[k] = lane[k]
  BY <1>1, <1>3, <1>4
<1>6. /\ LaneOf[RouteOf[c]] = l /\ nodeQueue # 0 /\ home[c] = nodeQueue
      /\ InLane(c) /\ c \in Held /\ ~InQueue(c) /\ ~Taken(c) /\ ~Parked(c)
  <2>1. InLane(c)
    BY <1>4 DEF InLane
  <2> QED  BY <1>4, <2>1 DEF RouteInv, PlacesOK
<1>7. \A k \in Lanes : \A x : x \in ToSet(lane'[k]) <=> x \in ToSet(lane[k]) /\ x # c
  <2>1. ASSUME NEW k \in Lanes, k # l PROVE c \notin ToSet(lane[k])
    BY <1>6, <2>1 DEF RouteInv, PlacesOK
  <2> QED  BY <1>4, <1>5, <2>1
<1>8. /\ outcome' \in [Calls -> {"none", "sent", "gone"}]
      /\ \A x \in Calls : outcome'[x] = "none" <=> outcome[x] = "none" /\ x \notin {c}
  BY <1>1, <1>3
<1>9. PICK gone \in SUBSET Held : gone = {c}
  BY <1>6
<1>10. PlacesOK' /\ Held' = Held \ gone
  <2>1. \A x \in Calls : Parked(x)' <=> Parked(x) /\ x \notin gone
    BY <1>3, <1>6, <1>9 DEF Parked
  <2>2. \A x \in Calls : InLane(x)' <=> InLane(x) /\ x \notin gone
    BY <1>7, <1>9 DEF InLane
  <2>3. \A k \in Lanes : Distinct(lane'[k]) /\ ToSet(lane'[k]) \subseteq ToSet(lane[k])
    BY <1>4, <1>5 DEF RouteInv, PlacesOK
  <2>4. \A x \in gone : ~InQueue(x) /\ ~Taken(x)
    BY <1>6, <1>9
  <2> QED  BY <1>3, <1>8, <1>9, <2>1, <2>2, <2>3, <2>4, MessagesEnd
<1>11. OrderOK'
  <2>1. \A x \in Calls : Parked(x)' => Parked(x)
    BY <1>3 DEF Parked
  <2> QED  BY <1>3, <2>1, OrderShrinks DEF RouteInv, hist
<1>12. slots' \in [Lanes -> Int]
       /\ \A k \in Lanes : slots'[k] = Cardinality({x \in Held' : home[x] = nodeQueue /\ LaneOf[RouteOf[x]] = k})
  <2> DEFINE S(k) == {x \in Held : home[x] = nodeQueue /\ LaneOf[RouteOf[x]] = k}
             D(k) == {x \in {c} : /\ home[x] # 0 /\ home[x] = nodeQueue /\ LaneOf[RouteOf[x]] = k}
             H(k) == {x \in Held' : home[x] = nodeQueue /\ LaneOf[RouteOf[x]] = k}
  <2>1. \A k \in Lanes : slots'[k] = slots[k] - Cardinality(D(k))
    BY <1>3 DEF SlotsWithout
  <2>2. ASSUME NEW k \in Lanes
        PROVE  slots'[k] \in Int /\ slots'[k] = Cardinality(H(k))
    <3>1. slots[k] = Cardinality(S(k)) /\ IsFiniteSet(S(k)) /\ Cardinality(S(k)) \in Nat
      <4>1. S(k) \subseteq Calls
        BY DEF Held
      <4>2. IsFiniteSet(S(k))
        BY <4>1, RouteAssumption, FS_Subset
      <4>3. Cardinality(S(k)) \in Nat
        BY <4>2, FS_CardinalityType
      <4> QED  BY <1>6, <4>2, <4>3 DEF RouteInv, CountsOK, ReservationsExact
    <3>2. CASE k = l
      <4>1. D(k) = {c} /\ c \in S(k) /\ H(k) = S(k) \ {c}
        BY <1>6, <1>9, <1>10, <3>2
      <4>2. Cardinality({c}) = 1
        BY FS_Singleton
      <4>3. Cardinality(S(k) \ {c}) = Cardinality(S(k)) - 1
        BY <3>1, <4>1, FS_RemoveElement
      <4> HIDE DEF D, S, H
      <4> QED  BY <2>1, <3>1, <4>1, <4>2, <4>3
    <3>3. CASE k # l
      <4>1. D(k) = {} /\ H(k) = S(k)
        BY <1>6, <1>9, <1>10, <3>3
      <4>2. Cardinality({}) = 0
        BY FS_EmptySet
      <4>3. Cardinality(D(k)) = 0 /\ Cardinality(H(k)) = Cardinality(S(k))
        BY <4>1, <4>2
      <4>4. slots'[k] = slots[k] - Cardinality(D(k))
        BY <2>1
      <4> HIDE DEF D, S, H
      <4> QED  BY <3>1, <4>3, <4>4
    <3> QED  BY <3>2, <3>3
  <2>3. slots' = [k \in Lanes |-> slots[k] - Cardinality(D(k))]
    BY <1>3 DEF SlotsWithout
  <2> QED  BY <2>2, <2>3
<1>13. CountsOK'
  BY <1>3, <1>8, <1>9, <1>10, <1>12, ReservationsReturn
<1>14. RouteTypes'
  BY <1>3, <1>5, <1>8, <1>12 DEF RouteInv, RouteTypes, hist
<1>15. RoutesOK' /\ SendersOK'
  BY <1>3 DEF RouteInv, RoutesOK, SendersOK, At
<1>16. WorkerOK'
  BY <1>3 DEF RouteInv, WorkerOK
<1> QED  BY <1>10, <1>11, <1>13, <1>14, <1>15, <1>16 DEF RouteInv

LEMMA ReconcileTopologyStep ==
  ASSUME RouteInv, ReconcileTopology
  PROVE  RouteInv'
<1>1. PICK lost : lost = UNION {ToSet(lane[l]) : l \in Lanes}
  OBVIOUS
<1>2. /\ nodeQueue' = 0 /\ leases' = leases \ lost /\ acks' = acks \ lost
      /\ lane' = [l \in Lanes |-> <<>>] /\ slots' = [l \in Lanes |-> 0]
      /\ outcome' = [x \in Calls |-> IF x \in lost THEN "gone" ELSE outcome[x]]
      /\ UNCHANGED <<calls, tx, rx, chan, gate, txLock, rxGuard, nextGen, queues, home, parked, worker, hist>>
  BY <1>1 DEF ReconcileTopology, AbortNodeQueue, Release, maps
<1>3. \A x : x \in lost <=> InLane(x)
  BY <1>1 DEF InLane
<1>4. \A x : InLane(x) => x \in Calls
  <2>1. ASSUME NEW k \in Lanes, NEW x \in ToSet(lane[k]) PROVE x \in Calls
    <3>1. lane[k] \in Seq(Calls)
      BY DEF RouteInv, RouteTypes
    <3> QED  BY <3>1, InSequence
  <2> QED  BY <2>1 DEF InLane
<1>5. lost \in SUBSET Held /\ \A x \in lost : ~InQueue(x) /\ ~Taken(x) /\ ~Parked(x)
  BY <1>3, <1>4 DEF RouteInv, PlacesOK
<1>6. /\ outcome' \in [Calls -> {"none", "sent", "gone"}]
      /\ \A x \in Calls : outcome'[x] = "none" <=> outcome[x] = "none" /\ x \notin lost
  <2>1. outcome \in [Calls -> {"none", "sent", "gone"}]
    BY DEF RouteInv, RouteTypes
  <2> QED  BY <1>2, <2>1
<1>7. \A l \in Lanes : lane'[l] = <<>> /\ ToSet(lane'[l]) = {} /\ Distinct(lane'[l])
  BY <1>2 DEF ToSet, Distinct
<1>8. PlacesOK' /\ Held' = Held \ lost
  <2>1. \A x \in Calls : Parked(x)' <=> Parked(x) /\ x \notin lost
    BY <1>2, <1>5 DEF Parked
  <2>2. \A x \in Calls : InLane(x)' <=> InLane(x) /\ x \notin lost
    BY <1>3, <1>7 DEF InLane
  <2>3. \A k \in Lanes : Distinct(lane'[k]) /\ ToSet(lane'[k]) \subseteq ToSet(lane[k])
    BY <1>7
  <2> QED  BY <1>2, <1>5, <1>6, <1>7, <2>1, <2>2, <2>3, MessagesEnd
<1>9. OrderOK'
  <2>1. \A x \in Calls : Parked(x)' => Parked(x)
    BY <1>2 DEF Parked
  <2> QED  BY <1>2, <2>1, OrderShrinks DEF RouteInv, hist
<1>10. CountsOK'
  BY <1>2, <1>5, <1>6, <1>8, ReservationsReturn
<1>11. RouteTypes'
  <2>1. lane' \in [Lanes -> Seq(Calls)] /\ slots' \in [Lanes -> Int] /\ nodeQueue' \in Nat
    BY <1>2
  <2> QED  BY <1>2, <1>6, <2>1 DEF RouteInv, RouteTypes, hist
<1>12. RoutesOK' /\ SendersOK'
  BY <1>2 DEF RouteInv, RoutesOK, SendersOK, At
<1>13. WorkerOK'
  BY <1>2 DEF RouteInv, WorkerOK
<1> QED  BY <1>8, <1>9, <1>10, <1>11, <1>12, <1>13 DEF RouteInv

-----------------------------------------------------------------------------
(* Every behaviour                                                         *)

LEMMA RouteStart == RouteInit => RouteInv
<1> SUFFICES ASSUME RouteInit PROVE RouteInv
  OBVIOUS
<1>1. /\ \A x \in Calls : calls[x].pc \in {"start", "refused"} /\ calls[x].gen = 0 /\ calls[x].nq = 0
      /\ calls \in [Calls -> CallType]
  BY MaxGenNat DEF RouteInit, CallType, CallPlaces
<1>2. /\ \A g \in Gens : chan[g] = <<>> /\ ToSet(chan[g]) = {}
      /\ \A l \in Lanes : lane[l] = <<>> /\ ToSet(lane[l]) = {}
      /\ \A r \in Routes : tx[r] = 0 /\ rx[r] = 0 /\ parked[r] = NoOne /\ laned[r] = <<>> /\ ToSet(laned[r]) = {}
      /\ worker.pc = "pick" /\ worker.msg = NoOne /\ nextGen = 1 /\ nodeQueue = 0 /\ queues = 0
      /\ \A x \in Calls : outcome[x] = "none" /\ home[x] = 0
      /\ NoOne \notin Calls
  <2>1. /\ \A g \in Gens : chan[g] = <<>>
        /\ \A l \in Lanes : lane[l] = <<>>
        /\ \A r \in Routes : tx[r] = 0 /\ rx[r] = 0 /\ parked[r] = NoOne /\ laned[r] = <<>>
        /\ \A x \in Calls : outcome[x] = "none" /\ home[x] = 0
    BY DEF RouteInit
  <2>2. worker.pc = "pick" /\ worker.msg = NoOne /\ nextGen = 1 /\ nodeQueue = 0 /\ queues = 0
    BY DEF RouteInit
  <2>3. ToSet(<<>>) = {}
    BY DEF ToSet
  <2>4. NoOne \notin Calls
    BY RouteAssumption DEF NoOne
  <2> QED  BY <2>1, <2>2, <2>3, <2>4
<1>3. RouteTypes
  <2>1. (CHOOSE r \in Routes : TRUE) \in Routes
    BY RouteAssumption
  <2>2. worker \in [pc : WorkerPlaces, todo : SUBSET (Routes \X (1..nextGen - 1)), progress : BOOLEAN,
                    route : Routes, gen : 0..MaxGen, msg : Calls \cup {NoOne}]
    BY <2>1, MaxGenNat DEF RouteInit, WorkerPlaces
  <2>3. /\ tx \in [Routes -> 0..MaxGen] /\ rx \in [Routes -> 0..MaxGen]
        /\ nextGen \in 1..MaxGen + 1
    BY MaxGenNat DEF RouteInit
  <2>4. /\ chan \in [Gens -> Seq(Calls)] /\ gate \in [Gens -> Calls \cup {NoOne, Worker}]
        /\ txLock \in [Shards -> Calls \cup {NoOne}]
        /\ nodeQueue \in Nat /\ queues \in Nat /\ home \in [Calls -> Nat]
        /\ slots \in [Lanes -> Int] /\ lane \in [Lanes -> Seq(Calls)]
        /\ parked \in [Routes -> Calls \cup {NoOne}]
        /\ outcome \in [Calls -> {"none", "sent", "gone"}]
        /\ accepted \in [Routes -> Seq(Calls)] /\ laned \in [Routes -> Seq(Calls)]
    BY DEF RouteInit
  <2> QED  BY <1>1, <2>2, <2>3, <2>4 DEF RouteTypes, CallType
<1>4. RoutesOK
  BY <1>2 DEF RoutesOK
<1>5. SendersOK
  BY <1>1 DEF SendersOK, At
<1>6. WorkerOK
  BY <1>2 DEF WorkerOK
<1>7. Held = {} /\ \A x \in Calls : ~InQueue(x) /\ ~Taken(x) /\ ~Parked(x) /\ ~InLane(x)
  BY <1>1, <1>2 DEF Held, At, InQueue, Taken, Parked, InLane
<1>8. PlacesOK
  <2>1. Distinct(<<>>)
    BY DEF Distinct
  <2>2. \A x \in Calls : x \notin Held
    BY <1>7
  <2> HIDE DEF Held
  <2> QED  BY <1>2, <1>7, <2>1, <2>2 DEF PlacesOK
<1>9. OrderOK
  <2>1. 1 .. Len(<<>>) = {}
    OBVIOUS
  <2>2. /\ \A x \in Calls : At(x, "ok") => x \in ToSet(accepted[RouteOf[x]])
        /\ \A r \in Routes : \A x \in ToSet(laned[r]) : x \in ToSet(accepted[r])
    BY <1>1, <1>2 DEF At
  <2>3. /\ \A r \in Routes : \A i, j \in 1 .. Len(laned[r]) : i < j => Before(r, laned[r][i], laned[r][j])
        /\ \A g \in Gens : \A i, j \in 1 .. Len(chan[g]) : i < j => Before(RouteOf[chan[g][j]], chan[g][i], chan[g][j])
    BY <1>2, <2>1
  <2> QED  BY <1>7, <2>2, <2>3 DEF OrderOK
<1>10. CountsOK
  <2>1. leases = {} /\ acks = {}
    BY DEF RouteInit
  <2>2. {x \in Calls : calls[x].pc \notin {"start", "ok", "refused"}} = {}
    BY <1>1
  <2>3. ReservationsExact
    BY <1>2, <1>7, <2>1, <2>2 DEF ReservationsExact
  <2> QED  BY <1>1, <1>2, <2>3 DEF CountsOK, At
<1> QED  BY <1>3, <1>4, <1>5, <1>6, <1>8, <1>9, <1>10 DEF RouteInv

LEMMA RouteStep == RouteInv /\ [RouteNext]_routeVars => RouteInv'
<1> SUFFICES ASSUME RouteInv, [RouteNext]_routeVars PROVE RouteInv'
  OBVIOUS
<1>1. ASSUME NEW c \in Calls, Send(c) PROVE RouteInv'
  BY <1>1, StartMessageStep, CreateNodeQueueStep, LookupSenderStep, InsertQueueStep, LockGateStep, AdmitStep DEF Send
<1>2. CASE Work
  BY <1>2, PassStep, ForwardStep, GuardReceiverStep, ReceiveStep, ParkStep, RetireSenderStep, CleanupGenerationStep DEF Work
<1>3. ASSUME NEW l \in Lanes, LaneDone(l) PROVE RouteInv'
  BY <1>3, LaneDoneStep
<1>4. CASE RefreshNodes
  BY <1>4, RefreshNodesStep
<1>5. CASE ReconcileTopology
  BY <1>5, ReconcileTopologyStep
<1>6. CASE UNCHANGED routeVars
  <2>1. UNCHANGED <<calls, leases, acks, tx, rx, chan, gate, txLock, rxGuard, nextGen, node, parked, worker, outcome, hist>>
    BY <1>6 DEF routeVars, maps
  <2>2. worker' \in WorkerType
    BY <2>1 DEF RouteInv, RouteTypes, WorkerType
  <2>3. WorkerOK'
    BY <2>1 DEF RouteInv, WorkerOK
  <2> QED  BY <2>1, <2>2, <2>3, SendersGates, WorkerOnly
<1> QED  BY <1>1, <1>2, <1>3, <1>4, <1>5, <1>6 DEF RouteNext

\* An accepted message is in one place, and one the worker can reach.
LEMMA InvHolds == RouteInv => RoutesSafe
<1> SUFFICES ASSUME RouteInv PROVE RoutesSafe
  OBVIOUS
<1>1. ASSUME NEW c \in Calls PROVE InQueue(c) <=> InChannel(c)
  <2>1. ASSUME NEW g \in Gens, c \in ToSet(chan[g]) PROVE InChannel(c)
    <3>1. tx[RouteOf[c]] = g /\ RouteOf[c] \in Routes /\ g # 0
      <4>1. g # 0
        BY MaxGenNat DEF Gens
      <4>2. RouteOf[c] \in Routes
        BY RouteAssumption
      <4> QED  BY <2>1, <4>1, <4>2 DEF RouteInv, RoutesOK
    <3>2. rx[RouteOf[c]] = g
      BY <3>1 DEF RouteInv, RoutesOK
    <3> QED  BY <2>1, <3>1, <3>2 DEF InChannel
  <2>2. ASSUME NEW r \in Routes, rx[r] # 0, c \in ToSet(chan[rx[r]]) PROVE InQueue(c)
    <3>1. rx[r] \in Gens
      BY <2>2, MaxGenNat DEF RouteInv, RouteTypes, Gens
    <3> QED  BY <2>2, <3>1 DEF InQueue
  <2> QED  BY <2>1, <2>2 DEF InQueue, InChannel
<1>2. ASSUME NEW c \in Calls, At(c, "ok") PROVE Cardinality(PlacesOf(c)) = 1
  <2>1. /\ c \in Held <=> InQueue(c) \/ Taken(c) \/ Parked(c) \/ InLane(c)
        /\ ~(InQueue(c) /\ Taken(c)) /\ ~(InQueue(c) /\ Parked(c)) /\ ~(InQueue(c) /\ InLane(c))
        /\ ~(Taken(c) /\ Parked(c)) /\ ~(Taken(c) /\ InLane(c)) /\ ~(Parked(c) /\ InLane(c))
        /\ c \in Held <=> outcome[c] = "none"
    BY <1>2 DEF RouteInv, PlacesOK, Held
  <2>2. \A p : p \in PlacesOf(c) <=> \/ p = "channel" /\ InQueue(c)
                                     \/ p = "worker" /\ Taken(c)
                                     \/ p = "parked" /\ Parked(c)
                                     \/ p = "lane" /\ InLane(c)
                                     \/ p = "ended" /\ c \notin Held
    BY <1>1, <2>1 DEF PlacesOf, Taken, Parked
  <2>3. \E p : PlacesOf(c) = {p}
    <3>1. CASE InQueue(c)
      <4>1. PlacesOf(c) = {"channel"}
        BY <2>1, <2>2, <3>1
      <4> QED  BY <4>1
    <3>2. CASE Taken(c)
      <4>1. PlacesOf(c) = {"worker"}
        BY <2>1, <2>2, <3>2
      <4> QED  BY <4>1
    <3>3. CASE Parked(c)
      <4>1. PlacesOf(c) = {"parked"}
        BY <2>1, <2>2, <3>3
      <4> QED  BY <4>1
    <3>4. CASE InLane(c)
      <4>1. PlacesOf(c) = {"lane"}
        BY <2>1, <2>2, <3>4
      <4> QED  BY <4>1
    <3>5. CASE c \notin Held
      <4>1. PlacesOf(c) = {"ended"}
        BY <2>1, <2>2, <3>5
      <4> QED  BY <4>1
    <3> QED  BY <2>1, <3>1, <3>2, <3>3, <3>4, <3>5
  <2> QED  BY <2>3, FS_Singleton
<1>3. AcceptedIsHeld
  BY <1>2 DEF AcceptedIsHeld
<1>4. ReservationsExact
  BY DEF RouteInv, CountsOK
<1>5. RouteFifo
  BY DEF RouteInv, OrderOK, RouteFifo, Before
<1> QED  BY <1>3, <1>4, <1>5 DEF RoutesSafe

\* A message new_message accepted is in exactly one place, is paid for until it ends and no
\* longer, and enters its lane in its turn, whatever the senders, the worker that retires and
\* recreates their queues, the lanes and the topology do in whatever order.
THEOREM AcceptedMessagesAreKept == RouteSpec => []RoutesSafe
<1>1. RouteInit => RouteInv
  BY RouteStart
<1>2. RouteInv /\ [RouteNext]_routeVars => RouteInv'
  BY RouteStep
<1>3. RouteInv => RoutesSafe
  BY InvHolds
<1> QED  BY <1>1, <1>2, <1>3, PTL DEF RouteSpec

-----------------------------------------------------------------------------
(* The receive budget *)

\* Which messages are in flight, and that each has reserved something.
LEMMA InFlightIs ==
  ServerTypes => /\ InFlight = {m \in Streams \X (Ids \cup {Bad}) :
                                   IF m[2] = Bad THEN held[m[1]] > 0 ELSE m[2] \in DOMAIN partial[m[1]]}
                 /\ \A m \in InFlight : HeldBy(m) \in Nat
<1> SUFFICES ASSUME ServerTypes
             PROVE  /\ InFlight = {m \in Streams \X (Ids \cup {Bad}) :
                                   IF m[2] = Bad THEN held[m[1]] > 0 ELSE m[2] \in DOMAIN partial[m[1]]}
                    /\ \A m \in InFlight : HeldBy(m) \in Nat
  OBVIOUS
<1>0. Bad \notin Ids /\ \A s \in Streams : DOMAIN partial[s] \subseteq Ids
  BY ServerAssumption DEF ServerTypes
<1>1. \A s, i : <<s, i>> \in InFlight <=> s \in Streams /\ IF i = Bad THEN held[s] > 0 ELSE i \in DOMAIN partial[s]
  BY <1>0 DEF InFlight, Partials, Whole
<1>2. \A m \in InFlight : m \in Streams \X (Ids \cup {Bad})
  BY <1>0 DEF InFlight, Partials, Whole
<1>3. ASSUME NEW m \in InFlight PROVE HeldBy(m) \in Nat
  <2>1. PICK s \in Streams, i \in Ids \cup {Bad} : m = <<s, i>>
    BY <1>2, <1>3
  <2>2. CASE i = Bad
    BY <2>1, <2>2 DEF HeldBy, ServerTypes
  <2>3. CASE i # Bad
    <3>1. partial[s][i] \in Partial
      BY <1>1, <1>3, <2>1, <2>3 DEF ServerTypes
    <3> QED
      BY <2>1, <2>3, <3>1 DEF HeldBy, Partial
  <2> QED
    BY <2>1, <2>2, <2>3
<1>4. InFlight = {m \in Streams \X (Ids \cup {Bad}) : IF m[2] = Bad THEN held[m[1]] > 0 ELSE m[2] \in DOMAIN partial[m[1]]}
  BY <1>1, <1>2
<1> QED
  BY <1>3, <1>4

LEMMA InFlightWillBe ==
  ServerTypes' => /\ InFlight' = {m \in Streams \X (Ids \cup {Bad}) :
                                   IF m[2] = Bad THEN held'[m[1]] > 0 ELSE m[2] \in DOMAIN partial'[m[1]]}
                  /\ \A m \in InFlight' : HeldBy(m)' \in Nat
<1>1. (ServerTypes => /\ InFlight = {m \in Streams \X (Ids \cup {Bad}) :
                                   IF m[2] = Bad THEN held[m[1]] > 0 ELSE m[2] \in DOMAIN partial[m[1]]}
                      /\ \A m \in InFlight : HeldBy(m) \in Nat)'
  BY InFlightIs, PTL
<1> QED
  BY <1>1

LEMMA MessagesFinite == IsFiniteSet(Streams \X (Ids \cup {Bad}))
<1>1. IsFiniteSet(Ids \cup {Bad})
  BY ServerAssumption, FS_AddElement
<1> QED
  BY <1>1, ServerAssumption, FS_Product

\* Messages in X are done with, messages in Y come, and the rest keep what they have reserved.
LEMMA BudgetMoves ==
  ASSUME ServerTypes, ServerTypes', BudgetExact, NEW X, NEW Y, X \subseteq InFlight, Y \subseteq InFlight',
         InFlight \ X = InFlight' \ Y, \A m \in InFlight \ X : HeldBy(m)' = HeldBy(m),
         usage'.messages = usage.messages - Cardinality(X) + Cardinality(Y),
         usage'.bytes = usage.bytes - Total(Reservations(X)) + Total(Reservations(Y)'),
         usage'.messages <= MaxInFlight, usage'.bytes <= MaxBytes
  PROVE  BudgetExact'
<1> DEFINE K == InFlight \ X
           a == Reservations(InFlight)
           b == Reservations(InFlight)'
           c == Reservations(X)
           d == Reservations(Y)'
<1>1. InFlight \subseteq Streams \X (Ids \cup {Bad}) /\ \A m \in InFlight : HeldBy(m) \in Nat
  BY InFlightIs
<1>2. InFlight' \subseteq Streams \X (Ids \cup {Bad}) /\ \A m \in InFlight' : HeldBy(m)' \in Nat
  BY InFlightWillBe
<1>3. IsFiniteSet(K) /\ IsFiniteSet(X) /\ IsFiniteSet(Y)
  BY <1>1, <1>2, MessagesFinite, FS_Subset
<1>4. InFlight = K \cup X /\ InFlight' = K \cup Y /\ K \cap X = {} /\ K \cap Y = {}
  OBVIOUS
<1>5. a \in [K \cup X -> Nat] /\ c = Restrict(a, X)
  BY <1>1, <1>4 DEF Reservations, Restrict
<1>6. b \in [K \cup Y -> Nat] /\ d = Restrict(b, Y)
  BY <1>2, <1>4 DEF Reservations, Restrict
<1>7. Restrict(a, K) = Restrict(b, K)
  BY <1>4 DEF Reservations, Restrict
<1>8. /\ Cardinality(K \cup Y) = Cardinality(K \cup X) - Cardinality(X) + Cardinality(Y)
  BY <1>3, <1>4, NumberMoves
<1>9. usage.messages = Cardinality(InFlight) /\ usage.bytes = Total(a)
  BY DEF BudgetExact
<1>10. usage'.bytes = usage.bytes - Total(c) + Total(d)
  OBVIOUS
<1> HIDE DEF K, a, b, c, d
<1>11. Total(b) = Total(a) - Total(Restrict(a, X)) + Total(Restrict(b, Y))
  <2>1. Total(a) = Total(Restrict(a, K)) + Total(Restrict(a, X))
    BY <1>3, <1>4, <1>5, TotalOfTwo
  <2>2. Total(b) = Total(Restrict(b, K)) + Total(Restrict(b, Y))
    BY <1>3, <1>4, <1>6, TotalOfTwo
  <2>3. Total(Restrict(a, K)) \in Nat /\ Total(Restrict(a, X)) \in Nat /\ Total(Restrict(b, Y)) \in Nat
    <3>1. Restrict(a, K) \in [K -> Nat] /\ Restrict(a, X) \in [X -> Nat] /\ Restrict(b, Y) \in [Y -> Nat]
      BY <1>5, <1>6 DEF Restrict
    <3> QED
      BY <1>3, <3>1, UnitsFinite
  <2> QED
    BY <1>7, <2>1, <2>2, <2>3
<1>12. usage'.messages = Cardinality(InFlight') /\ usage'.bytes = Total(b)
  BY <1>4, <1>5, <1>6, <1>8, <1>9, <1>10, <1>11
<1> QED
  BY <1>12 DEF BudgetExact, b

\* One message, and none.
LEMMA OneMessage ==
  ASSUME NEW m, HeldBy(m) \in Nat
  PROVE  Total(Reservations({m})) = HeldBy(m)
<1>1. Reservations({m}) \in [{m} -> Nat] /\ Reservations({m})[m] = HeldBy(m)
  BY DEF Reservations
<1> QED
  BY <1>1, TotalOfOne

LEMMA OneMessageNext ==
  ASSUME NEW m, HeldBy(m)' \in Nat
  PROVE  Total(Reservations({m})') = HeldBy(m)'
<1>1. Reservations({m})' \in [{m} -> Nat] /\ Reservations({m})'[m] = HeldBy(m)'
  BY DEF Reservations
<1> QED
  BY <1>1, TotalOfOne

LEMMA NoMessage ==
  Cardinality({}) = 0 /\ Total(Reservations({})) = 0 /\ Total(Reservations({})') = 0
<1>1. Units(Reservations({})) = {} /\ Units(Reservations({})') = {}
  BY DEF Units, Reservations
<1> QED
  BY <1>1, FS_EmptySet DEF Total


\* A step after which the same messages hold the same.
LEMMA BudgetStays ==
  ASSUME ServerTypes, ServerTypes', BudgetExact, InFlight' = InFlight, \A m \in InFlight : HeldBy(m)' = HeldBy(m), usage' = usage
  PROVE  BudgetExact'
<1>1. usage.messages \in Int /\ usage.bytes \in Int /\ usage.messages <= MaxInFlight /\ usage.bytes <= MaxBytes
  BY DEF ServerTypes, BudgetExact
<1>2. /\ {} \subseteq InFlight /\ {} \subseteq InFlight' /\ InFlight \ {} = InFlight' \ {}
      /\ usage'.messages = usage.messages - Cardinality({}) + Cardinality({})
      /\ usage'.bytes = usage.bytes - Total(Reservations({})) + Total(Reservations({})')
      /\ usage'.messages <= MaxInFlight /\ usage'.bytes <= MaxBytes
  BY <1>1, NoMessage
<1> QED
  BY <1>2, BudgetMoves

LEMMA ServerInitOK == ServerInit => ServerInv
<1> SUFFICES ASSUME ServerInit PROVE ServerInv
  OBVIOUS
<1>1. ServerTypes /\ \A s \in Streams : HoldsOK(s) /\ AuthorizedOK(s)
  BY DEF ServerInit, ServerTypes, Closed, Stages, HoldsOK, AuthorizedOK, Does
<1>2. InFlight = {}
  BY <1>1, InFlightIs DEF ServerInit
<1> QED
  BY <1>1, <1>2, NoMessage, ServerAssumption DEF ServerInv, BudgetExact, ServerInit

\* What the reassembler of a stream retains.
LEMMA RetainedIs ==
  ASSUME ServerTypes, NEW s \in Streams
  PROVE  /\ Partials(s) = {m \in InFlight : m[1] = s /\ m[2] # Bad}
         /\ Retained(s).messages = Cardinality(Partials(s)) /\ Retained(s).bytes = Total(Reservations(Partials(s)))
         /\ IsFiniteSet(Partials(s)) /\ Cardinality(Partials(s)) \in Nat /\ Total(Reservations(Partials(s))) \in Nat
<1>1. DOMAIN partial[s] \subseteq Ids /\ Bad \notin Ids
  BY ServerAssumption DEF ServerTypes
<1>2. Partials(s) = {m \in InFlight : m[1] = s /\ m[2] # Bad}
  BY <1>1, InFlightIs DEF Partials
<1>3. \A m \in Partials(s) : HeldBy(m) \in Nat
  BY <1>2, InFlightIs
<1>4. IsFiniteSet(DOMAIN partial[s]) /\ Cardinality(DOMAIN partial[s]) \in Nat
  BY <1>1, ServerAssumption, FS_Subset, FS_CardinalityType
<1>5. IsFiniteSet({s}) /\ Cardinality({s}) = 1
  BY FS_Singleton
<1>6. /\ IsFiniteSet({s} \X DOMAIN partial[s])
      /\ Cardinality({s} \X DOMAIN partial[s]) = Cardinality({s}) * Cardinality(DOMAIN partial[s])
  BY <1>4, <1>5, FS_Product
<1>7. IsFiniteSet(Partials(s)) /\ Cardinality(Partials(s)) = Cardinality(DOMAIN partial[s])
  BY <1>4, <1>5, <1>6 DEF Partials
<1>8. Total(Reservations(Partials(s))) \in Nat
  <2>1. Reservations(Partials(s)) \in [Partials(s) -> Nat]
    BY <1>3 DEF Reservations
  <2> QED
    BY <1>7, <2>1, UnitsFinite
<1> QED
  BY <1>2, <1>4, <1>7, <1>8 DEF Retained

\* The task of a stream ends while it reads.
LEMMA EndStreamKeeps ==
  ASSUME ServerInv, NEW s \in Streams, Does(s, "reading"), EndStream(s)
  PROVE  ServerInv'
<1> DEFINE X == Partials(s)
<1>1. ServerTypes /\ BudgetExact /\ held[s] = 0
  BY DEF ServerInv, ServerTypes, HoldsOK
<1>2. /\ X = {m \in InFlight : m[1] = s /\ m[2] # Bad} /\ Cardinality(X) \in Nat /\ Total(Reservations(X)) \in Nat
      /\ usage' = [messages |-> usage.messages - Cardinality(X), bytes |-> usage.bytes - Total(Reservations(X))]
  BY <1>1, RetainedIs DEF EndStream
<1> HIDE DEF X
<1>3. usage.messages \in Int /\ usage.bytes \in Int /\ usage.messages <= MaxInFlight /\ usage.bytes <= MaxBytes
  BY <1>1 DEF ServerTypes, BudgetExact
<1>4. ServerTypes' /\ \A t \in Streams : HoldsOK(t)' /\ AuthorizedOK(t)'
  BY <1>1, <1>2, <1>3 DEF ServerInv, EndStream, ServerTypes, HoldsOK, AuthorizedOK, Does, Closed, Stages
<1>5. InFlight' = InFlight \ X
  BY <1>1, <1>2, <1>4, InFlightIs, InFlightWillBe DEF EndStream, ServerTypes
<1>6. \A m \in InFlight \ X : HeldBy(m)' = HeldBy(m)
  BY <1>1, <1>2, InFlightIs DEF HeldBy, EndStream, ServerTypes
<1>7. /\ X \subseteq InFlight /\ {} \subseteq InFlight' /\ InFlight \ X = InFlight' \ {}
      /\ usage'.messages = usage.messages - Cardinality(X) + Cardinality({})
      /\ usage'.bytes = usage.bytes - Total(Reservations(X)) + Total(Reservations({})')
      /\ usage'.messages <= MaxInFlight /\ usage'.bytes <= MaxBytes
  BY <1>2, <1>3, <1>5, NoMessage, ServerAssumption
<1>8. BudgetExact'
  BY <1>1, <1>4, <1>6, <1>7, BudgetMoves
<1> QED
  BY <1>4, <1>8 DEF ServerInv

\* The message of a stream is done with, and the stream reads on or ends.
LEMMA ReturnKeeps ==
  ASSUME ServerInv, NEW s \in Streams, ~(Does(s, "closed") \/ Does(s, "reading")), Return(s), UNCHANGED partial,
         DOMAIN log' = Streams, \A t \in Streams : t # s => log'[t] = log[t]
  PROVE  ServerInv'
<1> DEFINE m == <<s, Bad>>
<1>1. ServerTypes /\ BudgetExact /\ held[s] > 0 /\ held[s] \in Nat
  BY DEF ServerInv, ServerTypes, HoldsOK
<1>2. usage' = [messages |-> usage.messages - 1, bytes |-> usage.bytes - held[s]] /\ held' = [held EXCEPT ![s] = 0]
  BY DEF Return, ReleaseMessage
<1>3. usage.messages \in Int /\ usage.bytes \in Int /\ usage.messages <= MaxInFlight /\ usage.bytes <= MaxBytes
  BY <1>1 DEF ServerTypes, BudgetExact
<1>4. ServerTypes' /\ \A t \in Streams : HoldsOK(t)' /\ AuthorizedOK(t)'
  <2>1. stream' \in [Streams -> [peer : Peers \cup {Bad}, pc : Stages, env : Envs \cup {Bad}]]
    <3>1. stream \in [Streams -> [peer : Peers \cup {Bad}, pc : Stages, env : Envs \cup {Bad}]]
      BY <1>1 DEF ServerTypes
    <3> QED
      BY <3>1 DEF Return, Stages
  <2>2. Does(s, "reading")' /\ \A t \in Streams : t # s => stream'[t] = stream[t]
    BY <1>1 DEF Return, Does, ServerTypes
  <2>3. ServerTypes'
    <3>1. held' \in [Streams -> Nat] /\ usage' \in [messages : Int, bytes : Int]
      BY <1>1, <1>2, <1>3 DEF ServerTypes
    <3>2. partial' = partial
      OBVIOUS
    <3> QED
      BY <1>1, <2>1, <3>1, <3>2 DEF ServerTypes
  <2>4. ASSUME NEW t \in Streams PROVE HoldsOK(t)' /\ AuthorizedOK(t)'
    <3>1. CASE t = s
      BY <1>1, <1>2, <2>2, <3>1 DEF HoldsOK, AuthorizedOK, Does, ServerTypes
    <3>2. CASE t # s
      <4>1. HoldsOK(t) /\ AuthorizedOK(t) /\ held'[t] = held[t] /\ stream'[t] = stream[t] /\ log'[t] = log[t]
        BY <1>1, <1>2, <2>2, <3>2 DEF ServerInv, ServerTypes
      <4> QED
        BY <4>1 DEF HoldsOK, AuthorizedOK, Does
    <3> QED
      BY <3>1, <3>2
  <2> QED
    BY <2>3, <2>4
<1>5. m \in InFlight /\ InFlight' = InFlight \ {m}
  BY <1>1, <1>2, <1>4, InFlightIs, InFlightWillBe DEF ServerTypes
<1>6. \A n \in InFlight \ {m} : HeldBy(n)' = HeldBy(n)
  BY <1>1, <1>2, InFlightIs DEF HeldBy, ServerTypes
<1>7. Total(Reservations({m})) = held[s] /\ Cardinality({m}) = 1
  <2>1. HeldBy(m) = held[s]
    BY DEF HeldBy
  <2> QED
    BY <1>1, <2>1, OneMessage, FS_Singleton
<1> HIDE DEF m
<1>8. /\ {m} \subseteq InFlight /\ {} \subseteq InFlight' /\ InFlight \ {m} = InFlight' \ {}
      /\ usage'.messages = usage.messages - Cardinality({m}) + Cardinality({})
      /\ usage'.bytes = usage.bytes - Total(Reservations({m})) + Total(Reservations({})')
      /\ usage'.messages <= MaxInFlight /\ usage'.bytes <= MaxBytes
  <2>1. usage'.messages = usage.messages - 1 /\ usage'.bytes = usage.bytes - held[s]
    BY <1>2
  <2>2. usage'.messages <= MaxInFlight /\ usage'.bytes <= MaxBytes
    BY <1>1, <1>3, <2>1, ServerAssumption
  <2>3. usage'.messages = usage.messages - Cardinality({m}) + Cardinality({})
    BY <1>3, <1>7, <2>1, NoMessage
  <2>4. usage'.bytes = usage.bytes - Total(Reservations({m})) + Total(Reservations({})')
    BY <1>1, <1>3, <1>7, <2>1, NoMessage
  <2> QED
    BY <1>5, <2>2, <2>3, <2>4
<1>9. BudgetExact'
  <2> DEFINE X == {m}
  <2>1. /\ X \subseteq InFlight /\ {} \subseteq InFlight' /\ InFlight \ X = InFlight' \ {}
        /\ usage'.messages = usage.messages - Cardinality(X) + Cardinality({})
        /\ usage'.bytes = usage.bytes - Total(Reservations(X)) + Total(Reservations({})')
        /\ \A n \in InFlight \ X : HeldBy(n)' = HeldBy(n)
    BY <1>6, <1>8
  <2>2. ServerTypes /\ ServerTypes' /\ BudgetExact /\ usage'.messages <= MaxInFlight /\ usage'.bytes <= MaxBytes
    BY <1>1, <1>4, <1>8
  <2> HIDE DEF X
  <2> QED
    BY ONLY <2>1, <2>2, BudgetMoves
<1> QED
  BY <1>4, <1>9 DEF ServerInv

\* A message comes, with something reserved for it.
LEMMA BudgetGrows ==
  ASSUME ServerTypes, ServerTypes', BudgetExact, NEW m, m \notin InFlight, InFlight' = InFlight \cup {m},
         \A n \in InFlight : HeldBy(n)' = HeldBy(n), HeldBy(m)' \in Nat,
         usage' = [messages |-> usage.messages + 1, bytes |-> usage.bytes + HeldBy(m)'],
         usage.messages < MaxInFlight, usage.bytes + HeldBy(m)' <= MaxBytes
  PROVE  BudgetExact'
<1>1. usage.messages \in Int /\ usage.bytes \in Int
  BY DEF ServerTypes
<1>2. Total(Reservations({m})') = HeldBy(m)' /\ Cardinality({m}) = 1
  BY OneMessageNext, FS_Singleton
<1>3. /\ {} \subseteq InFlight /\ {m} \subseteq InFlight' /\ InFlight \ {} = InFlight' \ {m}
      /\ usage'.messages = usage.messages - Cardinality({}) + Cardinality({m})
      /\ usage'.bytes = usage.bytes - Total(Reservations({})) + Total(Reservations({m})')
      /\ usage'.messages <= MaxInFlight /\ usage'.bytes <= MaxBytes
  BY <1>1, <1>2, NoMessage, ServerAssumption
<1>4. \A n \in InFlight \ {} : HeldBy(n)' = HeldBy(n)
  OBVIOUS
<1> QED
  BY <1>3, <1>4, BudgetMoves

LEMMA FirstChunkKeeps ==
  ASSUME ServerInv, NEW s \in Streams, FirstChunk(s)
  PROVE  ServerInv'
<1>1. ServerTypes /\ BudgetExact /\ held[s] = 0 /\ Does(s, "reading") /\ UNCHANGED log
  BY DEF ServerInv, ServerTypes, HoldsOK, FirstChunk
<1>2. PICK i \in Ids \ DOMAIN partial[s], size \in ValidSizes, spare \in 0 .. 1 :
        /\ TryReserveMessage(size + spare)
        /\ usage' = [messages |-> usage.messages + 1, bytes |-> usage.bytes + size + spare]
        /\ \/ /\ size = 1
              /\ held' = [held EXCEPT ![s] = size + spare] /\ Becomes(s, "decoding")
              /\ UNCHANGED partial
           \/ /\ size > 1
              /\ partial' = [partial EXCEPT ![s] =
                    With(@, i, [size |-> size, next |-> 1, left |-> Timeout, held |-> size + spare])]
              /\ UNCHANGED <<stream, held>>
  BY DEF FirstChunk
<1> DEFINE n == size + spare
           p == [size |-> size, next |-> 1, left |-> Timeout, held |-> n]
<1>3. /\ n \in Nat /\ n > 0 /\ usage.messages < MaxInFlight /\ usage.bytes + n <= MaxBytes
      /\ usage' = [messages |-> usage.messages + 1, bytes |-> usage.bytes + n] /\ usage' \in [messages : Int, bytes : Int]
  BY <1>1, <1>2 DEF ValidSizes, TryReserveMessage, ServerTypes
<1>4. p \in Partial /\ p.held = n
  BY <1>2, <1>3, ServerAssumption DEF ValidSizes, Partial
<1> HIDE DEF n
<1>5. CASE held' = [held EXCEPT ![s] = n] /\ Becomes(s, "decoding") /\ UNCHANGED partial
  <2>1. stream \in [Streams -> [peer : Peers \cup {Bad}, pc : Stages, env : Envs \cup {Bad}]]
    BY <1>1 DEF ServerTypes
  <2>2. /\ stream' \in [Streams -> [peer : Peers \cup {Bad}, pc : Stages, env : Envs \cup {Bad}]]
        /\ stream'[s].pc = "decoding" /\ \A t \in Streams : t # s => stream'[t] = stream[t]
    BY <1>5, <2>1 DEF Becomes, Stages
  <2>3. ServerTypes'
    BY <1>1, <1>3, <1>5, <2>2 DEF ServerTypes
  <2>4. ASSUME NEW t \in Streams PROVE HoldsOK(t)' /\ AuthorizedOK(t)'
    <3>1. CASE t = s
      BY <1>1, <1>3, <1>5, <2>2, <3>1 DEF HoldsOK, AuthorizedOK, Does, ServerTypes
    <3>2. CASE t # s
      <4>1. HoldsOK(t) /\ AuthorizedOK(t) /\ held'[t] = held[t] /\ stream'[t] = stream[t] /\ log'[t] = log[t]
        BY <1>1, <1>5, <2>2, <3>2 DEF ServerInv, ServerTypes
      <4> QED
        BY <4>1 DEF HoldsOK, AuthorizedOK, Does
    <3> QED
      BY <3>1, <3>2
  <2>5. <<s, Bad>> \notin InFlight /\ InFlight' = InFlight \cup {<<s, Bad>>}
    BY <1>1, <1>3, <1>5, <2>3, InFlightIs, InFlightWillBe DEF ServerTypes
  <2>6. (\A m \in InFlight : HeldBy(m)' = HeldBy(m)) /\ HeldBy(<<s, Bad>>)' = n
    BY <1>1, <1>5, InFlightIs DEF HeldBy, ServerTypes
  <2>7. BudgetExact'
    BY <1>1, <1>3, <2>3, <2>5, <2>6, BudgetGrows
  <2> QED
    BY <2>3, <2>4, <2>7 DEF ServerInv
<1>6. CASE partial' = [partial EXCEPT ![s] = With(@, i, p)] /\ UNCHANGED <<stream, held>>
  <2> HIDE DEF p
  <2>0. i # Bad /\ i \in Ids /\ i \notin DOMAIN partial[s]
    BY <1>2, ServerAssumption
  <2>1. /\ DOMAIN partial' = Streams /\ DOMAIN partial'[s] = DOMAIN partial[s] \cup {i} /\ partial'[s][i] = p
        /\ \A j \in DOMAIN partial[s] : partial'[s][j] = partial[s][j]
        /\ \A t \in Streams : t # s => partial'[t] = partial[t]
    BY <1>1, <1>6, <2>0 DEF With, ServerTypes
  <2>2. \A t \in Streams : DOMAIN partial'[t] \subseteq Ids /\ \A j \in DOMAIN partial'[t] : partial'[t][j] \in Partial
    BY <1>1, <1>4, <2>0, <2>1 DEF ServerTypes
  <2>3. ServerTypes'
    BY <1>1, <1>3, <1>6, <2>1, <2>2 DEF ServerTypes
  <2>4. \A t \in Streams : HoldsOK(t)' /\ AuthorizedOK(t)'
    BY <1>1, <1>6 DEF HoldsOK, AuthorizedOK, Does, ServerInv
  <2>5. <<s, i>> \notin InFlight /\ InFlight' = InFlight \cup {<<s, i>>}
    BY <1>1, <1>6, <2>0, <2>1, <2>3, InFlightIs, InFlightWillBe
  <2>6. (\A m \in InFlight : HeldBy(m)' = HeldBy(m)) /\ HeldBy(<<s, i>>)' = n
    BY <1>1, <1>4, <1>6, <2>0, <2>1, InFlightIs DEF HeldBy
  <2>7. BudgetExact'
    BY <1>1, <1>3, <2>3, <2>5, <2>6, BudgetGrows
  <2> QED
    BY <2>3, <2>4, <2>7 DEF ServerInv
<1> QED
  BY <1>2, <1>5, <1>6 DEF n

\* One message holds another amount, or its reservation passes to another message.
LEMMA BudgetPasses ==
  ASSUME ServerTypes, ServerTypes', BudgetExact, NEW m, NEW n, m \in InFlight, n \in InFlight',
         InFlight \ {m} = InFlight' \ {n}, \A k \in InFlight \ {m} : HeldBy(k)' = HeldBy(k),
         NEW more \in Nat, HeldBy(n)' = HeldBy(m) + more, usage.bytes + more <= MaxBytes,
         usage' = [messages |-> usage.messages, bytes |-> usage.bytes + more]
  PROVE  BudgetExact'
<1> DEFINE X == {m}
           Y == {n}
<1>1. usage.messages \in Int /\ usage.bytes \in Int /\ usage.messages <= MaxInFlight /\ HeldBy(m) \in Nat
  BY InFlightIs DEF ServerTypes, BudgetExact
<1>2. Total(Reservations(Y)') = HeldBy(n)' /\ Total(Reservations(X)) = HeldBy(m) /\ Cardinality(X) = 1 /\ Cardinality(Y) = 1
  <2>1. HeldBy(n)' \in Nat
    BY <1>1
  <2>2. Total(Reservations({n})') = HeldBy(n)'
    BY <2>1, OneMessageNext
  <2>3. Total(Reservations({m})) = HeldBy(m)
    BY <1>1, OneMessage
  <2> QED
    BY <2>2, <2>3, FS_Singleton
<1>3. X \subseteq InFlight /\ Y \subseteq InFlight' /\ InFlight \ X = InFlight' \ Y /\ \A k \in InFlight \ X : HeldBy(k)' = HeldBy(k)
  OBVIOUS
<1> HIDE DEF X, Y
<1>4. /\ usage'.messages = usage.messages - Cardinality(X) + Cardinality(Y)
      /\ usage'.bytes = usage.bytes - Total(Reservations(X)) + Total(Reservations(Y)')
      /\ usage'.messages <= MaxInFlight /\ usage'.bytes <= MaxBytes
  <2>1. usage'.messages = usage.messages /\ usage'.bytes = usage.bytes + more
    OBVIOUS
  <2>2. Total(Reservations(Y)') = HeldBy(m) + more /\ HeldBy(m) \in Nat /\ more \in Nat
    BY <1>1, <1>2
  <2> QED
    BY <1>1, <1>2, <2>1, <2>2
<1>5. ServerTypes /\ ServerTypes' /\ BudgetExact
  OBVIOUS
<1> QED
  BY ONLY <1>3, <1>4, <1>5, BudgetMoves

LEMMA NextChunkKeeps ==
  ASSUME ServerInv, NEW s \in Streams, NextChunk(s)
  PROVE  ServerInv'
<1>1. ServerTypes /\ BudgetExact /\ held[s] = 0 /\ Does(s, "reading") /\ UNCHANGED <<log, usage>>
  BY DEF ServerInv, ServerTypes, HoldsOK, NextChunk
<1>2. PICK i \in DOMAIN partial[s] :
        \/ /\ partial[s][i].next + 1 < partial[s][i].size
           /\ partial' = [partial EXCEPT ![s][i].next = @ + 1]
           /\ UNCHANGED <<stream, held>>
        \/ /\ partial[s][i].next + 1 = partial[s][i].size
           /\ partial' = [partial EXCEPT ![s] = Without(@, i)]
           /\ held' = [held EXCEPT ![s] = partial[s][i].held]
           /\ Becomes(s, "decoding")
  BY DEF NextChunk
<1>3. partial[s][i] \in Partial /\ i \in Ids /\ i # Bad /\ partial[s][i].held \in Nat \ {0}
  BY <1>1, <1>2, ServerAssumption DEF ServerTypes, Partial
<1>4. CASE partial' = [partial EXCEPT ![s][i].next = @ + 1] /\ UNCHANGED <<stream, held>>
  <2> DEFINE p == [partial[s][i] EXCEPT !.next = partial[s][i].next + 1]
  <2>1. p \in Partial /\ p.held = partial[s][i].held
    BY <1>3 DEF Partial
  <2>2. partial' = [partial EXCEPT ![s] = [partial[s] EXCEPT ![i] = p]]
    BY <1>4
  <2> HIDE DEF p
  <2>3. /\ DOMAIN partial' = Streams /\ DOMAIN partial'[s] = DOMAIN partial[s] /\ partial'[s][i] = p
        /\ \A j \in DOMAIN partial[s] : j # i => partial'[s][j] = partial[s][j]
        /\ \A t \in Streams : t # s => partial'[t] = partial[t]
    BY <1>1, <2>2 DEF ServerTypes
  <2>4. ServerTypes'
    <3>1. \A t \in Streams : DOMAIN partial'[t] \subseteq Ids /\ \A j \in DOMAIN partial'[t] : partial'[t][j] \in Partial
      BY <1>1, <2>1, <2>3 DEF ServerTypes
    <3> QED
      BY <1>1, <1>4, <2>3, <3>1 DEF ServerTypes
  <2>5. \A t \in Streams : HoldsOK(t)' /\ AuthorizedOK(t)'
    BY <1>1, <1>4 DEF HoldsOK, AuthorizedOK, Does, ServerInv
  <2>6. InFlight' = InFlight
    BY <1>1, <1>4, <2>3, <2>4, InFlightIs, InFlightWillBe
  <2>7. \A m \in InFlight : HeldBy(m)' = HeldBy(m)
    <3>1. ASSUME NEW m \in InFlight PROVE HeldBy(m)' = HeldBy(m)
      <4>1. m[1] \in Streams /\ (m[2] # Bad => m[2] \in DOMAIN partial[m[1]])
        BY <1>1, InFlightIs
      <4>2. m[2] # Bad => partial'[m[1]][m[2]].held = partial[m[1]][m[2]].held
        BY <2>1, <2>3, <4>1
      <4> QED
        BY <1>4, <4>2 DEF HeldBy
    <3> QED
      BY <3>1
  <2>8. BudgetExact'
    BY <1>1, <2>4, <2>6, <2>7, BudgetStays
  <2> QED
    BY <2>4, <2>5, <2>8 DEF ServerInv
<1>5. CASE partial' = [partial EXCEPT ![s] = Without(@, i)] /\ held' = [held EXCEPT ![s] = partial[s][i].held] /\ Becomes(s, "decoding")
  <2>1. /\ DOMAIN partial' = Streams /\ DOMAIN partial'[s] = DOMAIN partial[s] \ {i}
        /\ \A j \in DOMAIN partial'[s] : partial'[s][j] = partial[s][j]
        /\ \A t \in Streams : t # s => partial'[t] = partial[t]
    BY <1>1, <1>5 DEF Without, ServerTypes
  <2>2. stream \in [Streams -> [peer : Peers \cup {Bad}, pc : Stages, env : Envs \cup {Bad}]] /\ held \in [Streams -> Nat]
    BY <1>1 DEF ServerTypes
  <2>3. /\ stream' \in [Streams -> [peer : Peers \cup {Bad}, pc : Stages, env : Envs \cup {Bad}]]
        /\ stream'[s].pc = "decoding" /\ \A t \in Streams : t # s => stream'[t] = stream[t]
    BY <1>5, <2>2 DEF Becomes, Stages
  <2>4. held' \in [Streams -> Nat] /\ held'[s] = partial[s][i].held /\ \A t \in Streams : t # s => held'[t] = held[t]
    BY <1>3, <1>5, <2>2
  <2>5. ServerTypes'
    <3>1. \A t \in Streams : DOMAIN partial'[t] \subseteq Ids /\ \A j \in DOMAIN partial'[t] : partial'[t][j] \in Partial
      BY <1>1, <2>1 DEF ServerTypes
    <3> QED
      BY <1>1, <2>1, <2>3, <2>4, <3>1 DEF ServerTypes
  <2>6. ASSUME NEW t \in Streams PROVE HoldsOK(t)' /\ AuthorizedOK(t)'
    <3>1. CASE t = s
      BY <1>1, <1>3, <2>3, <2>4, <3>1 DEF HoldsOK, AuthorizedOK, Does
    <3>2. CASE t # s
      <4>1. HoldsOK(t) /\ AuthorizedOK(t) /\ held'[t] = held[t] /\ stream'[t] = stream[t] /\ log'[t] = log[t]
        BY <1>1, <2>3, <2>4, <3>2 DEF ServerInv
      <4> QED
        BY <4>1 DEF HoldsOK, AuthorizedOK, Does
    <3> QED
      BY <3>1, <3>2
  <2> DEFINE m == <<s, i>>
             n == <<s, Bad>>
  <2>7. m \in InFlight /\ n \in InFlight' /\ InFlight \ {m} = InFlight' \ {n}
    <3>1. m \in InFlight /\ n \notin InFlight
      BY <1>1, <1>2, <1>3, InFlightIs
    <3>2. n \in InFlight' /\ m \notin InFlight'
      BY <1>3, <2>1, <2>4, <2>5, InFlightWillBe
    <3>3. \A k : k # m /\ k # n => (k \in InFlight' <=> k \in InFlight)
      BY <1>1, <2>1, <2>4, <2>5, InFlightIs, InFlightWillBe
    <3> QED
      BY <3>1, <3>2, <3>3
  <2>8. HeldBy(n)' = HeldBy(m) + 0 /\ \A k \in InFlight \ {m} : HeldBy(k)' = HeldBy(k)
    <3>1. HeldBy(n)' = HeldBy(m) + 0
      BY <1>3, <2>4 DEF HeldBy
    <3>2. ASSUME NEW k \in InFlight \ {m} PROVE HeldBy(k)' = HeldBy(k)
      <4>1. k \in Streams \X (Ids \cup {Bad}) /\ k[1] \in Streams /\ (k[2] = Bad => k[1] # s) /\ (k[2] # Bad => k[2] \in DOMAIN partial[k[1]] /\ (k[1] = s => k[2] # i))
        BY <1>1, InFlightIs
      <4>2. k[2] # Bad => partial'[k[1]][k[2]] = partial[k[1]][k[2]]
        BY <2>1, <4>1
      <4> QED
        BY <2>4, <4>1, <4>2 DEF HeldBy
    <3> QED
      BY <3>1, <3>2
  <2>9. usage' = [messages |-> usage.messages, bytes |-> usage.bytes + 0] /\ usage.bytes + 0 <= MaxBytes /\ 0 \in Nat
    BY <1>1 DEF ServerTypes, BudgetExact
  <2>10. ServerTypes /\ ServerTypes' /\ BudgetExact
    BY <1>1, <2>5
  <2> HIDE DEF m, n
  <2>11. BudgetExact'
    BY ONLY <2>7, <2>8, <2>9, <2>10, BudgetPasses
  <2> QED
    BY <2>5, <2>6, <2>11 DEF ServerInv
<1> QED
  BY <1>2, <1>4, <1>5

LEMMA DispatchKeeps ==
  ASSUME ServerInv, NEW s \in Streams, Dispatch(s)
  PROVE  ServerInv'
<1>1. ServerTypes /\ BudgetExact /\ held[s] > 0 /\ held[s] \in Nat /\ Does(s, "decoding") /\ UNCHANGED partial
  BY DEF ServerInv, ServerTypes, HoldsOK, Dispatch, Does
<1>2. PICK more \in 0 .. 1, kind \in {"spawn", "message", "other"}, claim \in Peers \cup {Bad}, env \in Envs :
        /\ TryGrow(more)
        /\ \/ Return(s) /\ UNCHANGED log
           \/ /\ Known(s, claim) /\ (kind = "other" \/ Permitted(s, env))
              /\ usage' = [usage EXCEPT !.bytes = @ + more]
              /\ held' = [held EXCEPT ![s] = @ + more]
              /\ stream' = [stream EXCEPT ![s].pc = kind, ![s].env = IF kind = "spawn" THEN env ELSE Bad]
              /\ AuditAuthorization(s, kind)
  BY DEF Dispatch
<1>3. CASE Return(s) /\ UNCHANGED log
  <2>1. ~(Does(s, "closed") \/ Does(s, "reading")) /\ DOMAIN log' = Streams /\ \A t \in Streams : t # s => log'[t] = log[t]
    BY <1>1, <1>3 DEF Does, ServerTypes
  <2> QED
    BY <1>1, <1>3, <2>1, ReturnKeeps
<1>4. CASE ~(Return(s) /\ UNCHANGED log)
  <2> DEFINE e == IF kind = "spawn" THEN env ELSE Bad
  <2>1. /\ kind = "other" \/ Permitted(s, env)
        /\ usage' = [usage EXCEPT !.bytes = @ + more] /\ held' = [held EXCEPT ![s] = @ + more]
        /\ stream' = [stream EXCEPT ![s].pc = kind, ![s].env = e] /\ AuditAuthorization(s, kind)
    BY <1>2, <1>4
  <2>2. more \in Nat /\ usage.bytes + more <= MaxBytes /\ kind \in Stages /\ e \in Envs \cup {Bad}
    BY <1>2 DEF TryGrow, Stages
  <2>3. /\ stream \in [Streams -> [peer : Peers \cup {Bad}, pc : Stages, env : Envs \cup {Bad}]]
        /\ held \in [Streams -> Nat] /\ usage \in [messages : Int, bytes : Int]
    BY <1>1 DEF ServerTypes
  <2>4. kind = "spawn" => e = env
    OBVIOUS
  <2> HIDE DEF e
  <2>5. /\ stream' \in [Streams -> [peer : Peers \cup {Bad}, pc : Stages, env : Envs \cup {Bad}]]
        /\ stream'[s].pc = kind /\ stream'[s].env = e /\ stream'[s].peer = stream[s].peer
        /\ \A t \in Streams : t # s => stream'[t] = stream[t]
    BY <2>1, <2>2, <2>3
  <2>6. held' \in [Streams -> Nat] /\ held'[s] = held[s] + more /\ \A t \in Streams : t # s => held'[t] = held[t]
    BY <2>1, <2>2, <2>3
  <2>7. usage' = [messages |-> usage.messages, bytes |-> usage.bytes + more] /\ usage' \in [messages : Int, bytes : Int]
    BY <2>1, <2>2, <2>3
  <2>8. DOMAIN log' = Streams /\ (kind = "spawn" => log'[s] = <<"allowed">>) /\ \A t \in Streams : t # s => log'[t] = log[t]
    BY <1>1, <2>1 DEF AuditAuthorization, ServerTypes
  <2>9. ServerTypes'
    BY <1>1, <2>5, <2>6, <2>7, <2>8 DEF ServerTypes
  <2>10. ASSUME NEW t \in Streams PROVE HoldsOK(t)' /\ AuthorizedOK(t)'
    <3>1. CASE t = s
      <4>1. held'[s] > 0 /\ kind \in {"spawn", "message", "other"}
        BY <1>1, <1>2, <2>2, <2>6
      <4>2. HoldsOK(s)'
        BY <2>5, <4>1 DEF HoldsOK, Does
      <4>3. AuthorizedOK(s)'
        BY <2>1, <2>4, <2>5, <2>8, <4>1 DEF AuthorizedOK, Does, Permitted
      <4> QED
        BY <3>1, <4>2, <4>3
    <3>2. CASE t # s
      <4>1. HoldsOK(t) /\ AuthorizedOK(t) /\ held'[t] = held[t] /\ stream'[t] = stream[t] /\ log'[t] = log[t]
        BY <2>5, <2>6, <2>8, <3>2 DEF ServerInv
      <4> QED
        BY <4>1 DEF HoldsOK, AuthorizedOK, Does
    <3> QED
      BY <3>1, <3>2
  <2> DEFINE m == <<s, Bad>>
  <2>11. m \in InFlight /\ InFlight' = InFlight
    <3>1. m \in InFlight
      BY <1>1, InFlightIs
    <3>2. \A t \in Streams : held'[t] > 0 <=> held[t] > 0
      BY <1>1, <2>2, <2>6
    <3>3. partial' = partial
      BY <1>1
    <3> QED
      BY <1>1, <2>9, <3>1, <3>2, <3>3, InFlightIs, InFlightWillBe
  <2>12. HeldBy(m)' = HeldBy(m) + more /\ \A k \in InFlight \ {m} : HeldBy(k)' = HeldBy(k)
    BY <1>1, <2>6, InFlightIs DEF HeldBy
  <2>13. m \in InFlight' /\ InFlight \ {m} = InFlight' \ {m} /\ ServerTypes /\ ServerTypes' /\ BudgetExact
    BY <1>1, <2>9, <2>11
  <2> HIDE DEF m
  <2>14. BudgetExact'
    <3>1. more \in Nat /\ usage.bytes + more <= MaxBytes /\ usage' = [messages |-> usage.messages, bytes |-> usage.bytes + more]
      BY <2>2, <2>7
    <3> QED
      BY ONLY <3>1, <2>11, <2>12, <2>13, BudgetPasses
  <2> QED
    BY <2>9, <2>10, <2>14 DEF ServerInv
<1> QED
  BY <1>3, <1>4

\* The task of a handler is dropped: its message goes with what the reassembler retains.
LEMMA CancelKeeps ==
  ASSUME ServerInv, NEW s \in Streams, Cancel(s)
  PROVE  ServerInv'
<1> DEFINE P == Partials(s)
           M == {<<s, Bad>>}
           X == P \cup M
<1>1. ServerTypes /\ BudgetExact /\ held[s] > 0 /\ held[s] \in Nat
  BY DEF ServerInv, ServerTypes, HoldsOK, Cancel, Does
<1>2. /\ P = {m \in InFlight : m[1] = s /\ m[2] # Bad} /\ IsFiniteSet(P) /\ Cardinality(P) \in Nat /\ Total(Reservations(P)) \in Nat
      /\ usage' = [messages |-> usage.messages - Cardinality(P) - 1, bytes |-> usage.bytes - Total(Reservations(P)) - held[s]]
  BY <1>1, RetainedIs DEF Cancel
<1>3. usage.messages \in Int /\ usage.bytes \in Int /\ usage.messages <= MaxInFlight /\ usage.bytes <= MaxBytes
  BY <1>1 DEF ServerTypes, BudgetExact
<1>4. /\ stream' = [stream EXCEPT ![s] = Closed] /\ partial' = [partial EXCEPT ![s] = <<>>] /\ held' = [held EXCEPT ![s] = 0]
      /\ log' = [log EXCEPT ![s] = Append(@, "cancelled")]
  BY DEF Cancel, Emit
<1>5. ServerTypes' /\ \A t \in Streams : HoldsOK(t)' /\ AuthorizedOK(t)'
  <2> HIDE DEF P
  <2> QED
    BY <1>1, <1>2, <1>3, <1>4 DEF ServerInv, ServerTypes, HoldsOK, AuthorizedOK, Does, Closed, Stages
<1>6. X = {m \in InFlight : m[1] = s} /\ M \subseteq InFlight /\ P \cap M = {}
  BY <1>1, <1>2, InFlightIs
<1>7. /\ Total(Reservations(X)) = Total(Reservations(P)) + held[s] /\ Cardinality(X) = Cardinality(P) + 1
  <2>1. IsFiniteSet(M) /\ Cardinality(M) = 1
    BY FS_Singleton
  <2>2. HeldBy(<<s, Bad>>) = held[s]
    BY DEF HeldBy
  <2>3. Total(Reservations(M)) = held[s]
    BY <1>1, <2>2, OneMessage
  <2>4. Reservations(X) \in [P \cup M -> Nat] /\ Restrict(Reservations(X), P) = Reservations(P) /\ Restrict(Reservations(X), M) = Reservations(M)
    <3>1. \A m \in X : HeldBy(m) \in Nat
      BY <1>1, <1>6, InFlightIs
    <3> HIDE DEF P, M
    <3> QED
      BY <3>1 DEF Reservations, Restrict
  <2>5. Cardinality(P \cup M) = Cardinality(P) + Cardinality(M) - Cardinality(P \cap M)
    BY <1>2, <2>1, FS_Union
  <2> HIDE DEF P, M
  <2>6. Total(Reservations(X)) = Total(Restrict(Reservations(X), P)) + Total(Restrict(Reservations(X), M))
    BY <1>2, <1>6, <2>1, <2>4, TotalOfTwo
  <2>7. Cardinality(X) = Cardinality(P) + 1
    <3>1. P \cap M = {} /\ Cardinality({}) = 0 /\ Cardinality(P) \in Nat
      BY <1>2, <1>6, FS_EmptySet
    <3>2. Cardinality(P \cap M) = 0
      BY <3>1
    <3>3. Cardinality(P \cup M) = Cardinality(P) + 1
      BY <2>1, <2>5, <3>1, <3>2
    <3> QED
      BY <3>3
  <2> QED
    BY <2>3, <2>4, <2>6, <2>7
<1> HIDE DEF X, P, M
<1>8. InFlight' = InFlight \ X
  BY <1>1, <1>4, <1>5, <1>6, InFlightIs, InFlightWillBe DEF ServerTypes
<1>9. \A m \in InFlight \ X : HeldBy(m)' = HeldBy(m)
  BY <1>1, <1>4, <1>6, InFlightIs DEF HeldBy, ServerTypes
<1>10. /\ usage'.messages = usage.messages - Cardinality(X) + Cardinality({})
       /\ usage'.bytes = usage.bytes - Total(Reservations(X)) + Total(Reservations({})')
       /\ usage'.messages <= MaxInFlight /\ usage'.bytes <= MaxBytes
  <2>1. usage'.messages = usage.messages - Cardinality(P) - 1 /\ usage'.bytes = usage.bytes - Total(Reservations(P)) - held[s]
    BY <1>2
  <2>2. usage'.messages <= MaxInFlight /\ usage'.bytes <= MaxBytes
    BY <1>1, <1>2, <1>3, <2>1, ServerAssumption
  <2>3. usage'.messages = usage.messages - Cardinality(X) + Cardinality({})
    BY <1>2, <1>3, <1>7, <2>1, NoMessage
  <2>4. usage'.bytes = usage.bytes - Total(Reservations(X)) + Total(Reservations({})')
    BY <1>1, <1>2, <1>3, <1>7, <2>1, NoMessage
  <2> QED
    BY <2>2, <2>3, <2>4
<1>11. X \subseteq InFlight /\ {} \subseteq InFlight' /\ InFlight \ X = InFlight' \ {} /\ ServerTypes /\ ServerTypes' /\ BudgetExact
  BY <1>1, <1>5, <1>6, <1>8
<1>12. BudgetExact'
  BY ONLY <1>9, <1>10, <1>11, BudgetMoves
<1> QED
  BY <1>5, <1>12 DEF ServerInv

\* Time passes.
LEMMA ElapseKeeps ==
  ASSUME ServerInv, Elapse
  PROVE  ServerInv'
<1> DEFINE p(s, i) == [partial[s][i] EXCEPT !.left = IF partial[s][i].left > 0 THEN partial[s][i].left - 1 ELSE 0]
<1>1. ServerTypes /\ BudgetExact /\ UNCHANGED <<stream, held, usage, log>> /\ partial' = [s \in Streams |-> [i \in DOMAIN partial[s] |-> p(s, i)]]
  BY DEF ServerInv, Elapse
<1>2. ASSUME NEW s \in Streams, NEW i \in DOMAIN partial[s] PROVE p(s, i) \in Partial /\ p(s, i).held = partial[s][i].held
  <2>1. partial[s][i] \in Partial
    BY <1>1, <1>2 DEF ServerTypes
  <2> DEFINE l == IF partial[s][i].left > 0 THEN partial[s][i].left - 1 ELSE 0
  <2>2. l \in Nat
    BY <2>1 DEF Partial
  <2> HIDE DEF l
  <2>3. [partial[s][i] EXCEPT !.left = l] \in Partial /\ [partial[s][i] EXCEPT !.left = l].held = partial[s][i].held
    BY <2>1, <2>2 DEF Partial
  <2> QED
    BY <2>3 DEF l
<1> HIDE DEF p
<1>3. /\ DOMAIN partial' = Streams
      /\ \A s \in Streams : DOMAIN partial'[s] = DOMAIN partial[s] /\ \A i \in DOMAIN partial[s] : partial'[s][i] = p(s, i)
  BY <1>1
<1>4. ServerTypes'
  <2>1. \A s \in Streams : DOMAIN partial'[s] \subseteq Ids /\ \A i \in DOMAIN partial'[s] : partial'[s][i] \in Partial
    BY <1>1, <1>2, <1>3 DEF ServerTypes
  <2> QED
    BY <1>1, <1>3, <2>1 DEF ServerTypes
<1>5. \A s \in Streams : HoldsOK(s)' /\ AuthorizedOK(s)'
  BY <1>1 DEF HoldsOK, AuthorizedOK, Does, ServerInv
<1>6. InFlight' = InFlight
  BY <1>1, <1>3, <1>4, InFlightIs, InFlightWillBe
<1>7. ASSUME NEW m \in InFlight PROVE HeldBy(m)' = HeldBy(m)
  <2>1. m[1] \in Streams /\ (m[2] # Bad => m[2] \in DOMAIN partial[m[1]])
    BY <1>1, InFlightIs
  <2>2. m[2] # Bad => partial'[m[1]][m[2]].held = partial[m[1]][m[2]].held
    BY <1>2, <1>3, <2>1
  <2> QED
    BY <1>1, <2>2 DEF HeldBy
<1>8. BudgetExact'
  BY <1>1, <1>4, <1>6, <1>7, BudgetStays
<1> QED
  BY <1>4, <1>5, <1>8 DEF ServerInv

\* A step that leaves partial messages and reservations alone.
LEMMA OtherStepKeeps ==
  ASSUME ServerInv, UNCHANGED <<partial, held, usage>>, DOMAIN log' = Streams,
         stream' \in [Streams -> [peer : Peers \cup {Bad}, pc : Stages, env : Envs \cup {Bad}]],
         \A s \in Streams : HoldsOK(s)' /\ AuthorizedOK(s)'
  PROVE  ServerInv'
<1>1. ServerTypes /\ BudgetExact /\ ServerTypes'
  BY DEF ServerInv, ServerTypes
<1>2. InFlight' = InFlight
  BY DEF InFlight, Partials, Whole
<1>3. \A m \in InFlight : HeldBy(m)' = HeldBy(m)
  BY DEF HeldBy
<1>4. BudgetExact'
  BY <1>1, <1>2, <1>3, BudgetStays
<1> QED
  BY <1>1, <1>4 DEF ServerInv

LEMMA ConnectionsKeep ==
  ASSUME ServerInv, UNCHANGED <<stream, partial, held, usage, log>>
  PROVE  ServerInv'
<1>1. /\ DOMAIN log' = Streams /\ stream' \in [Streams -> [peer : Peers \cup {Bad}, pc : Stages, env : Envs \cup {Bad}]]
      /\ \A s \in Streams : HoldsOK(s)' /\ AuthorizedOK(s)'
  BY DEF ServerInv, ServerTypes, HoldsOK, AuthorizedOK, Does
<1> QED
  BY <1>1, OtherStepKeeps

LEMMA AcceptStreamKeeps ==
  ASSUME ServerInv, NEW p \in Peers, NEW s \in Streams, AcceptStream(p, s)
  PROVE  ServerInv'
<1>1. ServerTypes /\ stream[s] = Closed /\ stream' = [stream EXCEPT ![s] = [peer |-> p, pc |-> "reading", env |-> Bad]]
      /\ UNCHANGED <<partial, held, usage, log>>
  BY DEF ServerInv, AcceptStream
<1>2. /\ DOMAIN log' = Streams /\ stream' \in [Streams -> [peer : Peers \cup {Bad}, pc : Stages, env : Envs \cup {Bad}]]
      /\ \A t \in Streams : HoldsOK(t)' /\ AuthorizedOK(t)'
  BY <1>1 DEF ServerInv, ServerTypes, HoldsOK, AuthorizedOK, Does, Stages, Closed
<1> QED
  BY <1>1, <1>2, OtherStepKeeps

LEMMA DecodeConfigKeeps ==
  ASSUME ServerInv, NEW s \in Streams, DecodeConfig(s)
  PROVE  ServerInv'
<1>1. ServerTypes /\ Does(s, "spawn") /\ UNCHANGED partial
  BY DEF ServerInv, DecodeConfig
<1>2. CASE Becomes(s, "spawning") /\ UNCHANGED <<usage, held, log>>
  <2>1. stream \in [Streams -> [peer : Peers \cup {Bad}, pc : Stages, env : Envs \cup {Bad}]]
    BY <1>1 DEF ServerTypes
  <2>2. /\ stream' \in [Streams -> [peer : Peers \cup {Bad}, pc : Stages, env : Envs \cup {Bad}]]
        /\ stream'[s].pc = "spawning" /\ stream'[s].env = stream[s].env /\ stream'[s].peer = stream[s].peer
        /\ \A t \in Streams : t # s => stream'[t] = stream[t]
    BY <1>2, <2>1 DEF Becomes, Stages
  <2>3. ASSUME NEW t \in Streams PROVE HoldsOK(t)' /\ AuthorizedOK(t)'
    <3>1. HoldsOK(t) /\ AuthorizedOK(t)
      BY DEF ServerInv
    <3>2. CASE t = s
      BY <1>1, <1>2, <2>2, <3>1, <3>2 DEF HoldsOK, AuthorizedOK, Does
    <3>3. CASE t # s
      BY <1>2, <2>2, <3>1, <3>3 DEF HoldsOK, AuthorizedOK, Does
    <3> QED
      BY <3>2, <3>3
  <2>4. DOMAIN log' = Streams
    BY <1>1, <1>2 DEF ServerTypes
  <2> QED
    BY <1>1, <1>2, <2>2, <2>3, <2>4, OtherStepKeeps
<1>3. CASE Return(s) /\ Emit(s, "denied")
  <2>1. ~(Does(s, "closed") \/ Does(s, "reading")) /\ DOMAIN log' = Streams /\ \A t \in Streams : t # s => log'[t] = log[t]
    BY <1>1, <1>3 DEF Does, Emit, ServerTypes
  <2> QED
    BY <1>1, <1>3, <2>1, ReturnKeeps
<1> QED
  BY <1>2, <1>3 DEF DecodeConfig

LEMMA ReturnsKeep ==
  ASSUME ServerInv, NEW s \in Streams, Discard(s) \/ HandleOther(s) \/ HandleSpawn(s)
  PROVE  ServerInv'
<1>1. ServerTypes /\ ~(Does(s, "closed") \/ Does(s, "reading")) /\ Return(s) /\ UNCHANGED partial
  BY DEF ServerInv, Discard, HandleOther, HandleSpawn, Does
<1>2. DOMAIN log' = Streams /\ \A t \in Streams : t # s => log'[t] = log[t]
  BY <1>1 DEF ServerTypes, Discard, HandleOther, HandleSpawn, Emit
<1> QED
  BY <1>1, <1>2, ReturnKeeps

LEMMA ServerNextKeeps == ServerInv /\ [ServerNext]_serverVars => ServerInv'
<1> SUFFICES ASSUME ServerInv, [ServerNext]_serverVars PROVE ServerInv'
  OBVIOUS
<1>1. CASE UNCHANGED serverVars
  BY <1>1, ConnectionsKeep DEF serverVars
<1>2. CASE Membership \/ \E p \in Peers : AdmitConnection(p) \/ VerifyPeer(p) \/ CloseConnection(p)
  BY <1>2, ConnectionsKeep DEF Membership, AdmitConnection, VerifyPeer, CloseConnection
<1>3. CASE Elapse
  BY <1>3, ElapseKeeps
<1>4. CASE \E p \in Peers, s \in Streams : AcceptStream(p, s)
  BY <1>4, AcceptStreamKeeps
<1>5. ASSUME NEW s \in Streams, ReadFails(s) \/ DeadlinePassed(s) PROVE ServerInv'
  BY <1>5, EndStreamKeeps DEF ReadFails, DeadlinePassed
<1>6. ASSUME NEW s \in Streams, FirstChunk(s) \/ NextChunk(s) \/ Cancel(s) PROVE ServerInv'
  BY <1>6, FirstChunkKeeps, NextChunkKeeps, CancelKeeps
<1>7. ASSUME NEW s \in Streams, Handler(s) PROVE ServerInv'
  BY <1>7, DispatchKeeps, DecodeConfigKeeps, ReturnsKeep DEF Handler
<1> QED
  BY <1>1, <1>2, <1>3, <1>4, <1>5, <1>6, <1>7 DEF ServerNext

LEMMA ServerInvAlways == ServerSpec => []ServerInv
  BY ServerInitOK, ServerNextKeeps, PTL DEF ServerSpec

(***************************************************************************)
(* The receive budget of a node, for any streams, message ids, sizes and   *)
(* limits: messages and bytes in use (ReceiveBudgetUsage) are what partial *)
(* and dispatched messages have reserved, wherever a stream ends, and they *)
(* stay within MAX_IN_FLIGHT_MESSAGES and MAX_IN_FLIGHT_MESSAGE_BYTES.     *)
(***************************************************************************)
THEOREM BudgetIsExact == ServerSpec => []BudgetExact
<1>1. ServerInv => BudgetExact
  BY DEF ServerInv
<1> QED
  BY <1>1, ServerInvAlways, PTL

(***************************************************************************)
(* The audit trail of a spawn request: when its handler ends, also when it *)
(* is cancelled, one event follows the authorization, and it reports a     *)
(* success only of a process that was created in an environment that the   *)
(* peer's certificate and this node allow (PendingServerAudit).            *)
(***************************************************************************)
THEOREM SpawnsAreAudited == ServerSpec => AuditTrail
<1>1. ASSUME ServerInv, ServerNext, NEW s \in Streams, Does(s, "spawning"), stream'[s].pc # "spawning"
      PROVE  SpawnAudited(s)
  <2>1. /\ log[s] = <<"allowed">> /\ stream[s].env \in CertEnvs[stream[s].peer] \cap ServerEnvs
        /\ DOMAIN log = Streams /\ DOMAIN stream = Streams
    BY <1>1 DEF ServerInv, AuthorizedOK, ServerTypes
  <2>2. HandleSpawn(s) \/ Cancel(s)
    <3>1. \A t \in Streams : t # s => ~(ReadFails(t) \/ DeadlinePassed(t) \/ FirstChunk(t) \/ NextChunk(t) \/ Handler(t) \/ Cancel(t))
      <4> SUFFICES ASSUME NEW t \in Streams, t # s, ReadFails(t) \/ DeadlinePassed(t) \/ FirstChunk(t) \/ NextChunk(t) \/ Handler(t) \/ Cancel(t)
                   PROVE stream'[s] = stream[s]
        BY <1>1 DEF Does
      <4>1. CASE ReadFails(t) \/ DeadlinePassed(t) \/ Cancel(t)
        BY <2>1, <4>1 DEF ReadFails, DeadlinePassed, EndStream, Cancel
      <4>2. CASE FirstChunk(t) \/ NextChunk(t)
        BY <2>1, <4>2 DEF FirstChunk, NextChunk, Becomes
      <4>3. CASE Discard(t) \/ HandleOther(t) \/ HandleSpawn(t) \/ DecodeConfig(t)
        BY <2>1, <4>3 DEF Discard, HandleOther, HandleSpawn, DecodeConfig, Return, Becomes
      <4>4. CASE Dispatch(t)
        BY <2>1, <4>4 DEF Dispatch, Return
      <4> QED
        BY <4>1, <4>2, <4>3, <4>4 DEF Handler
    <3>2. ~(Membership \/ Elapse \/ \E p \in Peers : AdmitConnection(p) \/ VerifyPeer(p) \/ CloseConnection(p))
      BY <1>1 DEF Membership, Elapse, AdmitConnection, VerifyPeer, CloseConnection, Does
    <3>3. ~(\E p \in Peers, t \in Streams : AcceptStream(p, t))
      <4> SUFFICES ASSUME NEW p \in Peers, NEW t \in Streams, AcceptStream(p, t) PROVE FALSE
        OBVIOUS
      <4>1. stream[t] = Closed /\ stream' = [stream EXCEPT ![t] = [peer |-> p, pc |-> "reading", env |-> Bad]]
        BY DEF AcceptStream
      <4>2. t # s
        BY <1>1, <4>1 DEF Does, Closed
      <4> QED
        BY <1>1, <2>1, <4>1, <4>2 DEF Does
    <3>4. ~(ReadFails(s) \/ DeadlinePassed(s) \/ FirstChunk(s) \/ NextChunk(s) \/ Discard(s) \/ Dispatch(s) \/ HandleOther(s) \/ DecodeConfig(s))
      BY <1>1 DEF Does, ReadFails, DeadlinePassed, FirstChunk, NextChunk, Discard, Dispatch, HandleOther, DecodeConfig
    <3> QED
      BY <1>1, <3>1, <3>2, <3>3, <3>4 DEF ServerNext, Handler
  <2>3. CASE Cancel(s)
    <3>1. log'[s] = Append(<<"allowed">>, "cancelled")
      BY <2>1, <2>3 DEF Cancel, Emit
    <3> QED
      BY <3>1 DEF SpawnAudited
  <2>4. CASE HandleSpawn(s)
    <3>1. CASE spawned' = spawned \cup {[by |-> stream[s].peer, env |-> stream[s].env]} /\ Emit(s, "succeeded")
      <4>1. log'[s] = Append(<<"allowed">>, "succeeded")
        BY <2>1, <3>1 DEF Emit
      <4> QED
        BY <2>1, <3>1, <4>1 DEF SpawnAudited
    <3>2. CASE \E event \in Refusals : Emit(s, event)
      <4>1. PICK event \in Refusals : log'[s] = Append(<<"allowed">>, event)
        BY <2>1, <3>2 DEF Emit
      <4>2. event # "succeeded"
        BY DEF Refusals
      <4> QED
        BY <4>1, <4>2 DEF SpawnAudited
    <3> QED
      BY <2>4, <3>1, <3>2 DEF HandleSpawn
  <2> QED
    BY <2>2, <2>3, <2>4
<1>2. ServerInv /\ [ServerNext]_serverVars => [\A s \in Streams : SpawnAudited(s)]_serverVars
  <2> SUFFICES ASSUME ServerInv, ServerNext PROVE \A s \in Streams : SpawnAudited(s)
    OBVIOUS
  <2> QED
    BY <1>1 DEF SpawnAudited
<1> QED
  BY <1>2, ServerInvAlways, PTL DEF ServerSpec, AuditTrail

=============================================================================
