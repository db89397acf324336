-------------------------- MODULE RegistriesProofs --------------------------
(***************************************************************************)
(* Proofs about four registries: the names of processes                    *)
(* (DistributedRegistry) and the versions of modules (HotReload) of a      *)
(* node, the nodes of the control server (ControlPlane), and the names of  *)
(* a cluster (RegistryCoordination).                                       *)
(*                                                                         *)
(* The names, for any finite set of them, any processes and any limits:    *)
(* IndexInv is inductive as it stands, for each operation adds one free    *)
(* key, moves one key, or removes a set of registered keys.                *)
(*                                                                         *)
(* The versions, for any finite set of processes and any number of         *)
(* updates.  That processes agree after an update is not inductive: it     *)
(* needs to be known what is still on its way to a process while they do   *)
(* not.  Put in the order in which the process answers them, its requests  *)
(* are none, the apply, the rollback, or the apply and then the rollback,  *)
(* and an apply is there only if the process still tracks the old version  *)
(* (RequestsOK).  So an answer to the rollback says where the process is,  *)
(* whatever came of the apply.  The modules are kept because a process is  *)
(* a member of the version it tracks, and an update only moves processes   *)
(* between the committed version and the latest one (VersionsOK).          *)
(*                                                                         *)
(* The nodes, for any set of clients and any number of requests.  That a   *)
(* node is not locked out is a statement about the server's record, the    *)
(* node's own bearers and every request between them, whatever order the   *)
(* answers come in.  A request presents a bearer its node has or had, and  *)
(* later bearers are larger (RequestOK); a rotation asks for the bearer    *)
(* the node holds back, and one that was acknowledged in the node's        *)
(* generation has staged it.  So the server has the node's bearer or the   *)
(* one that the node will present next (BearerOK).                         *)
(*                                                                         *)
(* The names of a cluster, for any nodes, names, processes and number of   *)
(* calls.  A coordinator waits for votes and tells the members without     *)
(* holding a lock on its replica; what it may rely on meanwhile (HeldOK)   *)
(* rests on the stripe of its name (StripesOK) against other coordinations *)
(* and on the epoch and the owner's exit against what removes entries.     *)
(* Notifications and snapshots, however late, reach only nodes that follow *)
(* another; who coordinates does so for good and is granted nothing before *)
(* (LeadersOK, WireOK).                                                    *)
(***************************************************************************)
EXTENDS DistributedRegistry, HotReload, ControlPlane, RegistryCoordination, SequenceLemmas

-----------------------------------------------------------------------------
(* The names of processes. *)

LEMMA KeysFinite == IsFiniteSet(Key)
<1>1. IsFiniteSet({Local, Global})
  <2>1. IsFiniteSet({Local})
    BY FS_Singleton
  <2>2. {Local, Global} = {Local} \cup {Global}
    OBVIOUS
  <2> QED
    BY <2>1, <2>2, FS_AddElement
<1> QED
  BY <1>1, NameAssumption, FS_Product DEF Key

LEMMA RegisteredFinite == IsFiniteSet(Registered) /\ Cardinality(Registered) \in Nat
<1>1. Registered \in SUBSET Key
  BY DEF Registered
<1>2. IsFiniteSet(Registered)
  BY <1>1, KeysFinite, FS_Subset
<1> QED
  BY <1>2, FS_CardinalityType

\* Taking a part out of a finite set takes its size out of the size.
LEMMA Difference ==
  ASSUME NEW S, IsFiniteSet(S), NEW K \in SUBSET S
  PROVE  /\ Cardinality(S \ K) = Cardinality(S) - Cardinality(K)
         /\ Cardinality(S \ K) \in Nat /\ Cardinality(K) \in Nat
<1>1. IsFiniteSet(K) /\ IsFiniteSet(S \ K)
  BY FS_Subset
<1>2. (S \ K) \cup K = S /\ (S \ K) \cap K = {}
  OBVIOUS
<1>3. Cardinality((S \ K) \cup K)
        = Cardinality(S \ K) + Cardinality(K) - Cardinality((S \ K) \cap K)
  BY <1>1, FS_Union
<1>4. Cardinality(S \ K) \in Nat /\ Cardinality(K) \in Nat
  BY <1>1, FS_CardinalityType
<1>5. Cardinality((S \ K) \cap K) = 0
  BY <1>2, FS_EmptySet
<1>6. Cardinality(S) = Cardinality(S \ K) + Cardinality(K)
  BY <1>2, <1>3, <1>4, <1>5
<1> QED
  BY <1>4, <1>6

\* What disjoint sets of names retain together is what each of them does.
LEMMA RetainedTogether ==
  ASSUME NEW K \in SUBSET Key, NEW L \in SUBSET Key, K \cap L = {}
  PROVE  /\ Retained(K \cup L) = Retained(K) + Retained(L)
         /\ Retained(K) \in Nat /\ Retained(L) \in Nat
<1> DEFINE size(S) == [k \in S |-> Size[k[2]]]
<1>1. \A k \in Key : Size[k[2]] \in Nat
  BY LimitAssumption DEF Key
<1>2. size(K \cup L) \in [K \cup L -> Nat] /\ size(K) \in [K -> Nat] /\ size(L) \in [L -> Nat]
  BY <1>1
<1>3. IsFiniteSet(K) /\ IsFiniteSet(L)
  BY KeysFinite, FS_Subset
<1>4. Restrict(size(K \cup L), K) = size(K) /\ Restrict(size(K \cup L), L) = size(L)
  BY DEF Restrict
<1>5. /\ Retained(K) = 2 * Total(size(K)) /\ Retained(L) = 2 * Total(size(L))
      /\ Retained(K \cup L) = 2 * Total(size(K \cup L))
  BY DEF Retained
<1> HIDE DEF size
<1>6. Total(size(K)) \in Nat /\ Total(size(L)) \in Nat
  BY <1>2, <1>3, UnitsFinite
<1>7. Total(size(K \cup L)) = Total(Restrict(size(K \cup L), K)) + Total(Restrict(size(K \cup L), L))
  <2> DEFINE f == size(K \cup L)
  <2>1. f \in [K \cup L -> Nat] /\ K \cap L = {}
    BY <1>2
  <2> HIDE DEF f
  <2>2. Total(f) = Total(Restrict(f, K)) + Total(Restrict(f, L))
    BY ONLY <1>3, <2>1, TotalOfTwo
  <2> QED
    BY <2>2 DEF f
<1>8. Total(size(K \cup L)) = Total(size(K)) + Total(size(L))
  BY <1>4, <1>7
<1> QED
  BY <1>5, <1>6, <1>8

\* No name retains nothing.
LEMMA NothingRetained == Retained({}) = 0
<1>1. {} \in SUBSET Key /\ {} \cap {} = {} /\ {} \cup {} = {}
  OBVIOUS
<1>2. Retained({} \cup {}) = Retained({}) + Retained({}) /\ Retained({}) \in Nat
  BY <1>1, RetainedTogether
<1>3. \A x, y \in Nat : (y = x + x /\ y = x) => x = 0
  OBVIOUS
<1>4. Retained({} \cup {}) = Retained({})
  BY ONLY <1>1
<1> QED
  BY <1>2, <1>3, <1>4

\* Adding a free key, when there is room for it.
LEMMA InsertKeeps ==
  ASSUME IndexInv, NEW k \in Key, NEW p \in Pid, owner[k] = NoPid, HasRoom(k), Insert(k, p)
  PROVE  IndexInv'
<1> USE PidAssumption DEF IndexInv
<1>1. owner' \in [Key -> Pid \cup {NoPid}] /\ reverse' \in [Pid -> SUBSET Key]
  BY DEF Insert
<1>2. IndexExact'
  BY DEF Insert, IndexExact, NamesExact
<1>3. Registered' = Registered \cup {k} /\ k \notin Registered
  BY DEF Insert, Registered
<1>4. Cardinality(Registered') = Cardinality(Registered) + 1
  BY <1>3, RegisteredFinite, FS_AddElement
<1>5. Retained(Registered') = Retained(Registered) + Retained({k})
  BY <1>3, RetainedTogether DEF Registered
<1>6. UsageExact'
  BY <1>4, <1>5 DEF Insert, HasRoom, UsageExact, NamesExact
<1> QED
  BY <1>1, <1>2, <1>6 DEF NamesExact

\* Removing registered keys.
LEMMA RemoveKeeps ==
  ASSUME IndexInv, NEW K \in SUBSET Registered, RemoveKeys(K)
  PROVE  IndexInv'
<1> USE PidAssumption DEF IndexInv
<1>0. K \subseteq Key
  BY DEF Registered
<1>1. owner' \in [Key -> Pid \cup {NoPid}] /\ reverse' \in [Pid -> SUBSET Key]
  BY DEF RemoveKeys
<1>2. IndexExact'
  BY DEF RemoveKeys, IndexExact, NamesExact
<1>3. Registered' = Registered \ K
  BY <1>0 DEF RemoveKeys, Registered
<1>4. /\ Cardinality(Registered \ K) = Cardinality(Registered) - Cardinality(K)
      /\ Cardinality(K) \in Nat
  BY RegisteredFinite, Difference
<1>5. /\ Retained(Registered) = Retained(Registered \ K) + Retained(K)
      /\ Retained(Registered \ K) \in Nat /\ Retained(K) \in Nat
  <2>1. Registered = (Registered \ K) \cup K /\ (Registered \ K) \cap K = {}
    OBVIOUS
  <2>2. Registered \ K \in SUBSET Key /\ K \in SUBSET Key
    BY <1>0 DEF Registered
  <2> QED
    BY <2>1, <2>2, RetainedTogether
<1>6. entries' = Cardinality(Registered') /\ entries' <= MaxEntries
  BY <1>3, <1>4, RegisteredFinite, LimitAssumption DEF RemoveKeys, Release, UsageExact, NamesExact
<1>7. bytes' = Retained(Registered') /\ bytes' <= MaxBytes
  BY <1>3, <1>5, LimitAssumption DEF RemoveKeys, Release, UsageExact, NamesExact
<1>8. UsageExact'
  <2>1. Retained(Registered)' = Retained(Registered')
    BY DEF Retained
  <2> QED
    BY <1>6, <1>7, <2>1 DEF UsageExact
<1> QED
  BY <1>1, <1>2, <1>8 DEF NamesExact

\* A committed registration takes a name over without a new charge.
LEMMA ReplaceKeeps ==
  ASSUME IndexInv, NEW n \in Name, NEW p \in Pid, apply_global(n, p)
  PROVE  IndexInv'
<1> USE PidAssumption DEF IndexInv
<1> DEFINE k == <<Global, n>>
<1>0. k \in Key
  BY DEF Key
<1>1. CASE owner[k] = NoPid
  BY <1>0, <1>1, InsertKeeps DEF apply_global
<1>2. CASE owner[k] # NoPid
  <2> HIDE DEF k
  <2>0. /\ owner' = [owner EXCEPT ![k] = p]
        /\ reverse' = MoveMapping(k, p)
        /\ entries' = entries /\ bytes' = bytes
    BY <1>2 DEF apply_global, ChargeKept, k
  <2>1. owner' \in [Key -> Pid \cup {NoPid}] /\ reverse' \in [Pid -> SUBSET Key]
    BY <1>0, <2>0 DEF MoveMapping
  <2>2. IndexExact'
    BY <1>0, <2>0 DEF MoveMapping, IndexExact, NamesExact
  <2>3. Registered' = Registered
    BY <1>0, <1>2, <2>0 DEF Registered
  <2>4. UsageExact'
    BY <2>0, <2>3 DEF UsageExact, NamesExact, Retained
  <2> QED
    BY <2>1, <2>2, <2>4 DEF NamesExact
<1> QED
  BY <1>1, <1>2

\* The names of an exited process, found through the index.
LEMMA UnregisterProcessKeeps ==
  ASSUME IndexInv, NEW p \in Pid, unregister_process(p)
  PROVE  IndexInv'
<1> USE PidAssumption DEF IndexInv
<1> DEFINE K == {k \in reverse[p] : owner[k] = p}
<1>1. K = reverse[p] /\ K \in SUBSET Registered
  BY DEF IndexExact, NamesExact, Registered
<1>2. [reverse EXCEPT ![p] = {}] = [q \in Pid |-> reverse[q] \ {k \in K : owner[k] = q}]
  BY DEF IndexExact, NamesExact
<1>3. RemoveKeys(K)
  BY <1>2 DEF unregister_process, RemoveKeys
<1> QED
  BY <1>1, <1>3, RemoveKeeps

\* A snapshot is swapped in whole, with an index and a usage of its own.
LEMMA SnapshotKeeps ==
  ASSUME IndexInv, NEW s \in [Name -> Pid \cup {NoPid}], replace_global_snapshot(s)
  PROVE  IndexInv'
<1> USE PidAssumption DEF IndexInv
<1> DEFINE new == [k \in Key |-> IF k[1] = Global THEN s[k[2]] ELSE owner[k]]
           locals == {k \in Registered : k[1] = Local}
           globals == {k \in OfScope(Global) : s[k[2]] # NoPid}
<1>1. /\ owner' = new
      /\ reverse' = [p \in Pid |-> {k \in Key : new[k] = p}]
      /\ entries' = Cardinality(locals) + Cardinality(globals)
      /\ entries' <= MaxEntries
      /\ bytes' = Retained(locals) + Retained(globals) /\ bytes' <= MaxBytes
  BY DEF replace_global_snapshot, SnapshotFits
<1>2. \A k \in Key : k[1] \in {Local, Global} /\ k[2] \in Name
  BY DEF Key
<1>3. new \in [Key -> Pid \cup {NoPid}]
  BY <1>2
<1>4. IndexExact'
  BY <1>1, <1>3 DEF IndexExact
<1>5. locals \cup globals = Registered' /\ locals \cap globals = {}
  BY <1>1, <1>2 DEF Registered, OfScope, Local, Global
<1>6. IsFiniteSet(locals) /\ IsFiniteSet(globals)
  <2>1. locals \in SUBSET Key /\ globals \in SUBSET Key
    BY DEF Registered, OfScope
  <2> QED
    BY <2>1, KeysFinite, FS_Subset
<1>7. /\ Cardinality(locals \cup globals)
           = Cardinality(locals) + Cardinality(globals) - Cardinality(locals \cap globals)
      /\ Cardinality(locals) \in Nat /\ Cardinality(globals) \in Nat
  BY <1>6, FS_Union, FS_CardinalityType
<1>8. entries' = Cardinality(Registered') /\ bytes' = Retained(Registered')
  <2>0. locals \in SUBSET Key /\ globals \in SUBSET Key
    BY DEF Registered, OfScope
  <2> HIDE DEF locals, globals
  <2>1. Cardinality(locals \cap globals) = 0
    BY <1>5, FS_EmptySet
  <2>2. Cardinality(locals \cup globals) = Cardinality(locals) + Cardinality(globals)
    BY <1>7, <2>1
  <2>3. Cardinality(Registered') = Cardinality(locals \cup globals)
    BY <1>5
  <2>4. entries' = Cardinality(locals) + Cardinality(globals)
    BY <1>1
  <2> QED
    BY <1>1, <1>5, <2>0, <2>2, <2>3, <2>4, RetainedTogether
<1>9. owner' \in [Key -> Pid \cup {NoPid}] /\ reverse' \in [Pid -> SUBSET Key]
  BY <1>1, <1>3
<1> QED
  BY <1>1, <1>4, <1>8, <1>9 DEF UsageExact, NamesExact, Retained

\* The registry starts, and is cleared to be, empty.
LEMMA EmptyIsExact ==
  ASSUME owner = [k \in Key |-> NoPid], reverse = [p \in Pid |-> {}], entries = 0, bytes = 0
  PROVE  IndexInv
<1> USE PidAssumption, LimitAssumption
<1>1. Registered = {}
  BY DEF Registered
<1>2. UsageExact
  BY <1>1, FS_EmptySet, NothingRetained DEF UsageExact
<1> QED
  BY <1>2 DEF IndexInv, IndexExact, NamesExact

LEMMA ClearKeeps ==
  ASSUME clear
  PROVE  IndexInv'
<1> USE PidAssumption, LimitAssumption DEF clear
<1>1. Registered' = {}
  BY DEF Registered
<1>2. UsageExact'
  <2>1. Retained(Registered)' = Retained({})
    BY <1>1 DEF Retained
  <2> QED
    BY <1>1, <2>1, FS_EmptySet, NothingRetained DEF UsageExact
<1> QED
  BY <1>2 DEF IndexInv, IndexExact, NamesExact

\* Every operation of the registry preserves the invariant.
LEMMA StepKeeps == IndexInv /\ [Next]_vars => IndexInv'
<1> SUFFICES ASSUME IndexInv, [Next]_vars PROVE IndexInv'
  OBVIOUS
<1>1. ASSUME NEW n \in Name, NEW p \in Pid, register_local(n, p) PROVE IndexInv'
  <2>1. <<Local, n>> \in Key
    BY DEF Key
  <2> QED
    BY <1>1, <2>1, InsertKeeps DEF register_local
<1>2. ASSUME NEW n \in Name, NEW p \in Pid, register_global(n, p) PROVE IndexInv'
  <2>1. <<Global, n>> \in Key
    BY DEF Key
  <2> QED
    BY <1>2, <2>1, InsertKeeps DEF register_global
<1>3. ASSUME NEW n \in Name, NEW p \in Pid, apply_global(n, p) PROVE IndexInv'
  BY <1>3, ReplaceKeeps
<1>4. ASSUME NEW n \in Name, NEW p \in Pid, remove_global_if_owner(n, p) PROVE IndexInv'
  <2>1. {<<Global, n>>} \in SUBSET Registered
    BY <1>4, PidAssumption DEF remove_global_if_owner, Registered, Key
  <2> QED
    BY <1>4, <2>1, RemoveKeeps DEF remove_global_if_owner
<1>5. ASSUME NEW n \in Name, unregister(n) PROVE IndexInv'
  BY <1>5, RemoveKeeps DEF unregister
<1>6. ASSUME NEW p \in Pid, unregister_process(p) PROVE IndexInv'
  BY <1>6, UnregisterProcessKeeps
<1>7. ASSUME NEW p \in Pid, remove_local_registrations(p) PROVE IndexInv'
  <2> DEFINE K == {k \in reverse[p] : k[1] = Local /\ owner[k] = p}
  <2>1. K \in SUBSET Registered
    BY PidAssumption DEF IndexInv, Registered
  <2>2. RemoveKeys(K)
    BY <1>7 DEF remove_local_registrations
  <2> HIDE DEF K
  <2> QED
    BY <2>1, <2>2, RemoveKeeps
<1>8. ASSUME NEW node \in Node, remove_node_registrations(node) PROVE IndexInv'
  BY <1>8, RemoveKeeps DEF remove_node_registrations
<1>9. ASSUME NEW s \in [Name -> Pid \cup {NoPid}], replace_global_snapshot(s) PROVE IndexInv'
  BY <1>9, SnapshotKeeps
<1>10. ASSUME clear PROVE IndexInv'
  BY <1>10, ClearKeeps
<1>11. ASSUME UNCHANGED vars PROVE IndexInv'
  BY <1>11 DEF vars, IndexInv, NamesExact, IndexExact, UsageExact, Registered, Retained
<1> QED
  BY <1>1, <1>2, <1>3, <1>4, <1>5, <1>6, <1>7, <1>8, <1>9, <1>10, <1>11 DEF Next

\* After any sequence of registrations, replacements, removals, snapshots and
\* cleanups the invariant holds.
THEOREM IndexInvariant == Spec => []IndexInv
<1>1. Init => IndexInv
  BY EmptyIsExact DEF Init
<1> QED
  BY <1>1, StepKeeps, PTL DEF Spec

\* After any sequence of registrations, replacements, removals, snapshots and cleanups: the
\* index an exited process is cleaned up by lists exactly its names, and the entries and the
\* bytes charged to the node are those of its names and within its limits.
THEOREM NamesAreExact == Spec => []NamesExact
<1>1. IndexInv => NamesExact
  BY DEF IndexInv
<1> QED
  BY <1>1, IndexInvariant, PTL

-----------------------------------------------------------------------------
(* Sequences of requests. *)

LEMMA HeadAndTail ==
  ASSUME NEW S, NEW c \in S, NEW t \in Seq(S)
  PROVE  /\ <<c>> \in Seq(S) /\ <<c>> \o t \in Seq(S) /\ <<c>> \o t # <<>>
         /\ Head(<<c>> \o t) = c /\ Tail(<<c>> \o t) = t
<1> DEFINE s == <<c>> \o t
<1>1. <<c>> \in Seq(S) /\ Len(<<c>>) = 1 /\ <<c>>[1] = c /\ Len(t) \in Nat
  OBVIOUS
<1>2. /\ s \in Seq(S) /\ Len(s) = 1 + Len(t)
      /\ \A i \in 1 .. 1 + Len(t) : s[i] = IF i <= 1 THEN <<c>>[i] ELSE t[i - 1]
  BY <1>1, ConcatProperties
<1> HIDE DEF s
<1>3. s # <<>> /\ Head(s) = c
  BY <1>1, <1>2
<1>4. /\ Tail(s) \in Seq(S) /\ Len(Tail(s)) = Len(t)
      /\ \A i \in 1 .. Len(t) : Tail(s)[i] = s[i + 1]
  BY <1>1, <1>2, <1>3, HeadTailProperties
<1>5. ASSUME NEW i \in 1 .. Len(t) PROVE Tail(s)[i] = t[i]
  BY <1>1, <1>2, <1>4
<1>6. Tail(s) = t
  BY <1>4, <1>5, SeqEqual
<1> QED  BY <1>1, <1>2, <1>3, <1>6 DEF s

LEMMA HeadThenTail ==
  ASSUME NEW S, NEW s \in Seq(S), s # <<>>
  PROVE  Head(s) \in S /\ Tail(s) \in Seq(S) /\ s = <<Head(s)>> \o Tail(s)
<1>1. /\ Head(s) \in S /\ Tail(s) \in Seq(S) /\ Len(Tail(s)) = Len(s) - 1 /\ Len(s) \in Nat /\ Len(s) > 0
      /\ \A i \in 1 .. Len(Tail(s)) : Tail(s)[i] = s[i + 1]
  BY HeadTailProperties, EmptySeq
<1> DEFINE r == <<Head(s)>> \o Tail(s)
<1>2. <<Head(s)>> \in Seq(S) /\ Len(<<Head(s)>>) = 1 /\ <<Head(s)>>[1] = s[1]
  BY <1>1
<1>3. /\ r \in Seq(S) /\ Len(r) = Len(s)
      /\ \A i \in 1 .. Len(s) : r[i] = IF i <= 1 THEN <<Head(s)>>[i] ELSE Tail(s)[i - 1]
  <2>1. Len(<<Head(s)>>) + Len(Tail(s)) = Len(s)
    BY <1>1, <1>2
  <2> QED  BY <1>1, <1>2, <2>1, ConcatProperties
<1> HIDE DEF r
<1>4. ASSUME NEW i \in 1 .. Len(s) PROVE r[i] = s[i]
  <2>1. CASE i = 1
    BY <1>1, <1>2, <1>3, <2>1
  <2>2. CASE i > 1
    <3>1. i - 1 \in 1 .. Len(Tail(s)) /\ (i - 1) + 1 = i
      BY <1>1, <2>2
    <3> QED  BY <1>1, <1>3, <2>2, <3>1
  <2> QED  BY <1>1, <2>1, <2>2
<1>5. r = s
  BY <1>3, <1>4, SeqEqual
<1> QED  BY <1>1, <1>5 DEF r

\* A request that moves from the head of one queue to the end of the one before it keeps
\* its place.
LEMMA HeadMoves ==
  ASSUME NEW S, NEW q \in Seq(S), NEW s \in Seq(S), s # <<>>
  PROVE  Append(q, Head(s)) \o Tail(s) = q \o s
<1>1. Head(s) \in S /\ Tail(s) \in Seq(S) /\ s = <<Head(s)>> \o Tail(s) /\ <<Head(s)>> \in Seq(S)
  BY HeadThenTail
<1>2. Append(q, Head(s)) = q \o <<Head(s)>>
  BY <1>1, AppendIsConcat
<1> QED  BY <1>1, <1>2, ConcatAssociative

\* What is taken from the head, or put at the end, of a queue that is joined with another.
LEMMA JoinedQueues ==
  ASSUME NEW S, NEW q \in Seq(S), NEW s \in Seq(S)
  PROVE  /\ q \o s \in Seq(S) /\ <<>> \o q = q /\ q \o <<>> = q
         /\ q # <<>> => Head(q \o s) = Head(q) /\ Tail(q \o s) = Tail(q) \o s
         /\ (q \o s = <<>>) <=> (q = <<>> /\ s = <<>>)
<1>1. q \o s \in Seq(S) /\ <<>> \o q = q /\ q \o <<>> = q /\ ((q \o s = <<>>) <=> (q = <<>> /\ s = <<>>))
  BY ConcatProperties, ConcatEmptySeq, ConcatEqualIffEmpty
<1>2. ASSUME q # <<>> PROVE Head(q \o s) = Head(q) /\ Tail(q \o s) = Tail(q) \o s
  <2>1. Tail(q) \in Seq(S) /\ Head(q) \in S /\ <<Head(q)>> \in Seq(S) /\ q = <<Head(q)>> \o Tail(q)
    BY <1>2, HeadThenTail
  <2>2. q \o s = <<Head(q)>> \o (Tail(q) \o s)
    BY <2>1, ConcatAssociative
  <2>3. Tail(q) \o s \in Seq(S)
    BY <2>1, ConcatProperties
  <2> QED  BY <2>1, <2>2, <2>3, HeadAndTail
<1> QED  BY <1>1, <1>2

LEMMA AppendToJoined ==
  ASSUME NEW S, NEW q \in Seq(S), NEW s \in Seq(S), NEW c \in S
  PROVE  Append(q \o s, c) = q \o Append(s, c)
<1>1. q \o s \in Seq(S) /\ <<c>> \in Seq(S)
  BY ConcatProperties
<1>2. Append(q \o s, c) = (q \o s) \o <<c>> /\ Append(s, c) = s \o <<c>>
  BY <1>1, AppendIsConcat
<1> QED  BY <1>1, <1>2, ConcatAssociative

LEMMA FirstOfThree ==
  ASSUME NEW S, NEW c \in S, NEW q \in Seq(S), NEW s \in Seq(S)
  PROVE  /\ (<<c>> \o q) \o s \in Seq(S) /\ (<<c>> \o q) \o s # <<>>
         /\ Head((<<c>> \o q) \o s) = c /\ Tail((<<c>> \o q) \o s) = q \o s
<1>1. <<c>> \in Seq(S) /\ q \o s \in Seq(S)
  BY ConcatProperties
<1>2. (<<c>> \o q) \o s = <<c>> \o (q \o s)
  BY <1>1, ConcatAssociative
<1> QED  BY <1>1, <1>2, HeadAndTail

LEMMA AppendToOne ==
  ASSUME NEW a, NEW b
  PROVE  Append(<<a>>, b) = <<a, b>>
<1>1. <<a>> \in Seq({a, b}) /\ <<a, b>> \in Seq({a, b}) /\ Len(<<a>>) = 1 /\ Len(<<a, b>>) = 2
  OBVIOUS
<1>2. <<a>>[1] = a /\ <<a, b>>[1] = a /\ <<a, b>>[2] = b
  OBVIOUS
<1> DEFINE s == Append(<<a>>, b)
<1>3. s \in Seq({a, b}) /\ Len(s) = 2 /\ s[1] = <<a>>[1] /\ s[2] = b
  BY <1>1, AppendProperties
<1> HIDE DEF s
<1>4. ASSUME NEW i \in 1 .. 2 PROVE s[i] = <<a, b>>[i]
  <2>1. i = 1 \/ i = 2
    OBVIOUS
  <2> QED  BY <1>2, <1>3, <2>1
<1>5. s = <<a, b>>
  BY <1>1, <1>3, <1>4, SeqEqual
<1> QED  BY <1>5 DEF s

-----------------------------------------------------------------------------
(* What a cleanup keeps. *)

LEMMA VersionsFinite ==
  ASSUME NEW vs \in SUBSET Version
  PROVE  IsFiniteSet(vs) /\ \A v \in vs : v \in Nat
<1>1. MaxVersion \in Nat /\ 0 \in Int /\ MaxVersion \in Int
  BY ReloadAssumption
<1>2. IsFiniteSet(0 .. MaxVersion)
  BY <1>1, FS_Interval
<1>3. IsFiniteSet(vs)
  BY <1>2, FS_Subset DEF Version
<1>4. \A v \in vs : v \in Nat
  BY <1>1 DEF Version
<1> QED  BY <1>3, <1>4

\* A cleanup keeps the latest version, the committed one and those with processes; and
\* only versions that are recent or needed.
LEMMA CleanedKeeps ==
  ASSUME NEW vs \in SUBSET Version, NEW c, NEW ms, NEW n \in vs, \A v \in vs : v <= n
  PROVE  /\ Cleaned(vs, c, ms) \subseteq vs /\ n \in Cleaned(vs, c, ms)
         /\ c \in vs => c \in Cleaned(vs, c, ms)
         /\ \A v \in vs : ms[v] # {} => v \in Cleaned(vs, c, ms)
         /\ \A v \in Cleaned(vs, c, ms) : v \in Recent(Cleaned(vs, c, ms)) \/ Needed(v, c, ms)
<1>1. IsFiniteSet(vs) /\ \A v \in vs : v \in Nat
  BY VersionsFinite
<1>2. n \in Recent(vs)
  <2>1. {w \in vs : w > n} = {}
    BY <1>1
  <2> QED  BY <2>1, FS_EmptySet DEF Recent, max_versions
<1>3. ASSUME NEW v \in Cleaned(vs, c, ms), v \in Recent(vs) PROVE v \in Recent(Cleaned(vs, c, ms))
  <2> DEFINE few == {w \in Cleaned(vs, c, ms) : w > v}
             more == {w \in vs : w > v}
  <2>1. few \subseteq more /\ more \subseteq vs
    BY DEF Cleaned
  <2>2. IsFiniteSet(more)
    BY <1>1, <2>1, FS_Subset
  <2>3. Cardinality(few) <= Cardinality(more) /\ Cardinality(few) \in Nat /\ Cardinality(more) \in Nat
    BY <2>1, <2>2, FS_Subset, FS_CardinalityType
  <2>4. Cardinality(more) < 2
    BY <1>3 DEF Recent, max_versions
  <2>5. Cardinality(few) < 2
    BY <2>3, <2>4
  <2> QED  BY <2>5 DEF Recent, max_versions
<1>4. \A v \in Cleaned(vs, c, ms) : v \in Recent(vs) \/ Needed(v, c, ms)
  BY DEF Cleaned
<1> QED  BY <1>2, <1>3, <1>4 DEF Cleaned, Needed

-----------------------------------------------------------------------------
(* What a process has been asked. *)

LEMMA RequestsInOrder ==
  ASSUME NEW d \in Command \cup {None}, NEW q \in Seq(Command), NEW s \in Seq(Command)
  PROVE  /\ InOrder(d, q, s) \in Seq(Command) /\ q \in Seq(Command) /\ s \in Seq(Command)
         /\ d = None => InOrder(d, q, s) = q \o s
         /\ d # None => /\ d \in Command /\ InOrder(d, q, s) # <<>> /\ Head(InOrder(d, q, s)) = d
                          /\ Tail(InOrder(d, q, s)) = q \o s
         /\ InOrder(d, q, s) = <<>> => (d = None /\ q = <<>> /\ s = <<>>)
<1>2. /\ q \o s \in Seq(Command) /\ <<>> \o q = q
      /\ ((q \o s = <<>>) <=> (q = <<>> /\ s = <<>>))
  BY JoinedQueues
<1>3. CASE d = None
  <2>1. InOrder(d, q, s) = q \o s
    BY <1>2, <1>3 DEF InOrder
  <2> QED  BY <1>2, <1>3, <2>1
<1>4. CASE d # None
  <2>1. InOrder(d, q, s) = (<<d>> \o q) \o s /\ d \in Command
    BY <1>4 DEF InOrder
  <2>2. /\ (<<d>> \o q) \o s \in Seq(Command) /\ (<<d>> \o q) \o s # <<>>
        /\ Head((<<d>> \o q) \o s) = d /\ Tail((<<d>> \o q) \o s) = q \o s
    BY <2>1, FirstOfThree
  <2>3. InOrder(d, q, s) \in Seq(Command) /\ InOrder(d, q, s) # <<>>
    BY <2>1, <2>2
  <2>4. Head(InOrder(d, q, s)) = d /\ Tail(InOrder(d, q, s)) = q \o s
    BY <2>1, <2>2
  <2> QED  BY <1>4, <2>1, <2>3, <2>4
<1> QED  BY <1>3, <1>4

LEMMA AskedIsSequence ==
  ASSUME TypeOK, NEW p \in Process
  PROVE  /\ Asked(p) \in Seq(Command) /\ queue[p] \in Seq(Command) /\ signals[p] \in Seq(Command)
         /\ doing[p] = None => Asked(p) = queue[p] \o signals[p]
         /\ doing[p] # None => /\ doing[p] \in Command /\ Asked(p) # <<>> /\ Head(Asked(p)) = doing[p]
                          /\ Tail(Asked(p)) = queue[p] \o signals[p]
         /\ Asked(p) = <<>> => (doing[p] = None /\ queue[p] = <<>> /\ signals[p] = <<>>)
<1>1. queue[p] \in Seq(Command) /\ signals[p] \in Seq(Command) /\ doing[p] \in Command \cup {None}
  BY DEF TypeOK
<1>2. \A d \in Command \cup {None}, q \in Seq(Command), s \in Seq(Command) :
         /\ InOrder(d, q, s) \in Seq(Command)
         /\ d = None => InOrder(d, q, s) = q \o s
         /\ d # None => /\ d \in Command /\ InOrder(d, q, s) # <<>> /\ Head(InOrder(d, q, s)) = d
                        /\ Tail(InOrder(d, q, s)) = q \o s
         /\ InOrder(d, q, s) = <<>> => (d = None /\ q = <<>> /\ s = <<>>)
  BY RequestsInOrder
<1> QED  BY <1>1, <1>2 DEF Asked

\* The same in the next state
LEMMA AskedAfter ==
  ASSUME TypeOK', NEW p \in Process
  PROVE  /\ Asked(p)' \in Seq(Command) /\ queue'[p] \in Seq(Command) /\ signals'[p] \in Seq(Command)
         /\ doing'[p] = None => Asked(p)' = queue'[p] \o signals'[p]
         /\ doing'[p] # None => /\ doing'[p] \in Command /\ Asked(p)' # <<>> /\ Head(Asked(p)') = doing'[p]
                          /\ Tail(Asked(p)') = queue'[p] \o signals'[p]
         /\ Asked(p)' = <<>> => (doing'[p] = None /\ queue'[p] = <<>> /\ signals'[p] = <<>>)
<1>1. queue'[p] \in Seq(Command) /\ signals'[p] \in Seq(Command) /\ doing'[p] \in Command \cup {None}
  BY DEF TypeOK
<1>2. \A d \in Command \cup {None}, q \in Seq(Command), s \in Seq(Command) :
         /\ InOrder(d, q, s) \in Seq(Command)
         /\ d = None => InOrder(d, q, s) = q \o s
         /\ d # None => /\ d \in Command /\ InOrder(d, q, s) # <<>> /\ Head(InOrder(d, q, s)) = d
                        /\ Tail(InOrder(d, q, s)) = q \o s
         /\ InOrder(d, q, s) = <<>> => (d = None /\ q = <<>> /\ s = <<>>)
  BY RequestsInOrder
<1> QED  BY <1>1, <1>2 DEF Asked

LEMMA RequestsAreCommands ==
  ASSUME TypeOK
  PROVE  /\ ApplyRequest \in Command /\ RollbackRequest \in Command /\ ApplyRequest # RollbackRequest
         /\ ApplyRequest.phase = "apply" /\ ApplyRequest.expected = old /\ ApplyRequest.target = cand
         /\ RollbackRequest.phase = "rollback" /\ RollbackRequest.expected = cand /\ RollbackRequest.target = old
         /\ Head(<<ApplyRequest>>) = ApplyRequest /\ Tail(<<ApplyRequest>>) = <<>>
         /\ Head(<<RollbackRequest>>) = RollbackRequest /\ Tail(<<RollbackRequest>>) = <<>>
         /\ Head(<<ApplyRequest, RollbackRequest>>) = ApplyRequest
         /\ Tail(<<ApplyRequest, RollbackRequest>>) = <<RollbackRequest>>
         /\ <<ApplyRequest>> # <<>> /\ <<RollbackRequest>> # <<>> /\ <<ApplyRequest, RollbackRequest>> # <<>>
         /\ Append(<<>>, ApplyRequest) = <<ApplyRequest>> /\ Append(<<>>, RollbackRequest) = <<RollbackRequest>>
         /\ Append(<<ApplyRequest>>, RollbackRequest) = <<ApplyRequest, RollbackRequest>>
<1>1. ApplyRequest \in Command /\ RollbackRequest \in Command
  BY DEF ApplyRequest, RollbackRequest, Command, TypeOK
<1>2. /\ ApplyRequest.phase = "apply" /\ ApplyRequest.expected = old /\ ApplyRequest.target = cand
      /\ RollbackRequest.phase = "rollback" /\ RollbackRequest.expected = cand /\ RollbackRequest.target = old
  BY DEF ApplyRequest, RollbackRequest
<1>3. ASSUME NEW a, NEW b
      PROVE  /\ Head(<<a>>) = a /\ Tail(<<a>>) = <<>> /\ Head(<<a, b>>) = a /\ Tail(<<a, b>>) = <<b>>
             /\ <<a>> # <<>> /\ <<a, b>> # <<>> /\ Append(<<>>, a) = <<a>> /\ Append(<<a>>, b) = <<a, b>>
  <2>1. Head(<<a>>) = a /\ Head(<<a, b>>) = a /\ <<a>> # <<>> /\ <<a, b>> # <<>>
    OBVIOUS
  <2>2. Tail(<<a>>) = <<>>
    OBVIOUS
  <2>3. Append(<<>>, a) = <<a>>
    OBVIOUS
  <2>4. Tail(<<a, b>>) = <<b>>
    OBVIOUS
  <2>5. Append(<<a>>, b) = <<a, b>>
    BY AppendToOne
  <2> QED  BY <2>1, <2>2, <2>3, <2>4, <2>5
<1> QED  BY <1>1, <1>2, <1>3

\* Nobody is asked anything between updates, and only ever one of three things.
LEMMA AskedCases ==
  ASSUME ReloadInv, NEW p \in Running, Asked(p) # <<>>
  PROVE  /\ Unsettled /\ pc \in {"apply", "dispatchRollback", "rollback", "idle"}
         /\ MayApply(p) \/ MustRollBack(p)
         /\ Head(Asked(p)) \in {ApplyRequest, RollbackRequest}
<1>1. RequestsOK(p) /\ TypeOK
  BY DEF ReloadInv, ProcessesOK
<1>2. Unsettled /\ pc \in {"apply", "dispatchRollback", "rollback", "idle"} /\ (MayApply(p) \/ MustRollBack(p))
  BY <1>1 DEF RequestsOK, TypeOK
<1>3. Asked(p) \in {<<ApplyRequest>>, <<RollbackRequest>>, <<ApplyRequest, RollbackRequest>>}
  BY <1>2 DEF MayApply, MustRollBack
<1> QED  BY <1>1, <1>2, <1>3, RequestsAreCommands

\* A driver's queue is a part of what its process has been asked.
LEMMA QueueIsPart ==
  ASSUME NEW d, NEW q \in Seq(Command), NEW s \in Seq(Command), d \in Command \cup {None}
  PROVE  Len(q) <= Len(InOrder(d, q, s)) /\ Len(q) \in Nat
<1> DEFINE f == IF d = None THEN <<>> ELSE <<d>>
<1>1. f \in Seq(Command) /\ Len(f) \in Nat /\ Len(q) \in Nat /\ Len(s) \in Nat
  OBVIOUS
<1> HIDE DEF f
<1>2. f \o q \in Seq(Command) /\ Len(f \o q) = Len(f) + Len(q)
  BY <1>1, ConcatProperties
<1>3. Len((f \o q) \o s) = Len(f \o q) + Len(s)
  BY <1>2, ConcatProperties
<1>4. InOrder(d, q, s) = (f \o q) \o s
  BY DEF InOrder, f
<1> QED  BY <1>1, <1>2, <1>3, <1>4

LEMMA FewAreAsked ==
  ASSUME ReloadInv, NEW p \in Process
  PROVE  Len(queue[p]) <= 2
<1>1. TypeOK /\ queue[p] \in Seq(Command) /\ signals[p] \in Seq(Command) /\ doing[p] \in Command \cup {None}
  BY DEF ReloadInv, TypeOK
<1>2. CASE p \notin Running
  <2>1. queue[p] = <<>>
    BY <1>2 DEF ReloadInv, ProcessesOK, EndedOK, Running
  <2> QED  BY <2>1
<1>3. CASE p \in Running
  <2>1. Len(Asked(p)) <= 2
    <3>1. CASE Asked(p) = <<>>
      BY <3>1
    <3>2. CASE Asked(p) # <<>>
      <4>1. Asked(p) \in {<<ApplyRequest>>, <<RollbackRequest>>, <<ApplyRequest, RollbackRequest>>}
        BY <1>3, <3>2, AskedCases DEF MayApply, MustRollBack
      <4>2. Len(<<ApplyRequest>>) = 1 /\ Len(<<RollbackRequest>>) = 1 /\ Len(<<ApplyRequest, RollbackRequest>>) = 2
        OBVIOUS
      <4>3. Len(Asked(p)) = 1 \/ Len(Asked(p)) = 2
        BY <4>1, <4>2
      <4>4. 1 <= 2 /\ 2 <= 2
        OBVIOUS
      <4> QED  BY <4>3, <4>4, Zenon
    <3> QED  BY <3>1, <3>2
  <2>2. Len(queue[p]) <= Len(Asked(p)) /\ Len(queue[p]) \in Nat /\ Len(Asked(p)) \in Nat
    <3>1. Asked(p) = InOrder(doing[p], queue[p], signals[p]) /\ Asked(p) \in Seq(Command)
      BY <1>1, AskedIsSequence DEF Asked
    <3>2. Len(queue[p]) <= Len(InOrder(doing[p], queue[p], signals[p])) /\ Len(queue[p]) \in Nat
      BY <1>1, QueueIsPart
    <3> QED  BY <3>1, <3>2
  <2> QED  BY <2>1, <2>2
<1> QED  BY <1>2, <1>3

-----------------------------------------------------------------------------
(* What the invariant gives. *)

LEMMA ReloadInvIsSafe ==
  ASSUME ReloadInv
  PROVE  ReloadSafe
<1> USE DEF ReloadInv
<1>1. Agreement
  <2> SUFFICES ASSUME pc = "idle", status # "InDoubt", NEW p \in Running
               PROVE  runs[p] = committed /\ doing[p] = None /\ signals[p] = <<>> /\ queue[p] = <<>>
    BY DEF Agreement
  <2>1. Asked(p) = <<>> /\ tracked[p] = committed /\ InstanceOK(p) /\ p \in Process
    BY DEF ProcessesOK, RequestsOK, Unsettled, Running
  <2>2. doing[p] = None /\ queue[p] = <<>> /\ signals[p] = <<>>
    BY <2>1, AskedIsSequence
  <2> QED  BY <2>1, <2>2 DEF InstanceOK
<1>2. ASSUME NEW p \in Running PROVE runs[p] \in versions
  <2>1. p \in Process /\ InstanceOK(p) /\ tracked[p] \in versions
    BY DEF Running, ProcessesOK, VersionsOK
  <2>2. CASE runs[p] = tracked[p]
    BY <2>1, <2>2
  <2>3. CASE doing[p] # None /\ runs[p] = doing[p].target
    <3>1. Asked(p) # <<>> /\ Head(Asked(p)) = doing[p]
      BY <2>1, <2>3, AskedIsSequence
    <3>2. Unsettled /\ doing[p] \in {ApplyRequest, RollbackRequest}
      BY <3>1, AskedCases
    <3>3. doing[p].target \in {old, cand}
      BY <3>2, RequestsAreCommands
    <3> QED  BY <2>3, <3>2, <3>3 DEF VersionsOK
  <2> QED  BY <2>1, <2>2, <2>3 DEF InstanceOK
<1>3. pc # "idle" => {old, cand} \subseteq versions
  BY DEF VersionsOK, Unsettled
<1>4. {committed, launch} \subseteq versions
  BY DEF VersionsOK
<1>5. ModulesKept
  BY <1>2, <1>3, <1>4 DEF ModulesKept, MembersOK
<1>6. NothingRefused
  <2> SUFFICES ASSUME NEW p \in Process PROVE Len(queue[p]) <= 16
    BY DEF NothingRefused, RELOAD_QUEUE_CAPACITY
  <2>1. queue[p] \in Seq(Command) /\ Len(queue[p]) \in Nat
    BY DEF TypeOK
  <2> QED  BY <2>1, FewAreAsked
<1> QED  BY <1>1, <1>5, <1>6 DEF ReloadSafe

LEMMA ReloadStarts ==
  ASSUME ReloadInit
  PROVE  ReloadInv
<1>1. 0 \in Version /\ MaxVersion \in Nat
  BY ReloadAssumption DEF Version
<1>2. TypeOK
  BY <1>1 DEF ReloadInit, TypeOK
<1>3. Running = {}
  BY DEF ReloadInit, Running
<1>4. VersionsOK
  BY <1>3 DEF ReloadInit, VersionsOK, Unsettled
<1>5. MembersOK
  BY DEF ReloadInit, MembersOK
<1>6. NothingHoarded
  BY DEF ReloadInit, NothingHoarded, Needed
<1>7. ProcessesOK
  BY <1>3 DEF ReloadInit, ProcessesOK, EndedOK
<1> QED  BY <1>2, <1>4, <1>5, <1>6, <1>7 DEF ReloadInv

-----------------------------------------------------------------------------
(* What a step leaves of a process and of the registry. *)

\* A process whose requests, answer and version a step leaves alone
LEMMA RequestsStay ==
  ASSUME NEW p, RequestsOK(p), UNCHANGED <<update, committed>>, Asked(p)' = Asked(p),
         tracked'[p] = tracked[p], replies'[p] = replies[p]
  PROVE  RequestsOK(p)'
BY DEF RequestsOK, Unsettled, MayApply, MustRollBack, ApplyRequest, RollbackRequest, update

\* A process answers the first of its requests: with the target as its version, or with
\* the version it had.
LEMMA FirstIsAnswered ==
  ASSUME ReloadInv, NEW p \in Running, UNCHANGED <<update, committed>>, Asked(p) # <<>>,
         Asked(p)' = Tail(Asked(p)), NEW c, c = Head(Asked(p)), NEW r,
         replies' = Answered(p, {c}, r),
         \/ r = "done" /\ tracked'[p] = c.target
         \/ r = "failed" /\ tracked'[p] = tracked[p]
  PROVE  RequestsOK(p)'
<1>1. RequestsOK(p) /\ TypeOK /\ p \in Process
  BY DEF ReloadInv, ProcessesOK, Running
<1>2. Unsettled /\ (MayApply(p) \/ MustRollBack(p)) /\ pc \in {"apply", "dispatchRollback", "rollback", "idle"}
  BY AskedCases
<1>3. old = committed /\ old # cand
  BY <1>2 DEF ReloadInv, VersionsOK
<1>4. Unsettled' /\ pc' = pc /\ status' = status /\ ApplyRequest' = ApplyRequest /\ RollbackRequest' = RollbackRequest
  BY <1>2 DEF Unsettled, update, ApplyRequest, RollbackRequest
<1>5. tracked[p] \in {old, cand}
  BY <1>1, <1>2 DEF RequestsOK
<1>6. replies'[p] = IF replies[p] = "pending" /\ c.phase = pc THEN r ELSE replies[p]
  BY <1>1 DEF Answered, TypeOK
<1>7. CASE Asked(p) = <<ApplyRequest>>
  <2>1. c = ApplyRequest /\ Asked(p)' = <<>> /\ c.phase = "apply" /\ c.target = cand /\ c # RollbackRequest
    BY <1>1, <1>7, RequestsAreCommands
  <2>2. ~MustRollBack(p)
    BY <1>1, <1>7, RequestsAreCommands DEF MustRollBack
  <2> QED  BY <1>1, <1>2, <1>3, <1>4, <1>5, <1>6, <2>1, <2>2 DEF RequestsOK, update
<1>8. CASE Asked(p) = <<RollbackRequest>>
  <2>1. c = RollbackRequest /\ Asked(p)' = <<>> /\ c.phase = "rollback" /\ c.target = old
    BY <1>1, <1>8, RequestsAreCommands
  <2>2. ~MayApply(p)
    BY <1>1, <1>8, RequestsAreCommands DEF MayApply
  <2> QED  BY <1>1, <1>2, <1>3, <1>4, <1>5, <1>6, <2>1, <2>2 DEF RequestsOK, update
<1>9. CASE Asked(p) = <<ApplyRequest, RollbackRequest>>
  <2>1. c = ApplyRequest /\ Asked(p)' = <<RollbackRequest>> /\ c.phase = "apply" /\ c.target = cand
    BY <1>1, <1>9, RequestsAreCommands
  <2>2. ~MayApply(p)
    BY <1>1, <1>9, RequestsAreCommands DEF MayApply
  <2>3. MustRollBack(p)'
    BY <1>4, <2>1 DEF MustRollBack
  <2> QED  BY <1>1, <1>2, <1>3, <1>4, <1>5, <1>6, <2>1, <2>2, <2>3 DEF RequestsOK, update
<1> QED  BY <1>2, <1>7, <1>8, <1>9 DEF MayApply, MustRollBack

\* What a step of process p leaves of the others
Others(p) ==
  \A q \in Process \ {p} :
    /\ doing'[q] = doing[q] /\ queue'[q] = queue[q] /\ signals'[q] = signals[q] /\ replies'[q] = replies[q]
    /\ phase'[q] = phase[q] /\ tracked'[q] = tracked[q] /\ runs'[q] = runs[q]

LEMMA OneProcessSteps ==
  ASSUME ReloadInv, NEW p \in Process, UNCHANGED <<update, committed>>, Others(p), EndedOK(p)',
         phase'[p] = "running" => (RequestsOK(p)' /\ InstanceOK(p)' /\ (pc # "idle" => p \in targets))
  PROVE  ProcessesOK'
<1>1. ASSUME NEW q \in Process PROVE EndedOK(q)'
  <2>1. CASE q = p
    BY <2>1
  <2>2. CASE q # p
    BY <2>2 DEF Others, EndedOK, ReloadInv, ProcessesOK
  <2> QED  BY <2>1, <2>2
<1>2. ASSUME NEW q \in Running' PROVE RequestsOK(q)' /\ InstanceOK(q)'
  <2>1. q \in Process /\ phase'[q] = "running"
    BY DEF Running
  <2>2. CASE q = p
    BY <2>1, <2>2
  <2>3. CASE q # p
    <3>1. q \in Running /\ Asked(q)' = Asked(q) /\ replies'[q] = replies[q] /\ tracked'[q] = tracked[q]
      BY <2>1, <2>3 DEF Others, Running, Asked
    <3>2. RequestsOK(q) /\ InstanceOK(q)
      BY <3>1 DEF ReloadInv, ProcessesOK
    <3>3. RequestsOK(q)'
      BY <3>1, <3>2, RequestsStay
    <3> QED  BY <2>1, <2>3, <3>2, <3>3 DEF Others, InstanceOK
  <2> QED  BY <2>2, <2>3
<1>3. pc' # "idle" => Running' \subseteq targets'
  <2> SUFFICES ASSUME pc # "idle", NEW q \in Running' PROVE q \in targets
    BY DEF update
  <2>1. q \in Process /\ phase'[q] = "running"
    BY DEF Running
  <2>2. q # p => q \in Running
    BY <2>1 DEF Others, Running
  <2> QED  BY <2>1, <2>2 DEF ReloadInv, ProcessesOK
<1>4. pc' = "commit" => status' = "Committed"
  BY DEF ReloadInv, ProcessesOK, update
<1> QED  BY <1>1, <1>2, <1>3, <1>4 DEF ProcessesOK

\* Nothing the registry knows changes.
LEMMA RegistryStays ==
  ASSUME ReloadInv, UNCHANGED <<registry, launch, update, tracked>>, Running' = Running
  PROVE  VersionsOK' /\ MembersOK' /\ NothingHoarded'
<1>2. VersionsOK'
  BY DEF ReloadInv, VersionsOK, Unsettled, registry, update
<1>3. MembersOK'
  <2>1. \A p \in Process : (phase'[p] = "running") <=> (phase[p] = "running")
    BY DEF Running
  <2> QED  BY <2>1 DEF ReloadInv, MembersOK, registry
<1>4. NothingHoarded'
  BY DEF ReloadInv, NothingHoarded, Recent, Needed, registry
<1> QED  BY <1>2, <1>3, <1>4

\* A process has moved or left, and a cleanup followed.
LEMMA RegistryCleaned ==
  ASSUME ReloadInv, UNCHANGED <<next, committed, launch, update>>, TypeOK', MembersOK',
         versions' = Cleaned(versions, committed, members'), \A p \in Running' : tracked'[p] \in versions
  PROVE  VersionsOK' /\ NothingHoarded'
<1>1. /\ versions \in SUBSET Version /\ next \in 1 .. MaxVersion + 1 /\ versions \subseteq 0 .. next - 1 /\ next - 1 \in versions
      /\ committed \in versions
  BY DEF ReloadInv, TypeOK, VersionsOK
<1>2. \A v \in versions : v <= next - 1
  BY <1>1, ReloadAssumption
<1>3. /\ versions' \subseteq versions /\ next - 1 \in versions' /\ committed \in versions'
      /\ \A v \in versions : members'[v] # {} => v \in versions'
      /\ \A v \in versions' : v \in Recent(versions') \/ Needed(v, committed, members')
  <2> DEFINE kept == Cleaned(versions, committed, members')
  <2>1. /\ kept \subseteq versions /\ next - 1 \in kept /\ (committed \in versions => committed \in kept)
        /\ \A v \in versions : members'[v] # {} => v \in kept
        /\ \A v \in kept : v \in Recent(kept) \/ Needed(v, committed, members')
    BY <1>1, <1>2, CleanedKeeps
  <2> HIDE DEF kept
  <2>2. versions' = kept
    BY DEF kept
  <2> QED  BY <1>1, <2>1, <2>2
<1>4. ASSUME NEW p \in Running' PROVE tracked'[p] \in versions'
  <2>1. p \in Process /\ phase'[p] = "running" /\ tracked'[p] \in versions
    BY DEF Running
  <2>2. tracked'[p] \in Version
    BY <1>1, <2>1
  <2>3. p \in members'[tracked'[p]]
    BY <2>1, <2>2 DEF MembersOK
  <2> QED  BY <1>3, <2>1, <2>3
<1>5. VersionsOK'
  BY <1>1, <1>3, <1>4 DEF ReloadInv, VersionsOK, Unsettled, update
<1>6. NothingHoarded'
  BY <1>3 DEF NothingHoarded, Recent, Needed
<1> QED  BY <1>5, <1>6

-----------------------------------------------------------------------------
(* The steps of a process. *)

LEMMA ReloadTakeSignal ==
  ASSUME ReloadInv, NEW p \in Process, TakeSignal(p)
  PROVE  ReloadInv'
<1>1. TypeOK /\ p \in Running /\ signals[p] # <<>>
  BY DEF ReloadInv, TakeSignal, Running
<1>2. queue[p] \in Seq(Command) /\ signals[p] \in Seq(Command) /\ doing[p] \in Command \cup {None}
  BY <1>1 DEF TypeOK
<1>3. /\ signals' = [signals EXCEPT ![p] = Tail(@)] /\ queue' = [queue EXCEPT ![p] = Append(@, Head(signals[p]))]
      /\ UNCHANGED <<registry, launch, update, replies, phase, tracked, runs, doing>>
  BY DEF TakeSignal, AnsweredBySignalLoop
<1>4. Head(signals[p]) \in Command /\ Tail(signals[p]) \in Seq(Command) /\ Append(queue[p], Head(signals[p])) \in Seq(Command)
  BY <1>1, <1>2, HeadThenTail
<1>5. TypeOK'
  BY <1>1, <1>3, <1>4 DEF TypeOK, registry, update
<1>6. Asked(p)' = Asked(p)
  <2>1. signals'[p] = Tail(signals[p]) /\ queue'[p] = Append(queue[p], Head(signals[p])) /\ doing'[p] = doing[p]
    BY <1>1, <1>3 DEF TypeOK
  <2>2. queue'[p] \o signals'[p] = queue[p] \o signals[p]
    BY <1>1, <1>2, <2>1, HeadMoves
  <2>3. CASE doing[p] = None
    <3>1. Asked(p) = queue[p] \o signals[p] /\ Asked(p)' = queue'[p] \o signals'[p]
      BY <1>1, <1>5, <2>1, <2>3, AskedIsSequence, AskedAfter
    <3> QED  BY <2>2, <3>1
  <2>4. CASE doing[p] # None
    <3>1. /\ Asked(p) \in Seq(Command) /\ Asked(p) # <<>> /\ Head(Asked(p)) = doing[p] /\ Tail(Asked(p)) = queue[p] \o signals[p]
          /\ Asked(p)' \in Seq(Command) /\ Asked(p)' # <<>> /\ Head(Asked(p)') = doing[p] /\ Tail(Asked(p)') = queue'[p] \o signals'[p]
      BY <1>1, <1>5, <2>1, <2>4, AskedIsSequence, AskedAfter
    <3>2. Asked(p) = <<Head(Asked(p))>> \o Tail(Asked(p)) /\ Asked(p)' = <<Head(Asked(p)')>> \o Tail(Asked(p)')
      BY <3>1, HeadThenTail
    <3> QED  BY <2>2, <3>1, <3>2
  <2> QED  BY <2>3, <2>4
<1>7. RequestsOK(p)'
  BY <1>1, <1>3, <1>6, RequestsStay DEF ReloadInv, ProcessesOK, registry
<1>8. InstanceOK(p)'
  BY <1>1, <1>3 DEF ReloadInv, ProcessesOK, InstanceOK
<1>9. EndedOK(p)' /\ Others(p)
  BY <1>1, <1>3 DEF EndedOK, Others, TypeOK, Running
<1>10. pc # "idle" => p \in targets
  BY <1>1 DEF ReloadInv, ProcessesOK
<1>11. ProcessesOK'
  BY <1>3, <1>7, <1>8, <1>9, <1>10, OneProcessSteps DEF registry
<1>12. VersionsOK' /\ MembersOK' /\ NothingHoarded'
  BY <1>3, RegistryStays DEF Running
<1> QED  BY <1>5, <1>11, <1>12 DEF ReloadInv

LEMMA ReloadDriverTakes ==
  ASSUME ReloadInv, NEW p \in Process, DriverTakes(p)
  PROVE  ReloadInv'
<1> DEFINE c == Head(queue[p])
<1>1. TypeOK /\ p \in Running /\ queue[p] # <<>> /\ doing[p] = None
  BY DEF ReloadInv, DriverTakes, Running
<1>2. queue[p] \in Seq(Command) /\ signals[p] \in Seq(Command)
  BY <1>1 DEF TypeOK
<1>3. /\ queue' = [queue EXCEPT ![p] = Tail(@)]
      /\ UNCHANGED <<registry, launch, update, phase, tracked, runs, signals>>
  BY DEF DriverTakes
<1>4. c \in Command /\ Tail(queue[p]) \in Seq(Command)
  BY <1>1, <1>2, HeadThenTail
<1>5. /\ Asked(p) = queue[p] \o signals[p] /\ Asked(p) # <<>> /\ Head(Asked(p)) = c /\ Tail(Asked(p)) = Tail(queue[p]) \o signals[p]
      /\ Asked(p) \in Seq(Command)
  <2>1. Asked(p) = queue[p] \o signals[p] /\ Asked(p) \in Seq(Command)
    BY <1>1, AskedIsSequence
  <2>2. /\ queue[p] \o signals[p] # <<>> /\ Head(queue[p] \o signals[p]) = Head(queue[p])
        /\ Tail(queue[p] \o signals[p]) = Tail(queue[p]) \o signals[p]
    <3>1. \A q \in Seq(Command), s \in Seq(Command) :
            q # <<>> => q \o s # <<>> /\ Head(q \o s) = Head(q) /\ Tail(q \o s) = Tail(q) \o s
      BY JoinedQueues
    <3> QED  BY <1>1, <1>2, <3>1, Zenon
  <2> QED  BY <2>1, <2>2
<1>6. EndedOK(p)' /\ (pc # "idle" => p \in targets) /\ InstanceOK(p)
  BY <1>1, <1>3 DEF EndedOK, ReloadInv, ProcessesOK, Running
<1>7. VersionsOK' /\ MembersOK' /\ NothingHoarded'
  BY <1>3, RegistryStays DEF Running
<1> HIDE DEF c
<1>8. CASE /\ doing' = doing
           /\ \E r \in {"done", "failed"} : /\ replies' = Answered(p, {c}, r)
                                            /\ r = "done" => TargetReached(p, c)
  <2>1. PICK r \in {"done", "failed"} : replies' = Answered(p, {c}, r) /\ (r = "done" => TargetReached(p, c))
    BY <1>8
  <2>2. TypeOK'
    BY <1>1, <1>3, <1>4, <1>8, <2>1 DEF TypeOK, registry, update, Answered
  <2>3. queue'[p] = Tail(queue[p]) /\ signals'[p] = signals[p] /\ doing'[p] = None
    BY <1>1, <1>3, <1>8 DEF TypeOK
  <2>4. Asked(p)' = Tail(Asked(p))
    BY <1>5, <2>2, <2>3, AskedAfter
  <2>5. RequestsOK(p)'
    BY <1>1, <1>3, <1>5, <2>1, <2>4, FirstIsAnswered DEF registry, TargetReached
  <2>6. InstanceOK(p)'
    BY <1>1, <1>3, <1>6 DEF InstanceOK
  <2>7. Others(p)
    BY <1>1, <1>3, <1>8, <2>1 DEF Others, TypeOK, Answered
  <2>8. ProcessesOK'
    BY <1>3, <1>6, <2>5, <2>6, <2>7, OneProcessSteps DEF registry
  <2> QED  BY <1>7, <2>2, <2>8 DEF ReloadInv
<1>9. CASE doing' = [doing EXCEPT ![p] = c] /\ replies' = replies
  <2>1. TypeOK'
    BY <1>1, <1>3, <1>4, <1>9 DEF TypeOK, registry, update
  <2>2. queue'[p] = Tail(queue[p]) /\ signals'[p] = signals[p] /\ doing'[p] = c /\ c # None
    BY <1>1, <1>3, <1>4, <1>9 DEF TypeOK, Command, None
  <2>3. Asked(p)' \in Seq(Command) /\ Asked(p)' # <<>> /\ Head(Asked(p)') = c /\ Tail(Asked(p)') = Tail(Asked(p))
    BY <1>5, <2>1, <2>2, AskedAfter
  <2>4. Asked(p) = <<Head(Asked(p))>> \o Tail(Asked(p)) /\ Asked(p)' = <<Head(Asked(p)')>> \o Tail(Asked(p)')
    BY <1>5, <2>3, HeadThenTail
  <2>5. Asked(p)' = Asked(p)
    BY <1>5, <2>3, <2>4
  <2>6. RequestsOK(p)'
    BY <1>1, <1>3, <1>9, <2>5, RequestsStay DEF ReloadInv, ProcessesOK, registry
  <2>7. InstanceOK(p)'
    BY <1>1, <1>3, <1>6 DEF InstanceOK
  <2>8. Others(p)
    BY <1>1, <1>3, <1>9 DEF Others, TypeOK
  <2>9. ProcessesOK'
    BY <1>3, <1>6, <2>6, <2>7, <2>8, OneProcessSteps DEF registry
  <2> QED  BY <1>7, <2>1, <2>9 DEF ReloadInv
<1> QED  BY <1>8, <1>9 DEF DriverTakes, Answer, c

\* Who executes a request runs, and the request is the first of those it has.
LEMMA Executing ==
  ASSUME ReloadInv, NEW p \in Process, doing[p] # None
  PROVE  /\ TypeOK /\ p \in Running /\ (pc # "idle" => p \in targets) /\ InstanceOK(p)
         /\ Asked(p) \in Seq(Command) /\ Asked(p) # <<>> /\ Head(Asked(p)) = doing[p] /\ Tail(Asked(p)) = queue[p] \o signals[p]
         /\ doing[p] \in {ApplyRequest, RollbackRequest} /\ doing[p].target \in {old, cand} /\ Unsettled
<1>1. TypeOK /\ p \in Running
  BY DEF ReloadInv, ProcessesOK, EndedOK, Running
<1>2. (pc # "idle" => p \in targets) /\ InstanceOK(p)
  BY <1>1 DEF ReloadInv, ProcessesOK
<1>3. Asked(p) \in Seq(Command) /\ Asked(p) # <<>> /\ Head(Asked(p)) = doing[p] /\ Tail(Asked(p)) = queue[p] \o signals[p]
  BY <1>1, AskedIsSequence
<1>4. doing[p] \in {ApplyRequest, RollbackRequest} /\ Unsettled
  BY <1>1, <1>3, AskedCases
<1>5. doing[p].target \in {old, cand}
  BY <1>1, <1>4, RequestsAreCommands
<1> QED  BY <1>1, <1>2, <1>3, <1>4, <1>5

LEMMA ReloadSwap ==
  ASSUME ReloadInv, NEW p \in Process, Swap(p)
  PROVE  ReloadInv'
<1>1. TypeOK /\ p \in Running /\ (pc # "idle" => p \in targets) /\ doing[p] # None /\ doing[p].target \in versions
  BY Executing DEF Swap
<1>2. /\ runs' = [runs EXCEPT ![p] = doing[p].target]
      /\ UNCHANGED <<registry, launch, update, replies, phase, tracked, signals, queue, doing>>
  BY DEF Swap
<1>3. TypeOK'
  BY <1>1, <1>2 DEF TypeOK, registry, update
<1>4. Asked(p)' = Asked(p)
  BY <1>2 DEF Asked
<1>5. RequestsOK(p)'
  BY <1>1, <1>2, <1>4, RequestsStay DEF ReloadInv, ProcessesOK, registry
<1>6. InstanceOK(p)' /\ EndedOK(p)' /\ Others(p)
  BY <1>1, <1>2 DEF InstanceOK, EndedOK, Others, TypeOK, Running
<1>7. ProcessesOK'
  BY <1>1, <1>2, <1>5, <1>6, OneProcessSteps DEF registry
<1>8. VersionsOK' /\ MembersOK' /\ NothingHoarded'
  BY <1>2, RegistryStays DEF Running
<1> QED  BY <1>3, <1>7, <1>8 DEF ReloadInv

\* The requests of a process whose driver is done with the one it executed
LEMMA DoneWithRequest ==
  ASSUME ReloadInv, NEW p \in Process, doing[p] # None, TypeOK',
         doing' = [doing EXCEPT ![p] = None], UNCHANGED <<queue, signals>>
  PROVE  Asked(p)' = Tail(Asked(p))
<1>1. doing'[p] = None /\ queue'[p] = queue[p] /\ signals'[p] = signals[p]
  BY DEF ReloadInv, TypeOK
<1> QED  BY <1>1, Executing, AskedAfter

LEMMA ReloadReloadFails ==
  ASSUME ReloadInv, NEW p \in Process, ReloadFails(p)
  PROVE  ReloadInv'
<1>1. /\ TypeOK /\ p \in Running /\ (pc # "idle" => p \in targets) /\ doing[p] # None
      /\ Asked(p) # <<>> /\ Head(Asked(p)) = doing[p] /\ runs[p] = tracked[p]
  BY Executing DEF ReloadFails
<1>2. /\ replies' = Answered(p, {doing[p]}, "failed") /\ doing' = [doing EXCEPT ![p] = None]
      /\ UNCHANGED <<registry, launch, update, phase, tracked, runs, signals, queue>>
  BY DEF ReloadFails, Answer
<1>3. TypeOK'
  BY <1>1, <1>2 DEF TypeOK, registry, update, Answered
<1>4. Asked(p)' = Tail(Asked(p))
  BY <1>1, <1>2, <1>3, DoneWithRequest
<1>5. RequestsOK(p)'
  BY <1>1, <1>2, <1>4, FirstIsAnswered DEF registry
<1>6. InstanceOK(p)' /\ EndedOK(p)'
  BY <1>1, <1>2 DEF InstanceOK, EndedOK, TypeOK, Running
<1>7. Others(p)
  BY <1>1, <1>2 DEF Others, TypeOK, Answered
<1>8. ProcessesOK'
  BY <1>1, <1>2, <1>5, <1>6, <1>7, OneProcessSteps DEF registry
<1>9. VersionsOK' /\ MembersOK' /\ NothingHoarded'
  BY <1>2, RegistryStays DEF Running
<1> QED  BY <1>3, <1>8, <1>9 DEF ReloadInv

LEMMA ReloadAccount ==
  ASSUME ReloadInv, NEW p \in Process, Account(p)
  PROVE  ReloadInv'
<1> DEFINE v == doing[p].target
           ms == [Left(p) EXCEPT ![v] = @ \cup {p}]
<1>1. /\ TypeOK /\ p \in Running /\ (pc # "idle" => p \in targets) /\ doing[p] # None
      /\ Asked(p) # <<>> /\ Head(Asked(p)) = doing[p] /\ runs[p] = v /\ v \in versions
  BY Executing DEF Account
<1>2. /\ members' = ms /\ versions' = Cleaned(versions, committed, ms) /\ tracked' = [tracked EXCEPT ![p] = v]
      /\ replies' = Answered(p, {doing[p]}, "done") /\ doing' = [doing EXCEPT ![p] = None]
      /\ UNCHANGED <<next, committed, launch, update, phase, runs, signals, queue>>
  BY DEF Account, Answer, Tracks, AfterChange
<1>3. v \in Version /\ Left(p) \in [Version -> SUBSET Process] /\ ms \in [Version -> SUBSET Process]
  BY <1>1 DEF TypeOK, Left
<1>4. ASSUME NEW q \in Process, NEW w \in Version
      PROVE  (q \in ms[w]) <=> IF q = p THEN w = v ELSE q \in members[w]
  BY <1>3 DEF Left
<1> HIDE DEF ms, v
<1>5. TypeOK'
  <2>1. replies' = replies \/ replies' = [replies EXCEPT ![p] = "done"]
    BY <1>2 DEF Answered
  <2>2. versions' \subseteq versions
    BY <1>2 DEF Cleaned
  <2> QED  BY <1>1, <1>2, <1>3, <2>1, <2>2 DEF TypeOK, update
<1>6. Asked(p)' = Tail(Asked(p))
  BY <1>1, <1>2, <1>5, DoneWithRequest
<1>7. tracked'[p] = v /\ \A q \in Process \ {p} : tracked'[q] = tracked[q]
  BY <1>1, <1>2 DEF TypeOK
<1>8. RequestsOK(p)'
  BY <1>1, <1>2, <1>6, <1>7, FirstIsAnswered DEF v
<1>9. InstanceOK(p)' /\ EndedOK(p)'
  BY <1>1, <1>2, <1>7 DEF InstanceOK, EndedOK, TypeOK, Running
<1>10. Others(p)
  BY <1>1, <1>2 DEF Others, TypeOK, Answered
<1>11. ProcessesOK'
  BY <1>1, <1>2, <1>8, <1>9, <1>10, OneProcessSteps
<1>12. MembersOK'
  <2> SUFFICES ASSUME NEW q \in Process, NEW w \in Version
               PROVE  (q \in members'[w]) <=> (phase'[q] = "running" /\ tracked'[q] = w)
    BY DEF MembersOK
  <2>1. (q \in members[w]) <=> (phase[q] = "running" /\ tracked[q] = w)
    BY DEF ReloadInv, MembersOK
  <2> QED  BY <1>1, <1>2, <1>4, <1>7, <2>1 DEF Running
<1>13. ASSUME NEW q \in Running' PROVE tracked'[q] \in versions
  BY <1>1, <1>2, <1>7 DEF ReloadInv, VersionsOK, Running
<1>14. VersionsOK' /\ NothingHoarded'
  BY <1>2, <1>5, <1>12, <1>13, RegistryCleaned
<1> QED  BY <1>5, <1>11, <1>12, <1>14 DEF ReloadInv

LEMMA ReloadStop ==
  ASSUME ReloadInv, NEW p \in Process, Stop(p)
  PROVE  ReloadInv'
<1>1. TypeOK /\ p \in Running
  BY DEF ReloadInv, Stop, Running
<1>2. /\ phase' = [phase EXCEPT ![p] = "stopped"] /\ queue' = [queue EXCEPT ![p] = <<>>] /\ doing' = [doing EXCEPT ![p] = None]
      /\ members' = Left(p) /\ versions' = Cleaned(versions, committed, Left(p))
      /\ replies' = Answered(p, Elements(queue[p]) \cup {doing[p]}, "closed")
      /\ UNCHANGED <<next, committed, launch, update, tracked, runs, signals>>
  BY DEF Stop, AfterChange
<1>3. Left(p) \in [Version -> SUBSET Process]
  BY <1>1 DEF TypeOK, Left
<1>4. replies' = replies \/ replies' = [replies EXCEPT ![p] = "closed"]
  BY <1>2 DEF Answered
<1>5. TypeOK'
  <2>1. versions' \subseteq versions
    BY <1>2 DEF Cleaned
  <2>2. queue' \in [Process -> Seq(Command)] /\ doing' \in [Process -> Command \cup {None}]
    BY <1>1, <1>2 DEF TypeOK
  <2>3. replies' \in [Process -> {"none", "pending", "closed", "failed", "done"}]
    BY <1>1, <1>4 DEF TypeOK
  <2>4. phase' \in [Process -> {"running", "stopped", "gone"}]
    BY <1>1, <1>2 DEF TypeOK
  <2> QED  BY <1>1, <1>2, <1>3, <2>1, <2>2, <2>3, <2>4 DEF TypeOK, update
<1>6. phase'[p] = "stopped" /\ queue'[p] = <<>> /\ doing'[p] = None
  BY <1>1, <1>2 DEF TypeOK
<1>7. EndedOK(p)'
  BY <1>6 DEF EndedOK
<1>8. Others(p)
  BY <1>1, <1>2, <1>4 DEF Others, TypeOK
<1>9. ProcessesOK'
  BY <1>2, <1>6, <1>7, <1>8, OneProcessSteps
<1>10. MembersOK'
  <2> SUFFICES ASSUME NEW q \in Process, NEW w \in Version
               PROVE  (q \in members'[w]) <=> (phase'[q] = "running" /\ tracked'[q] = w)
    BY DEF MembersOK
  <2>1. (q \in members[w]) <=> (phase[q] = "running" /\ tracked[q] = w)
    BY DEF ReloadInv, MembersOK
  <2>2. (q \in members'[w]) <=> (q \in members[w] /\ q # p)
    BY <1>2 DEF Left
  <2> QED  BY <1>2, <1>6, <1>8, <2>1, <2>2 DEF Others
<1>11. ASSUME NEW q \in Running' PROVE tracked'[q] \in versions
  <2>1. q \in Running
    BY <1>6, <1>8 DEF Running, Others
  <2> QED  BY <1>2, <2>1 DEF ReloadInv, VersionsOK
<1>12. VersionsOK' /\ NothingHoarded'
  BY <1>2, <1>5, <1>10, <1>11, RegistryCleaned
<1> QED  BY <1>5, <1>9, <1>10, <1>12 DEF ReloadInv

LEMMA ReloadLeave ==
  ASSUME ReloadInv, NEW p \in Process, Leave(p)
  PROVE  ReloadInv'
<1>1. TypeOK /\ phase[p] = "stopped" /\ queue[p] = <<>> /\ doing[p] = None
  BY DEF ReloadInv, ProcessesOK, EndedOK, Leave
<1>2. /\ phase' = [phase EXCEPT ![p] = "gone"] /\ signals' = [signals EXCEPT ![p] = <<>>]
      /\ replies' = Answered(p, Elements(signals[p]), "closed")
      /\ UNCHANGED <<registry, launch, update, tracked, runs, queue, doing>>
  BY DEF Leave
<1>3. replies' = replies \/ replies' = [replies EXCEPT ![p] = "closed"]
  BY <1>2 DEF Answered
<1>4. TypeOK'
  BY <1>1, <1>2, <1>3 DEF TypeOK, update, registry
<1>5. phase'[p] = "gone" /\ signals'[p] = <<>> /\ EndedOK(p)'
  BY <1>1, <1>2 DEF TypeOK, EndedOK
<1>6. Others(p)
  BY <1>1, <1>2, <1>3 DEF Others, TypeOK
<1>7. ProcessesOK'
  BY <1>2, <1>5, <1>6, OneProcessSteps DEF registry
<1>8. Running' = Running
  BY <1>1, <1>5, <1>6 DEF Running, Others
<1>9. VersionsOK' /\ MembersOK' /\ NothingHoarded'
  BY <1>2, <1>8, RegistryStays
<1> QED  BY <1>4, <1>7, <1>9 DEF ReloadInv

LEMMA ReloadLaunch ==
  ASSUME ReloadInv, NEW p \in Process, Launch(p)
  PROVE  ReloadInv'
<1>1. TypeOK /\ pc = "idle" /\ phase[p] = "gone" /\ launch \in versions /\ launch \in Version /\ launch = committed
  BY DEF ReloadInv, TypeOK, VersionsOK, Launch
<1>2. queue[p] = <<>> /\ signals[p] = <<>> /\ doing[p] = None
  BY <1>1 DEF ReloadInv, ProcessesOK, EndedOK
<1>3. /\ members' = [members EXCEPT ![launch] = @ \cup {p}] /\ tracked' = [tracked EXCEPT ![p] = launch]
      /\ runs' = [runs EXCEPT ![p] = launch] /\ phase' = [phase EXCEPT ![p] = "running"]
      /\ UNCHANGED <<versions, next, committed, launch, update, replies, signals, queue, doing>>
  BY DEF Launch, Joined, Tracks
<1>4. TypeOK'
  BY <1>1, <1>3 DEF TypeOK, update
<1>5. tracked'[p] = committed /\ runs'[p] = committed /\ phase'[p] = "running"
  BY <1>1, <1>3 DEF TypeOK
<1>6. Others(p)
  BY <1>1, <1>3 DEF Others, TypeOK
<1>7. Asked(p)' = <<>>
  <2>1. doing'[p] = None /\ queue'[p] = <<>> /\ signals'[p] = <<>>
    BY <1>2, <1>3
  <2>2. Asked(p)' = <<>> \o <<>>
    BY <1>4, <2>1, AskedAfter
  <2> QED  BY <2>2
<1>8. RequestsOK(p)'
  <2>1. Unsettled => old = committed
    BY DEF ReloadInv, VersionsOK
  <2>2. pc' = "idle" /\ (Unsettled' <=> Unsettled) /\ committed' = committed /\ old' = old
    BY <1>1, <1>3 DEF Unsettled, update
  <2> QED  BY <1>5, <1>7, <2>1, <2>2 DEF RequestsOK
<1>9. InstanceOK(p)' /\ EndedOK(p)'
  BY <1>5 DEF InstanceOK, EndedOK
<1>10. ProcessesOK'
  BY <1>1, <1>3, <1>6, <1>8, <1>9, OneProcessSteps
<1>11. MembersOK'
  <2> SUFFICES ASSUME NEW q \in Process, NEW w \in Version
               PROVE  (q \in members'[w]) <=> (phase'[q] = "running" /\ tracked'[q] = w)
    BY DEF MembersOK
  <2>1. (q \in members[w]) <=> (phase[q] = "running" /\ tracked[q] = w)
    BY DEF ReloadInv, MembersOK
  <2>2. (q \in members'[w]) <=> (q \in members[w] \/ (q = p /\ w = launch))
    BY <1>1, <1>3 DEF TypeOK
  <2> QED  BY <1>1, <1>5, <1>6, <2>1, <2>2 DEF Others
<1>12. VersionsOK'
  <2>1. ASSUME NEW q \in Running' PROVE tracked'[q] \in versions
    <3>1. q \in Process /\ phase'[q] = "running"
      BY DEF Running
    <3>2. CASE q = p
      BY <1>1, <1>5, <3>2
    <3>3. CASE q # p
      BY <1>6, <3>1, <3>3 DEF Others, Running, ReloadInv, VersionsOK
    <3> QED  BY <3>2, <3>3
  <2> QED  BY <1>3, <2>1 DEF ReloadInv, VersionsOK, Unsettled, update
<1>13. NothingHoarded'
  <2>1. \A v \in versions : members[v] # {} => members'[v] # {}
    BY <1>1, <1>3 DEF TypeOK
  <2>2. versions' = versions /\ committed' = committed
    BY <1>3
  <2> QED  BY <2>1, <2>2 DEF ReloadInv, NothingHoarded, Needed, Recent
<1> QED  BY <1>4, <1>10, <1>11, <1>12, <1>13 DEF ReloadInv

-----------------------------------------------------------------------------
(* The steps of the coordinator. *)

LEMMA ReloadBeginUpdate ==
  ASSUME ReloadInv, BeginUpdate
  PROVE  ReloadInv'
<1> DEFINE vs == versions \cup {next}
<1>1. TypeOK /\ pc = "idle" /\ status # "InDoubt" /\ ~Unsettled /\ next <= MaxVersion
  BY DEF ReloadInv, BeginUpdate, blocks_new_operation, Unsettled
<1>2. /\ old' = committed /\ cand' = next /\ next' = next + 1 /\ targets' = processes_for_module /\ status' = "Applying" /\ pc' = "dispatchApply"
      /\ versions' = IF Cardinality(vs) > max_versions THEN Cleaned(vs, committed, members) ELSE vs
      /\ UNCHANGED <<committed, members, launch, replies, phase, tracked, runs, signals, queue, doing>>
  BY DEF BeginUpdate
<1>3. /\ next \in 1 .. MaxVersion /\ next \in Version /\ next + 1 \in 1 .. MaxVersion + 1 /\ vs \in SUBSET Version
      /\ versions \subseteq 0 .. next - 1 /\ committed \in versions /\ vs \subseteq 0 .. next
  BY <1>1, ReloadAssumption DEF ReloadInv, TypeOK, Version, VersionsOK
<1>4. (\A v \in vs : v <= next) /\ next \in vs /\ committed \in vs /\ committed # next
  BY <1>3, ReloadAssumption
<1> HIDE DEF vs
<1>5. /\ versions' \subseteq vs /\ next \in versions' /\ committed \in versions'
      /\ \A v \in vs : members[v] # {} => v \in versions'
      /\ \A v \in versions' : v \in Recent(versions') \/ Needed(v, committed, members)
  <2>1. CASE Cardinality(vs) > max_versions
    <3> DEFINE kept == Cleaned(vs, committed, members)
    <3>1. /\ kept \subseteq vs /\ next \in kept /\ (committed \in vs => committed \in kept)
          /\ \A v \in vs : members[v] # {} => v \in kept
          /\ \A v \in kept : v \in Recent(kept) \/ Needed(v, committed, members)
      BY <1>3, <1>4, CleanedKeeps
    <3> HIDE DEF kept
    <3>2. versions' = kept
      BY <1>2, <2>1 DEF kept
    <3> QED  BY <1>4, <3>1, <3>2
  <2>2. CASE ~(Cardinality(vs) > max_versions)
    <3>1. versions' = vs
      BY <1>2, <2>2
    <3>2. IsFiniteSet(vs) /\ \A v \in vs : v \in Nat
      BY <1>3, VersionsFinite
    <3>3. ASSUME NEW v \in vs PROVE v \in Recent(vs)
      <4> DEFINE later == {w \in vs : w > v}
      <4>1. later \subseteq vs \ {v} /\ vs \ {v} \subseteq vs
        BY <3>2
      <4>2. IsFiniteSet(vs \ {v}) /\ Cardinality(vs \ {v}) = Cardinality(vs) - 1 /\ Cardinality(vs) \in Nat
        BY <3>2, FS_RemoveElement, FS_CardinalityType
      <4>3. Cardinality(later) <= Cardinality(vs \ {v}) /\ Cardinality(later) \in Nat
        BY <4>1, <4>2, FS_Subset, FS_CardinalityType
      <4>4. Cardinality(later) < max_versions
        BY <2>2, <4>2, <4>3 DEF max_versions
      <4> QED  BY <4>4 DEF Recent
    <3> QED  BY <1>4, <3>1, <3>3
  <2> QED  BY <2>1, <2>2
<1>6. processes_for_module \in SUBSET Process /\ Running \subseteq processes_for_module
  <2>1. processes_for_module \in SUBSET Process
    BY <1>1 DEF processes_for_module, TypeOK
  <2>2. ASSUME NEW p \in Running PROVE p \in processes_for_module
    <3>1. p \in Process /\ phase[p] = "running" /\ tracked[p] \in versions /\ tracked[p] \in Version
      BY <1>1 DEF Running, ReloadInv, VersionsOK, TypeOK
    <3>2. p \in members[tracked[p]]
      BY <3>1 DEF ReloadInv, MembersOK
    <3> QED  BY <3>1, <3>2 DEF processes_for_module
  <2> QED  BY <2>1, <2>2
<1>7. TypeOK'
  BY <1>1, <1>2, <1>3, <1>5, <1>6 DEF TypeOK
<1>8. Running' = Running /\ MembersOK'
  BY <1>2 DEF Running, ReloadInv, MembersOK
<1>9. VersionsOK'
  <2>1. next' - 1 = next /\ versions' \subseteq 0 .. next' - 1
    <3>1. next' = next + 1 /\ next \in Int
      BY <1>2, <1>3
    <3>2. next' - 1 = next
      BY <3>1
    <3> QED  BY <1>3, <1>5, <3>2
  <2>2. ASSUME NEW p \in Running' PROVE tracked'[p] \in versions'
    <3>1. p \in Process /\ phase[p] = "running" /\ tracked[p] \in versions /\ tracked[p] \in Version
      BY <1>1, <1>8 DEF Running, ReloadInv, VersionsOK, TypeOK
    <3>2. p \in members[tracked[p]]
      BY <3>1 DEF ReloadInv, MembersOK
    <3>3. tracked[p] \in vs
      BY <3>1 DEF vs
    <3> QED  BY <1>2, <1>5, <3>2, <3>3
  <2>3. launch' = committed'
    BY <1>2 DEF ReloadInv, VersionsOK
  <2> QED  BY <1>2, <1>4, <1>5, <2>1, <2>2, <2>3 DEF VersionsOK
<1>10. NothingHoarded'
  BY <1>2, <1>5 DEF NothingHoarded, Recent, Needed
<1>11. ASSUME NEW p \in Running' PROVE RequestsOK(p)' /\ InstanceOK(p)'
  <2>1. RequestsOK(p) /\ InstanceOK(p)
    BY <1>8 DEF ReloadInv, ProcessesOK
  <2>2. Asked(p)' = Asked(p)
    BY <1>2 DEF Asked
  <2>3. Asked(p) = <<>> /\ tracked[p] = committed
    BY <1>1, <2>1 DEF RequestsOK
  <2>4. RequestsOK(p)'
    BY <1>2, <2>2, <2>3 DEF RequestsOK, Unsettled
  <2> QED  BY <1>2, <2>1, <2>4 DEF InstanceOK
<1>12. ProcessesOK'
  BY <1>2, <1>6, <1>8, <1>11 DEF ReloadInv, ProcessesOK, EndedOK
<1> QED  BY <1>7, <1>8, <1>9, <1>10, <1>12 DEF ReloadInv

\* A request goes behind those a process has.
LEMMA RequestSent ==
  ASSUME ReloadInv, NEW c \in Command, NEW reached \in Reachable, Send(reached, c), UNCHANGED <<queue, doing>>
  PROVE  /\ signals' \in [Process -> Seq(Command)] /\ replies' \in [Process -> {"none", "pending", "closed", "failed", "done"}]
         /\ \A p \in reached : p \in targets /\ phase[p] # "gone"
         /\ \A p \in Process : /\ Asked(p)' = IF p \in reached THEN Append(Asked(p), c) ELSE Asked(p)
                               /\ p \in reached => replies'[p] = "pending"
                               /\ p \notin reached => (signals'[p] = signals[p] /\ replies'[p] \in {"closed", "none"})
<1>1. TypeOK /\ \A p \in reached : p \in targets /\ phase[p] # "gone"
  BY DEF ReloadInv, Reachable
<1>2. /\ signals' = [p \in Process |-> IF p \in reached THEN Append(signals[p], c) ELSE signals[p]]
      /\ replies' = [p \in Process |-> IF p \in reached THEN "pending"
                                       ELSE IF p \in targets THEN "closed" ELSE "none"]
  BY DEF Send
<1>3. ASSUME NEW p \in Process
      PROVE  /\ signals'[p] \in Seq(Command) /\ doing[p] \in Command \cup {None} /\ queue[p] \in Seq(Command) /\ signals[p] \in Seq(Command)
             /\ p \in reached => signals'[p] = Append(signals[p], c)
             /\ p \notin reached => signals'[p] = signals[p]
  BY <1>1, <1>2, AppendProperties DEF TypeOK
<1>4. ASSUME NEW p \in Process
      PROVE  Asked(p)' = IF p \in reached THEN Append(Asked(p), c) ELSE Asked(p)
  <2>1. CASE p \in reached
    <3> DEFINE first == (IF doing[p] = None THEN <<>> ELSE <<doing[p]>>) \o queue[p]
    <3>1. first \in Seq(Command)
      <4>1. (IF doing[p] = None THEN <<>> ELSE <<doing[p]>>) \in Seq(Command)
        BY <1>3
      <4> QED  BY <1>3, <4>1, ConcatProperties
    <3>2. Asked(p) = first \o signals[p] /\ Asked(p)' = first \o Append(signals[p], c)
      BY <1>3, <2>1 DEF Asked, InOrder
    <3> HIDE DEF first
    <3>3. Append(first \o signals[p], c) = first \o Append(signals[p], c)
      <4>1. \A q \in Seq(Command), s \in Seq(Command), d \in Command : Append(q \o s, d) = q \o Append(s, d)
        BY AppendToJoined
      <4> QED  BY <1>3, <3>1, <4>1, Zenon
    <3> QED  BY <2>1, <3>2, <3>3
  <2>2. CASE p \notin reached
    BY <1>3, <2>2 DEF Asked
  <2> QED  BY <2>1, <2>2
<1> QED  BY <1>1, <1>2, <1>3, <1>4

\* What a step of the coordinator that leaves the registry and the processes alone shows
LEMMA CoordinatorSteps ==
  ASSUME ReloadInv, TypeOK', UNCHANGED <<registry, launch, old, cand, targets, phase, tracked, runs, queue, doing>>,
         pc # "idle",
         \A p \in Process : phase[p] = "gone" => signals'[p] = signals[p],
         \A p \in Running : RequestsOK(p)',
         pc' = "commit" => status' = "Committed"
  PROVE  ReloadInv'
<1>1. Running' = Running /\ Unsettled
  BY DEF Running, Unsettled
<1>2. VersionsOK'
  BY <1>1 DEF ReloadInv, VersionsOK, registry
<1>3. MembersOK'
  BY DEF ReloadInv, MembersOK, registry
<1>4. NothingHoarded'
  BY DEF ReloadInv, NothingHoarded, Recent, Needed, registry
<1>5. ProcessesOK'
  BY <1>1 DEF ReloadInv, ProcessesOK, EndedOK, InstanceOK
<1> QED  BY <1>2, <1>3, <1>4, <1>5 DEF ReloadInv

LEMMA ReloadDispatchApply ==
  ASSUME ReloadInv, NEW reached, DispatchApply(reached)
  PROVE  ReloadInv'
<1>1. /\ TypeOK /\ pc = "dispatchApply" /\ reached \in Reachable /\ Send(reached, ApplyRequest) /\ pc' = "apply"
      /\ UNCHANGED <<registry, launch, status, old, cand, targets, phase, tracked, runs, queue, doing>>
  BY DEF ReloadInv, DispatchApply, ApplyRequest
<1>2. /\ signals' \in [Process -> Seq(Command)] /\ replies' \in [Process -> {"none", "pending", "closed", "failed", "done"}]
      /\ \A p \in reached : p \in targets /\ phase[p] # "gone"
      /\ \A p \in Process : /\ Asked(p)' = IF p \in reached THEN Append(Asked(p), ApplyRequest) ELSE Asked(p)
                            /\ p \in reached => replies'[p] = "pending"
                            /\ p \notin reached => (signals'[p] = signals[p] /\ replies'[p] \in {"closed", "none"})
  BY <1>1, RequestsAreCommands, RequestSent
<1>3. TypeOK'
  BY <1>1, <1>2 DEF TypeOK, registry
<1>4. ASSUME NEW p \in Running PROVE RequestsOK(p)'
  <2>1. p \in Process /\ Asked(p) = <<>> /\ tracked[p] = old
    BY <1>1 DEF Running, ReloadInv, ProcessesOK, RequestsOK
  <2>2. Unsettled' /\ ApplyRequest' = ApplyRequest
    BY <1>1 DEF Unsettled, ApplyRequest
  <2>3. CASE p \in reached
    <3>1. Asked(p)' = <<ApplyRequest>> /\ replies'[p] = "pending"
      BY <1>1, <1>2, <2>1, <2>3, RequestsAreCommands
    <3> QED  BY <1>1, <2>1, <2>2, <3>1 DEF RequestsOK, MayApply
  <2>4. CASE p \notin reached
    <3>1. Asked(p)' = <<>> /\ replies'[p] \in {"closed", "none"}
      BY <1>2, <2>1, <2>4
    <3> QED  BY <1>1, <2>1, <2>2, <3>1 DEF RequestsOK
  <2> QED  BY <2>3, <2>4
<1> QED  BY <1>1, <1>2, <1>3, <1>4, CoordinatorSteps

LEMMA ReloadDispatchRollback ==
  ASSUME ReloadInv, NEW reached, DispatchRollback(reached)
  PROVE  ReloadInv'
<1>1. /\ TypeOK /\ pc = "dispatchRollback" /\ reached \in Reachable /\ Send(reached, RollbackRequest) /\ pc' = "rollback"
      /\ UNCHANGED <<registry, launch, status, old, cand, targets, phase, tracked, runs, queue, doing>>
  BY DEF ReloadInv, DispatchRollback, RollbackRequest
<1>2. /\ signals' \in [Process -> Seq(Command)] /\ replies' \in [Process -> {"none", "pending", "closed", "failed", "done"}]
      /\ \A p \in reached : p \in targets /\ phase[p] # "gone"
      /\ \A p \in Process : /\ Asked(p)' = IF p \in reached THEN Append(Asked(p), RollbackRequest) ELSE Asked(p)
                            /\ p \in reached => replies'[p] = "pending"
                            /\ p \notin reached => (signals'[p] = signals[p] /\ replies'[p] \in {"closed", "none"})
  BY <1>1, RequestsAreCommands, RequestSent
<1>3. TypeOK'
  BY <1>1, <1>2 DEF TypeOK, registry
<1>4. ASSUME NEW p \in Running PROVE RequestsOK(p)'
  <2>1. p \in Process /\ (Asked(p) = <<>> \/ MayApply(p)) /\ tracked[p] \in {old, cand}
    BY <1>1 DEF Running, ReloadInv, ProcessesOK, RequestsOK, Unsettled
  <2>2. Unsettled' /\ ApplyRequest' = ApplyRequest /\ RollbackRequest' = RollbackRequest
    BY <1>1 DEF Unsettled, ApplyRequest, RollbackRequest
  <2>3. CASE p \in reached
    <3>1. Asked(p)' = Append(Asked(p), RollbackRequest) /\ replies'[p] = "pending"
      BY <1>2, <2>1, <2>3
    <3>2. CASE Asked(p) = <<>>
      <4>1. Asked(p)' = <<RollbackRequest>>
        BY <1>1, <3>1, <3>2, RequestsAreCommands
      <4> QED  BY <1>1, <2>1, <2>2, <3>1, <4>1 DEF RequestsOK, MustRollBack
    <3>3. CASE MayApply(p)
      <4>1. Asked(p)' = <<ApplyRequest, RollbackRequest>> /\ tracked[p] = old
        BY <1>1, <3>1, <3>3, RequestsAreCommands DEF MayApply
      <4> QED  BY <1>1, <2>1, <2>2, <3>1, <4>1 DEF RequestsOK, MustRollBack
    <3> QED  BY <2>1, <3>2, <3>3
  <2>4. CASE p \notin reached
    <3>1. Asked(p)' = Asked(p) /\ replies'[p] \in {"closed", "none"}
      BY <1>2, <2>1, <2>4
    <3> QED  BY <1>1, <2>1, <2>2, <3>1 DEF RequestsOK, MayApply
  <2> QED  BY <2>3, <2>4
<1> QED  BY <1>1, <1>2, <1>3, <1>4, CoordinatorSteps

\* An acknowledgement of all is the truth about every process that runs.
LEMMA ReloadEndApply ==
  ASSUME ReloadInv, NEW expired, EndApply(expired)
  PROVE  ReloadInv'
<1>1. /\ TypeOK /\ pc = "apply" /\ Running \subseteq targets
      /\ UNCHANGED <<registry, launch, old, cand, targets, replies, phase, tracked, runs, signals, queue, doing>>
  BY DEF ReloadInv, ProcessesOK, EndApply
<1>2. \/ errors = {} /\ status' = "Committed" /\ pc' = "commit"
      \/ errors # {} /\ status' = "RollingBack" /\ pc' = "dispatchRollback"
  BY DEF EndApply
<1>3. TypeOK'
  BY <1>1, <1>2 DEF TypeOK, registry
<1>4. ASSUME NEW p \in Running PROVE RequestsOK(p)'
  <2>1. RequestsOK(p) /\ Unsettled /\ p \in targets
    BY <1>1 DEF ReloadInv, ProcessesOK, Unsettled
  <2>2. /\ tracked[p] \in {old, cand}
        /\ \/ Asked(p) = <<>> /\ (replies[p] = "done" => tracked[p] = cand)
           \/ MayApply(p) /\ replies[p] = "pending"
    BY <1>1, <2>1 DEF RequestsOK
  <2>3. Asked(p)' = Asked(p) /\ Unsettled' /\ ApplyRequest' = ApplyRequest
    BY <1>1, <1>2 DEF Asked, Unsettled, ApplyRequest
  <2>4. errors = {} => replies[p] = "done"
    BY <2>1 DEF errors
  <2> QED  BY <1>1, <1>2, <2>2, <2>3, <2>4 DEF RequestsOK, MayApply
<1> QED  BY <1>1, <1>2, <1>3, <1>4, CoordinatorSteps

LEMMA ReloadEndRollback ==
  ASSUME ReloadInv, NEW expired, EndRollback(expired)
  PROVE  ReloadInv'
<1>1. /\ TypeOK /\ pc = "rollback" /\ Running \subseteq targets /\ pc' = "idle"
      /\ status' = IF errors = {} THEN "RolledBack" ELSE "InDoubt"
      /\ UNCHANGED <<registry, launch, old, cand, targets, replies, phase, tracked, runs, signals, queue, doing>>
  BY DEF ReloadInv, ProcessesOK, EndRollback
<1>2. TypeOK'
  BY <1>1 DEF TypeOK, registry
<1>3. ASSUME NEW p \in Running PROVE RequestsOK(p)'
  <2>1. RequestsOK(p) /\ Unsettled /\ p \in targets /\ old = committed
    BY <1>1 DEF ReloadInv, ProcessesOK, Unsettled, VersionsOK
  <2>2. /\ tracked[p] \in {old, cand}
        /\ \/ MustRollBack(p) /\ replies[p] = "pending"
           \/ Asked(p) = <<>> /\ (replies[p] = "done" => tracked[p] = old)
           \/ MayApply(p) /\ replies[p] \notin {"pending", "done"}
    BY <1>1, <2>1 DEF RequestsOK
  <2>3. /\ Asked(p)' = Asked(p) /\ ApplyRequest' = ApplyRequest /\ RollbackRequest' = RollbackRequest
        /\ committed' = committed
    BY <1>1 DEF Asked, ApplyRequest, RollbackRequest, registry
  <2>4. CASE errors = {}
    <3>1. replies[p] = "done" /\ ~Unsettled'
      BY <1>1, <2>1, <2>4 DEF errors, Unsettled
    <3> QED  BY <1>1, <2>1, <2>2, <2>3, <3>1 DEF RequestsOK
  <2>5. CASE errors # {}
    <3>1. Unsettled'
      BY <1>1, <2>5 DEF Unsettled
    <3> QED  BY <1>1, <2>2, <2>3, <3>1 DEF RequestsOK, MayApply, MustRollBack
  <2> QED  BY <2>4, <2>5
<1> QED  BY <1>1, <1>2, <1>3, CoordinatorSteps

LEMMA ReloadMarkCommitted ==
  ASSUME ReloadInv, MarkCommitted
  PROVE  ReloadInv'
<1>1. /\ TypeOK /\ pc = "commit" /\ cand \in versions /\ committed' = cand /\ launch' = cand
      /\ versions' = Cleaned(versions, cand, members) /\ pc' = "idle" /\ status = "Committed"
      /\ UNCHANGED <<next, members, status, old, cand, targets, replies, phase, tracked, runs, signals, queue, doing>>
  BY DEF ReloadInv, ProcessesOK, MarkCommitted, AfterChange
<1>2. Unsettled /\ ~Unsettled' /\ Running' = Running
  BY <1>1 DEF Unsettled, Running
<1>3. /\ versions \in SUBSET Version /\ next \in 1 .. MaxVersion + 1 /\ versions \subseteq 0 .. next - 1 /\ next - 1 \in versions
  BY <1>1 DEF ReloadInv, TypeOK, VersionsOK
<1>4. \A v \in versions : v <= next - 1
  BY <1>3, ReloadAssumption
<1>5. /\ versions' \subseteq versions /\ next - 1 \in versions' /\ cand \in versions'
      /\ \A v \in versions : members[v] # {} => v \in versions'
      /\ \A v \in versions' : v \in Recent(versions') \/ Needed(v, cand, members)
  <2>1. versions' = Cleaned(versions, cand, members) /\ cand \in versions
    BY <1>1
  <2> DEFINE kept == Cleaned(versions, cand, members)
  <2>2. /\ kept \subseteq versions /\ next - 1 \in kept /\ (cand \in versions => cand \in kept)
        /\ \A v \in versions : members[v] # {} => v \in kept
        /\ \A v \in kept : v \in Recent(kept) \/ Needed(v, cand, members)
    BY <1>3, <1>4, CleanedKeeps
  <2> HIDE DEF kept
  <2>3. versions' = kept /\ cand \in versions
    BY <2>1 DEF kept
  <2> QED  BY <2>2, <2>3
<1>6. TypeOK'
  BY <1>1, <1>5 DEF TypeOK
<1>7. MembersOK'
  BY <1>1 DEF ReloadInv, MembersOK
<1>8. VersionsOK'
  <2>1. ASSUME NEW p \in Running' PROVE tracked'[p] \in versions'
    <3>1. p \in Process /\ phase[p] = "running" /\ tracked[p] \in versions /\ tracked[p] \in Version
      BY <1>1, <1>2 DEF Running, ReloadInv, VersionsOK, TypeOK
    <3>2. p \in members[tracked[p]]
      BY <3>1 DEF ReloadInv, MembersOK
    <3> QED  BY <1>1, <1>5, <3>1, <3>2
  <2> QED  BY <1>1, <1>2, <1>3, <1>5, <2>1 DEF VersionsOK
<1>9. NothingHoarded'
  BY <1>1, <1>5 DEF NothingHoarded, Recent, Needed
<1>10. ASSUME NEW p \in Running' PROVE RequestsOK(p)' /\ InstanceOK(p)'
  <2>1. RequestsOK(p) /\ InstanceOK(p)
    BY <1>2 DEF ReloadInv, ProcessesOK
  <2>2. Asked(p) = <<>> /\ tracked[p] = cand
    BY <1>1, <2>1 DEF RequestsOK
  <2>3. Asked(p)' = Asked(p)
    BY <1>1 DEF Asked
  <2>4. RequestsOK(p)'
    BY <1>1, <1>2, <2>2, <2>3 DEF RequestsOK
  <2> QED  BY <1>1, <2>1, <2>4 DEF InstanceOK
<1>11. ProcessesOK'
  BY <1>1, <1>10 DEF ReloadInv, ProcessesOK, EndedOK
<1> QED  BY <1>6, <1>7, <1>8, <1>9, <1>11 DEF ReloadInv

-----------------------------------------------------------------------------

LEMMA ReloadStep ==
  ASSUME ReloadInv, [ReloadNext]_reloadVars
  PROVE  ReloadInv'
<1>1. CASE BeginUpdate
  BY <1>1, ReloadBeginUpdate
<1>2. ASSUME NEW reached \in SUBSET Process, DispatchApply(reached) \/ DispatchRollback(reached) PROVE ReloadInv'
  BY <1>2, ReloadDispatchApply, ReloadDispatchRollback
<1>3. ASSUME NEW expired \in BOOLEAN, EndApply(expired) \/ EndRollback(expired) PROVE ReloadInv'
  BY <1>3, ReloadEndApply, ReloadEndRollback
<1>4. CASE MarkCommitted
  BY <1>4, ReloadMarkCommitted
<1>5. ASSUME NEW p \in Process, Work(p) PROVE ReloadInv'
  BY <1>5, ReloadTakeSignal, ReloadDriverTakes, ReloadSwap, ReloadReloadFails, ReloadAccount DEF Work
<1>6. ASSUME NEW p \in Process, Launch(p) \/ Stop(p) \/ Leave(p) PROVE ReloadInv'
  BY <1>6, ReloadLaunch, ReloadStop, ReloadLeave
<1>7. CASE UNCHANGED reloadVars
  <2>1. UNCHANGED <<registry, launch, update, tracked>> /\ Running' = Running
    BY <1>7 DEF reloadVars, registry, update, Running
  <2>2. VersionsOK' /\ MembersOK' /\ NothingHoarded'
    BY <2>1, RegistryStays
  <2>3. TypeOK'
    BY <1>7 DEF reloadVars, ReloadInv, TypeOK
  <2>4. ASSUME NEW p \in Running PROVE RequestsOK(p)' /\ InstanceOK(p)'
    <3>1. RequestsOK(p) /\ InstanceOK(p) /\ Asked(p)' = Asked(p) /\ UNCHANGED <<update, committed, tracked, replies, runs, doing>>
      BY <1>7 DEF reloadVars, update, ReloadInv, ProcessesOK, Asked
    <3> QED  BY <3>1, RequestsStay DEF InstanceOK
  <2>5. ProcessesOK'
    BY <1>7, <2>1, <2>4 DEF reloadVars, ReloadInv, ProcessesOK, EndedOK
  <2> QED  BY <2>2, <2>3, <2>5 DEF ReloadInv
<1> QED  BY <1>1, <1>2, <1>3, <1>4, <1>5, <1>6, <1>7 DEF ReloadNext, Coordinate

\* Whenever a module update of watch mode is over, and is not in doubt, every running
\* process runs the committed version and nothing is left that could move it; the
\* registry of modules keeps what somebody needs and no more.
THEOREM UpdatesAgree == ReloadSpec => []ReloadSafe
<1>1. ReloadInit => ReloadInv
  BY ReloadStarts
<1>2. ReloadInv /\ [ReloadNext]_reloadVars => ReloadInv'
  BY ReloadStep
<1>3. ReloadInv => ReloadSafe
  BY ReloadInvIsSafe
<1> QED  BY <1>1, <1>2, <1>3, PTL DEF ReloadSpec

-----------------------------------------------------------------------------
(* The nodes of the control server. *)

LEMMA ControlInitOK == ControlInit => ControlInv
  <1> SUFFICES ASSUME ControlInit PROVE ControlInv
    OBVIOUS
  <1> USE ControlAssumption DEF ControlInit, No, NewClient, NoCall, NoRegistration
  <1>1. ServerTypes /\ ClientTypes /\ WireTypes
    BY DEF ServerTypes, ClientTypes, WireTypes, Phases, Ops, Threads
  <1>2. CallsOK
    BY DEF CallsOK
  <1>3. NodesOK
    BY DEF NodesOK
  <1>4. \A c \in Clients : StageOK(c) /\ BearerOK(c) /\ PlacesOK(c)
    BY DEF StageOK, BearerOK, PlacesOK, Threads
  <1> QED
    BY <1>1, <1>2, <1>3, <1>4 DEF ControlInv

---------------------------------------------------------------------------
(* What happens on the wire *)

\* A request is added, under the next number, and one call waits for it.
LEMMA SendKeepsWire ==
  ASSUME WireTypes, CallsOK, NEW c \in Clients, NEW t \in Threads, NEW op \in Ops, NEW b \in Nat, NEW n \in Nat,
         cl[c].gen \in Nat, SendRequest(c, t, op, b, n), op = "lookup" => t = "user",
         fresh' \in [token : Nat, req : Nat], fresh'.token # 0, fresh'.req = fresh.req + 1
  PROVE /\ WireTypes' /\ CallsOK'
        /\ \A d \in Clients, u \in Threads : d # c \/ u # t => call'[d][u] = call[d][u]
        /\ call'[c][t].op = op
        /\ \A q \in wire' : \/ q \in wire
                            \/ /\ q.id = fresh.req /\ q.c = c /\ q.op = op /\ q.bearer = b /\ q.gen = cl[c].gen /\ q.next = n
                               /\ q.st = "sent"
        /\ wire \subseteq wire'
  <1> DEFINE new == NewRequest(c, op, b, cl[c].gen, n)
             mine == [req |-> fresh.req, op |-> op, list |-> {}]
  <1>1. wire' = wire \cup {new} /\ call' = [call EXCEPT ![c][t] = mine]
    BY DEF SendRequest
  <1>2. new \in [id : Nat, c : Clients, op : Ops, bearer : Nat, gen : Nat, next : Nat,
                 st : {"sent", "handle", "ok", "refused"}, auth : Nat, list : SUBSET Nat]
    BY DEF WireTypes, NewRequest, No
  <1>3. mine \in [req : Nat, op : Ops \cup {"none"}, list : SUBSET (SUBSET Nat)]
    BY DEF WireTypes
  <1>4. /\ new.id = fresh.req /\ new.c = c /\ new.op = op /\ new.bearer = b /\ new.gen = cl[c].gen /\ new.next = n
        /\ new.st = "sent"
    BY DEF NewRequest
  <1>5. mine.req = fresh.req /\ mine.op = op /\ mine.list = {}
    OBVIOUS
  <1> HIDE DEF new, mine
  <1>6. \A d \in Clients, u \in Threads : call'[d][u] = IF d = c /\ u = t THEN mine ELSE call[d][u]
    BY <1>1 DEF WireTypes
  <1>7. call' \in [Clients -> [Threads -> [req : Nat, op : Ops \cup {"none"}, list : SUBSET (SUBSET Nat)]]]
    BY <1>1, <1>3 DEF WireTypes
  <1>8. WireTypes'
    BY <1>1, <1>2, <1>7 DEF WireTypes
  <1>9. \A q \in wire' : q \in wire \/ q = new
    BY <1>1
  <1>10. CallsOK'
    <2>1. \A q \in wire' : q.id # No /\ q.id < fresh'.req
      BY <1>4, <1>9 DEF CallsOK, WireTypes, No
    <2>2. \A p, q \in wire' : p.id = q.id => p = q
      BY <1>4, <1>9 DEF CallsOK, WireTypes, No
    <2>3. ASSUME NEW d \in Clients, NEW u \in Threads
          PROVE /\ call'[d][u].req < fresh'.req
                /\ \A q \in wire' : q.id = call'[d][u].req => q.c = d /\ q.op = call'[d][u].op
                /\ call'[d][u].op = "lookup" => u = "user"
                /\ call'[d][u].list # {} => call'[d][u].op = "nodes"
      <3>1. CASE d = c /\ u = t
        <4>1. call'[d][u] = mine
          BY <1>6, <3>1
        <4> QED
          BY <1>4, <1>5, <1>9, <3>1, <4>1 DEF CallsOK, WireTypes, No
      <3>2. CASE ~(d = c /\ u = t)
        <4>1. call'[d][u] = call[d][u]
          BY <1>6, <3>2
        <4> QED
          BY <1>4, <1>9, <4>1 DEF CallsOK, WireTypes, No
      <3> QED
        BY <3>1, <3>2
    <2> QED
      BY <2>1, <2>2, <2>3 DEF CallsOK
  <1> QED
    BY <1>1, <1>4, <1>5, <1>6, <1>8, <1>9, <1>10

\* A call ends, and its answer is taken away.
LEMMA HangKeepsWire ==
  ASSUME WireTypes, CallsOK, NEW c \in Clients, NEW t \in Threads, Hang(c, t), UNCHANGED fresh
  PROVE /\ WireTypes' /\ CallsOK'
        /\ \A d \in Clients, u \in Threads : d # c \/ u # t => call'[d][u] = call[d][u]
        /\ call'[c][t] = NoCall /\ wire' \subseteq wire
        /\ \A q \in Answers(c, t) : q \in wire /\ q \notin wire' /\ q.c = c /\ q.op = call[c][t].op
  <1>1. wire' \subseteq wire /\ call' = [call EXCEPT ![c][t] = NoCall]
    BY DEF Hang
  <1>2. NoCall \in [req : Nat, op : Ops \cup {"none"}, list : SUBSET (SUBSET Nat)] /\ NoCall.req = 0 /\ NoCall.op = "none"
        /\ NoCall.list = {}
    BY DEF NoCall, No
  <1> HIDE DEF NoCall
  <1>3. \A d \in Clients, u \in Threads : call'[d][u] = IF d = c /\ u = t THEN NoCall ELSE call[d][u]
    BY <1>1 DEF WireTypes
  <1>4. WireTypes'
    BY <1>1, <1>2 DEF WireTypes
  <1>5. CallsOK'
    BY <1>1, <1>2, <1>3 DEF CallsOK, WireTypes, No
  <1>6. \A q \in Answers(c, t) : q \in wire /\ q \notin wire' /\ q.c = c /\ q.op = call[c][t].op
    BY DEF Answers, CallsOK, Hang
  <1> QED
    BY <1>1, <1>3, <1>4, <1>5, <1>6

\* A request is answered, or forgotten if nobody waits.
LEMMA RespondKeepsWire ==
  ASSUME WireTypes, CallsOK, NEW q \in wire, NEW st \in {"ok", "refused"}, NEW n \in Nat, NEW list \in SUBSET Nat,
         Respond(q, st, n, list), UNCHANGED call,
         fresh' \in [token : Nat, req : Nat], fresh'.token # 0, fresh'.req = fresh.req
  PROVE /\ WireTypes' /\ CallsOK'
        /\ \A p \in wire' : \/ p \in wire /\ p # q
                            \/ /\ p.id = q.id /\ p.c = q.c /\ p.op = q.op /\ p.bearer = q.bearer /\ p.gen = q.gen
                               /\ p.next = n /\ p.st = st /\ p.auth = q.auth
  <1> DEFINE new == [q EXCEPT !.st = st, !.next = n, !.list = list]
             R == [id : Nat, c : Clients, op : Ops, bearer : Nat, gen : Nat, next : Nat,
                   st : {"sent", "handle", "ok", "refused"}, auth : Nat, list : SUBSET Nat]
  <1>1. q \in R
    BY DEF WireTypes
  <1>2. new \in R /\ new.id = q.id /\ new.c = q.c /\ new.op = q.op /\ new.bearer = q.bearer /\ new.gen = q.gen
        /\ new.next = n /\ new.st = st /\ new.auth = q.auth
    BY <1>1
  <1>3. wire' \subseteq (wire \ {q}) \cup {new}
    BY DEF Respond
  <1> HIDE DEF new
  <1>4. WireTypes'
    BY <1>2, <1>3 DEF WireTypes
  <1>5. \A p \in wire' : (p \in wire /\ p # q) \/ p = new
    BY <1>3
  <1>6. CallsOK'
    BY <1>2, <1>5 DEF CallsOK, WireTypes
  <1> QED
    BY <1>2, <1>4, <1>5, <1>6

---------------------------------------------------------------------------
(* Steps of a client *)

\* What a client does leaves the other clients and their requests as they are.
LEMMA OthersKeep ==
  ASSUME ControlInv, WireTypes', NEW c \in Clients, UNCHANGED reg, fresh'.token >= fresh.token,
         \A d \in Clients : d # c => cl'[d] = cl[d] /\ queries'[d] = queries[d],
         \A d \in Clients, u \in Threads : d # c => call'[d][u] = call[d][u],
         \A q \in wire' : q \in wire \/ q.c = c
  PROVE /\ \A d \in Clients : d # c => (StageOK(d) /\ BearerOK(d) /\ PlacesOK(d))'
        /\ \A q \in wire' : q.c # c => EachOK(q)'
  <1>0. fresh.token \in Nat /\ fresh'.token \in Nat
    BY DEF ControlInv, WireTypes
  <1>1. ASSUME NEW d \in Clients, d # c
        PROVE (StageOK(d) /\ BearerOK(d) /\ PlacesOK(d))'
    <2>1. StageOK(d) /\ BearerOK(d) /\ PlacesOK(d) /\ cl[d].bearer \in Nat /\ cl[d].pend \in Nat
      BY DEF ControlInv, ClientTypes
    <2>2. cl'[d] = cl[d] /\ queries'[d] = queries[d] /\ reg'[d] = reg[d]
          /\ call'[d]["user"] = call[d]["user"] /\ call'[d]["main"] = call[d]["main"]
      BY <1>1 DEF Threads
    <2>3. StageOK(d)'
      BY <1>0, <1>1, <2>1, <2>2 DEF StageOK
    <2>4. BearerOK(d)' /\ PlacesOK(d)'
      BY <2>1, <2>2 DEF BearerOK, PlacesOK
    <2> QED
      BY <2>3, <2>4
  <1>2. ASSUME NEW q \in wire', q.c # c
        PROVE EachOK(q)'
    <2>1. q \in wire /\ q.c \in Clients /\ EachOK(q) /\ q.next \in Nat
      BY <1>2 DEF ControlInv, WireTypes
    <2>2. cl'[q.c] = cl[q.c] /\ reg'[q.c] = reg[q.c]
      BY <1>2, <2>1
    <2>3. \A p \in wire' : p.c = q.c => p \in wire
      BY <1>2
    <2> QED
      BY <1>0, <2>1, <2>2, <2>3 DEF EachOK, RegisterOK, RequestOK
  <1> QED
    BY <1>1, <1>2

\* The client's own part, once the rest is settled.
LEMMA ClientKeeps ==
  ASSUME ControlInv, NEW c \in Clients, UNCHANGED <<reg, nodes, nextNode>>, ClientTypes', WireTypes', CallsOK',
         fresh'.token >= fresh.token,
         \A d \in Clients : d # c => cl'[d] = cl[d] /\ queries'[d] = queries[d],
         \A d \in Clients, u \in Threads : d # c => call'[d][u] = call[d][u],
         \A q \in wire' : q \in wire \/ q.c = c,
         StageOK(c)', BearerOK(c)', PlacesOK(c)',
         \A q \in wire' : q.c = c => EachOK(q)'
  PROVE ControlInv'
  <1>1. ServerTypes' /\ NodesOK'
    BY DEF ControlInv, ServerTypes, NodesOK
  <1>2. \A d \in Clients : (StageOK(d) /\ BearerOK(d) /\ PlacesOK(d))'
    BY OthersKeep
  <1>3. \A q \in wire' : EachOK(q)'
    BY OthersKeep
  <1> QED
    BY <1>1, <1>2, <1>3 DEF ControlInv


LEMMA RegisterKeeps ==
  ASSUME ControlInv, NEW c \in Clients, Register(c)
  PROVE ControlInv'
  <1>0. /\ UNCHANGED <<reg, nodes, nextNode, queries>>
        /\ SendRequest(c, "main", "register", No, No) /\ Numbered /\ cl[c].phase = "new"
        /\ cl' = [cl EXCEPT ![c].phase = "registering"]
    BY DEF Register, server
  <1>1. fresh'.token = fresh.token /\ fresh'.req = fresh.req + 1 /\ fresh' \in [token : Nat, req : Nat] /\ fresh'.token # 0
    BY <1>0 DEF Numbered, ControlInv, WireTypes
  <1>2. /\ WireTypes' /\ CallsOK'
        /\ \A d \in Clients, u \in Threads : d # c \/ u # "main" => call'[d][u] = call[d][u]
        /\ call'[c]["main"].op = "register"
        /\ \A q \in wire' : q \in wire \/ (q.id = fresh.req /\ q.c = c /\ q.op = "register" /\ q.st = "sent")
    <2>1. "main" \in Threads /\ "register" \in Ops /\ No \in Nat /\ cl[c].gen \in Nat
      BY DEF Threads, Ops, No, ControlInv, ClientTypes
    <2>2. WireTypes /\ CallsOK
      BY DEF ControlInv
    <2> QED
      BY <1>0, <1>1, <2>1, <2>2, SendKeepsWire DEF No
  <1>3. ClientTypes' /\ (\A d \in Clients : d # c => cl'[d] = cl[d]) /\ cl'[c] = [cl[c] EXCEPT !.phase = "registering"]
    BY <1>0 DEF ControlInv, ClientTypes, Phases
  <1>4. /\ cl'[c].phase = "registering" /\ cl'[c].bearer = cl[c].bearer /\ cl'[c].pend = cl[c].pend /\ cl'[c].gen = cl[c].gen
        /\ StageOK(c) /\ BearerOK(c) /\ PlacesOK(c)
    BY <1>3 DEF ControlInv, ClientTypes
  <1>5. StageOK(c)' /\ BearerOK(c)' /\ PlacesOK(c)'
    BY <1>0, <1>1, <1>2, <1>4 DEF StageOK, BearerOK, PlacesOK, Threads, No
  <1>6. ASSUME NEW q \in wire', q.c = c PROVE EachOK(q)'
    <2>1. reg'[c] = {} /\ (\A p \in wire : p.c # c) /\ cl[c].bearer = No
      BY <1>0, <1>4 DEF StageOK
    <2>2. q.op = "register" /\ q.st = "sent"
      BY <1>2, <1>6, <2>1
    <2>3. \A p \in wire' : p.c = c => p = q
      BY <1>2, <1>6, <2>1 DEF CallsOK
    <2> QED
      BY <1>4, <1>6, <2>1, <2>2, <2>3 DEF EachOK, RegisterOK
  <1>7. /\ \A q \in wire' : q \in wire \/ q.c = c
        /\ \A q \in wire' : q.c = c => EachOK(q)'
        /\ \A d \in Clients : d # c => cl'[d] = cl[d] /\ queries'[d] = queries[d]
        /\ \A d \in Clients, u \in Threads : d # c => call'[d][u] = call[d][u]
        /\ fresh'.token >= fresh.token
    BY <1>0, <1>1, <1>2, <1>3, <1>6
  <1> QED
    BY <1>0, <1>2, <1>3, <1>5, <1>7, ClientKeeps

\* Any other request presents the bearer of its client.
LEMMA SendKeeps ==
  ASSUME ControlInv, NEW c \in Clients, NEW t \in Threads, NEW op \in Ops, op # "register", NEW b \in Nat, NEW n \in Nat,
         SendRequest(c, t, op, b, n), op = "lookup" => t = "user",
         fresh' \in [token : Nat, req : Nat], fresh'.token >= fresh.token, fresh'.req = fresh.req + 1,
         UNCHANGED <<reg, nodes, nextNode>>, ClientTypes',
         \A d \in Clients : d # c => cl'[d] = cl[d] /\ queries'[d] = queries[d],
         cl[c].phase \notin {"new", "registering", "gone", "stopped"}, cl'[c].phase \notin {"new", "registering", "gone", "stopped"},
         cl'[c].bearer = cl[c].bearer, cl'[c].gen = cl[c].gen, cl'[c].stopBearer = cl[c].stopBearer,
         cl'[c].pend = cl[c].pend \/ cl[c].pend = No,
         b # No, cl[c].bearer # No => b = cl[c].bearer,
         op = "refresh" => n = cl'[c].pend /\ n # No,
         cl'[c].phase \in {"registered", "starting", "joining", "running"} => cl[c].bearer # No,
         cl'[c].phase # "stop", call'[c]["main"].op = "nodes" => cl'[c].phase = "joining",
         cl'[c].pend < fresh'.token, cl'[c].pend # No => cl'[c].phase = "running" /\ cl[c].bearer < cl'[c].pend,
         PlacesOK(c)'
  PROVE ControlInv'
  <1>0. /\ WireTypes /\ CallsOK /\ fresh.token \in Nat /\ fresh'.token \in Nat /\ fresh.token # 0 /\ cl[c].gen \in Nat
        /\ cl[c].bearer \in Nat /\ StageOK(c) /\ BearerOK(c) /\ reg'[c] = reg[c]
    BY DEF ControlInv, WireTypes, ClientTypes
  <1>1. fresh'.token # 0
    BY <1>0
  <1>2. /\ WireTypes' /\ CallsOK'
        /\ \A d \in Clients, u \in Threads : d # c \/ u # t => call'[d][u] = call[d][u]
        /\ \A q \in wire' : \/ q \in wire
                            \/ /\ q.id = fresh.req /\ q.c = c /\ q.op = op /\ q.bearer = b /\ q.gen = cl[c].gen /\ q.next = n
                               /\ q.st = "sent"
    BY <1>0, <1>1, SendKeepsWire
  <1>3. StageOK(c)'
    BY <1>0, <1>2 DEF StageOK
  <1>4. BearerOK(c)'
    BY <1>0 DEF BearerOK
  <1>5. ASSUME NEW q \in wire', q.c = c PROVE EachOK(q)'
    <2>1. CASE q \in wire
      <3>1. q.op # "register" /\ RequestOK(q) /\ q.gen \in Nat /\ q.auth \in Nat
        BY <1>5, <2>1 DEF ControlInv, WireTypes, EachOK, RegisterOK
      <3> QED
        BY <1>0, <1>5, <3>1 DEF EachOK, RequestOK
    <2>2. CASE q \notin wire
      <3>1. q.op = op /\ q.bearer = b /\ q.gen = cl[c].gen /\ q.next = n /\ q.st = "sent"
        BY <1>2, <2>2
      <3> QED
        BY <1>0, <1>5, <3>1 DEF EachOK, RequestOK
    <2> QED
      BY <2>1, <2>2
  <1>6. /\ \A q \in wire' : q \in wire \/ q.c = c
        /\ \A q \in wire' : q.c = c => EachOK(q)'
        /\ \A d \in Clients, u \in Threads : d # c => call'[d][u] = call[d][u]
    BY <1>2, <1>5
  <1> QED
    BY <1>2, <1>3, <1>4, <1>6, ClientKeeps


\* A call ends, and with it perhaps the authority of its client.
LEMMA HangKeeps ==
  ASSUME ControlInv, NEW c \in Clients, NEW t \in Threads, Hang(c, t), UNCHANGED <<reg, nodes, nextNode, fresh>>, ClientTypes',
         \A d \in Clients : d # c => cl'[d] = cl[d] /\ queries'[d] = queries[d],
         cl'[c].phase \notin {"new", "registering"}, cl[c].phase # "new",
         \/ cl'[c].bearer = cl[c].bearer /\ cl'[c].pend = cl[c].pend /\ cl'[c].gen = cl[c].gen
         \/ cl'[c].bearer = No /\ cl'[c].pend = No,
         cl'[c].phase = cl[c].phase \/ cl[c].phase # "gone",
         cl[c].phase = "registering" => cl'[c].phase = "gone",
         cl[c].phase = "running" => cl'[c].phase = "running",
         cl'[c].phase \in {"registered", "starting", "joining", "running"} => cl'[c].bearer # No,
         cl'[c].phase = "stop" => cl'[c].stopBearer # No /\ (cl'[c].bearer # No => cl'[c].stopBearer = cl'[c].bearer),
         cl'[c].phase = "stopped" => reg[c] = {},
         call'[c]["main"].op = "nodes" => cl'[c].phase = "joining",
         PlacesOK(c)'
  PROVE ControlInv'
  <1>0. /\ WireTypes /\ CallsOK /\ fresh.token \in Nat /\ fresh.token # 0 
        /\ cl[c].bearer \in Nat /\ cl[c].pend \in Nat /\ StageOK(c) /\ BearerOK(c) /\ reg'[c] = reg[c]
    BY DEF ControlInv, WireTypes, ClientTypes
  <1>2. /\ WireTypes' /\ CallsOK' /\ wire' \subseteq wire
        /\ \A d \in Clients, u \in Threads : d # c => call'[d][u] = call[d][u]
    BY <1>0, HangKeepsWire
  <1>3. StageOK(c)'
    BY <1>0, <1>2 DEF StageOK, No
  <1>4. BearerOK(c)'
    BY <1>0 DEF BearerOK
  <1>5. ASSUME NEW q \in wire', q.c = c PROVE EachOK(q)'
    <2>1. q \in wire /\ EachOK(q) /\ q.gen \in Nat /\ q.auth \in Nat
      BY <1>2, <1>5 DEF ControlInv, WireTypes
    <2>2. CASE q.op = "register"
      <3>1. RegisterOK(q) /\ (cl[c].phase = "registering" \/ cl[c].phase = "gone") /\ cl'[c].phase = "gone"
        BY <1>5, <2>1, <2>2 DEF EachOK, RegisterOK
      <3>2. cl'[c].bearer = No
        BY <1>5, <3>1 DEF RegisterOK
      <3> QED
        BY <1>2, <1>5, <2>2, <3>1, <3>2 DEF EachOK, RegisterOK
    <2>3. CASE q.op # "register"
      BY <1>0, <1>5, <2>1, <2>3 DEF EachOK, RequestOK
    <2> QED
      BY <2>2, <2>3
  <1>6. /\ \A q \in wire' : q \in wire \/ q.c = c
        /\ \A q \in wire' : q.c = c => EachOK(q)'
        /\ fresh'.token >= fresh.token
    BY <1>0, <1>2, <1>5
  <1> QED
    BY <1>2, <1>3, <1>4, <1>6, ClientKeeps

\* What a client knows of itself.
LEMMA OwnTypes ==
  ASSUME ControlInv, NEW c \in Clients
  PROVE /\ cl[c] \in [phase : Phases, bearer : Nat, pend : Nat, gen : Nat, id : Nat, stopped : BOOLEAN, stopBearer : Nat]
        /\ cl \in [Clients -> [phase : Phases, bearer : Nat, pend : Nat, gen : Nat, id : Nat, stopped : BOOLEAN, stopBearer : Nat]]
        /\ queries \in [Clients -> [pending : Nat, results : Nat]]
        /\ fresh \in [token : Nat, req : Nat] /\ fresh.token # 0 /\ fresh.req # 0
        /\ StageOK(c) /\ BearerOK(c) /\ PlacesOK(c) /\ WireTypes /\ CallsOK
        /\ "main" \in Threads /\ "user" \in Threads /\ "rotation" \in Threads
        /\ \A d \in Clients, u \in Threads : call[d][u] \in [req : Nat, op : Ops \cup {"none"}, list : SUBSET (SUBSET Nat)]
  BY DEF ControlInv, ClientTypes, WireTypes, Threads

LEMMA SendCall ==
  ASSUME WireTypes, NEW c \in Clients, NEW t \in Threads, NEW op, NEW b, NEW n, SendRequest(c, t, op, b, n)
  PROVE call'[c][t].op = op /\ \A u \in Threads : u # t => call'[c][u] = call[c][u]
  BY DEF WireTypes, SendRequest

LEMMA HangCall ==
  ASSUME WireTypes, NEW c \in Clients, NEW t \in Threads, Hang(c, t)
  PROVE call'[c][t] = NoCall /\ NoCall.op = "none" /\ \A u \in Threads : u # t => call'[c][u] = call[c][u]
  BY DEF WireTypes, Hang, NoCall

LEMMA NumberedIs ==
  ASSUME fresh \in [token : Nat, req : Nat], Numbered
  PROVE fresh' \in [token : Nat, req : Nat] /\ fresh'.token = fresh.token /\ fresh'.req = fresh.req + 1 /\ fresh'.token >= fresh.token
  BY DEF Numbered

LEMMA StartKeeps ==
  ASSUME ControlInv, NEW c \in Clients, Start(c)
  PROVE ControlInv'
  <1>0. /\ UNCHANGED <<reg, nodes, nextNode, queries>> /\ SendRequest(c, "main", "start", cl[c].bearer, No)
        /\ Numbered /\ cl[c].phase = "registered" /\ cl' = [cl EXCEPT ![c].phase = "starting"]
    BY DEF Start, server
  <1>1. /\ cl'[c].phase = "starting" /\ cl'[c].bearer = cl[c].bearer /\ cl'[c].pend = cl[c].pend /\ cl'[c].gen = cl[c].gen
        /\ cl'[c].stopBearer = cl[c].stopBearer /\ ClientTypes' /\ \A d \in Clients : d # c => cl'[d] = cl[d] /\ queries'[d] = queries[d]
    BY <1>0, OwnTypes DEF ClientTypes, Phases
  <1>2. call'[c]["main"].op = "start" /\ call'[c]["user"] = call[c]["user"]
    BY <1>0, OwnTypes, SendCall
  <1>3. PlacesOK(c)'
    BY <1>0, <1>2, OwnTypes DEF PlacesOK
  <1>4. cl[c].bearer # No /\ cl[c].bearer \in Nat /\ cl[c].pend < fresh.token /\ (cl[c].pend # No => cl[c].phase = "running" /\ cl[c].bearer < cl[c].pend)
    BY <1>0, OwnTypes DEF StageOK
  <1>5. "start" \in Ops /\ No \in Nat
    BY DEF Ops, No
  <1>6. fresh' \in [token : Nat, req : Nat] /\ fresh'.token = fresh.token /\ fresh'.req = fresh.req + 1 /\ fresh'.token >= fresh.token
    BY <1>0, OwnTypes, NumberedIs
  <1>7. /\ cl[c].phase \notin {"new", "registering", "gone", "stopped"} /\ cl'[c].phase \notin {"new", "registering", "gone", "stopped", "stop"}
        /\ cl'[c].pend = cl[c].pend \/ cl[c].pend = No
        /\ cl[c].bearer # No /\ cl[c].bearer \in Nat /\ (cl[c].bearer # No => cl[c].bearer = cl[c].bearer)
        /\ cl'[c].phase \in {"registered", "starting", "joining", "running"} => cl[c].bearer # No
        /\ call'[c]["main"].op = "nodes" => cl'[c].phase = "joining"
        /\ cl'[c].pend < fresh'.token /\ (cl'[c].pend # No => cl'[c].phase = "running" /\ cl[c].bearer < cl'[c].pend)
        /\ cl'[c].bearer = cl[c].bearer /\ cl'[c].gen = cl[c].gen /\ cl'[c].stopBearer = cl[c].stopBearer
    BY <1>0, <1>1, <1>2, <1>4, <1>6
  <1>8. /\ SendRequest(c, "main", "start", cl[c].bearer, No) /\ UNCHANGED <<reg, nodes, nextNode>> /\ ClientTypes'
        /\ "main" \in Threads /\ \A d \in Clients : d # c => cl'[d] = cl[d] /\ queries'[d] = queries[d]
    BY <1>0, <1>1 DEF Threads
  <1> QED
    BY <1>3, <1>5, <1>6, <1>7, <1>8, SendKeeps DEF No

LEMMA StopRegistrationKeeps ==
  ASSUME ControlInv, NEW c \in Clients, StopRegistration(c)
  PROVE ControlInv'
  <1>0. /\ UNCHANGED <<reg, nodes, nextNode, queries>> /\ SendRequest(c, "main", "stop", cl[c].stopBearer, No)
        /\ Numbered /\ cl[c].phase = "stop" /\ cl' = [cl EXCEPT ![c].phase = "stopping"]
    BY DEF StopRegistration, server
  <1>1. /\ cl'[c].phase = "stopping" /\ cl'[c].bearer = cl[c].bearer /\ cl'[c].pend = cl[c].pend /\ cl'[c].gen = cl[c].gen
        /\ cl'[c].stopBearer = cl[c].stopBearer /\ ClientTypes' /\ \A d \in Clients : d # c => cl'[d] = cl[d] /\ queries'[d] = queries[d]
    BY <1>0, OwnTypes DEF ClientTypes, Phases
  <1>2. call'[c]["main"].op = "stop" /\ call'[c]["user"] = call[c]["user"]
    BY <1>0, OwnTypes, SendCall
  <1>3. PlacesOK(c)'
    BY <1>0, <1>2, OwnTypes DEF PlacesOK
  <1>4. /\ cl[c].stopBearer # No /\ cl[c].stopBearer \in Nat /\ cl[c].pend < fresh.token
        /\ cl[c].bearer # No => cl[c].stopBearer = cl[c].bearer
        /\ cl[c].pend # No => cl[c].phase = "running" /\ cl[c].bearer < cl[c].pend
    BY <1>0, OwnTypes DEF StageOK
  <1>5. "stop" \in Ops /\ No \in Nat
    BY DEF Ops, No
  <1>6. fresh' \in [token : Nat, req : Nat] /\ fresh'.token = fresh.token /\ fresh'.req = fresh.req + 1 /\ fresh'.token >= fresh.token
    BY <1>0, OwnTypes, NumberedIs
  <1>7. /\ cl[c].phase \notin {"new", "registering", "gone", "stopped"} /\ cl'[c].phase \notin {"new", "registering", "gone", "stopped", "stop"}
        /\ cl'[c].pend = cl[c].pend \/ cl[c].pend = No
        /\ cl[c].stopBearer # No /\ cl[c].stopBearer \in Nat /\ (cl[c].bearer # No => cl[c].stopBearer = cl[c].bearer)
        /\ cl'[c].phase \in {"registered", "starting", "joining", "running"} => cl[c].bearer # No
        /\ call'[c]["main"].op = "nodes" => cl'[c].phase = "joining"
        /\ cl'[c].pend < fresh'.token /\ (cl'[c].pend # No => cl'[c].phase = "running" /\ cl[c].bearer < cl'[c].pend)
        /\ cl'[c].bearer = cl[c].bearer /\ cl'[c].gen = cl[c].gen /\ cl'[c].stopBearer = cl[c].stopBearer
    BY <1>0, <1>1, <1>2, <1>4, <1>6
  <1>8. /\ SendRequest(c, "main", "stop", cl[c].stopBearer, No) /\ UNCHANGED <<reg, nodes, nextNode>> /\ ClientTypes'
        /\ "main" \in Threads /\ \A d \in Clients : d # c => cl'[d] = cl[d] /\ queries'[d] = queries[d]
    BY <1>0, <1>1 DEF Threads
  <1> QED
    BY <1>3, <1>5, <1>6, <1>7, <1>8, SendKeeps DEF No

LEMMA RefreshNodesKeeps ==
  ASSUME ControlInv, NEW c \in Clients, NEW t \in Threads, RefreshNodes(c, t)
  PROVE ControlInv'
  <1>0. /\ UNCHANGED <<reg, nodes, nextNode, queries, cl>> /\ SendRequest(c, t, "nodes", cl[c].bearer, No)
        /\ Numbered /\ cl[c].phase \in {"joining", "running"} /\ (t = "main" => cl[c].phase = "joining") /\ call[c][t] = NoCall
    BY DEF RefreshNodes, Live, server
  <1>1. ClientTypes'
    BY <1>0 DEF ControlInv, ClientTypes
  <1>2. call'[c][t].op = "nodes" /\ (\A u \in Threads : u # t => call'[c][u] = call[c][u])
    BY <1>0, OwnTypes, SendCall
  <1>3. PlacesOK(c)'
    BY <1>0, <1>2, OwnTypes DEF PlacesOK, NoCall
  <1>4. /\ cl[c].bearer # No /\ cl[c].bearer \in Nat /\ cl[c].pend < fresh.token
        /\ cl[c].pend # No => cl[c].phase = "running" /\ cl[c].bearer < cl[c].pend
        /\ call'[c]["main"].op = "nodes" => cl[c].phase = "joining"
    BY <1>0, <1>2, OwnTypes DEF StageOK
  <1>5. "nodes" \in Ops /\ No \in Nat
    BY DEF Ops, No
  <1>6. fresh' \in [token : Nat, req : Nat] /\ fresh'.token = fresh.token /\ fresh'.req = fresh.req + 1 /\ fresh'.token >= fresh.token
    BY <1>0, OwnTypes, NumberedIs
  <1> QED
    BY <1>0, <1>1, <1>2, <1>3, <1>4, <1>5, <1>6, OwnTypes, SendKeeps DEF No

LEMMA AddModuleKeeps ==
  ASSUME ControlInv, NEW c \in Clients, AddModule(c)
  PROVE ControlInv'
  <1>0. /\ UNCHANGED <<reg, nodes, nextNode, queries, cl>> /\ SendRequest(c, "user", "module", cl[c].bearer, No)
        /\ Numbered /\ cl[c].phase = "running" /\ call[c]["user"] = NoCall
    BY DEF AddModule, Live, server
  <1>1. ClientTypes'
    BY <1>0 DEF ControlInv, ClientTypes
  <1>2. call'[c]["user"].op = "module" /\ call'[c]["main"] = call[c]["main"]
    BY <1>0, OwnTypes, SendCall
  <1>3. PlacesOK(c)'
    BY <1>0, <1>2, OwnTypes DEF PlacesOK, NoCall
  <1>4. /\ cl[c].bearer # No /\ cl[c].bearer \in Nat /\ cl[c].pend < fresh.token
        /\ cl[c].pend # No => cl[c].phase = "running" /\ cl[c].bearer < cl[c].pend
        /\ call'[c]["main"].op = "nodes" => cl[c].phase = "joining"
    BY <1>0, <1>2, OwnTypes DEF StageOK
  <1>5. "module" \in Ops /\ No \in Nat
    BY DEF Ops, No
  <1>6. fresh' \in [token : Nat, req : Nat] /\ fresh'.token = fresh.token /\ fresh'.req = fresh.req + 1 /\ fresh'.token >= fresh.token
    BY <1>0, OwnTypes, NumberedIs
  <1> QED
    BY <1>0, <1>1, <1>2, <1>3, <1>4, <1>5, <1>6, OwnTypes, SendKeeps DEF No

LEMMA LookupNodesKeeps ==
  ASSUME ControlInv, NEW c \in Clients, LookupNodes(c)
  PROVE ControlInv'
  <1>0. /\ UNCHANGED <<reg, nodes, nextNode, cl>> /\ SendRequest(c, "user", "lookup", cl[c].bearer, No)
        /\ Numbered /\ cl[c].phase = "running" /\ call[c]["user"] = NoCall
        /\ queries[c].pending < MaxQueries /\ queries' = [queries EXCEPT ![c].pending = @ + 1]
    BY DEF LookupNodes, Live, server
  <1>1. /\ ClientTypes' /\ queries'[c].pending = queries[c].pending + 1 /\ queries'[c].results = queries[c].results
        /\ \A d \in Clients : d # c => cl'[d] = cl[d] /\ queries'[d] = queries[d]
    BY <1>0, OwnTypes DEF ClientTypes
  <1>2. call'[c]["user"].op = "lookup" /\ call'[c]["main"] = call[c]["main"]
    BY <1>0, OwnTypes, SendCall
  <1>3. PlacesOK(c)'
    BY <1>0, <1>1, <1>2, OwnTypes, ControlAssumption DEF PlacesOK, NoCall
  <1>4. /\ cl[c].bearer # No /\ cl[c].bearer \in Nat /\ cl[c].pend < fresh.token
        /\ cl[c].pend # No => cl[c].phase = "running" /\ cl[c].bearer < cl[c].pend
        /\ call'[c]["main"].op = "nodes" => cl[c].phase = "joining"
    BY <1>0, <1>2, OwnTypes DEF StageOK
  <1>5. "lookup" \in Ops /\ No \in Nat
    BY DEF Ops, No
  <1>6. fresh' \in [token : Nat, req : Nat] /\ fresh'.token = fresh.token /\ fresh'.req = fresh.req + 1 /\ fresh'.token >= fresh.token
    BY <1>0, OwnTypes, NumberedIs
  <1> QED
    BY <1>0, <1>1, <1>2, <1>3, <1>4, <1>5, <1>6, OwnTypes, SendKeeps DEF No

LEMMA RefreshBearerKeeps ==
  ASSUME ControlInv, NEW c \in Clients, RefreshBearer(c)
  PROVE ControlInv'
  <1> DEFINE nb == NextBearer(c)
  <1>0. /\ UNCHANGED <<reg, nodes, nextNode, queries>> /\ SendRequest(c, "rotation", "refresh", cl[c].bearer, nb)
        /\ cl[c].phase = "running" /\ cl' = [cl EXCEPT ![c].pend = nb]
        /\ fresh' = [token |-> IF nb = fresh.token THEN nb + 1 ELSE fresh.token, req |-> fresh.req + 1]
    BY DEF RefreshBearer, Live, server
  <1>1. /\ nb \in Nat /\ nb # No /\ nb <= fresh.token /\ cl[c].bearer # No /\ cl[c].bearer \in Nat
        /\ cl[c].bearer < nb /\ (nb = cl[c].pend \/ cl[c].pend = No)
    BY <1>0, OwnTypes DEF NextBearer, StageOK, No
  <1> HIDE DEF nb
  <1>2. /\ cl'[c].phase = "running" /\ cl'[c].bearer = cl[c].bearer /\ cl'[c].pend = nb /\ cl'[c].gen = cl[c].gen
        /\ cl'[c].stopBearer = cl[c].stopBearer /\ ClientTypes' /\ \A d \in Clients : d # c => cl'[d] = cl[d] /\ queries'[d] = queries[d]
    <2>1. ClientTypes /\ cl' = [cl EXCEPT ![c].pend = nb] /\ queries' = queries
      BY <1>0 DEF ControlInv
    <2>2. /\ cl'[c].phase = cl[c].phase /\ cl'[c].bearer = cl[c].bearer /\ cl'[c].pend = nb /\ cl'[c].gen = cl[c].gen
          /\ cl'[c].stopBearer = cl[c].stopBearer /\ \A d \in Clients : d # c => cl'[d] = cl[d]
      BY ONLY <2>1, c \in Clients DEF ClientTypes
    <2>3. ClientTypes'
      BY ONLY <1>1, <2>1, c \in Clients DEF ClientTypes
    <2> QED
      BY <1>0, <2>1, <2>2, <2>3
  <1>3. call'[c]["user"] = call[c]["user"] /\ call'[c]["main"] = call[c]["main"]
    BY <1>0, OwnTypes, SendCall
  <1>4. PlacesOK(c)'
    BY <1>0, <1>3, OwnTypes DEF PlacesOK
  <1>5. "refresh" \in Ops /\ "rotation" \in Threads
    BY DEF Ops, Threads
  <1>6. fresh' \in [token : Nat, req : Nat] /\ fresh'.req = fresh.req + 1 /\ fresh'.token >= fresh.token /\ nb < fresh'.token
    <2>1. fresh.token \in Nat /\ fresh.req \in Nat
      BY OwnTypes
    <2>2. CASE nb = fresh.token
      BY <1>0, <1>1, <2>1, <2>2
    <2>3. CASE nb # fresh.token
      BY <1>0, <1>1, <2>1, <2>3
    <2> QED
      BY <2>2, <2>3
  <1>7. call[c]["main"].op = "nodes" => cl[c].phase = "joining"
    BY OwnTypes DEF StageOK
  <1>8. /\ SendRequest(c, "rotation", "refresh", cl[c].bearer, nb) /\ UNCHANGED <<reg, nodes, nextNode>>
        /\ cl[c].phase = "running"
    BY <1>0
  <1>9. /\ cl[c].phase \notin {"new", "registering", "gone", "stopped"} /\ cl'[c].phase \notin {"new", "registering", "gone", "stopped", "stop"}
        /\ cl'[c].pend = cl[c].pend \/ cl[c].pend = No
        /\ cl'[c].phase \in {"registered", "starting", "joining", "running"} => cl[c].bearer # No
        /\ call'[c]["main"].op = "nodes" => cl'[c].phase = "joining"
        /\ cl'[c].pend < fresh'.token /\ (cl'[c].pend # No => cl'[c].phase = "running" /\ cl[c].bearer < cl'[c].pend)
        /\ nb = cl'[c].pend /\ ClientTypes'
    BY <1>1, <1>2, <1>3, <1>6, <1>7, <1>8
  <1> QED
    BY <1>1, <1>2, <1>4, <1>5, <1>6, <1>8, <1>9, SendKeeps DEF No

\* Calls that end and change nothing but the places of queries.
LEMMA QuietHangKeeps ==
  ASSUME ControlInv, NEW c \in Clients, NEW t \in Threads, Hang(c, t), UNCHANGED <<reg, nodes, nextNode, fresh, cl>>,
         call[c][t].op \in {"refresh", "module", "nodes", "lookup"}, t = "main" => cl[c].phase # "joining",
         ClientTypes', \A d \in Clients : d # c => queries'[d] = queries[d], PlacesOK(c)'
  PROVE ControlInv'
  <1>1. (t # "main" => call'[c]["main"] = call[c]["main"]) /\ (t = "main" => call'[c]["main"].op = "none")
    BY OwnTypes, HangCall
  <1>2. StageOK(c)
    BY OwnTypes
  <1>3. CASE cl[c].phase \in {"new", "registering"}
    <2>1. WireTypes' /\ CallsOK' /\ wire' \subseteq wire
          /\ \A d \in Clients, u \in Threads : d # c \/ u # t => call'[d][u] = call[d][u]
      BY OwnTypes, HangKeepsWire
    <2>2. StageOK(c)' /\ BearerOK(c)'
      BY <1>1, <1>2, <2>1, OwnTypes DEF StageOK, BearerOK
    <2>3. \A q \in wire' : q.c = c => EachOK(q)'
      <3>1. SUFFICES ASSUME NEW q \in wire', q.c = c PROVE EachOK(q)'
        OBVIOUS
      <3>2. q \in wire /\ EachOK(q) /\ \A p \in wire' : p \in wire
        BY <2>1 DEF ControlInv
      <3> QED
        BY <3>2 DEF EachOK, RegisterOK, RequestOK
    <2>4. fresh'.token >= fresh.token
      BY OwnTypes
    <2> QED
      BY <2>1, <2>2, <2>3, <2>4, ClientKeeps
  <1>4. CASE cl[c].phase \notin {"new", "registering"}
    <2>1. /\ cl'[c].phase \in {"registered", "starting", "joining", "running"} => cl'[c].bearer # No
          /\ cl'[c].phase = "stop" => cl'[c].stopBearer # No /\ (cl'[c].bearer # No => cl'[c].stopBearer = cl'[c].bearer)
          /\ cl'[c].phase = "stopped" => reg[c] = {}
          /\ call'[c]["main"].op = "nodes" => cl'[c].phase = "joining"
      BY <1>1, <1>2 DEF StageOK
    <2> QED
      BY <1>4, <2>1, HangKeeps
  <1> QED
    BY <1>3, <1>4

LEMMA RefreshBearerFailedKeeps ==
  ASSUME ControlInv, NEW c \in Clients, RefreshBearerFailed(c)
  PROVE ControlInv'
  <1>1. /\ call[c]["rotation"].op = "refresh" /\ Hang(c, "rotation") /\ UNCHANGED <<reg, nodes, nextNode, cl, queries, fresh>>
    BY DEF RefreshBearerFailed, Failed, Heard, server
  <1>2. call'[c]["user"] = call[c]["user"]
    BY <1>1, OwnTypes, HangCall
  <1>3. PlacesOK(c)' /\ ClientTypes' /\ "rotation" \in Threads
    BY <1>1, <1>2, OwnTypes DEF PlacesOK, ClientTypes
  <1> QED
    BY <1>1, <1>3, QuietHangKeeps

LEMMA AddModuleDoneKeeps ==
  ASSUME ControlInv, NEW c \in Clients, AddModuleDone(c)
  PROVE ControlInv'
  <1>1. /\ call[c]["user"].op = "module" /\ Hang(c, "user") /\ UNCHANGED <<reg, nodes, nextNode, cl, queries, fresh>>
    BY DEF AddModuleDone, Failed, Heard, server
  <1>2. call'[c]["user"].op = "none"
    BY <1>1, OwnTypes, HangCall
  <1>3. PlacesOK(c)' /\ ClientTypes' /\ "user" \in Threads
    BY <1>1, <1>2, OwnTypes DEF PlacesOK, ClientTypes
  <1> QED
    BY <1>1, <1>3, QuietHangKeeps

LEMMA LookupDoneKeeps ==
  ASSUME ControlInv, NEW c \in Clients, LookupDone(c)
  PROVE ControlInv'
  <1>1. /\ call[c]["user"].op = "lookup" /\ Hang(c, "user") /\ UNCHANGED <<reg, nodes, nextNode, cl, fresh>>
        /\ \/ queries' = [queries EXCEPT ![c].results = @ + 1]
           \/ queries' = [queries EXCEPT ![c].pending = @ - 1]
    BY DEF LookupDone, Ok, Failed, Heard, server
  <1>2. call'[c]["user"].op = "none"
    BY <1>1, OwnTypes, HangCall
  <1>3. queries[c].pending = queries[c].results + 1 /\ queries[c].pending <= MaxQueries /\ queries[c].results \in Nat
    BY <1>1, OwnTypes DEF PlacesOK
  <1>4. ClientTypes' /\ "user" \in Threads /\ \A d \in Clients : d # c => queries'[d] = queries[d]
    <2>1. queries[c].pending - 1 \in Nat /\ queries[c].results + 1 \in Nat
      BY <1>3
    <2>2. queries \in [Clients -> [pending : Nat, results : Nat]] /\ "user" \in Threads /\ ClientTypes
      BY OwnTypes DEF ControlInv
    <2>3. CASE queries' = [queries EXCEPT ![c].results = @ + 1]
      BY <1>1, <2>1, <2>2, <2>3 DEF ClientTypes
    <2>4. CASE queries' = [queries EXCEPT ![c].pending = @ - 1]
      BY <1>1, <2>1, <2>2, <2>4 DEF ClientTypes
    <2> QED
      BY <1>1, <2>3, <2>4
  <1>5. \/ queries'[c].pending = queries[c].pending /\ queries'[c].results = queries[c].results + 1
        \/ queries'[c].pending = queries[c].pending - 1 /\ queries'[c].results = queries[c].results
    BY <1>1, OwnTypes
  <1>6. PlacesOK(c)'
    BY <1>2, <1>3, <1>5, ControlAssumption DEF PlacesOK
  <1> QED
    BY <1>1, <1>4, <1>6, QuietHangKeeps

\* Authority is revoked: the bearer is kept for the stop only.
LEMMA RevokedIs ==
  ASSUME ControlInv, NEW c \in Clients, NEW p \in Phases, cl' = [cl EXCEPT ![c] = [Revoked(cl[c]) EXCEPT !.phase = p]]
  PROVE /\ cl'[c].phase = p /\ cl'[c].bearer = No /\ cl'[c].pend = No /\ cl'[c].stopBearer = cl[c].bearer
        /\ cl'[c].gen = cl[c].gen /\ (queries' \in [Clients -> [pending : Nat, results : Nat]] => ClientTypes')
        /\ \A d \in Clients : d # c => cl'[d] = cl[d]
  <1> DEFINE R == [phase : Phases, bearer : Nat, pend : Nat, gen : Nat, id : Nat, stopped : BOOLEAN, stopBearer : Nat]
             r == [Revoked(cl[c]) EXCEPT !.phase = p]
  <1>1. cl \in [Clients -> R] /\ cl[c] \in R
    BY OwnTypes
  <1>2. r \in R /\ r.phase = p /\ r.bearer = No /\ r.pend = No /\ r.stopBearer = cl[c].bearer /\ r.gen = cl[c].gen
    BY <1>1 DEF Revoked, No
  <1>3. cl' = [cl EXCEPT ![c] = r]
    OBVIOUS
  <1> HIDE DEF r
  <1>4. cl' \in [Clients -> R] /\ cl'[c] = r /\ \A d \in Clients : d # c => cl'[d] = cl[d]
    BY <1>1, <1>2, <1>3
  <1> QED
    BY <1>2, <1>4 DEF ClientTypes

LEMMA RefreshFailedKeeps ==
  ASSUME ControlInv, NEW c \in Clients, NEW t \in Threads, RefreshFailed(c, t)
  PROVE ControlInv'
  <1>1. /\ call[c][t].op = "nodes" /\ Hang(c, t) /\ UNCHANGED <<reg, nodes, nextNode, queries, fresh>>
        /\ IF t = "main" THEN cl' = [cl EXCEPT ![c] = [Revoked(@) EXCEPT !.phase = "stop"]] ELSE UNCHANGED cl
    BY DEF RefreshFailed, Failed, Heard, server
  <1>2. call'[c][t].op = "none" /\ \A u \in Threads : u # t => call'[c][u] = call[c][u]
    BY <1>1, OwnTypes, HangCall
  <1>3. PlacesOK(c)'
    BY <1>1, <1>2, OwnTypes DEF PlacesOK
  <1>4. CASE t # "main"
    <2>1. ClientTypes' /\ UNCHANGED cl
      BY <1>1, <1>4, OwnTypes DEF ClientTypes
    <2>2. call[c][t].op = "nodes" /\ Hang(c, t) /\ UNCHANGED <<reg, nodes, nextNode, fresh, cl>> /\ UNCHANGED queries
      BY <1>1, <2>1
    <2> QED
      BY <1>3, <1>4, <2>1, <2>2, QuietHangKeeps
  <1>5. CASE t = "main"
    <2>1. cl[c].phase = "joining" /\ cl[c].bearer # No
      BY <1>1, <1>5, OwnTypes DEF StageOK
    <2>2. cl' = [cl EXCEPT ![c] = [Revoked(cl[c]) EXCEPT !.phase = "stop"]]
      BY <1>1, <1>5
    <2>0. queries' \in [Clients -> [pending : Nat, results : Nat]]
      BY <1>1, OwnTypes
    <2>3. /\ cl'[c].phase = "stop" /\ cl'[c].bearer = No /\ cl'[c].pend = No /\ cl'[c].stopBearer = cl[c].bearer
          /\ ClientTypes' /\ \A d \in Clients : d # c => cl'[d] = cl[d] /\ queries'[d] = queries[d]
      BY <1>1, <2>0, <2>2, RevokedIs DEF Phases
    <2>4. Hang(c, t) /\ UNCHANGED <<reg, nodes, nextNode, fresh>> /\ call'[c]["main"].op = "none"
      BY <1>1, <1>2, <1>5
    <2> QED
      BY <1>3, <2>1, <2>3, <2>4, HangKeeps
  <1> QED
    BY <1>4, <1>5

LEMMA RegistrationDoneKeeps ==
  ASSUME ControlInv, NEW c \in Clients, RegistrationDone(c)
  PROVE ControlInv'
  <1>1. /\ cl[c].phase = "registering" /\ Hang(c, "main") /\ UNCHANGED <<reg, nodes, nextNode, queries, fresh>>
        /\ call[c]["main"].op = "register"
    BY DEF RegistrationDone, Ok, Failed, Heard, server
  <1>2. call'[c]["main"].op = "none" /\ call'[c]["user"] = call[c]["user"]
    BY <1>1, OwnTypes, HangCall
  <1>3. PlacesOK(c)'
    BY <1>1, <1>2, OwnTypes DEF PlacesOK
  <1>4. CASE cl' = [cl EXCEPT ![c].phase = "gone"]
    <2>1. /\ cl'[c].phase = "gone" /\ cl'[c].bearer = cl[c].bearer /\ cl'[c].pend = cl[c].pend /\ cl'[c].gen = cl[c].gen
          /\ ClientTypes' /\ \A d \in Clients : d # c => cl'[d] = cl[d] /\ queries'[d] = queries[d]
      BY <1>1, <1>4, OwnTypes DEF ClientTypes, Phases
    <2> QED
      BY <1>1, <1>2, <1>3, <2>1, OwnTypes, HangKeeps
  <1>5. CASE Ok(c, "main", "register") /\ \E q \in Answers(c, "main") : cl' = [cl EXCEPT ![c].phase = "registered", ![c].bearer = q.next]
    <2>1. PICK q \in Answers(c, "main") : cl' = [cl EXCEPT ![c].phase = "registered", ![c].bearer = q.next]
      BY <1>5
    <2>2. /\ WireTypes' /\ CallsOK' /\ wire' \subseteq wire
          /\ \A d \in Clients, u \in Threads : d # c => call'[d][u] = call[d][u]
          /\ q \in wire /\ q \notin wire' /\ q.c = c /\ q.op = "register"
      BY <1>1, <2>1, OwnTypes, HangKeepsWire
    <2>3. q.st = "ok"
      BY <1>5, <2>1, OwnTypes DEF Ok, Answers, CallsOK
    <2>4. RegisterOK(q) /\ q.next \in Nat
      BY <2>2 DEF ControlInv, EachOK, WireTypes
    <2>5. /\ cl'[c].phase = "registered" /\ cl'[c].bearer = q.next /\ cl'[c].pend = cl[c].pend /\ cl'[c].gen = cl[c].gen
          /\ ClientTypes' /\ \A d \in Clients : d # c => cl'[d] = cl[d] /\ queries'[d] = queries[d]
      BY <1>1, <2>1, <2>4, OwnTypes DEF ClientTypes, Phases
    <2>6. cl[c].pend = No /\ cl[c].gen = 0 /\ fresh.token \in Nat
      BY <1>1, OwnTypes DEF StageOK
    <2>7. StageOK(c)' /\ BearerOK(c)'
      BY <1>1, <1>2, <2>2, <2>3, <2>4, <2>5, <2>6, OwnTypes DEF RegisterOK, StageOK, BearerOK
    <2>8. \A p \in wire' : p.c # c
      BY <2>2, <2>4 DEF RegisterOK
    <2>9. /\ \A p \in wire' : p \in wire \/ p.c = c
          /\ \A p \in wire' : p.c = c => EachOK(p)'
          /\ fresh'.token >= fresh.token
      BY <1>1, <2>2, <2>6, <2>8
    <2> QED
      BY <1>1, <1>3, <2>2, <2>5, <2>7, <2>9, ClientKeeps
  <1> QED
    BY <1>4, <1>5 DEF RegistrationDone

LEMMA StartedKeeps ==
  ASSUME ControlInv, NEW c \in Clients, Started(c)
  PROVE ControlInv'
  <1>1. /\ cl[c].phase = "starting" /\ Hang(c, "main") /\ UNCHANGED <<reg, nodes, nextNode, queries, fresh>>
    BY DEF Started, server
  <1>2. call'[c]["main"].op = "none" /\ call'[c]["user"] = call[c]["user"] /\ cl[c].bearer # No /\ "main" \in Threads
    BY <1>1, OwnTypes, HangCall DEF StageOK
  <1>3. PlacesOK(c)'
    BY <1>1, <1>2, OwnTypes DEF PlacesOK
  <1>4. CASE \E q \in Answers(c, "main") : InstallStarted(c, q)
    <2>1. PICK q \in Answers(c, "main") : cl' = [cl EXCEPT ![c].phase = "joining", ![c].id = q.next]
      BY <1>4 DEF InstallStarted
    <2>2. q.next \in Nat
      BY <2>1, OwnTypes DEF Answers, WireTypes
    <2>3. /\ cl'[c].phase = "joining" /\ cl'[c].bearer = cl[c].bearer /\ cl'[c].pend = cl[c].pend /\ cl'[c].gen = cl[c].gen
          /\ ClientTypes' /\ \A d \in Clients : d # c => cl'[d] = cl[d] /\ queries'[d] = queries[d]
      <3> DEFINE r == [cl[c] EXCEPT !.phase = "joining", !.id = q.next]
      <3>1. /\ r.phase = "joining" /\ r.bearer = cl[c].bearer /\ r.pend = cl[c].pend /\ r.gen = cl[c].gen
            /\ "joining" \in Phases
        BY OwnTypes DEF ClientTypes, Phases
      <3>4. /\ cl \in [Clients -> [phase : Phases, bearer : Nat, pend : Nat, gen : Nat, id : Nat, stopped : BOOLEAN,
                                   stopBearer : Nat]]
            /\ queries' \in [Clients -> [pending : Nat, results : Nat]]
        BY <1>1, OwnTypes DEF ClientTypes
      <3>5. r \in [phase : Phases, bearer : Nat, pend : Nat, gen : Nat, id : Nat, stopped : BOOLEAN, stopBearer : Nat]
        BY <2>2, <3>1, <3>4
      <3>6. cl' = [cl EXCEPT ![c] = r]
        BY <2>1, <3>4
      <3> HIDE DEF r
      <3>2. ClientTypes' /\ cl'[c] = r
        BY <3>4, <3>5, <3>6 DEF ClientTypes
      <3>3. \A d \in Clients : d # c => cl'[d] = cl[d] /\ queries'[d] = queries[d]
        BY <1>1, <2>1, OwnTypes DEF ClientTypes
      <3> QED
        BY <3>1, <3>2, <3>3
    <2> QED
      BY <1>1, <1>2, <1>3, <2>3, HangKeeps
  <1>5. CASE cl' = [cl EXCEPT ![c] = [cl[c] EXCEPT !.phase = "stop", !.stopped = TRUE, !.stopBearer = cl[c].bearer]]
    <2> DEFINE R == [phase : Phases, bearer : Nat, pend : Nat, gen : Nat, id : Nat, stopped : BOOLEAN, stopBearer : Nat]
               r == [cl[c] EXCEPT !.phase = "stop", !.stopped = TRUE, !.stopBearer = cl[c].bearer]
    <2>0. cl \in [Clients -> R] /\ cl[c] \in R /\ queries \in [Clients -> [pending : Nat, results : Nat]]
      BY OwnTypes
    <2>2. /\ r \in R /\ r.phase = "stop" /\ r.bearer = cl[c].bearer /\ r.pend = cl[c].pend /\ r.gen = cl[c].gen
          /\ r.stopBearer = cl[c].bearer
      BY <2>0 DEF Phases
    <2>3. cl' = [cl EXCEPT ![c] = r]
      BY <1>5
    <2> HIDE DEF r
    <2>4. cl' \in [Clients -> R] /\ cl'[c] = r /\ \A d \in Clients : d # c => cl'[d] = cl[d]
      BY <2>0, <2>2, <2>3
    <2>1. /\ cl'[c].phase = "stop" /\ cl'[c].bearer = cl[c].bearer /\ cl'[c].pend = cl[c].pend /\ cl'[c].gen = cl[c].gen
          /\ cl'[c].stopBearer = cl[c].bearer /\ ClientTypes'
          /\ \A d \in Clients : d # c => cl'[d] = cl[d] /\ queries'[d] = queries[d]
      BY <1>1, <2>0, <2>2, <2>4 DEF ClientTypes
    <2> QED
      BY <1>1, <1>2, <1>3, <2>1, HangKeeps
  <1> QED
    BY <1>4, <1>5 DEF Started

LEMMA StopDoneKeeps ==
  ASSUME ControlInv, NEW c \in Clients, StopDone(c)
  PROVE ControlInv'
  <1>1. /\ cl[c].phase = "stopping" /\ Hang(c, "main") /\ UNCHANGED <<reg, nodes, nextNode, queries, fresh>>
        /\ call[c]["main"].op = "stop"
    BY DEF StopDone, Ok, Failed, Heard, server
  <1>2. call'[c]["main"].op = "none" /\ call'[c]["user"] = call[c]["user"] /\ "main" \in Threads
    BY <1>1, OwnTypes, HangCall
  <1>3. PlacesOK(c)'
    BY <1>1, <1>2, OwnTypes DEF PlacesOK
  <1>4. PICK ph \in {"stopped", "gone"} : cl' = [cl EXCEPT ![c].phase = ph] /\ (ph = "stopped" => Ok(c, "main", "stop"))
    BY DEF StopDone
  <1>5. ph = "stopped" => reg[c] = {}
    <2>1. SUFFICES ASSUME Ok(c, "main", "stop") PROVE reg[c] = {}
      BY <1>4
    <2>2. PICK q \in wire : q.id = call[c]["main"].req /\ q.st = "ok"
      BY <2>1 DEF Ok, Answers
    <2>3. q.c = c /\ q.op = "stop"
      BY <1>1, <1>2, <2>2, OwnTypes DEF CallsOK
    <2> QED
      BY <2>2, <2>3 DEF ControlInv, EachOK, RequestOK
  <1>6. /\ cl'[c].phase = ph /\ cl'[c].bearer = cl[c].bearer /\ cl'[c].pend = cl[c].pend /\ cl'[c].gen = cl[c].gen
        /\ ClientTypes' /\ \A d \in Clients : d # c => cl'[d] = cl[d] /\ queries'[d] = queries[d]
    BY <1>1, <1>4, OwnTypes DEF ClientTypes, Phases
  <1> QED
    BY <1>1, <1>2, <1>3, <1>5, <1>6, HangKeeps

\* Steps that leave the wire alone.
LEMMA LocalKeeps ==
  ASSUME ControlInv, NEW c \in Clients, UNCHANGED <<reg, nodes, nextNode, wire, fresh>>, ClientTypes', WireTypes', CallsOK',
         \A d \in Clients : d # c => cl'[d] = cl[d] /\ queries'[d] = queries[d],
         \A d \in Clients, u \in Threads : d # c => call'[d][u] = call[d][u],
         cl[c].phase = "running" => cl'[c].phase = "running" \/ cl'[c].pend = No,
         \/ cl'[c].phase = cl[c].phase
         \/ cl[c].phase \notin {"new", "registering"} /\ cl'[c].phase \notin {"new", "registering", "stopped"} /\ cl[c].phase # "gone"
         \/ cl[c].phase # "new" /\ cl'[c].phase = "gone",
         \/ cl'[c].bearer = cl[c].bearer /\ cl'[c].pend = cl[c].pend /\ cl'[c].gen = cl[c].gen
         \/ cl'[c].bearer = No /\ cl'[c].pend = No /\ cl[c].phase \notin {"new", "gone"} /\ cl'[c].phase \in {"stop", "gone"},
         cl'[c].phase \in {"registered", "starting", "joining", "running"} => cl'[c].bearer # No,
         cl'[c].phase = "stop" => cl'[c].stopBearer # No /\ (cl'[c].bearer # No => cl'[c].stopBearer = cl'[c].bearer),
         call'[c]["main"].op = "nodes" => cl'[c].phase = "joining",
         PlacesOK(c)'
  PROVE ControlInv'
  <1>0. /\ fresh.token \in Nat /\ fresh.token # 0 /\ cl[c].bearer \in Nat /\ cl[c].pend \in Nat
        /\ StageOK(c) /\ BearerOK(c) /\ reg'[c] = reg[c]
    BY OwnTypes
  <1>1. StageOK(c)'
    BY <1>0 DEF StageOK, No
  <1>2. BearerOK(c)'
    BY <1>0 DEF BearerOK
  <1>3. ASSUME NEW q \in wire', q.c = c PROVE EachOK(q)'
    <2>1. q \in wire /\ EachOK(q) /\ q.gen \in Nat /\ q.auth \in Nat
      BY <1>3 DEF ControlInv, WireTypes
    <2>2. CASE q.op = "register"
      <3>1. RegisterOK(q) /\ cl[c].phase \in {"registering", "gone"} /\ cl[c].bearer = No
        BY <1>3, <2>1, <2>2 DEF EachOK, RegisterOK
      <3>2. cl'[c].phase \in {"registering", "gone"} /\ cl'[c].bearer = No
        BY <3>1
      <3> QED
        BY <1>3, <2>2, <3>1, <3>2 DEF EachOK, RegisterOK
    <2>3. CASE q.op # "register"
      BY <1>0, <1>3, <2>1, <2>3 DEF EachOK, RequestOK
    <2> QED
      BY <2>2, <2>3
  <1>4. /\ \A q \in wire' : q \in wire \/ q.c = c
        /\ \A q \in wire' : q.c = c => EachOK(q)'
        /\ fresh'.token >= fresh.token
    BY <1>0, <1>3
  <1> QED
    BY <1>1, <1>2, <1>4, ClientKeeps

LEMMA ShutdownKeeps ==
  ASSUME ControlInv, NEW c \in Clients, Shutdown(c)
  PROVE ControlInv'
  <1>1. /\ cl[c].phase = "running" /\ UNCHANGED <<reg, nodes, nextNode, queries, call, wire, fresh>>
        /\ cl' = [cl EXCEPT ![c] = [Revoked(cl[c]) EXCEPT !.phase = "stop"]]
    BY DEF Shutdown, server
  <1>2. queries' \in [Clients -> [pending : Nat, results : Nat]] /\ WireTypes' /\ CallsOK' /\ PlacesOK(c)'
    BY <1>1, OwnTypes DEF WireTypes, CallsOK, PlacesOK
  <1>3. /\ cl'[c].phase = "stop" /\ cl'[c].bearer = No /\ cl'[c].pend = No /\ cl'[c].stopBearer = cl[c].bearer
        /\ ClientTypes' /\ \A d \in Clients : d # c => cl'[d] = cl[d] /\ queries'[d] = queries[d]
    BY <1>1, <1>2, RevokedIs DEF Phases
  <1>4. cl[c].bearer # No /\ call'[c]["main"].op # "nodes"
    BY <1>1, OwnTypes DEF StageOK
  <1> QED
    BY <1>1, <1>2, <1>3, <1>4, LocalKeeps

LEMMA AbandonKeeps ==
  ASSUME ControlInv, NEW c \in Clients, Abandon(c)
  PROVE ControlInv'
  <1>1. /\ cl[c].phase \notin {"new", "stopped", "gone"} /\ UNCHANGED <<reg, nodes, nextNode, wire, fresh>>
        /\ cl' = [cl EXCEPT ![c] = [Revoked(cl[c]) EXCEPT !.phase = "gone"]]
        /\ call' = [call EXCEPT ![c] = [t \in Threads |-> NoCall]]
        /\ queries' = [queries EXCEPT ![c] = [pending |-> 0, results |-> 0]]
    BY DEF Abandon, server
  <1>2. /\ queries' \in [Clients -> [pending : Nat, results : Nat]] /\ queries'[c].pending = 0 /\ queries'[c].results = 0
        /\ \A d \in Clients : d # c => queries'[d] = queries[d]
    BY <1>1, OwnTypes
  <1>3. NoCall \in [req : Nat, op : Ops \cup {"none"}, list : SUBSET (SUBSET Nat)] /\ NoCall.req = 0 /\ NoCall.op = "none"
        /\ NoCall.list = {}
    BY DEF NoCall, No
  <1>4. WireTypes'
    BY <1>1, <1>3, OwnTypes DEF WireTypes
  <1>5. \A d \in Clients, u \in Threads : call'[d][u] = IF d = c THEN NoCall ELSE call[d][u]
    BY <1>1, OwnTypes DEF WireTypes
  <1>6. CallsOK'
    BY <1>1, <1>3, <1>5, OwnTypes DEF CallsOK, WireTypes, No
  <1>7. PlacesOK(c)' /\ call'[c]["main"].op = "none"
    BY <1>2, <1>3, <1>5, ControlAssumption DEF PlacesOK, Threads
  <1>8. /\ cl'[c].phase = "gone" /\ cl'[c].bearer = No /\ cl'[c].pend = No /\ ClientTypes' /\ \A d \in Clients : d # c => cl'[d] = cl[d]
    BY <1>1, <1>2, RevokedIs DEF Phases
  <1> QED
    BY <1>1, <1>2, <1>4, <1>5, <1>6, <1>7, <1>8, LocalKeeps

LEMMA QueryResultKeeps ==
  ASSUME ControlInv, NEW c \in Clients, QueryResult(c)
  PROVE ControlInv'
  <1>1. /\ queries[c].results > 0 /\ UNCHANGED <<reg, nodes, nextNode, cl, call, wire, fresh>>
        /\ queries' = [queries EXCEPT ![c] = [pending |-> queries[c].pending - 1, results |-> queries[c].results - 1]]
    BY DEF QueryResult, server
  <1>2. PlacesOK(c) /\ queries[c].pending \in Nat /\ queries[c].results \in Nat
    BY OwnTypes
  <1>3. queries[c].pending - 1 \in Nat /\ queries[c].results - 1 \in Nat
    BY <1>1, <1>2 DEF PlacesOK
  <1>4. /\ queries' \in [Clients -> [pending : Nat, results : Nat]] /\ queries'[c].pending = queries[c].pending - 1
        /\ queries'[c].results = queries[c].results - 1 /\ \A d \in Clients : d # c => queries'[d] = queries[d]
    BY <1>1, <1>3, OwnTypes
  <1>5. PlacesOK(c)'
    BY <1>1, <1>2, <1>4, ControlAssumption DEF PlacesOK
  <1>6. WireTypes' /\ CallsOK' /\ ClientTypes'
    BY <1>1, <1>4, OwnTypes DEF WireTypes, CallsOK, ClientTypes
  <1>7. /\ cl'[c].phase \in {"registered", "starting", "joining", "running"} => cl'[c].bearer # No
        /\ cl'[c].phase = "stop" => cl'[c].stopBearer # No /\ (cl'[c].bearer # No => cl'[c].stopBearer = cl'[c].bearer)
        /\ call'[c]["main"].op = "nodes" => cl'[c].phase = "joining"
    BY <1>1, OwnTypes DEF StageOK
  <1> QED
    BY <1>1, <1>4, <1>5, <1>6, <1>7, LocalKeeps

LEMMA ReplaceNodesKeeps ==
  ASSUME ControlInv, NEW c \in Clients, NEW t \in Threads, ReplaceNodes(c, t)
  PROVE ControlInv'
  <1>1. PICK q \in Answers(c, t) :
          /\ call[c][t].op = "nodes" /\ UNCHANGED <<reg, nodes, nextNode, cl, queries, fresh>>
          /\ call' = [call EXCEPT ![c][t] = [call[c][t] EXCEPT !.list = {q.list}]] /\ wire' = wire \ {q}
    BY DEF ReplaceNodes, Ok, Heard, server
  <1>2. q \in wire /\ q.list \in SUBSET Nat /\ q.id = call[c][t].req
    BY <1>1, OwnTypes DEF Answers, WireTypes
  <1> DEFINE C == [req : Nat, op : Ops \cup {"none"}, list : SUBSET (SUBSET Nat)]
             mine == [call[c][t] EXCEPT !.list = {q.list}]
  <1>8. call \in [Clients -> [Threads -> C]] /\ call[c][t] \in C
    BY OwnTypes DEF WireTypes
  <1>9. mine \in C /\ mine.req = call[c][t].req /\ mine.op = call[c][t].op
    BY <1>2, <1>8
  <1>10. call' = [call EXCEPT ![c][t] = mine]
    BY <1>1
  <1> HIDE DEF mine
  <1>11. call' \in [Clients -> [Threads -> C]] /\ \A d \in Clients, u \in Threads : call'[d][u] = IF d = c /\ u = t THEN mine ELSE call[d][u]
    BY <1>8, <1>9, <1>10
  <1>3. /\ \A d \in Clients, u \in Threads : call'[d][u].req = call[d][u].req /\ call'[d][u].op = call[d][u].op
        /\ \A d \in Clients, u \in Threads : d # c => call'[d][u] = call[d][u]
        /\ \A d \in Clients, u \in Threads : call'[d][u].list # {} => call[d][u].list # {} \/ call[d][u].op = "nodes"
    BY <1>1, <1>9, <1>11
  <1>12. WireTypes' /\ ClientTypes'
    BY <1>1, <1>11, OwnTypes DEF WireTypes, ClientTypes
  <1>4. WireTypes' /\ CallsOK' /\ ClientTypes'
    BY <1>1, <1>3, <1>12, OwnTypes DEF CallsOK
  <1>5. StageOK(c)' /\ BearerOK(c)' /\ PlacesOK(c)'
    BY <1>1, <1>3, OwnTypes DEF StageOK, BearerOK, PlacesOK
  <1>6. ASSUME NEW p \in wire' PROVE p \in wire /\ EachOK(p)'
    <2>1. p \in wire /\ EachOK(p) /\ wire' \subseteq wire
      BY <1>1 DEF ControlInv
    <2> QED
      BY <1>1, <2>1 DEF EachOK, RegisterOK, RequestOK
  <1>7. fresh'.token >= fresh.token
    BY <1>1, OwnTypes
  <1> QED
    BY <1>1, <1>3, <1>4, <1>5, <1>6, <1>7, ClientKeeps

LEMMA PublishIdsKeeps ==
  ASSUME ControlInv, NEW c \in Clients, NEW t \in Threads, PublishIds(c, t)
  PROVE ControlInv'
  <1>1. /\ call[c][t].list # {} /\ UNCHANGED <<reg, nodes, nextNode, queries, wire, fresh>>
        /\ call' = [call EXCEPT ![c][t] = NoCall]
        /\ IF t = "main" THEN cl' = [cl EXCEPT ![c].phase = "running"] ELSE UNCHANGED cl
    BY DEF PublishIds, Refreshed, server
  <1>2. call[c][t].op = "nodes" /\ (t = "main" => cl[c].phase = "joining") /\ (t # "main" => cl[c].phase = "joining" \/ call[c]["main"].op # "nodes")
    BY <1>1, OwnTypes DEF CallsOK, StageOK
  <1>3. NoCall \in [req : Nat, op : Ops \cup {"none"}, list : SUBSET (SUBSET Nat)] /\ NoCall.req = 0 /\ NoCall.op = "none"
        /\ NoCall.list = {}
    BY DEF NoCall, No
  <1>4. WireTypes'
    BY <1>1, <1>3, OwnTypes DEF WireTypes
  <1>5. \A d \in Clients, u \in Threads : call'[d][u] = IF d = c /\ u = t THEN NoCall ELSE call[d][u]
    BY <1>1, OwnTypes DEF WireTypes
  <1>6. CallsOK'
    BY <1>1, <1>3, <1>5, OwnTypes DEF CallsOK, WireTypes, No
  <1>7. PlacesOK(c)'
    BY <1>1, <1>2, <1>3, <1>5, OwnTypes DEF PlacesOK
  <1>8. /\ ClientTypes' /\ cl'[c].bearer = cl[c].bearer /\ cl'[c].pend = cl[c].pend /\ cl'[c].gen = cl[c].gen
        /\ cl'[c].stopBearer = cl[c].stopBearer /\ cl'[c].phase = (IF t = "main" THEN "running" ELSE cl[c].phase)
        /\ \A d \in Clients : d # c => cl'[d] = cl[d] /\ queries'[d] = queries[d]
    <2>1. CASE t = "main"
      <3>1. cl' = [cl EXCEPT ![c].phase = "running"] /\ UNCHANGED queries
        BY <1>1, <2>1
      <3>2. /\ cl \in [Clients -> [phase : Phases, bearer : Nat, pend : Nat, gen : Nat, id : Nat, stopped : BOOLEAN, stopBearer : Nat]]
            /\ "running" \in Phases /\ ClientTypes
        BY OwnTypes DEF Phases, ControlInv
      <3>3. /\ ClientTypes' /\ cl'[c].bearer = cl[c].bearer /\ cl'[c].pend = cl[c].pend /\ cl'[c].gen = cl[c].gen
            /\ cl'[c].stopBearer = cl[c].stopBearer /\ cl'[c].phase = "running" /\ \A d \in Clients : d # c => cl'[d] = cl[d]
        BY <3>1, <3>2 DEF ClientTypes
      <3> QED
        BY <2>1, <3>1, <3>3
    <2>2. CASE t # "main"
      <3>1. UNCHANGED <<cl, queries>> /\ cl'[c].phase = (IF t = "main" THEN "running" ELSE cl[c].phase)
        BY <1>1, <2>2
      <3> QED
        BY <3>1, OwnTypes DEF ClientTypes
    <2> QED
      BY <2>1, <2>2
  <1>9. /\ cl'[c].phase \in {"registered", "starting", "joining", "running"} => cl'[c].bearer # No
        /\ cl'[c].phase = "stop" => cl'[c].stopBearer # No /\ (cl'[c].bearer # No => cl'[c].stopBearer = cl'[c].bearer)
        /\ call'[c]["main"].op = "nodes" => cl'[c].phase = "joining"
    BY <1>2, <1>3, <1>5, <1>8, OwnTypes DEF StageOK
  <1>10. \/ cl'[c].phase = cl[c].phase
         \/ cl[c].phase \notin {"new", "registering"} /\ cl'[c].phase \notin {"new", "registering", "stopped"} /\ cl[c].phase # "gone"
    BY <1>2, <1>8
  <1> QED
    BY <1>1, <1>4, <1>5, <1>6, <1>7, <1>8, <1>9, <1>10, LocalKeeps

\* The acknowledged bearer is installed: the server has staged it, or has taken it over.
LEMMA BearerRefreshedKeeps ==
  ASSUME ControlInv, NEW c \in Clients, BearerRefreshed(c)
  PROVE ControlInv'
  <1>1. PICK q \in Answers(c, "rotation") :
          /\ Ok(c, "rotation", "refresh") /\ InstallRefreshed(c, q) /\ Numbered /\ UNCHANGED <<reg, nodes, nextNode, queries>>
          /\ wire' = (wire \ {q}) \cup {NewRequest(c, "nodes", cl[c].pend, cl[c].gen + 1, No)}
          /\ call' = [call EXCEPT ![c]["rotation"] = [req |-> fresh.req, op |-> "nodes", list |-> {}]]
    BY DEF BearerRefreshed, server
  <1> DEFINE Q == [id : Nat, c : Clients, op : Ops, bearer : Nat, gen : Nat, next : Nat,
                   st : {"sent", "handle", "ok", "refused"}, auth : Nat, list : SUBSET Nat]
             C == [req : Nat, op : Ops \cup {"none"}, list : SUBSET (SUBSET Nat)]
             new == NewRequest(c, "nodes", cl[c].pend, cl[c].gen + 1, No)
             mine == [req |-> fresh.req, op |-> "nodes", list |-> {}]
  <1>2. q \in wire /\ q.c = c /\ q.op = "refresh" /\ q.st = "ok" /\ q.id = call[c]["rotation"].req
    BY <1>1, OwnTypes DEF Ok, Heard, Answers, CallsOK
  <1>3. q \in Q /\ RequestOK(q) /\ wire \subseteq Q
    BY <1>2 DEF ControlInv, EachOK, WireTypes
  <1>4. /\ q.auth = cl[c].gen /\ cl[c].pend # No /\ cl[c].pend \in Nat /\ cl[c].gen \in Nat /\ cl[c].bearer \in Nat
        /\ fresh.req \in Nat /\ fresh.token \in Nat
        /\ cl' = [cl EXCEPT ![c].bearer = cl[c].pend, ![c].pend = No, ![c].gen = @ + 1]
    BY <1>1, OwnTypes DEF InstallRefreshed
  <1>5. /\ new \in Q /\ new.id = fresh.req /\ new.c = c /\ new.op = "nodes" /\ new.bearer = cl[c].pend /\ new.gen = cl[c].gen + 1
        /\ new.st = "sent"
    BY <1>4 DEF NewRequest, No, Ops
  <1>6. mine \in C /\ mine.req = fresh.req /\ mine.op = "nodes" /\ mine.list = {}
    BY <1>4 DEF Ops
  <1>7. wire' = (wire \ {q}) \cup {new} /\ call' = [call EXCEPT ![c]["rotation"] = mine]
    BY <1>1
  <1> HIDE DEF new, mine
  <1>8. fresh' \in [token : Nat, req : Nat] /\ fresh'.token = fresh.token /\ fresh'.req = fresh.req + 1 /\ fresh'.token # 0
    BY <1>1, OwnTypes, NumberedIs
  <1>9. call' \in [Clients -> [Threads -> C]] /\ \A d \in Clients, u \in Threads : call'[d][u] = IF d = c /\ u = "rotation" THEN mine ELSE call[d][u]
    BY <1>6, <1>7, OwnTypes DEF WireTypes
  <1>10. WireTypes'
    BY <1>3, <1>5, <1>7, <1>8, <1>9 DEF WireTypes
  <1>11. \A p \in wire' : p \in wire \/ p = new
    BY <1>7
  <1>12. CallsOK'
    <2>1. \A p \in wire' : p.id # No /\ p.id < fresh'.req
      BY <1>3, <1>4, <1>5, <1>8, <1>11, OwnTypes DEF CallsOK, No
    <2>2. \A p, r \in wire' : p.id = r.id => p = r
      BY <1>3, <1>4, <1>5, <1>11, OwnTypes DEF CallsOK, No
    <2>3. ASSUME NEW d \in Clients, NEW u \in Threads
          PROVE /\ call'[d][u].req < fresh'.req
                /\ \A p \in wire' : p.id = call'[d][u].req => p.c = d /\ p.op = call'[d][u].op
                /\ call'[d][u].op = "lookup" => u = "user"
                /\ call'[d][u].list # {} => call'[d][u].op = "nodes"
      BY <1>3, <1>4, <1>5, <1>6, <1>8, <1>9, <1>11, OwnTypes DEF CallsOK, No
    <2> QED
      BY <2>1, <2>2, <2>3 DEF CallsOK
  <1>13. /\ ClientTypes' /\ cl'[c].bearer = cl[c].pend /\ cl'[c].pend = No /\ cl'[c].gen = cl[c].gen + 1
         /\ cl'[c].phase = cl[c].phase /\ cl'[c].stopBearer = cl[c].stopBearer
         /\ \A d \in Clients : d # c => cl'[d] = cl[d] /\ queries'[d] = queries[d]
    BY <1>1, <1>4, OwnTypes DEF ClientTypes, No
  <1>14. cl[c].phase = "running" /\ cl[c].bearer # No /\ cl[c].bearer < cl[c].pend /\ cl[c].pend < fresh.token
         /\ (call[c]["main"].op # "nodes") /\ \A r \in reg[c] : r.gen \in Nat
    BY <1>4, OwnTypes DEF StageOK, ControlInv, ServerTypes
  <1>15. call'[c]["main"] = call[c]["main"] /\ call'[c]["user"] = call[c]["user"] /\ reg'[c] = reg[c]
    BY <1>1, <1>9 DEF Threads
  <1>16. StageOK(c)'
    BY <1>4, <1>8, <1>13, <1>14, <1>15 DEF StageOK, No
  <1>17. \A r \in reg[c] : r.pend = cl[c].pend /\ r.gen = cl[c].gen
    BY <1>2, <1>3, <1>4, <1>14 DEF RequestOK
  <1>18. BearerOK(c)'
    BY <1>13, <1>15, <1>17 DEF BearerOK
  <1>19. PlacesOK(c)'
    BY <1>1, <1>15, OwnTypes DEF PlacesOK
  <1>20. ASSUME NEW p \in wire', p.c = c PROVE EachOK(p)'
    <2>1. CASE p = new
      BY <1>4, <1>5, <1>13, <1>14, <1>20, <2>1 DEF EachOK, RequestOK
    <2>2. CASE p # new
      <3>1. p \in wire /\ EachOK(p) /\ p.bearer \in Nat /\ p.gen \in Nat /\ p.auth \in Nat
        BY <1>3, <1>11, <2>2 DEF ControlInv
      <3>2. p.op # "register" /\ RequestOK(p)
        BY <1>14, <1>20, <3>1 DEF EachOK, RegisterOK
      <3>3. /\ p.bearer <= cl[c].bearer /\ (p.op = "refresh" => p.gen <= cl[c].gen)
            /\ p.st \in {"handle", "ok"} => \A r \in reg[c] : p.auth <= cl[c].gen
        BY <1>14, <1>17, <1>20, <3>2 DEF RequestOK
      <3> QED
        BY <1>4, <1>13, <1>14, <1>15, <1>20, <3>1, <3>2, <3>3 DEF EachOK, RequestOK
    <2> QED
      BY <2>1, <2>2
  <1>21. /\ \A p \in wire' : p \in wire \/ p.c = c
         /\ \A p \in wire' : p.c = c => EachOK(p)'
         /\ fresh'.token >= fresh.token
         /\ \A d \in Clients, u \in Threads : d # c => call'[d][u] = call[d][u]
    BY <1>4, <1>5, <1>8, <1>9, <1>11, <1>20
  <1> QED
    BY <1>1, <1>10, <1>12, <1>13, <1>16, <1>18, <1>19, <1>21, ClientKeeps

---------------------------------------------------------------------------
(* Steps of the server *)

LEMMA TheIs ==
  ASSUME ServerTypes, NEW c \in Clients, reg[c] # {}
  PROVE /\ The(c) \in reg[c] /\ reg[c] = {The(c)}
        /\ The(c) \in [cur : Nat, pend : Nat, gen : Nat, lapsed : BOOLEAN]
  BY DEF ServerTypes, The

LEMMA PurgedIs ==
  ASSUME ServerTypes
  PROVE /\ Purged \in [Clients -> SUBSET [cur : Nat, pend : Nat, gen : Nat, lapsed : BOOLEAN]]
        /\ \A d \in Clients : Purged[d] = reg[d] \/ Purged[d] = {}
        /\ \A d \in Clients : Purged[d] \subseteq reg[d]
  <1>1. \A d \in Clients : Purged[d] = reg[d] \/ Purged[d] = {}
    BY DEF Purged, NoRegistration
  <1>2. Purged = [d \in Clients |-> Purged[d]]
    BY DEF Purged
  <1> QED
    BY <1>1, <1>2 DEF ServerTypes

\* The server deals with the requests of one client at a time; those of the others only lapse.
LEMMA ServerKeeps ==
  ASSUME ControlInv, NEW c \in Clients, ServerTypes', NodesOK', WireTypes', CallsOK', UNCHANGED <<cl, queries, call>>,
         fresh'.token >= fresh.token,
         \A d \in Clients : d # c => reg'[d] \subseteq reg[d],
         \A p \in wire' : p \in wire \/ p.c = c,
         StageOK(c)', BearerOK(c)', \A p \in wire' : p.c = c => EachOK(p)'
  PROVE ControlInv'
  <1>0. fresh.token \in Nat /\ fresh'.token \in Nat
    BY DEF ControlInv, WireTypes
  <1>1. ClientTypes' /\ \A d \in Clients : PlacesOK(d)'
    BY DEF ControlInv, ClientTypes, PlacesOK
  <1>2. ASSUME NEW d \in Clients, d # c PROVE StageOK(d)' /\ BearerOK(d)'
    <2>1. StageOK(d) /\ BearerOK(d) /\ cl[d].bearer \in Nat /\ cl[d].pend \in Nat /\ reg'[d] \subseteq reg[d]
      BY <1>2 DEF ControlInv, ClientTypes
    <2>2. StageOK(d)'
      BY <1>0, <1>2, <2>1 DEF StageOK
    <2>3. BearerOK(d)'
      BY <2>1 DEF BearerOK
    <2> QED
      BY <2>2, <2>3
  <1>3. ASSUME NEW p \in wire', p.c # c PROVE EachOK(p)'
    <2>1. p \in wire /\ EachOK(p) /\ p.c \in Clients /\ p.next \in Nat /\ reg'[p.c] \subseteq reg[p.c]
      BY <1>3 DEF ControlInv, WireTypes
    <2>2. \A r \in wire' : r.c = p.c => r \in wire
      BY <1>3
    <2> QED
      BY <1>0, <2>1, <2>2 DEF EachOK, RegisterOK, RequestOK
  <1>4. (\A d \in Clients : StageOK(d) /\ BearerOK(d) /\ PlacesOK(d))'
    BY <1>1, <1>2
  <1>5. (\A p \in wire : EachOK(p))'
    BY <1>3
  <1> QED
    BY <1>1, <1>4, <1>5 DEF ControlInv

\* An answer after which the client's registration is as it was, or gone.
LEMMA AnswerKeeps ==
  ASSUME ControlInv, NEW q \in wire, NEW st \in {"ok", "refused"}, NEW n \in Nat, NEW list \in SUBSET Nat, Respond(q, st, n, list),
         UNCHANGED <<cl, queries, call, fresh>>, ServerTypes', NodesOK',
         \A d \in Clients : reg'[d] \subseteq reg[d],
         st = "ok" => q.st = "handle" /\ q.op # "refresh" /\ (q.op = "stop" => reg'[q.c] = {})
  PROVE ControlInv'
  <1> DEFINE c == q.c
  <1>0. /\ c \in Clients /\ WireTypes /\ CallsOK /\ EachOK(q) /\ StageOK(c) /\ BearerOK(c) /\ reg'[c] \subseteq reg[c]
        /\ fresh' \in [token : Nat, req : Nat] /\ fresh'.token # 0 /\ fresh'.req = fresh.req /\ fresh'.token >= fresh.token
    BY DEF ControlInv, WireTypes
  <1>1. /\ WireTypes' /\ CallsOK'
        /\ \A p \in wire' : \/ p \in wire /\ p # q
                            \/ /\ p.id = q.id /\ p.c = q.c /\ p.op = q.op /\ p.bearer = q.bearer /\ p.gen = q.gen
                               /\ p.next = n /\ p.st = st /\ p.auth = q.auth
    BY <1>0, RespondKeepsWire
  <1>2. StageOK(c)' /\ BearerOK(c)'
    <2>1. (\A p \in wire : p.c # c) => FALSE
      OBVIOUS
    <2> QED
      BY <1>0, <2>1 DEF StageOK, BearerOK
  <1>3. ASSUME NEW p \in wire', p.c = c PROVE EachOK(p)'
    <2>1. CASE p \in wire /\ p # q
      <3>1. EachOK(p) /\ p.op # "register"
        BY <1>3, <2>1 DEF ControlInv, EachOK, RegisterOK
      <3> QED
        BY <1>0, <1>3, <3>1 DEF EachOK, RequestOK
    <2>2. CASE ~(p \in wire /\ p # q)
      <3>1. p.id = q.id /\ p.op = q.op /\ p.bearer = q.bearer /\ p.gen = q.gen /\ p.next = n /\ p.st = st /\ p.auth = q.auth
        BY <1>1, <2>2
      <3>2. CASE q.op = "register"
        <4>1. RegisterOK(q) /\ st = "refused"
          BY <1>0, <3>2 DEF EachOK, RegisterOK
        <4>2. \A r \in wire' : r.c = q.c => r = p
          <5>1. SUFFICES ASSUME NEW r \in wire', r.c = q.c PROVE r = p
            OBVIOUS
          <5>2. r.id = q.id
            BY <1>1, <4>1, <5>1 DEF RegisterOK
          <5> QED
            BY <1>1, <3>1, <5>2 DEF CallsOK
        <4> QED
          BY <1>3, <3>1, <3>2, <4>1, <4>2 DEF EachOK, RegisterOK
      <3>3. CASE q.op # "register"
        <4>1. RequestOK(q)
          BY <1>0, <3>3 DEF EachOK
        <4>2. st = "refused" \/ (q.st = "handle" /\ q.op # "refresh" /\ (q.op = "stop" => reg'[c] = {}))
          OBVIOUS
        <4>3. /\ cl[c].phase \notin {"new", "registering"} /\ q.bearer # No
              /\ q.st = "handle" => \A r \in reg'[c] : q.auth <= r.gen
              /\ cl[c].bearer # No => q.bearer <= cl[c].bearer /\ (q.op = "refresh" => q.gen <= cl[c].gen)
          BY <1>0, <4>1 DEF RequestOK
        <4> QED
          BY <1>3, <3>1, <3>3, <4>2, <4>3 DEF EachOK, RequestOK
      <3> QED
        BY <3>2, <3>3
    <2> QED
      BY <2>1, <2>2
  <1>4. /\ \A p \in wire' : p \in wire \/ p.c = c
        /\ \A p \in wire' : p.c = c => EachOK(p)'
        /\ \A d \in Clients : d # c => reg'[d] \subseteq reg[d]
    BY <1>1, <1>3
  <1> HIDE DEF c
  <1> QED
    BY <1>0, <1>1, <1>2, <1>4, ServerKeeps

\* Registrations lapse together with their nodes.
LEMMA PurgeKeeps ==
  ASSUME ControlInv, NEW left \in [Clients -> SUBSET [cur : Nat, pend : Nat, gen : Nat, lapsed : BOOLEAN]],
         \A d \in Clients : left[d] \subseteq reg[d], nodes' = WithoutNodes(left), reg' = left, nextNode' \in Nat
  PROVE ServerTypes' /\ NodesOK' /\ \A d \in Clients : reg'[d] \subseteq reg[d]
  <1>1. nodes' \subseteq nodes /\ \A n \in nodes' : left[n.of] # {}
    BY DEF WithoutNodes, NoRegistration
  <1>2. ServerTypes'
    BY <1>1 DEF ControlInv, ServerTypes
  <1>3. NodesOK'
    BY <1>1 DEF ControlInv, NodesOK
  <1> QED
    BY <1>2, <1>3

LEMMA ListNodesKeeps ==
  ASSUME ControlInv, NEW q \in wire, ListNodes(q)
  PROVE ControlInv'
  <1> DEFINE list == IF q.op = "nodes" THEN {n.id : n \in WithoutNodes(reg)} ELSE {}
  <1>1. /\ q.op \in {"nodes", "lookup"} /\ q.st = "handle" /\ Respond(q, "ok", No, list)
        /\ UNCHANGED <<reg, nodes, nextNode, cl, queries, call, fresh>>
    BY DEF ListNodes, server
  <1>2. list \in SUBSET Nat
    BY DEF ControlInv, ServerTypes, WithoutNodes
  <1>3. ServerTypes' /\ NodesOK' /\ \A d \in Clients : reg'[d] \subseteq reg[d]
    BY <1>1 DEF ControlInv, ServerTypes, NodesOK
  <1> HIDE DEF list
  <1> QED
    BY <1>1, <1>2, <1>3, AnswerKeeps DEF No

LEMMA StoreModuleKeeps ==
  ASSUME ControlInv, NEW q \in wire, StoreModule(q)
  PROVE ControlInv'
  <1>1. /\ q.op = "module" /\ q.st = "handle" /\ reg' = Purged /\ nodes' = WithoutNodes(Purged)
        /\ UNCHANGED <<nextNode, cl, queries, call, fresh>>
        /\ Respond(q, "ok", No, {}) \/ Respond(q, "refused", No, {})
    BY DEF StoreModule, Purge, Refuse
  <1>2. ServerTypes' /\ NodesOK' /\ \A d \in Clients : reg'[d] \subseteq reg[d]
    BY <1>1, PurgedIs, PurgeKeeps DEF ControlInv, ServerTypes
  <1> QED
    BY <1>1, <1>2, AnswerKeeps DEF No

LEMMA StopNodeKeeps ==
  ASSUME ControlInv, NEW q \in wire, StopNode(q)
  PROVE ControlInv'
  <1>1. q.op = "stop" /\ q.st = "handle" /\ UNCHANGED <<nextNode, cl, queries, call, fresh>> /\ q.c \in Clients /\ ServerTypes
    BY DEF StopNode, ControlInv, WireTypes
  <1>2. CASE Current(q, reg)
    <2>1. /\ reg' = [reg EXCEPT ![q.c] = {}] /\ nodes' = {n \in nodes : n.of # q.c} /\ Respond(q, "ok", No, {})
      BY <1>2 DEF StopNode, NoRegistration
    <2>2. ServerTypes' /\ NodesOK' /\ reg'[q.c] = {} /\ \A d \in Clients : reg'[d] \subseteq reg[d]
      BY <1>1, <2>1 DEF ServerTypes, ControlInv, NodesOK
    <2> QED
      BY <1>1, <2>1, <2>2, AnswerKeeps DEF No
  <1>3. CASE ~Current(q, reg)
    <2>1. Respond(q, "refused", No, {}) /\ UNCHANGED <<reg, nodes>>
      BY <1>3 DEF StopNode, Refuse
    <2>2. ServerTypes' /\ NodesOK' /\ \A d \in Clients : reg'[d] \subseteq reg[d]
      BY <1>1, <2>1 DEF ControlInv, ServerTypes, NodesOK
    <2> QED
      BY <1>1, <2>1, <2>2, AnswerKeeps DEF No
  <1> QED
    BY <1>2, <1>3

LEMMA StartNodeKeeps ==
  ASSUME ControlInv, NEW q \in wire, StartNode(q)
  PROVE ControlInv'
  <1>1. /\ q.op = "start" /\ q.st = "handle" /\ UNCHANGED <<cl, queries, call, fresh>> /\ q.c \in Clients /\ ServerTypes
        /\ reg' = Purged /\ nextNode \in Nat
    BY DEF StartNode, Purge, ControlInv, WireTypes, ServerTypes
  <1>2. CASE Current(q, Purged)
    <2> DEFINE new == [id |-> nextNode, of |-> q.c]
    <2>1. /\ nodes' = {n \in WithoutNodes(Purged) : n.of # q.c} \cup {new}
          /\ nextNode' = nextNode + 1 /\ Respond(q, "ok", nextNode, {}) /\ Purged[q.c] # {}
      BY <1>2 DEF StartNode, Current, NoRegistration
    <2>2. new \in [id : Nat, of : Clients] /\ new.of = q.c
      BY <1>1
    <2> HIDE DEF new
    <2>3. \A n \in nodes' : (n \in nodes /\ n.of # q.c /\ Purged[n.of] # {}) \/ n = new
      BY <2>1 DEF WithoutNodes, NoRegistration
    <2>4. ServerTypes'
      BY <1>1, <2>1, <2>2, <2>3, PurgedIs DEF ServerTypes
    <2>5. NodesOK'
      BY <1>1, <2>1, <2>2, <2>3 DEF NodesOK, ControlInv
    <2>6. \A d \in Clients : reg'[d] \subseteq reg[d]
      BY <1>1, PurgedIs
    <2> QED
      BY <1>1, <2>1, <2>4, <2>5, <2>6, AnswerKeeps
  <1>3. CASE ~Current(q, Purged)
    <2>1. Respond(q, "refused", No, {}) /\ nodes' = WithoutNodes(Purged) /\ nextNode' = nextNode
      BY <1>3 DEF StartNode, Refuse, Purge
    <2>2. ServerTypes' /\ NodesOK' /\ \A d \in Clients : reg'[d] \subseteq reg[d]
      BY <1>1, <2>1, PurgedIs, PurgeKeeps
    <2> QED
      BY <1>1, <2>1, <2>2, AnswerKeeps DEF No
  <1> QED
    BY <1>2, <1>3

\* A client whose registration is kept or lost, and nothing else.
LEMMA ShrinkKeeps ==
  ASSUME ControlInv, ServerTypes', NodesOK', UNCHANGED <<cl, queries, call, wire, fresh>>,
         \A d \in Clients : reg'[d] \subseteq reg[d]
  PROVE ControlInv'
  <1>1. ClientTypes' /\ WireTypes' /\ CallsOK' /\ \A d \in Clients : PlacesOK(d)'
    BY DEF ControlInv, ClientTypes, PlacesOK, WireTypes, CallsOK
  <1>2. ASSUME NEW d \in Clients PROVE StageOK(d)' /\ BearerOK(d)'
    <2>1. StageOK(d) /\ BearerOK(d) /\ reg'[d] \subseteq reg[d]
      BY DEF ControlInv
    <2> QED
      BY <2>1 DEF StageOK, BearerOK
  <1>3. ASSUME NEW p \in wire' PROVE EachOK(p)'
    <2>1. p \in wire /\ EachOK(p) /\ reg'[p.c] \subseteq reg[p.c]
      BY DEF ControlInv, WireTypes
    <2> QED
      BY <2>1 DEF EachOK, RegisterOK, RequestOK
  <1>4. (\A d \in Clients : StageOK(d) /\ BearerOK(d) /\ PlacesOK(d))' /\ (\A p \in wire : EachOK(p))'
    BY <1>1, <1>2, <1>3
  <1> QED
    BY <1>1, <1>4 DEF ControlInv

LEMMA PurgeExpiredKeeps ==
  ASSUME ControlInv, PurgeExpired
  PROVE ControlInv'
  <1>1. reg' = Purged /\ nodes' = WithoutNodes(Purged) /\ UNCHANGED <<nextNode, cl, queries, call, wire, fresh>>
    BY DEF PurgeExpired, Purge
  <1>2. ServerTypes' /\ NodesOK' /\ \A d \in Clients : reg'[d] \subseteq reg[d]
    BY <1>1, PurgedIs, PurgeKeeps DEF ControlInv, ServerTypes
  <1> QED
    BY <1>1, <1>2, ShrinkKeeps

LEMMA LapseKeeps ==
  ASSUME ControlInv, NEW c \in Clients, Lapse(c)
  PROVE ControlInv'
  <1> DEFINE r == [The(c) EXCEPT !.lapsed = TRUE]
  <1>1. reg[c] # {} /\ reg' = [reg EXCEPT ![c] = {r}] /\ UNCHANGED <<nodes, nextNode, cl, queries, call, wire, fresh>>
        /\ ServerTypes
    BY DEF Lapse, Put, Exists, NoRegistration, ControlInv
  <1>2. /\ The(c) \in reg[c] /\ reg[c] = {The(c)} /\ The(c) \in [cur : Nat, pend : Nat, gen : Nat, lapsed : BOOLEAN]
    BY <1>1, TheIs
  <1>3. /\ r \in [cur : Nat, pend : Nat, gen : Nat, lapsed : BOOLEAN] /\ r.cur = The(c).cur /\ r.pend = The(c).pend
        /\ r.gen = The(c).gen
    BY <1>2
  <1> HIDE DEF r
  <1>4. /\ reg' \in [Clients -> SUBSET [cur : Nat, pend : Nat, gen : Nat, lapsed : BOOLEAN]] /\ reg'[c] = {r}
        /\ \A d \in Clients : d # c => reg'[d] = reg[d]
    BY <1>1, <1>3 DEF ServerTypes
  <1>5. ServerTypes'
    BY <1>1, <1>4 DEF ServerTypes
  <1>6. NodesOK'
    BY <1>1, <1>4 DEF ControlInv, NodesOK
  <1>7. WireTypes' /\ CallsOK' /\ fresh'.token >= fresh.token
    BY <1>1 DEF ControlInv, WireTypes, CallsOK
  <1>8. StageOK(c)' /\ BearerOK(c)'
    BY <1>1, <1>2, <1>3, <1>4 DEF ControlInv, StageOK, BearerOK
  <1>9. ASSUME NEW p \in wire', p.c = c PROVE EachOK(p)'
    <2>1. p \in wire /\ EachOK(p)
      BY <1>1 DEF ControlInv
    <2> QED
      BY <1>1, <1>2, <1>3, <1>4, <1>9, <2>1 DEF EachOK, RegisterOK, RequestOK
  <1> QED
    BY <1>1, <1>4, <1>5, <1>6, <1>7, <1>8, <1>9, ServerKeeps

\* A registration is written for one client while those of others lapse.
LEMMA PutKeeps ==
  ASSUME ControlInv, NEW c \in Clients, NEW r \in [cur : Nat, pend : Nat, gen : Nat, lapsed : BOOLEAN],
         reg' = [Purged EXCEPT ![c] = {r}], nodes' = WithoutNodes(Purged), nextNode' = nextNode
  PROVE /\ ServerTypes' /\ NodesOK' /\ reg'[c] = {r}
        /\ \A d \in Clients : d # c => reg'[d] \subseteq reg[d]
  <1>1. /\ Purged \in [Clients -> SUBSET [cur : Nat, pend : Nat, gen : Nat, lapsed : BOOLEAN]]
        /\ \A d \in Clients : Purged[d] \subseteq reg[d]
        /\ ServerTypes
    BY PurgedIs DEF ControlInv
  <1>2. /\ reg' \in [Clients -> SUBSET [cur : Nat, pend : Nat, gen : Nat, lapsed : BOOLEAN]] /\ reg'[c] = {r}
        /\ \A d \in Clients : d # c => reg'[d] = Purged[d]
    BY <1>1
  <1>3. \A n \in nodes' : n \in nodes /\ Purged[n.of] # {}
    BY DEF WithoutNodes, NoRegistration
  <1>4. ServerTypes'
    BY <1>1, <1>2, <1>3 DEF ServerTypes
  <1>5. NodesOK'
    BY <1>1, <1>2, <1>3 DEF ControlInv, NodesOK, ServerTypes
  <1> QED
    BY <1>1, <1>2, <1>4, <1>5

LEMMA HandleRegisterKeeps ==
  ASSUME ControlInv, NEW q \in wire, HandleRegister(q)
  PROVE ControlInv'
  <1>1. /\ q.op = "register" /\ q.st = "sent" /\ UNCHANGED <<nextNode, cl, queries, call>> /\ q.c \in Clients /\ ServerTypes
        /\ WireTypes /\ CallsOK /\ RegisterOK(q) /\ nextNode \in Nat
    BY DEF HandleRegister, ControlInv, WireTypes, ServerTypes, EachOK
  <1>2. CASE Purged[q.c] # {}
    BY <1>1, <1>2, PurgedIs DEF RegisterOK
  <1>3. CASE Purged[q.c] = {}
    <2> DEFINE r == [cur |-> fresh.token, pend |-> No, gen |-> 0, lapsed |-> FALSE]
               c == q.c
    <2>1. /\ reg' = [Purged EXCEPT ![c] = {r}] /\ nodes' = WithoutNodes(Purged)
          /\ Respond(q, "ok", fresh.token, {}) /\ fresh' = [fresh EXCEPT !.token = @ + 1]
      BY <1>3 DEF HandleRegister, NoRegistration
    <2>2. fresh.token \in Nat /\ fresh.token # 0 /\ fresh.req \in Nat /\ fresh \in [token : Nat, req : Nat]
      BY <1>1 DEF WireTypes
    <2>3. fresh' \in [token : Nat, req : Nat] /\ fresh'.token = fresh.token + 1 /\ fresh'.req = fresh.req /\ fresh'.token # 0
      BY <2>1, <2>2
    <2>4. /\ WireTypes' /\ CallsOK'
          /\ \A p \in wire' : \/ p \in wire /\ p # q
                              \/ /\ p.id = q.id /\ p.c = q.c /\ p.op = q.op /\ p.bearer = q.bearer /\ p.gen = q.gen
                                 /\ p.next = fresh.token /\ p.st = "ok" /\ p.auth = q.auth
      BY <1>1, <2>1, <2>2, <2>3, RespondKeepsWire
    <2>5. r \in [cur : Nat, pend : Nat, gen : Nat, lapsed : BOOLEAN] /\ r.cur = fresh.token /\ r.pend = No /\ r.gen = 0
      BY <2>2 DEF No
    <2> HIDE DEF r
    <2>6. /\ ServerTypes' /\ NodesOK' /\ reg'[c] = {r} /\ \A d \in Clients : d # c => reg'[d] \subseteq reg[d]
      BY <1>1, <2>1, <2>5, PutKeeps
    <2>7. cl[c].phase \in {"registering", "gone"} /\ cl[c].bearer = No /\ StageOK(c)
      BY <1>1 DEF RegisterOK, ControlInv
    <2>8. StageOK(c)' /\ BearerOK(c)'
      <3>1. cl[c].bearer \in Nat /\ cl[c].pend \in Nat
        BY <1>1 DEF ControlInv, ClientTypes
      <3> QED
        BY <1>1, <2>2, <2>3, <2>7, <3>1 DEF StageOK, BearerOK
    <2>9. ASSUME NEW p \in wire', p.c = c PROVE EachOK(p)'
      <3>1. p.id = q.id /\ p.op = q.op /\ p.next = fresh.token /\ p.st = "ok"
        BY <1>1, <2>4, <2>9 DEF RegisterOK
      <3>2. \A s \in wire' : s.c = c => s = p
        <4>1. SUFFICES ASSUME NEW s \in wire', s.c = c PROVE s = p
          OBVIOUS
        <4>2. s.id = q.id
          BY <1>1, <2>4, <4>1 DEF RegisterOK
        <4> QED
          BY <2>4, <3>1, <4>2 DEF CallsOK
      <3> QED
        BY <1>1, <2>2, <2>3, <2>5, <2>6, <2>7, <2>9, <3>1, <3>2 DEF EachOK, RegisterOK, No
    <2>10. fresh'.token >= fresh.token /\ c \in Clients /\ (\A p \in wire' : p \in wire \/ p.c = c)
      BY <1>1, <2>2, <2>3, <2>4
    <2> HIDE DEF c
    <2> QED
      BY <1>1, <2>4, <2>6, <2>8, <2>9, <2>10, ServerKeeps
  <1> QED
    BY <1>2, <1>3

LEMMA StageBearerRotationKeeps ==
  ASSUME ControlInv, NEW q \in wire, StageBearerRotation(q)
  PROVE ControlInv'
  <1>1. /\ q.op = "refresh" /\ q.st = "handle" /\ UNCHANGED <<nextNode, cl, queries, call, fresh>> /\ q.c \in Clients /\ ServerTypes
        /\ WireTypes /\ CallsOK /\ RequestOK(q) /\ nodes' = WithoutNodes(Purged) /\ nextNode \in Nat
    BY DEF StageBearerRotation, ControlInv, WireTypes, ServerTypes, EachOK
  <1>2. CASE reg' = Purged /\ Respond(q, "refused", No, {})
    <2>1. ServerTypes' /\ NodesOK' /\ \A d \in Clients : reg'[d] \subseteq reg[d]
      BY <1>1, <1>2, PurgedIs, PurgeKeeps
    <2> QED
      BY <1>1, <1>2, <2>1, AnswerKeeps DEF No
  <1>3. CASE ~(reg' = Purged /\ Respond(q, "refused", No, {}))
    <2> DEFINE c == q.c
               r0 == The(c)
               r == [The(c) EXCEPT !.pend = q.next]
    <2>1. /\ Purged[c] # {} /\ r0.gen = q.auth /\ q.gen = q.auth /\ r0.pend \in {No, q.next}
          /\ reg' = [Purged EXCEPT ![c] = {r}] /\ Respond(q, "ok", No, {})
      BY <1>3 DEF StageBearerRotation, Current, NoRegistration, Refuse
    <2>2. reg[c] = {r0} /\ r0 \in [cur : Nat, pend : Nat, gen : Nat, lapsed : BOOLEAN]
      BY <1>1, <2>1, PurgedIs, TheIs
    <2>3. q.next \in Nat /\ q.gen \in Nat /\ q.auth \in Nat
      BY <1>1 DEF WireTypes
    <2>4. r \in [cur : Nat, pend : Nat, gen : Nat, lapsed : BOOLEAN] /\ r.cur = r0.cur /\ r.pend = q.next /\ r.gen = r0.gen
      BY <2>2, <2>3
    <2> HIDE DEF r, r0
    <2>5. /\ ServerTypes' /\ NodesOK' /\ reg'[c] = {r} /\ \A d \in Clients : d # c => reg'[d] \subseteq reg[d]
      BY <1>1, <2>1, <2>4, PutKeeps
    <2>6. /\ WireTypes' /\ CallsOK'
          /\ \A p \in wire' : \/ p \in wire /\ p # q
                              \/ /\ p.id = q.id /\ p.c = q.c /\ p.op = q.op /\ p.bearer = q.bearer /\ p.gen = q.gen
                                 /\ p.next = No /\ p.st = "ok" /\ p.auth = q.auth
      <3>1. fresh' \in [token : Nat, req : Nat] /\ fresh'.token # 0 /\ fresh'.req = fresh.req
        BY <1>1 DEF WireTypes
      <3> QED
        BY <1>1, <2>1, <3>1, RespondKeepsWire DEF No
    <2>7. StageOK(c) /\ BearerOK(c) /\ cl[c].bearer \in Nat /\ cl[c].pend \in Nat /\ cl[c].gen \in Nat
      BY <1>1 DEF ControlInv, ClientTypes
    <2>8. cl[c].bearer # No => /\ q.bearer <= cl[c].bearer /\ q.gen <= cl[c].gen
                               /\ q.gen = cl[c].gen => q.next = cl[c].pend /\ q.next # No
      BY <1>1 DEF RequestOK
    <2>9. BearerOK(c)'
      BY <1>1, <2>1, <2>2, <2>3, <2>4, <2>5, <2>7, <2>8 DEF BearerOK, No
    <2>10. StageOK(c)'
      BY <1>1, <2>2, <2>5, <2>7 DEF StageOK, RequestOK
    <2>11. ASSUME NEW p \in wire', p.c = c PROVE EachOK(p)'
      <3>1. CASE p \in wire /\ p # q
        <4>1. EachOK(p) /\ p.op # "register" /\ RequestOK(p)
          BY <1>1, <2>11, <3>1 DEF ControlInv, EachOK, RegisterOK
        <4>2. /\ p.st \in {"handle", "ok"} => p.auth <= r.gen
              /\ ~(p.op = "stop" /\ p.st = "ok")
          BY <2>2, <2>4, <2>11, <4>1 DEF RequestOK
        <4>3. cl[c].bearer # No /\ p.op = "refresh" /\ p.st = "ok" /\ p.auth = cl[c].gen =>
                r.pend = cl[c].pend /\ r.pend # No /\ r.gen = cl[c].gen
          <5>1. SUFFICES ASSUME cl[c].bearer # No, p.op = "refresh", p.st = "ok", p.auth = cl[c].gen
                         PROVE r.pend = cl[c].pend /\ r.pend # No /\ r.gen = cl[c].gen
            OBVIOUS
          <5>2. r0.pend = cl[c].pend /\ r0.pend # No /\ r0.gen = cl[c].gen
            BY <2>2, <2>11, <4>1, <5>1 DEF RequestOK
          <5> QED
            BY <2>1, <2>4, <5>2
        <4> QED
          BY <1>1, <2>5, <2>11, <4>1, <4>2, <4>3 DEF EachOK, RequestOK
      <3>2. CASE ~(p \in wire /\ p # q)
        <4>1. p.op = "refresh" /\ p.bearer = q.bearer /\ p.gen = q.gen /\ p.next = No /\ p.st = "ok" /\ p.auth = q.auth
          BY <1>1, <2>6, <3>2
        <4>2. cl[c].phase \notin {"new", "registering"} /\ q.bearer # No
          BY <1>1 DEF RequestOK
        <4> QED
          BY <1>1, <2>1, <2>3, <2>4, <2>5, <2>8, <2>11, <4>1, <4>2 DEF EachOK, RequestOK
      <3> QED
        BY <3>1, <3>2
    <2>12. fresh'.token >= fresh.token /\ c \in Clients /\ (\A p \in wire' : p \in wire \/ p.c = c)
      BY <1>1, <2>6 DEF WireTypes
    <2> HIDE DEF c
    <2> QED
      BY <1>1, <2>5, <2>6, <2>9, <2>10, <2>11, <2>12, ServerKeeps
  <1> QED
    BY <1>2, <1>3

\* The pending bearer takes over when it is presented.
LEMMA PresentedIs ==
  ASSUME NEW r0 \in [cur : Nat, pend : Nat, gen : Nat, lapsed : BOOLEAN], NEW b \in Nat
  PROVE /\ Presented(r0, b) \in [cur : Nat, pend : Nat, gen : Nat, lapsed : BOOLEAN] /\ Presented(r0, b).gen >= r0.gen
        /\ \/ Presented(r0, b) = r0
           \/ /\ r0.pend = b /\ Presented(r0, b).cur = b /\ Presented(r0, b).pend = No
              /\ Presented(r0, b).gen = r0.gen + 1
  <1>1. CASE r0.pend = b
    <2> DEFINE m == r0.gen + 1
               r == [cur |-> b, pend |-> 0, gen |-> m, lapsed |-> r0.lapsed]
    <2>1. Presented(r0, b) = [r0 EXCEPT !.cur = b, !.pend = 0, !.gen = m]
      BY <1>1 DEF Presented, No
    <2>4. r0.gen \in Nat /\ m \in Nat /\ r0.lapsed \in BOOLEAN /\ m = r0.gen + 1
      OBVIOUS
    <2> HIDE DEF m
    <2>5. Presented(r0, b) = r
      BY <2>1
    <2>2. r.cur = b /\ r.pend = 0 /\ r.gen = m
      OBVIOUS
    <2>3. r \in [cur : Nat, pend : Nat, gen : Nat, lapsed : BOOLEAN]
      BY <2>4
    <2> HIDE DEF r
    <2> QED
      BY <1>1, <2>2, <2>3, <2>4, <2>5 DEF No
  <1>2. CASE r0.pend # b
    BY <1>2 DEF Presented
  <1> QED
    BY <1>1, <1>2

LEMMA AuthenticateKeeps ==
  ASSUME ControlInv, NEW q \in wire, Authenticate(q)
  PROVE ControlInv'
  <1>1. /\ q.op # "register" /\ q.st = "sent" /\ UNCHANGED <<nextNode, cl, queries, call, fresh>> /\ q.c \in Clients /\ ServerTypes
        /\ WireTypes /\ CallsOK /\ RequestOK(q) /\ nodes' = WithoutNodes(Purged) /\ nextNode \in Nat
    BY DEF Authenticate, ControlInv, WireTypes, ServerTypes, EachOK
  <1>2. CASE reg' = Purged /\ Respond(q, "refused", No, {})
    <2>1. ServerTypes' /\ NodesOK' /\ \A d \in Clients : reg'[d] \subseteq reg[d]
      BY <1>1, <1>2, PurgedIs, PurgeKeeps
    <2> QED
      BY <1>1, <1>2, <2>1, AnswerKeeps DEF No
  <1>3. CASE ~(reg' = Purged /\ Respond(q, "refused", No, {}))
    <2> DEFINE c == q.c
               r0 == The(c)
               r == Presented(The(c), q.bearer)
               new == [q EXCEPT !.st = "handle", !.auth = r.gen]
               Q == [id : Nat, c : Clients, op : Ops, bearer : Nat, gen : Nat, next : Nat,
                     st : {"sent", "handle", "ok", "refused"}, auth : Nat, list : SUBSET Nat]
    <2>1. /\ Purged[c] # {} /\ reg' = [Purged EXCEPT ![c] = {r}] /\ wire' = (wire \ {q}) \cup {new}
      BY <1>3 DEF Authenticate, Refuse, NoRegistration
    <2>2. reg[c] = {r0} /\ r0 \in [cur : Nat, pend : Nat, gen : Nat, lapsed : BOOLEAN]
      BY <1>1, <2>1, PurgedIs, TheIs
    <2>3. q \in Q /\ wire \subseteq Q
      BY <1>1 DEF WireTypes
    <2>4. /\ r \in [cur : Nat, pend : Nat, gen : Nat, lapsed : BOOLEAN] /\ r.gen >= r0.gen
          /\ \/ r = r0
             \/ r0.pend = q.bearer /\ r.cur = q.bearer /\ r.pend = No /\ r.gen = r0.gen + 1
      <3>1. q.bearer \in Nat
        BY <2>3
      <3> QED
        BY <2>2, <3>1, PresentedIs
    <2> HIDE DEF r, r0
    <2>5. /\ new \in Q /\ new.id = q.id /\ new.c = q.c /\ new.op = q.op /\ new.bearer = q.bearer /\ new.gen = q.gen
          /\ new.next = q.next /\ new.st = "handle" /\ new.auth = r.gen
      BY <2>3, <2>4
    <2> HIDE DEF new
    <2>6. /\ ServerTypes' /\ NodesOK' /\ reg'[c] = {r} /\ \A d \in Clients : d # c => reg'[d] \subseteq reg[d]
      BY <1>1, <2>1, <2>4, PutKeeps
    <2>7. WireTypes' /\ \A p \in wire' : (p \in wire /\ p # q) \/ p = new
      BY <1>1, <2>1, <2>3, <2>5 DEF WireTypes
    <2>8. CallsOK'
      BY <1>1, <2>5, <2>7 DEF CallsOK
    <2>9. StageOK(c) /\ BearerOK(c) /\ cl[c].bearer \in Nat /\ cl[c].pend \in Nat /\ cl[c].gen \in Nat /\ q.bearer \in Nat
      BY <1>1, <2>3 DEF ControlInv, ClientTypes
    <2>10. q.bearer # No /\ (cl[c].bearer # No => q.bearer <= cl[c].bearer)
      BY <1>1 DEF RequestOK
    <2>11. cl[c].bearer # No /\ r0.pend = cl[c].pend /\ r0.pend # No => r = r0
      BY <2>2, <2>4, <2>9, <2>10 DEF StageOK
    <2>12. BearerOK(c)'
      BY <1>1, <2>2, <2>4, <2>6, <2>9, <2>10, <2>11 DEF BearerOK
    <2>13. StageOK(c)'
      BY <1>1, <2>2, <2>6, <2>9 DEF StageOK, RequestOK
    <2>14. ASSUME NEW p \in wire', p.c = c PROVE EachOK(p)'
      <3>1. CASE p \in wire /\ p # q
        <4>1. EachOK(p) /\ p.op # "register" /\ RequestOK(p) /\ p.auth \in Nat
          BY <1>1, <2>3, <2>14, <3>1 DEF ControlInv, EachOK, RegisterOK
        <4>2. /\ p.st \in {"handle", "ok"} => p.auth <= r.gen
              /\ ~(p.op = "stop" /\ p.st = "ok")
          BY <2>2, <2>4, <2>14, <4>1 DEF RequestOK
        <4>3. cl[c].bearer # No /\ p.op = "refresh" /\ p.st = "ok" /\ p.auth = cl[c].gen =>
                r.pend = cl[c].pend /\ r.pend # No /\ r.gen = cl[c].gen
          BY <2>2, <2>11, <2>14, <4>1 DEF RequestOK
        <4> QED
          BY <1>1, <2>6, <2>14, <4>1, <4>2, <4>3 DEF EachOK, RequestOK
      <3>2. CASE ~(p \in wire /\ p # q)
        <4>1. p = new
          BY <2>7, <3>2
        <4> QED
          BY <1>1, <2>4, <2>5, <2>6, <2>14, <4>1 DEF EachOK, RequestOK
      <3> QED
        BY <3>1, <3>2
    <2>15. fresh'.token >= fresh.token /\ c \in Clients /\ (\A p \in wire' : p \in wire \/ p.c = c)
      BY <1>1, <2>5, <2>7 DEF WireTypes
    <2> HIDE DEF c
    <2> QED
      BY <1>1, <2>6, <2>7, <2>8, <2>12, <2>13, <2>14, <2>15, ServerKeeps
  <1> QED
    BY <1>2, <1>3

---------------------------------------------------------------------------
LEMMA ControlStep == ControlInv /\ [ControlNext]_controlVars => ControlInv'
  <1> SUFFICES ASSUME ControlInv, [ControlNext]_controlVars PROVE ControlInv'
    OBVIOUS
  <1>1. ASSUME NEW c \in Clients,
               \/ Register(c) \/ RegistrationDone(c) \/ Start(c) \/ Started(c)
               \/ Shutdown(c) \/ StopRegistration(c) \/ StopDone(c) \/ Abandon(c)
        PROVE ControlInv'
    BY <1>1, RegisterKeeps, RegistrationDoneKeeps, StartKeeps, StartedKeeps, ShutdownKeeps, StopRegistrationKeeps,
       StopDoneKeeps, AbandonKeeps
  <1>2. ASSUME NEW c \in Clients, NEW t \in Threads,
               RefreshNodes(c, t) \/ ReplaceNodes(c, t) \/ PublishIds(c, t) \/ RefreshFailed(c, t)
        PROVE ControlInv'
    BY <1>2, RefreshNodesKeeps, ReplaceNodesKeeps, PublishIdsKeeps, RefreshFailedKeeps
  <1>3. ASSUME NEW c \in Clients,
               \/ RefreshBearer(c) \/ BearerRefreshed(c) \/ RefreshBearerFailed(c) \/ LookupNodes(c) \/ LookupDone(c)
               \/ QueryResult(c) \/ AddModule(c) \/ AddModuleDone(c) \/ Lapse(c)
        PROVE ControlInv'
    BY <1>3, RefreshBearerKeeps, BearerRefreshedKeeps, RefreshBearerFailedKeeps, LookupNodesKeeps, LookupDoneKeeps,
       QueryResultKeeps, AddModuleKeeps, AddModuleDoneKeeps, LapseKeeps
  <1>4. ASSUME NEW q \in wire, Serve(q) PROVE ControlInv'
    BY <1>4, HandleRegisterKeeps, AuthenticateKeeps, StartNodeKeeps, StageBearerRotationKeeps, StopNodeKeeps,
       ListNodesKeeps, StoreModuleKeeps DEF Serve
  <1>5. CASE UNCHANGED controlVars
    <2>1. UNCHANGED <<reg, nodes, nextNode, cl, queries, call, wire, fresh>>
      BY <1>5 DEF controlVars
    <2>2. ServerTypes' /\ NodesOK'
      BY <2>1 DEF ControlInv, ServerTypes, NodesOK
    <2> QED
      BY <2>1, <2>2, ShrinkKeeps
  <1> QED
    BY <1>1, <1>2, <1>3, <1>4, <1>5, PurgeExpiredKeeps DEF ControlNext

LEMMA ControlInvSafe == ControlInv => ControlSafe
  <1> SUFFICES ASSUME ControlInv PROVE ControlSafe
    OBVIOUS
  <1>1. NeverLockedOut
    BY TheIs DEF NeverLockedOut, Exists, NoRegistration, ControlInv, BearerOK
  <1>2. StoppedStaysStopped
    BY DEF StoppedStaysStopped, Exists, NoRegistration, ControlInv, NodesOK, StageOK, ServerTypes
  <1>3. ASSUME NEW c \in Clients
        PROVE /\ queries[c].pending = queries[c].results + Cardinality({t \in Threads : call[c][t].op = "lookup"})
              /\ queries[c].pending <= MaxQueries
    <2>1. PlacesOK(c) /\ CallsOK /\ queries[c].results \in Nat /\ queries[c].pending \in Nat
      BY OwnTypes
    <2>2. CASE call[c]["user"].op = "lookup"
      <3>1. {t \in Threads : call[c][t].op = "lookup"} = {"user"}
        BY <2>1, <2>2 DEF CallsOK, Threads
      <3> QED
        BY <2>1, <2>2, <3>1, FS_Singleton DEF PlacesOK
    <2>3. CASE call[c]["user"].op # "lookup"
      <3>1. {t \in Threads : call[c][t].op = "lookup"} = {}
        BY <2>1, <2>3 DEF CallsOK, Threads
      <3> QED
        BY <2>1, <2>3, <3>1, FS_EmptySet DEF PlacesOK
    <2> QED
      BY <2>2, <2>3
  <1>4. QueriesExact
    BY <1>3 DEF QueriesExact
  <1> QED
    BY <1>1, <1>2, <1>4 DEF ControlSafe

(***************************************************************************)
(* However requests and answers are lost, late or served after their       *)
(* caller gave up (the bearer rotation, start and stop of a node, node     *)
(* queries): a node is never locked out, what was stopped stays stopped,   *)
(* and the places for queries are counted exactly.                         *)
(***************************************************************************)
THEOREM NodesAreNeverLockedOut == ControlSpec => []ControlSafe
  <1>1. ControlSpec => []ControlInv
    BY ControlInitOK, ControlStep, PTL DEF ControlSpec
  <1> QED
    BY <1>1, ControlInvSafe, PTL

-----------------------------------------------------------------------------
(* Names of a cluster: coordinators. *)

LEMMA CoordinationIs ==
  /\ NoTask \in Coordination /\ NoTask.at = 0 /\ NoTask.stage = "none" /\ NoTask.left = {}
  /\ NoTask.res = "" /\ NoTask.epoch = 0
  BY DEF NoTask, Coordination, Outcome, Active

LEMMA WaitingIs ==
  ASSUME NEW n \in Nodes, NEW mem \in SUBSET Nodes
  PROVE  /\ Waiting(n, mem) \in Coordination /\ Waiting(n, mem).at = n
         /\ Waiting(n, mem).stage = "queued" /\ Waiting(n, mem).left = {}
         /\ Waiting(n, mem).res = "" /\ Waiting(n, mem).epoch = 0
  BY DEF Waiting, NoTask, Coordination, Outcome, Active

\* What is left of a coordination that ended.
LEMMA OverIs ==
  ASSUME NEW n \in Nodes, NEW res \in Outcome \cup {"dropped"}
  PROVE  /\ Over(n, res) \in Coordination /\ Over(n, res).at = n /\ Over(n, res).stage = "over"
         /\ Over(n, res).left = {} /\ Over(n, res).res = res /\ Over(n, res).epoch = 0
  BY DEF Over, NoTask, Coordination, Outcome, Active

LEMMA LeaderIs ==
  ASSUME CoordTypes, NEW n \in Nodes
  PROVE  /\ Leader(n) \in Members(n) /\ Members(n) \subseteq Nodes
         /\ Leader(n) = n <=> \A k \in view[n] : n <= k
<1>1. Members(n) \in SUBSET Nat /\ Members(n) # {} /\ n \in Members(n) /\ Members(n) \subseteq Nodes
  BY NodesAssumption DEF CoordTypes, Members
<1>2. Leader(n) \in Members(n) /\ \A k \in Members(n) : Leader(n) <= k
  BY <1>1, MinOfNats DEF Leader
<1>3. Leader(n) \in Nat /\ n \in Nat
  BY <1>1, <1>2
<1>4. ASSUME Leader(n) = n PROVE \A k \in view[n] : n <= k
  BY <1>2, <1>4 DEF Members
<1>5. ASSUME \A k \in view[n] : n <= k PROVE Leader(n) = n
  <2>1. n <= Leader(n)
    BY <1>2, <1>3, <1>5 DEF Members
  <2>2. Leader(n) <= n
    BY <1>1, <1>2
  <2> QED
    BY <1>3, <2>1, <2>2
<1> QED
  BY <1>1, <1>2, <1>4, <1>5

\* The first of all nodes coordinates whatever members there are.
LEMMA FirstLeads ==
  ASSUME CoordTypes
  PROVE  Min(Nodes) \in Nodes /\ Leader(Min(Nodes)) = Min(Nodes)
<1>1. Min(Nodes) \in Nodes /\ \A k \in Nodes : Min(Nodes) <= k
  BY NodesAssumption, MinOfNats
<1>2. \A k \in view[Min(Nodes)] : Min(Nodes) <= k
  BY <1>1 DEF CoordTypes
<1> QED
  BY <1>1, <1>2, LeaderIs

LEMMA CallsAre ==
  ASSUME CoordTypes
  PROVE  /\ Calls \subseteq Request /\ Len(req) \in Nat
         /\ \A r \in Calls : /\ req[r].kind \in {"register", "unregister"} /\ req[r].name \in GlobalName
                             /\ req[r].pid \in GlobalPid /\ Home(r) \in Nodes
                             /\ req[r].pid # NoOwner
<1>0. Len(req) \in Nat /\ Len(req) <= MaxRequests
  BY DEF CoordTypes
<1>1. Len(req) \in Nat /\ Calls \subseteq Request
  <2>1. \A k, m \in Nat : k <= m => 1 .. k \subseteq 1 .. m
    OBVIOUS
  <2> QED
    BY <1>0, <2>1, RequestsAssumption DEF Calls, Request
<1>2. \A r \in Calls : req[r] \in [kind : {"register", "unregister"}, name : GlobalName, pid : GlobalPid,
                   cleanup : BOOLEAN]
  <2> DEFINE S == [kind : {"register", "unregister"}, name : GlobalName, pid : GlobalPid, cleanup : BOOLEAN]
  <2>1. req \in Seq(S)
    BY DEF CoordTypes
  <2> HIDE DEF S
  <2>2. \A r \in 1 .. Len(req) : req[r] \in S
    BY <2>1, ElementOfSeq
  <2> QED
    BY <2>2 DEF Calls, S
<1> QED
  BY <1>1, <1>2, OwnerAssumption DEF Home

\* What was in flight stays as true as it was.
LEMMA OldMessage ==
  ASSUME CoordInv, Calls \subseteq Calls', \A r \in Calls : req'[r] = req[r], written \subseteq written',
         NEW m \in net, Asks(m) => task'[m.r] = task[m.r]
  PROVE  MessageOK(m)'
  BY DEF CoordInv, WireOK, MessageOK, Asks

LEMMA WireKeeps ==
  ASSUME CoordInv, Calls \subseteq Calls', \A r \in Calls : req'[r] = req[r], written \subseteq written',
         NEW ms, net' \subseteq net \cup ms, \A m \in ms : MessageOK(m)' /\ ~Asks(m),
         \A m \in net' : (m \in net /\ Asks(m)) => task'[m.r] = task[m.r]
  PROVE  WireOK'
<1>1. ASSUME NEW m \in net' PROVE MessageOK(m)'
  BY <1>1, OldMessage
<1>2. ASSUME NEW m \in net', NEW k \in net', Asks(m), Asks(k), m.r = k.r PROVE m = k
  BY <1>2 DEF CoordInv, WireOK
<1> QED
  BY <1>1, <1>2 DEF WireOK, Asks

\* A step that leaves names, tasks and members as they are, and may lose a node of the
\* control plane or a process.
LEMMA QuietStep ==
  ASSUME CoordInv, UNCHANGED <<view, epoch, global, req, task, granted, written>>,
         exited \subseteq exited', exited' \subseteq GlobalPid, cluster' \subseteq cluster,
         cleanup' \in [GlobalPid -> {"none", "due", "busy"}],
         \A p \in GlobalPid : cleanup'[p] # "none" => p \in exited',
         WireOK'
  PROVE  CoordInv'
<1>1. CoordTypes'
  BY DEF CoordInv, CoordTypes
<1>2. /\ \A n \in Nodes : Leader(n)' = Leader(n)
      /\ Calls' = Calls
  BY DEF Leader, Members, Calls
<1>3. LeadersOK'
  BY <1>2 DEF CoordInv, LeadersOK
<1>4. StripesOK' /\ (\A r \in Request : TaskOK(r)') /\ \A r \in Request \ Calls' : task'[r] = NoTask
  BY <1>2 DEF CoordInv, StripesOK, TaskOK
<1>5. ASSUME NEW r \in Calls PROVE HeldOK(r)'
  BY <1>2 DEF CoordInv, HeldOK, Fenced
<1>6. OnlyCommitted' /\ GrantsKept'
  BY <1>2 DEF CoordInv, GrantsSafe, OnlyCommitted, GrantsKept
<1>7. RefusedLeavesNothing'
  BY <1>2 DEF CoordInv, GrantsSafe, RefusedLeavesNothing, LeftBy
<1> QED
  BY <1>1, <1>2, <1>3, <1>4, <1>5, <1>6, <1>7 DEF CoordInv, GrantsSafe

\* The coordination of call r is at t now; at its node it may have changed its name's
\* entry and grant, if it holds the stripe.  Nothing else changed.
LEMMA CallMoves ==
  ASSUME CoordInv, NEW r \in Calls, NEW t \in Coordination, task' = [task EXCEPT ![r] = t],
         UNCHANGED <<cluster, view, epoch, req, exited, cleanup>>,
         t.at \in Nodes, Leader(t.at) = t.at, t.stage # "none",
         task[r].stage = "none" \/ task[r].at = t.at,
         global' \in [Nodes -> Replica], granted' \in [Nodes -> Replica],
         \A n \in Nodes, x \in GlobalName :
           n # t.at \/ x # req[r].name => global'[n][x] = global[n][x] /\ granted'[n][x] = granted[n][x],
         written \subseteq written', written' \subseteq GlobalName \X GlobalPid,
         \/ task[r].stage \in Active
         \/ StripeFree(t.at, req[r].name)
         \/ t.stage \notin Active /\ UNCHANGED <<global, granted>>,
         global'[t.at][req[r].name] # NoOwner => <<req[r].name, global'[t.at][req[r].name]>> \in written',
         granted'[t.at][req[r].name] \notin exited \cup {NoOwner} =>
           global'[t.at][req[r].name] = granted'[t.at][req[r].name],
         TaskOK(r)', HeldOK(r)', WireOK',
         t.at = Min(Nodes) /\ global'[t.at][req[r].name] # NoOwner =>
           \E s \in Calls : LeftBy(s, t.at, req[r].name, global[t.at][req[r].name])'
  PROVE  CoordInv'
<1>0. /\ \A n \in Nodes : Leader(n)' = Leader(n)
      /\ Calls' = Calls /\ r \in Request /\ req[r].name \in GlobalName /\ Calls \subseteq Request
      /\ task \in [Request -> Coordination]
  BY CallsAre DEF Leader, Members, Calls, CoordInv, CoordTypes
<1>t. task'[r] = t /\ \A s \in Request : s # r => task'[s] = task[s]
  BY <1>0
<1>1. CoordTypes'
  BY <1>0 DEF CoordInv, CoordTypes
<1>2. LeadersOK'
  <2>1. ASSUME NEW s \in Request, task'[s].stage # "none"
        PROVE  task'[s].at \in Nodes /\ Leader(task'[s].at) = task'[s].at
    BY <1>t, <2>1 DEF CoordInv, LeadersOK
  <2>2. ASSUME NEW n \in Nodes, NEW x \in GlobalName, granted'[n][x] # NoOwner PROVE Leader(n) = n
    BY <2>2 DEF CoordInv, LeadersOK
  <2>3. ASSUME NEW n \in Nodes PROVE cluster' \subseteq view'[n]
    BY DEF CoordInv, LeadersOK
  <2> QED
    BY <1>0, <2>1, <2>2, <2>3 DEF LeadersOK
\* No other coordination that runs holds this stripe.
<1>3. ASSUME NEW s \in Calls, s # r, task[s].stage \in Active, task[s].at = t.at,
             Stripe[req[s].name] = Stripe[req[r].name]
      PROVE  t.stage \notin Active /\ UNCHANGED <<global, granted>>
  <2>1. CASE task[r].stage \in Active
    <3>1. task[r].at = t.at
      BY <2>1 DEF Active
    <3> QED
      BY <1>3, <2>1, <3>1 DEF CoordInv, StripesOK
  <2>2. CASE StripeFree(t.at, req[r].name)
    BY <1>3, <2>2 DEF StripeFree
  <2> QED
    BY <2>1, <2>2
<1>4. StripesOK'
  <2>1. ASSUME NEW a \in Calls, NEW b \in Calls, task'[a].stage \in Active, task'[b].stage \in Active,
               task'[a].at = task'[b].at, Stripe[req[a].name] = Stripe[req[b].name], a # b
        PROVE  FALSE
    <3>1. CASE a = r
      BY <1>0, <1>t, <1>3, <2>1, <3>1
    <3>2. CASE b = r
      BY <1>0, <1>t, <1>3, <2>1, <3>2
    <3>3. CASE a # r /\ b # r
      BY <1>0, <1>t, <2>1, <3>3 DEF CoordInv, StripesOK
    <3> QED
      BY <3>1, <3>2, <3>3
  <2> QED
    BY <1>0, <2>1 DEF StripesOK
<1>5. ASSUME NEW s \in Request PROVE TaskOK(s)'
  <2>1. CASE s = r
    BY <2>1
  <2>2. CASE s # r
    BY <1>t, <2>2 DEF CoordInv, TaskOK
  <2> QED
    BY <2>1, <2>2
<1>6. ASSUME NEW s \in Calls PROVE HeldOK(s)'
  <2>1. CASE s = r
    BY <2>1
  <2>2. CASE s # r
    <3>1. task'[s] = task[s] /\ req[s].name \in GlobalName /\ s \in Request
      BY <1>0, <1>t, <2>2, CallsAre DEF CoordInv
    <3>2. task[s].stage \in Active => task[s].at \in Nodes
      BY <3>1 DEF CoordInv, LeadersOK, Active
    <3>3. task[s].stage \in Active =>
            /\ global'[task[s].at][req[s].name] = global[task[s].at][req[s].name]
            /\ granted'[task[s].at][req[s].name] = granted[task[s].at][req[s].name]
      BY <1>3, <2>2, <3>1, <3>2
    <3>4. HeldOK(s) /\ (Fenced(s)' <=> Fenced(s))
      BY <3>1 DEF CoordInv, Fenced
    <3> QED
      BY <3>1, <3>3, <3>4 DEF HeldOK, Active
  <2> QED
    BY <2>1, <2>2
<1>7. \A s \in Request \ Calls' : task'[s] = NoTask
  BY <1>0, <1>t DEF CoordInv
<1>8. OnlyCommitted'
  <2>1. ASSUME NEW n \in Nodes, NEW x \in GlobalName, global'[n][x] # NoOwner
        PROVE  <<x, global'[n][x]>> \in written'
    BY <2>1 DEF CoordInv, GrantsSafe, OnlyCommitted
  <2> QED
    BY <2>1 DEF OnlyCommitted
<1>9. GrantsKept'
  <2>1. ASSUME NEW n \in Nodes, NEW x \in GlobalName, Leader(n) = n, granted'[n][x] \notin exited \cup {NoOwner}
        PROVE  global'[n][x] = granted'[n][x]
    BY <2>1 DEF CoordInv, GrantsSafe, GrantsKept
  <2> QED
    BY <1>0, <2>1 DEF GrantsKept
<1>10. RefusedLeavesNothing'
  <2> DEFINE n == Min(Nodes)
  <2>0. n \in Nodes
    BY FirstLeads DEF CoordInv
  <2> HIDE DEF n
  <2>1. ASSUME NEW x \in GlobalName, global'[n][x] # NoOwner
        PROVE  \E s \in Calls : LeftBy(s, n, x, global[n][x])'
    <3>1. CASE t.at = n /\ x = req[r].name
      BY <2>1, <3>1 DEF n
    <3>2. CASE t.at # n \/ x # req[r].name
      <4>1. global'[n][x] = global[n][x]
        BY <2>0, <3>2
      <4>2. PICK s \in Calls : LeftBy(s, n, x, global[n][x])
        BY <2>1, <4>1 DEF CoordInv, GrantsSafe, RefusedLeavesNothing, n
      <4>3. s # r
        <5>1. ASSUME s = r PROVE FALSE
          <6>1. task[r].at = n /\ req[r].name = x /\ task[r].stage # "none"
            BY <1>0, <4>2, <5>1 DEF LeftBy, CoordInv, TaskOK
          <6> QED
            BY <3>2, <6>1
        <5> QED
          BY <5>1
      <4>4. LeftBy(s, n, x, global[n][x])'
        BY <1>0, <1>t, <4>1, <4>2, <4>3 DEF LeftBy
      <4> QED
        BY <4>4
    <3> QED
      BY <3>1, <3>2
  <2> QED
    BY <1>0, <2>1 DEF RefusedLeavesNothing, n
<1>11. \A p \in GlobalPid : cleanup'[p] # "none" => p \in exited'
  BY DEF CoordInv
<1> QED
  BY <1>0, <1>1, <1>2, <1>4, <1>5, <1>6, <1>7, <1>8, <1>9, <1>10, <1>11 DEF CoordInv, GrantsSafe

\* A step of r leaves the reason of an entry, unless it was r and r gives it up.
LEMMA StillLeft ==
  ASSUME CoordInv, NEW r \in Calls, NEW t \in Coordination, task' = [task EXCEPT ![r] = t], req' = req,
         NEW x \in GlobalName, global'[Min(Nodes)][x] = global[Min(Nodes)][x], global[Min(Nodes)][x] # NoOwner,
         req[r].kind = "register" /\ (task[r].stage = "notifying" \/ task[r].res \in {"success", "dropped"}) =>
           t.at = task[r].at /\ (t.stage = "notifying" \/ t.res \in {"success", "dropped"})
  PROVE  \E s \in Calls : LeftBy(s, Min(Nodes), x, global[Min(Nodes)][x])'
<1>1. PICK s \in Calls : LeftBy(s, Min(Nodes), x, global[Min(Nodes)][x])
  BY DEF CoordInv, GrantsSafe, RefusedLeavesNothing
<1>2. task \in [Request -> Coordination] /\ Calls \subseteq Request
  BY CallsAre DEF CoordInv, CoordTypes
<1>3. CASE s # r
  <2>1. task'[s] = task[s]
    BY <1>2, <1>3
  <2>2. LeftBy(s, Min(Nodes), x, global[Min(Nodes)][x])'
    BY <1>1, <2>1 DEF LeftBy
  <2> QED
    BY <2>2
<1>4. CASE s = r
  <2>1. task'[s] = t
    BY <1>2, <1>4
  <2>2. LeftBy(s, Min(Nodes), x, global[Min(Nodes)][x])'
    BY <1>1, <1>4, <2>1 DEF LeftBy
  <2> QED
    BY <2>2
<1> QED
  BY <1>3, <1>4

LEMMA EndsIs ==
  ASSUME CoordInv, NEW r \in Calls, NEW res \in Outcome, Ends(r, res), task[r].stage # "none",
         UNCHANGED <<req, epoch>>, written \subseteq written'
  PROVE  /\ WireOK'
         /\ \E t \in Coordination :
              /\ task' = [task EXCEPT ![r] = t] /\ t.at = task[r].at /\ t.stage = "over" /\ t.res = res
              /\ t.at \in Nodes /\ Leader(t.at) = t.at
         /\ TaskOK(r)' /\ HeldOK(r)'
<1> DEFINE t == Over(task[r].at, res)
<1>0. /\ r \in Request /\ task \in [Request -> Coordination] /\ task[r].at \in Nodes /\ Home(r) \in Nodes
      /\ Leader(task[r].at) = task[r].at /\ epoch \in [Nodes -> Nat] /\ Calls' = Calls
  BY CallsAre DEF CoordInv, CoordTypes, LeadersOK, Calls
<1>1. /\ t \in Coordination /\ t.at = task[r].at /\ t.stage = "over" /\ t.left = {}
      /\ t.res = res /\ t.epoch = 0
  BY <1>0, OverIs
<1>2. task' = [task EXCEPT ![r] = t]
  BY DEF Ends
<1>3. PICK m : /\ m.type = "decision" /\ m.from = task[r].at /\ m.to = Home(r) /\ m.r = r
               /\ net' \subseteq net \cup {m}
  <2> DEFINE d == [Message("decision", task[r].at, Home(r), r) EXCEPT !.res = res]
  <2>1. /\ d.type = "decision" /\ d.from = task[r].at /\ d.to = Home(r) /\ d.r = r
    BY DEF Message
  <2>2. net' \subseteq net \cup {d}
    BY DEF Ends, Sent
  <2> QED
    BY <2>1, <2>2
<1> HIDE DEF t
<1>4. task'[r] = t /\ \A s \in Request : s # r => task'[s] = task[s]
  BY <1>0, <1>2
<1>5. MessageOK(m)' /\ ~Asks(m)
  BY <1>0, <1>3 DEF MessageOK, Asks
<1>6. ASSUME NEW k \in net, Asks(k) PROVE task'[k.r] = task[k.r]
  <2>1. k.r \in Calls /\ task[k.r] = NoTask
    BY <1>6 DEF CoordInv, WireOK, MessageOK, Asks
  <2>2. k.r # r
    BY <2>1, CoordinationIs
  <2> QED
    BY <1>4, <2>1, <2>2, CallsAre DEF CoordInv
<1>7. WireOK'
  <2> DEFINE ms == {m}
  <2>1. net' \subseteq net \cup ms /\ \A k \in ms : MessageOK(k)' /\ ~Asks(k)
    BY <1>3, <1>5
  <2> HIDE DEF ms
  <2> QED
    BY <1>0, <1>6, <2>1, WireKeeps
<1>8. HeldOK(r)'
  BY <1>1, <1>4 DEF HeldOK, Active
<1>9. TaskOK(r)'
  <2>1. epoch' = epoch /\ 0 <= epoch[task[r].at]
    BY <1>0
  <2> QED
    BY <1>1, <1>4, <2>1 DEF TaskOK
<1> QED
  BY <1>0, <1>1, <1>2, <1>7, <1>8, <1>9

\* The coordination of r is at t now, and that is all.
LEMMA TaskMoves ==
  ASSUME CoordInv, NEW r \in Calls, NEW t \in Coordination, task' = [task EXCEPT ![r] = t],
         UNCHANGED <<cluster, view, epoch, global, req, exited, cleanup, granted, written>>,
         t.at \in Nodes, Leader(t.at) = t.at, t.stage # "none",
         task[r].stage = "none" \/ task[r].at = t.at,
         task[r].stage \in Active \/ StripeFree(t.at, req[r].name) \/ t.stage \notin Active,
         req[r].kind = "register" /\ (task[r].stage = "notifying" \/ task[r].res \in {"success", "dropped"}) =>
           t.stage = "notifying" \/ t.res \in {"success", "dropped"},
         TaskOK(r)', HeldOK(r)', WireOK'
  PROVE  CoordInv'
<1>1. /\ req[r].name \in GlobalName /\ written \subseteq GlobalName \X GlobalPid
      /\ global \in [Nodes -> Replica] /\ granted \in [Nodes -> Replica]
      /\ r \in Request
      /\ task[r].res # "" => task[r].stage = "over"
  BY CallsAre DEF CoordInv, CoordTypes, TaskOK
<1>2. ASSUME t.at = Min(Nodes), global'[t.at][req[r].name] # NoOwner
      PROVE  \E s \in Calls : LeftBy(s, t.at, req[r].name, global[t.at][req[r].name])'
  <2>1. req[r].kind = "register" /\ (task[r].stage = "notifying" \/ task[r].res \in {"success", "dropped"}) =>
           t.at = task[r].at /\ (t.stage = "notifying" \/ t.res \in {"success", "dropped"})
    BY <1>1
  <2>2. global'[Min(Nodes)][req[r].name] = global[Min(Nodes)][req[r].name] /\ global[Min(Nodes)][req[r].name] # NoOwner
    BY <1>2
  <2>3. \E s \in Calls : LeftBy(s, Min(Nodes), req[r].name, global[Min(Nodes)][req[r].name])'
    <3> DEFINE x == req[r].name
    <3>1. x \in GlobalName /\ x' = x
      BY <1>1
    <3>2. PICK y \in GlobalName : y = req[r].name
      BY <1>1
    <3>3. \E s \in Calls : LeftBy(s, Min(Nodes), y, global[Min(Nodes)][y])'
      BY <2>1, <2>2, <3>2, StillLeft
    <3> QED
      BY <3>1, <3>2, <3>3
  <2> QED
    BY <1>2, <2>3
<1>3. /\ global'[t.at][req[r].name] # NoOwner => <<req[r].name, global'[t.at][req[r].name]>> \in written'
      /\ granted'[t.at][req[r].name] \notin exited \cup {NoOwner} =>
           global'[t.at][req[r].name] = granted'[t.at][req[r].name]
  BY <1>1 DEF CoordInv, GrantsSafe, OnlyCommitted, GrantsKept
<1> QED
  BY <1>1, <1>2, <1>3, CallMoves

\* A coordination ends and leaves its name as it is.
LEMMA EndsQuietly ==
  ASSUME CoordInv, NEW r \in Calls, NEW res \in Outcome, Ends(r, res), task[r].stage \notin {"none", "over"},
         req[r].kind = "register" /\ task[r].stage = "notifying" => res = "success",
         UNCHANGED <<cluster, view, epoch, global, req, exited, cleanup, granted, written>>
  PROVE  CoordInv'
<1>1. WireOK' /\ TaskOK(r)' /\ HeldOK(r)'
  BY EndsIs
<1>2. PICK t \in Coordination :
              /\ task' = [task EXCEPT ![r] = t] /\ t.at = task[r].at /\ t.stage = "over" /\ t.res = res
              /\ t.at \in Nodes /\ Leader(t.at) = t.at
  BY EndsIs
<1>3. task[r].res = "" /\ t.stage \notin Active
  BY <1>2, CallsAre DEF CoordInv, TaskOK, Active
<1> QED
  BY <1>1, <1>2, <1>3, TaskMoves

\* Messages in flight when the coordination of r moves on.
LEMMA WireOfMove ==
  ASSUME CoordInv, NEW r \in Calls, task[r].stage # "none", NEW t, task' = [task EXCEPT ![r] = t],
         req' = req, written \subseteq written',
         NEW ms, net' \subseteq net \cup ms, \A m \in ms : MessageOK(m)' /\ ~Asks(m)
  PROVE  WireOK'
<1>0. task \in [Request -> Coordination] /\ Calls \subseteq Request /\ Calls' = Calls
  BY CallsAre DEF CoordInv, CoordTypes, Calls
<1>1. ASSUME NEW k \in net, Asks(k) PROVE task'[k.r] = task[k.r]
  <2>1. k.r \in Calls /\ task[k.r] = NoTask
    BY <1>1 DEF CoordInv, WireOK, MessageOK, Asks
  <2>2. k.r # r
    BY <2>1, CoordinationIs
  <2> QED
    BY <1>0, <2>1, <2>2
<1> QED
  BY <1>0, <1>1, WireKeeps

LEMMA CancelKeeps ==
  ASSUME CoordInv, NEW r \in Request, Cancel(r)
  PROVE  CoordInv'
<1> DEFINE t == Over(Home(r), "dropped")
<1>0. /\ r \in Calls /\ task' = [task EXCEPT ![r] = t] /\ net' \subseteq net
      /\ UNCHANGED <<cluster, view, epoch, global, req, exited, cleanup, granted, written>>
      /\ task[r].at = Home(r) /\ task[r].stage \in {"queued", "voting", "notifying"}
  BY DEF Cancel, membership, cleaning, history
<1>1. /\ task[r].at \in Nodes /\ Leader(task[r].at) = task[r].at /\ epoch \in [Nodes -> Nat]
      /\ task \in [Request -> Coordination]
  BY <1>0, CallsAre DEF CoordInv, CoordTypes, LeadersOK
<1>2. t \in Coordination /\ t.at = Home(r) /\ t.stage = "over" /\ t.left = {} /\ t.res = "dropped" /\ t.epoch = 0
  BY <1>0, <1>1, OverIs
<1> HIDE DEF t
<1>3. WireOK'
  <2> DEFINE ms == {}
  <2>1. net' \subseteq net \cup ms /\ \A k \in ms : MessageOK(k)' /\ ~Asks(k)
    BY <1>0
  <2>2. task[r].stage # "none"
    BY <1>0
  <2> HIDE DEF ms
  <2> QED
    BY <1>0, <2>1, <2>2, WireOfMove
<1>4. task'[r] = t
  BY <1>0, <1>1
<1>5. HeldOK(r)'
  BY <1>2, <1>4 DEF HeldOK, Active
<1>6. TaskOK(r)'
  <2>1. epoch' = epoch /\ 0 <= epoch[task[r].at]
    BY <1>0, <1>1
  <2> QED
    BY <1>0, <1>2, <1>4, <2>1 DEF TaskOK
<1>7. t.stage \notin Active /\ t.stage # "none" /\ t.at = task[r].at
  BY <1>0, <1>2 DEF Active
<1> QED
  BY <1>0, <1>1, <1>2, <1>3, <1>5, <1>6, <1>7, TaskMoves

\* A request is taken up by the coordinator.
LEMMA TakenUp ==
  ASSUME CoordInv, NEW n \in Nodes, Leader(n) = n, NEW m \in net, Asks(m), net' = net \ {m},
         NEW mem \in SUBSET Nodes, task' = [task EXCEPT ![m.r] = Waiting(n, mem)],
         UNCHANGED <<cluster, view, epoch, global, req, exited, cleanup, granted, written>>
  PROVE  CoordInv'
<1> DEFINE r == m.r
           t == Waiting(n, mem)
<1>0. r \in Calls /\ task[r] = NoTask
  BY DEF CoordInv, WireOK, MessageOK, Asks
<1>1. task \in [Request -> Coordination] /\ Calls \subseteq Request /\ Calls' = Calls /\ epoch \in [Nodes -> Nat]
  BY CallsAre DEF CoordInv, CoordTypes, Calls
<1>2. t \in Coordination /\ t.at = n /\ t.stage = "queued" /\ t.left = {} /\ t.res = "" /\ t.epoch = 0
  BY WaitingIs
<1>3. task' = [task EXCEPT ![r] = t]
  OBVIOUS
<1> HIDE DEF t
<1>4. ASSUME NEW k \in net', Asks(k) PROVE task'[k.r] = task[k.r]
  <2>1. k \in net /\ k # m /\ k.r # r
    BY <1>4 DEF CoordInv, WireOK
  <2>2. k.r \in Calls
    BY <1>4, <2>1 DEF CoordInv, WireOK, MessageOK, Asks
  <2> QED
    BY <1>1, <1>3, <2>1, <2>2
<1> HIDE DEF r
<1>5. WireOK'
  <2> DEFINE ms == {}
  <2>1. net' \subseteq net \cup ms /\ \A k \in ms : MessageOK(k)' /\ ~Asks(k)
    OBVIOUS
  <2> HIDE DEF ms
  <2> QED
    BY <1>1, <1>4, <2>1, WireKeeps
<1>6. task'[r] = t
  BY <1>0, <1>1, <1>3
<1>7. HeldOK(r)'
  BY <1>2, <1>6 DEF HeldOK, Active
<1>8. TaskOK(r)'
  <2>1. epoch' = epoch /\ 0 <= epoch[n]
    BY <1>1
  <2> QED
    BY <1>2, <1>6, <2>1 DEF TaskOK
<1>9. t.stage \notin Active /\ t.stage # "none" /\ task[r].stage = "none" /\ task[r].res = ""
  BY <1>0, <1>2, CoordinationIs DEF Active
<1> QED
  BY <1>0, <1>2, <1>3, <1>5, <1>7, <1>8, <1>9, TaskMoves

\* The step makes room for a message that asks for nothing.
LEMMA RepliesKeep ==
  ASSUME CoordInv, NEW ms, net' \subseteq net \cup ms, UNCHANGED <<req, task, written>>,
         \A m \in ms : MessageOK(m)' /\ ~Asks(m)
  PROVE  WireOK'
<1>1. Calls' = Calls
  BY DEF Calls
<1> QED
  BY <1>1, WireKeeps

LEMMA HandleRequestKeeps ==
  ASSUME CoordInv, NEW n \in Nodes, NEW m \in net, HandleRequest(n, m)
  PROVE  CoordInv'
<1>0. /\ UNCHANGED <<cluster, view, epoch, global, req, exited, cleanup, granted, written>>
      /\ m.type = "register" /\ m.to = n /\ m.from \in Nodes /\ m.r \in Calls
  BY DEF HandleRequest, Takes, membership, calls, cleaning, history, CoordInv, WireOK, MessageOK
<1>1. CASE Leader(n) = n
  <2>1. Asks(m) /\ net' = net \ {m} /\ task' = [task EXCEPT ![m.r] = Waiting(n, {})] /\ {} \in SUBSET Nodes
    BY <1>0, <1>1 DEF HandleRequest, Asks
  <2> QED
    BY <1>0, <1>1, <2>1, TakenUp
<1>2. CASE Leader(n) # n
  <2>1. PICK d : /\ d.type = "decision" /\ d.from = n /\ d.to = m.from /\ d.r = m.r
                 /\ net' \subseteq net \cup {d} /\ task' = task
    <3> DEFINE e == [Message("decision", n, m.from, m.r) EXCEPT !.res = "refused"]
    <3>1. /\ e.type = "decision" /\ e.from = n /\ e.to = m.from /\ e.r = m.r
      BY DEF Message
    <3>2. net' \subseteq net \cup {e} /\ task' = task
      BY <1>2 DEF HandleRequest, Sent
    <3> QED
      BY <3>1, <3>2
  <2>2. Calls' = Calls
    BY <1>0 DEF Calls
  <2>3. MessageOK(d)' /\ ~Asks(d)
    BY <1>0, <2>1, <2>2 DEF MessageOK, Asks
  <2>4. WireOK'
    <3> DEFINE ms == {d}
    <3>1. net' \subseteq net \cup ms /\ \A k \in ms : MessageOK(k)' /\ ~Asks(k)
      BY <2>1, <2>3
    <3> HIDE DEF ms
    <3> QED
      BY <1>0, <2>1, <3>1, RepliesKeep
  <2> QED
    BY <1>0, <2>1, <2>4, QuietStep DEF CoordInv, CoordTypes
<1> QED
  BY <1>1, <1>2

LEMMA HandleUnregisterKeeps ==
  ASSUME CoordInv, NEW n \in Nodes, NEW m \in net, HandleUnregister(n, m)
  PROVE  CoordInv'
<1>0. /\ UNCHANGED <<cluster, view, epoch, global, req, exited, cleanup, granted, written>>
      /\ Asks(m) /\ Leader(n) = n /\ net' = net \ {m} /\ task' = [task EXCEPT ![m.r] = Waiting(n, Members(n))]
  BY DEF HandleUnregister, Takes, Asks, membership, calls, cleaning, history
<1>1. Members(n) \in SUBSET Nodes
  BY LeaderIs DEF CoordInv
<1> QED
  BY <1>0, <1>1, TakenUp

\* A call is made: it is coordinated here, or its request is sent.
LEMMA IssueKeeps ==
  ASSUME CoordInv, NEW kind \in {"register", "unregister"}, NEW x \in GlobalName, NEW p \in GlobalPid,
         NEW auto \in BOOLEAN, Issue(kind, x, p, auto), UNCHANGED <<exited, cleanup>>
  PROVE  CoordInv'
<1> DEFINE c == [kind |-> kind, name |-> x, pid |-> p, cleanup |-> auto]
           n == HomeOf[p]
           S == [kind : {"register", "unregister"}, name : GlobalName, pid : GlobalPid, cleanup : BOOLEAN]
<1>1. PICK r \in Nat : r = Len(req) + 1
  BY CallsAre DEF CoordInv
<1>2. /\ r \in Request /\ req' = Append(req, c) /\ c \in S /\ req \in Seq(S) /\ n \in Nodes
      /\ UNCHANGED <<cluster, view, epoch, global, granted, written, exited, cleanup>>
  BY <1>1, OwnerAssumption DEF Issue, membership, history, CoordInv, CoordTypes
<1>3. /\ \/ Leader(n) = n /\ task' = [task EXCEPT ![r] = Waiting(n, Members(n))] /\ net' = net
         \/ /\ Leader(n) # n /\ task' = task
            /\ net' \subseteq net \cup {Message(kind, n, Leader(n), r)}
  BY <1>1 DEF Issue, Sent
<1>n. n \in Nodes /\ n' = n
  BY <1>2
<1> HIDE DEF c, n, S
<1>4. /\ req' \in Seq(S) /\ Len(req') = Len(req) + 1 /\ req'[r] = c
      /\ \A s \in 1 .. Len(req) : req'[s] = req[s]
  BY <1>1, <1>2, AppendProperties
<1>5. Len(req) \in Nat /\ Calls \subseteq Request /\ r \notin Calls /\ Calls' = Calls \cup {r} /\ \A s \in Calls : req'[s] = req[s]
  BY <1>1, <1>4, CallsAre DEF CoordInv, Calls
<1>6. /\ task \in [Request -> Coordination] /\ task[r] = NoTask /\ epoch \in [Nodes -> Nat]
      /\ Members(n) \in SUBSET Nodes /\ Leader(n) \in Nodes
  BY <1>2, <1>5, LeaderIs DEF CoordInv, CoordTypes
<1>7. PICK t \in Coordination :
        /\ task' = [task EXCEPT ![r] = t] /\ t.stage \in {"none", "queued"} /\ t.left = {} /\ t.res = "" /\ t.epoch = 0
        /\ t = NoTask \/ (t.stage = "queued" /\ t.at \in Nodes /\ Leader(t.at) = t.at)
        /\ t.at \notin t.left
  <2>1. CASE task' = task
    <3>1. task' = [task EXCEPT ![r] = NoTask]
      BY <1>2, <1>6, <2>1
    <3> QED
      BY <3>1, CoordinationIs
  <2>2. CASE task' # task
    <3>1. task' = [task EXCEPT ![r] = Waiting(n, Members(n))] /\ Leader(n) = n
      BY <1>3, <2>2
    <3> DEFINE mem == Members(n)
               w == Waiting(n, mem)
    <3>2. w \in Coordination /\ w.at = n /\ w.stage = "queued" /\ w.left = {} /\ w.res = "" /\ w.epoch = 0
      <4>1. n \in Nodes /\ mem \in SUBSET Nodes
        BY <1>n, <1>6
      <4> HIDE DEF mem
      <4> QED
        BY ONLY <4>1, WaitingIs
    <3>3. task' = [task EXCEPT ![r] = w]
      BY <3>1
    <3> HIDE DEF w
    <3> QED
      BY <1>n, <3>1, <3>2, <3>3
  <2> QED
    BY <2>1, <2>2
<1>8. task'[r] = t /\ \A s \in Request : s # r => task'[s] = task[s]
  BY <1>2, <1>6, <1>7
<1>9. \A k \in Nodes : Leader(k)' = Leader(k)
  BY <1>2 DEF Leader, Members
<1>10. CoordTypes'
  <2>1. Len(req') <= MaxRequests
    BY <1>1, <1>2, <1>4, RequestsAssumption DEF Request
  <2> QED
    BY <1>2, <1>4, <1>6, <1>7, <2>1 DEF CoordInv, CoordTypes, S
<1>11. LeadersOK'
  <2>1. ASSUME NEW s \in Request, task'[s].stage # "none"
        PROVE  task'[s].at \in Nodes /\ Leader(task'[s].at) = task'[s].at
    BY <1>7, <1>8, <2>1, CoordinationIs DEF CoordInv, LeadersOK
  <2>2. /\ \A k \in Nodes : cluster' \subseteq view'[k]
        /\ \A k \in Nodes, y \in GlobalName : granted'[k][y] # NoOwner => Leader(k) = k
    BY <1>2 DEF CoordInv, LeadersOK
  <2> QED
    BY <1>9, <2>1, <2>2 DEF LeadersOK
<1>12. StripesOK'
  <2>1. t.stage \notin Active
    BY <1>7 DEF Active
  <2>2. ASSUME NEW a \in Calls', NEW b \in Calls', task'[a].stage \in Active, task'[b].stage \in Active,
               task'[a].at = task'[b].at, Stripe[req'[a].name] = Stripe[req'[b].name]
        PROVE  a = b
    <3>1. a \in Calls /\ b \in Calls /\ task'[a] = task[a] /\ task'[b] = task[b] /\ req'[a] = req[a] /\ req'[b] = req[b]
      BY <1>5, <1>8, <2>1, <2>2
    <3> QED
      BY <2>2, <3>1 DEF CoordInv, StripesOK
  <2> QED
    BY <2>2 DEF StripesOK
<1>13. ASSUME NEW s \in Request PROVE TaskOK(s)'
  <2>1. CASE s = r
    <3>1. t.stage # "none" => t.at \in Nodes
      BY <1>7, CoordinationIs
    <3>2. \A k \in Nodes : 0 <= epoch'[k]
      BY <1>2, <1>6
    <3> QED
      BY <1>7, <1>8, <2>1, <3>1, <3>2 DEF TaskOK
  <2>2. CASE s # r
    BY <1>2, <1>8, <2>2 DEF CoordInv, TaskOK
  <2> QED
    BY <2>1, <2>2
<1>14. ASSUME NEW s \in Calls' PROVE HeldOK(s)'
  <2>1. CASE s = r
    BY <1>7, <1>8, <2>1 DEF HeldOK, Active
  <2>2. CASE s # r
    <3>1. s \in Calls /\ task'[s] = task[s] /\ req'[s] = req[s]
      BY <1>5, <1>8, <2>2
    <3>2. HeldOK(s) /\ (Fenced(s)' <=> Fenced(s))
      BY <1>2, <3>1 DEF CoordInv, Fenced
    <3> QED
      BY <1>2, <3>1, <3>2 DEF HeldOK
  <2> QED
    BY <2>1, <2>2
<1>15. \A s \in Request \ Calls' : task'[s] = NoTask
  BY <1>5, <1>8 DEF CoordInv
<1>16. OnlyCommitted' /\ GrantsKept'
  BY <1>2, <1>9 DEF CoordInv, GrantsSafe, OnlyCommitted, GrantsKept
<1>17. RefusedLeavesNothing'
  <2>1. ASSUME NEW y \in GlobalName, global'[Min(Nodes)][y] # NoOwner
        PROVE  \E s \in Calls' : LeftBy(s, Min(Nodes), y, global[Min(Nodes)][y])'
    <3>1. PICK s \in Calls : LeftBy(s, Min(Nodes), y, global[Min(Nodes)][y])
      BY <1>2, <2>1 DEF CoordInv, GrantsSafe, RefusedLeavesNothing
    <3>2. task'[s] = task[s] /\ req'[s] = req[s] /\ s \in Calls'
      BY <1>5, <1>8
    <3> QED
      BY <1>2, <3>1, <3>2 DEF LeftBy
  <2> QED
    BY <2>1 DEF RefusedLeavesNothing
<1>18. WireOK'
  <2>1. ASSUME NEW m \in net PROVE MessageOK(m)' /\ (Asks(m) => m.r # r)
    <3>1. Asks(m) => m.r \in Calls
      BY DEF CoordInv, WireOK, MessageOK, Asks
    <3>2. Asks(m) => task'[m.r] = task[m.r]
      BY <1>5, <1>8, <3>1
    <3>3. MessageOK(m)'
      BY <1>2, <1>5, <3>2, OldMessage
    <3> QED
      BY <1>5, <3>1, <3>3
  <2>2. CASE net' = net
    BY <2>1, <2>2 DEF CoordInv, WireOK, Asks
  <2>3. CASE net' # net
    <3>1. PICK m : /\ m.type = kind /\ m.from = n /\ m.to = Leader(n) /\ m.r = r
                   /\ net' \subseteq net \cup {m} /\ task' = task
      BY <1>3, <2>3 DEF Message
    <3>2. MessageOK(m)'
      BY <1>2, <1>5, <1>6, <3>1 DEF MessageOK, Asks
    <3>3. ASSUME NEW k \in net', NEW q \in net', Asks(k), Asks(q), k.r = q.r PROVE k = q
      BY <2>1, <3>1, <3>3 DEF CoordInv, WireOK
    <3> QED
      BY <2>1, <3>1, <3>2, <3>3 DEF WireOK, Asks
  <2> QED
    BY <2>2, <2>3
<1>19. \A q \in GlobalPid : cleanup'[q] # "none" => q \in exited'
  BY <1>2 DEF CoordInv
<1> QED
  BY <1>10, <1>11, <1>12, <1>13, <1>14, <1>15, <1>16, <1>17, <1>18, <1>19 DEF CoordInv, GrantsSafe

\* What a coordination that runs may rely on.
LEMMA RunningIs ==
  ASSUME CoordInv, NEW r \in Calls
  PROVE  /\ r \in Request /\ task \in [Request -> Coordination] /\ task[r] \in Coordination
         /\ HeldOK(r) /\ TaskOK(r)
         /\ task[r].stage # "none" => task[r].at \in Nodes /\ Leader(task[r].at) = task[r].at
         /\ req[r].name \in GlobalName /\ req[r].pid \in GlobalPid /\ req[r].pid # NoOwner
         /\ epoch \in [Nodes -> Nat] /\ global \in [Nodes -> Replica] /\ granted \in [Nodes -> Replica]
         /\ written \subseteq GlobalName \X GlobalPid
  BY CallsAre DEF CoordInv, CoordTypes, LeadersOK

\* The coordination moves on at its node, with the name as it is.
LEMMA RunsOn ==
  ASSUME CoordInv, NEW r \in Calls, task[r].stage \notin {"none", "over"},
         NEW t \in Coordination, task' = [task EXCEPT ![r] = t],
         UNCHANGED <<cluster, view, epoch, global, req, exited, cleanup, granted, written>>,
         t.at = task[r].at, t.stage \notin {"none", "over"}, t.at \notin t.left, t.res = "", t.epoch <= epoch[t.at],
         task[r].stage \in Active \/ StripeFree(t.at, req[r].name) \/ t.stage \notin Active,
         task[r].stage = "notifying" => t.stage = "notifying",
         HeldOK(r)',
         NEW ms, net' \subseteq net \cup ms, \A m \in ms : MessageOK(m)' /\ ~Asks(m)
  PROVE  CoordInv'
<1>1. WireOK'
  BY WireOfMove
<1>2. task'[r] = t /\ t.at \in Nodes /\ Leader(t.at) = t.at /\ task[r].res = ""
  BY RunningIs DEF TaskOK
<1>3. TaskOK(r)'
  BY <1>2 DEF TaskOK
<1> QED
  BY <1>1, <1>2, <1>3, TaskMoves

LEMMA NoNews ==
  ASSUME net' \subseteq net
  PROVE  \E ms : net' \subseteq net \cup ms /\ \A m \in ms : MessageOK(m)' /\ ~Asks(m)
<1> DEFINE ms == {}
<1>1. net' \subseteq net \cup ms /\ \A m \in ms : MessageOK(m)' /\ ~Asks(m)
  OBVIOUS
<1> HIDE DEF ms
<1> QED
  BY <1>1

LEMMA BeginKeeps ==
  ASSUME CoordInv, NEW r \in Request, Begin(r)
  PROVE  CoordInv'
<1> DEFINE n == task[r].at
           x == req[r].name
           t == [task[r] EXCEPT !.stage = "begun", !.members = Members(n), !.yes = {n}]
<1>0. /\ r \in Calls /\ req[r].kind = "register" /\ task[r].stage = "queued" /\ StripeFree(n, x)
      /\ UNCHANGED <<cluster, view, epoch, global, req, exited, cleanup, granted, written>>
  BY DEF Begin, Queued, membership, cleaning, history
<1>1. \/ \E res \in {"refused", "exhausted"} : Ends(r, res)
      \/ global[n][x] = NoOwner /\ task' = [task EXCEPT ![r].stage = "begun", ![r].members = Members(n),
                                                         ![r].yes = {n}] /\ net' = net
  BY DEF Begin
<1>2. CASE \E res \in {"refused", "exhausted"} : Ends(r, res)
  <2>1. PICK res \in Outcome : Ends(r, res)
    BY <1>2 DEF Outcome
  <2>2. task[r].stage \notin {"none", "over"} /\ task[r].stage # "notifying"
    BY <1>0
  <2> QED
    BY <1>0, <2>1, <2>2, EndsQuietly
<1>3. CASE global[n][x] = NoOwner /\ net' = net /\ task' = [task EXCEPT ![r].stage = "begun",
                                                     ![r].members = Members(n), ![r].yes = {n}]
  <2>1. task[r] \in Coordination /\ n \in Nodes /\ Leader(n) = n /\ TaskOK(r) /\ task \in [Request -> Coordination]
    BY <1>0, RunningIs
  <2>2. Members(n) \subseteq Nodes
    BY <2>1, LeaderIs DEF CoordInv
  <2>3. /\ t \in Coordination /\ t.at = n /\ t.stage = "begun" /\ t.left = task[r].left /\ t.res = task[r].res
        /\ t.epoch = task[r].epoch
    BY <2>1, <2>2 DEF Coordination, Active
  <2>4. task' = [task EXCEPT ![r] = t]
    BY <1>3, <2>1
  <2> HIDE DEF t
  <2>5. t.at \notin t.left /\ t.res = "" /\ t.epoch <= epoch[t.at] /\ task'[r] = t
    BY <1>0, <2>1, <2>3, <2>4 DEF TaskOK
  <2>6. granted[n][x] \in exited \cup {NoOwner}
    BY <1>0, <1>3, <2>1, RunningIs DEF CoordInv, GrantsSafe, GrantsKept
  <2>7. HeldOK(r)'
    BY <1>0, <1>3, <2>3, <2>5, <2>6 DEF HeldOK, Active
  <2>8. PICK ms : net' \subseteq net \cup ms /\ \A m \in ms : MessageOK(m)' /\ ~Asks(m)
    BY <1>3, NoNews
  <2>9. t.stage \notin {"none", "over"} /\ task[r].stage \notin {"none", "over", "notifying"} /\ t.at = task[r].at
    BY <1>0, <2>3
  <2> QED
    BY <1>0, <2>3, <2>4, <2>5, <2>7, <2>8, <2>9, RunsOn
<1> QED
  BY <1>1, <1>2, <1>3

LEMMA OpenKeeps ==
  ASSUME CoordInv, NEW r \in Request, Open(r)
  PROVE  CoordInv'
<1> DEFINE t == [task[r] EXCEPT !.stage = "voting", !.epoch = epoch[task[r].at], !.held = TRUE]
<1>0. /\ r \in Calls /\ task[r].stage = "begun" /\ net' = net
      /\ UNCHANGED <<cluster, view, epoch, global, req, exited, cleanup, granted, written>>
      /\ task' = [task EXCEPT ![r].stage = "voting", ![r].epoch = epoch[task[r].at], ![r].held = TRUE]
  BY DEF Open, membership, calls, cleaning, history
<1>1. /\ task[r] \in Coordination /\ task[r].at \in Nodes /\ TaskOK(r) /\ HeldOK(r)
      /\ task \in [Request -> Coordination] /\ epoch \in [Nodes -> Nat]
  BY <1>0, RunningIs
<1>2. /\ t \in Coordination /\ t.at = task[r].at /\ t.stage = "voting" /\ t.left = task[r].left /\ t.res = task[r].res
      /\ t.epoch = epoch[t.at]
  BY <1>1 DEF Coordination, Active
<1>3. task' = [task EXCEPT ![r] = t]
  BY <1>0, <1>1
<1> HIDE DEF t
<1>4. t.at \notin t.left /\ t.res = "" /\ t.epoch <= epoch[t.at] /\ task'[r] = t
  <2>1. \A k \in Nodes : epoch[k] <= epoch[k]
    BY <1>1
  <2> QED
    BY <1>0, <1>1, <1>2, <1>3, <2>1 DEF TaskOK
<1>5. HeldOK(r)'
  BY <1>0, <1>1, <1>2, <1>4 DEF HeldOK, Active
<1>6. PICK ms : net' \subseteq net \cup ms /\ \A m \in ms : MessageOK(m)' /\ ~Asks(m)
  BY <1>0, NoNews
<1>7. t.stage \notin {"none", "over"} /\ task[r].stage \notin {"none", "over", "notifying"} /\ task[r].stage \in Active
  BY <1>0, <1>2 DEF Active
<1> QED
  BY <1>0, <1>2, <1>3, <1>4, <1>5, <1>6, <1>7, RunsOn

\* A coordination's votes do not matter to its name.
LEMMA VotesMove ==
  ASSUME CoordInv, task' \in [Request -> Coordination], net' \subseteq net,
         \A r \in Request :
           /\ task'[r].at = task[r].at /\ task'[r].stage = task[r].stage /\ task'[r].left = task[r].left
           /\ task'[r].res = task[r].res /\ task'[r].epoch = task[r].epoch
           /\ task[r] = NoTask => task'[r] = NoTask,
         UNCHANGED <<cluster, view, epoch, global, req, exited, cleanup, granted, written>>
  PROVE  CoordInv'
<1>0. Calls' = Calls /\ Calls \subseteq Request /\ \A n \in Nodes : Leader(n)' = Leader(n)
  BY CallsAre DEF CoordInv, Calls, Leader, Members
<1>1. CoordTypes'
  BY DEF CoordInv, CoordTypes
<1>2. LeadersOK' /\ StripesOK'
  BY <1>0 DEF CoordInv, LeadersOK, StripesOK
<1>3. ASSUME NEW r \in Request PROVE TaskOK(r)'
  BY DEF CoordInv, TaskOK
<1>4. ASSUME NEW r \in Calls PROVE HeldOK(r)'
  <2>1. Fenced(r)' <=> Fenced(r)
    BY <1>0 DEF Fenced
  <2> QED
    BY <1>0, <2>1 DEF CoordInv, HeldOK
<1>5. \A r \in Request \ Calls' : task'[r] = NoTask
  BY <1>0 DEF CoordInv
<1>6. OnlyCommitted' /\ GrantsKept'
  BY <1>0 DEF CoordInv, GrantsSafe, OnlyCommitted, GrantsKept
<1>7. RefusedLeavesNothing'
  BY <1>0 DEF CoordInv, GrantsSafe, RefusedLeavesNothing, LeftBy
<1>8. WireOK'
  <2>1. ASSUME NEW m \in net, Asks(m) PROVE task'[m.r] = task[m.r]
    BY <1>0, <2>1 DEF CoordInv, WireOK, MessageOK, Asks
  <2>2. PICK ms : net' \subseteq net \cup ms /\ \A m \in ms : MessageOK(m)' /\ ~Asks(m)
    BY NoNews
  <2> QED
    BY <1>0, <2>1, <2>2, WireKeeps
<1>9. \A p \in GlobalPid : cleanup'[p] # "none" => p \in exited'
  BY DEF CoordInv
<1> QED
  BY <1>0, <1>1, <1>2, <1>3, <1>4, <1>5, <1>6, <1>7, <1>8, <1>9 DEF CoordInv, GrantsSafe

LEMMA HandleVoteKeeps ==
  ASSUME CoordInv, NEW n \in Nodes, NEW m \in net, HandleVote(n, m)
  PROVE  CoordInv'
<1> DEFINE r == m.r
<1>0. /\ UNCHANGED <<cluster, view, epoch, global, req, exited, cleanup, granted, written>>
      /\ net' \subseteq net /\ r \in Calls /\ m.from \in Nodes /\ task[r].held
  BY DEF HandleVote, Takes, MayVote, membership, calls, cleaning, history, CoordInv, WireOK, MessageOK
<1>1. task[r] \in Coordination /\ r \in Request /\ task \in [Request -> Coordination]
  BY <1>0, RunningIs
<1>2. PICK t \in Coordination :
        /\ task' = [task EXCEPT ![r] = t]
        /\ t.at = task[r].at /\ t.stage = task[r].stage /\ t.left = task[r].left /\ t.res = task[r].res
        /\ t.epoch = task[r].epoch
  <2> DEFINE f == [task[r] EXCEPT !.full = TRUE]
             y == [task[r] EXCEPT !.yes = @ \cup {m.from}]
             o == [task[r] EXCEPT !.no = @ \cup {m.from}]
  <2>1. \/ task' = [task EXCEPT ![r].full = TRUE] \/ task' = [task EXCEPT ![r].yes = @ \cup {m.from}]
        \/ task' = [task EXCEPT ![r].no = @ \cup {m.from}]
    BY DEF HandleVote
  <2>2. task' = [task EXCEPT ![r] = f] \/ task' = [task EXCEPT ![r] = y] \/ task' = [task EXCEPT ![r] = o]
    BY <1>1, <2>1
  <2>3. /\ f \in Coordination /\ f.at = task[r].at /\ f.stage = task[r].stage /\ f.left = task[r].left
        /\ f.res = task[r].res /\ f.epoch = task[r].epoch
    BY <1>1 DEF Coordination
  <2>4. /\ y \in Coordination /\ y.at = task[r].at /\ y.stage = task[r].stage /\ y.left = task[r].left
        /\ y.res = task[r].res /\ y.epoch = task[r].epoch
    BY <1>0, <1>1 DEF Coordination
  <2>5. /\ o \in Coordination /\ o.at = task[r].at /\ o.stage = task[r].stage /\ o.left = task[r].left
        /\ o.res = task[r].res /\ o.epoch = task[r].epoch
    BY <1>0, <1>1 DEF Coordination
  <2> HIDE DEF f, y, o
  <2> QED
    BY <2>2, <2>3, <2>4, <2>5
<1>3. task[r] # NoTask
  <2>1. NoTask.held = FALSE
    BY DEF NoTask
  <2> QED
    BY <1>0, <2>1, Zenon
<1>4. task' \in [Request -> Coordination] /\ task'[r] = t /\ \A s \in Request : s # r => task'[s] = task[s]
  BY <1>1, <1>2
<1> QED
  BY <1>0, <1>2, <1>3, <1>4, VotesMove

LEMMA NotifyKeeps ==
  ASSUME CoordInv, NEW r \in Request, Notify(r)
  PROVE  CoordInv'
<1>0. /\ r \in Calls /\ task[r].stage = "notifying" /\ task[r].left # {}
      /\ UNCHANGED <<cluster, view, epoch, global, req, exited, cleanup, granted, written>>
  BY DEF Notify, membership, calls, cleaning, history
<1>1. /\ task[r] \in Coordination /\ task[r].at \in Nodes /\ TaskOK(r) /\ HeldOK(r)
      /\ task \in [Request -> Coordination] /\ epoch \in [Nodes -> Nat] /\ Calls' = Calls
  BY <1>0, RunningIs DEF Calls
<1>2. PICK l \in SUBSET task[r].left : task' = [task EXCEPT ![r].left = l]
  BY DEF Notify
<1> DEFINE t == [task[r] EXCEPT !.left = l]
<1>3. /\ t \in Coordination /\ t.at = task[r].at /\ t.stage = task[r].stage /\ t.left = l /\ t.res = task[r].res
      /\ t.epoch = task[r].epoch
  BY <1>1, <1>2 DEF Coordination
<1>4. task' = [task EXCEPT ![r] = t]
  BY <1>1, <1>2
<1> HIDE DEF t
<1>5. t.at \notin t.left /\ t.res = "" /\ t.epoch <= epoch[t.at] /\ task'[r] = t
  BY <1>0, <1>1, <1>2, <1>3, <1>4 DEF TaskOK
<1>6. HeldOK(r)'
  <2>1. Fenced(r)' <=> Fenced(r)
    BY <1>0, <1>3, <1>5 DEF Fenced
  <2> QED
    BY <1>0, <1>1, <1>3, <1>5, <2>1 DEF HeldOK
\* The member is told by another node, of what was written.
<1>7. PICK ms : net' \subseteq net \cup ms /\ \A m \in ms : MessageOK(m)' /\ ~Asks(m)
  <2>1. CASE net' \subseteq net
    BY <2>1, NoNews
  <2>2. CASE ~(net' \subseteq net)
    <3>1. Min(task[r].left) \in task[r].left /\ task[r].left \subseteq Nodes
      BY <1>0, <1>1, NodesAssumption, MinOfNats DEF Coordination
    <3>2. PICK m : /\ m.type = (IF req[r].kind = "register" THEN "committed" ELSE "removed")
                   /\ m.from = task[r].at /\ m.to = Min(task[r].left) /\ m.r = r /\ net' \subseteq net \cup {m}
      <4> DEFINE e == Message(IF req[r].kind = "register" THEN "committed" ELSE "removed",
                              task[r].at, Min(task[r].left), r)
      <4>1. /\ e.type = (IF req[r].kind = "register" THEN "committed" ELSE "removed")
            /\ e.from = task[r].at /\ e.to = Min(task[r].left) /\ e.r = r
        BY DEF Message
      <4>2. net' \subseteq net \cup {e}
        BY <2>2 DEF Notify, Sent
      <4> QED
        BY <4>1, <4>2
    <3>3. m.from \in Nodes /\ m.to \in Nodes /\ m.from # m.to
      BY <1>1, <3>1, <3>2 DEF TaskOK
    <3>4. m.type = "committed" => <<req[m.r].name, req[m.r].pid>> \in written
      BY <1>0, <1>1, <3>2 DEF HeldOK
    <3>5. MessageOK(m)' /\ ~Asks(m)
      BY <1>0, <1>1, <3>2, <3>3, <3>4 DEF MessageOK, Asks
    <3> DEFINE ms == {m}
    <3>6. net' \subseteq net \cup ms /\ \A k \in ms : MessageOK(k)' /\ ~Asks(k)
      BY <3>2, <3>5
    <3> HIDE DEF ms
    <3> QED
      BY <3>6
  <2> QED
    BY <2>1, <2>2
<1>8. t.stage \notin {"none", "over"} /\ task[r].stage \notin {"none", "over"} /\ task[r].stage \in Active
  BY <1>0, <1>3 DEF Active
<1> QED
  BY <1>0, <1>3, <1>4, <1>5, <1>6, <1>7, <1>8, RunsOn

LEMMA GiveUpKeeps ==
  ASSUME CoordInv, NEW r \in Request, GiveUp(r)
  PROVE  CoordInv'
<1>0. /\ r \in Calls /\ task[r].stage = "voting"
      /\ UNCHANGED <<cluster, view, epoch, global, req, exited, cleanup, granted, written>>
  BY DEF GiveUp, membership, cleaning, history
<1>1. PICK res \in Outcome : Ends(r, res)
  BY DEF GiveUp, Outcome
<1>2. task[r].stage \notin {"none", "over", "notifying"}
  BY <1>0
<1> QED
  BY <1>0, <1>1, <1>2, EndsQuietly

LEMMA FinishUnregisterKeeps ==
  ASSUME CoordInv, NEW r \in Request, FinishUnregister(r)
  PROVE  CoordInv'
<1>0. /\ r \in Calls /\ req[r].kind # "register" /\ task[r].stage = "notifying" /\ Ends(r, "success")
      /\ UNCHANGED <<cluster, view, epoch, global, req, exited, cleanup, granted, written>>
  BY DEF FinishUnregister, membership, cleaning, history
<1>1. task[r].stage \notin {"none", "over"} /\ "success" \in Outcome
  BY <1>0 DEF Outcome
<1> QED
  BY <1>0, <1>1, EndsQuietly

LEMMA CommitKeeps ==
  ASSUME CoordInv, NEW r \in Request, Commit(r)
  PROVE  CoordInv'
<1>0. /\ r \in Calls /\ task[r].stage = "voting"
      /\ UNCHANGED <<cluster, view, epoch, req, exited, cleanup>>
  BY DEF Commit, membership, cleaning
<1>1. CASE \E res \in Outcome : Ends(r, res) /\ UNCHANGED <<global, granted, written>>
  <2>1. PICK res \in Outcome : Ends(r, res)
    BY <1>1
  <2>2. task[r].stage \notin {"none", "over", "notifying"} /\ UNCHANGED <<global, granted, written>>
    BY <1>0, <1>1
  <2> QED
    BY <1>0, <2>1, <2>2, EndsQuietly
<1>2. CASE /\ global' = Owned(r) /\ written' = written \cup {<<req[r].name, req[r].pid>>}
           /\ net' = net /\ granted' = granted
           /\ task' = [task EXCEPT ![r].stage = "notifying", ![r].left = task[r].members \ {task[r].at}]
  <2>1. /\ task[r] \in Coordination /\ Leader(task[r].at) = task[r].at /\ TaskOK(r) /\ HeldOK(r)
        /\ task \in [Request -> Coordination] /\ req[r].pid # NoOwner
        /\ global \in [Nodes -> Replica] /\ granted \in [Nodes -> Replica]
        /\ written \subseteq GlobalName \X GlobalPid /\ epoch \in [Nodes -> Nat]
    BY <1>0, RunningIs
  <2>n. PICK n \in Nodes, x \in GlobalName, p \in GlobalPid : n = task[r].at /\ x = req[r].name /\ p = req[r].pid
    BY <1>0, RunningIs
  <2>2. PICK t \in Coordination :
           /\ task' = [task EXCEPT ![r] = t]
           /\ t.at = n /\ t.stage = "notifying" /\ n \notin t.left /\ t.res = task[r].res /\ t.epoch = task[r].epoch
    <3> DEFINE u == [task[r] EXCEPT !.stage = "notifying", !.left = task[r].members \ {task[r].at}]
    <3>1. /\ u \in Coordination /\ u.at = n /\ u.stage = "notifying" /\ n \notin u.left
          /\ u.res = task[r].res /\ u.epoch = task[r].epoch
      BY <2>1, <2>n DEF Coordination, Active
    <3>2. task' = [task EXCEPT ![r] = u]
      BY <1>2, <2>1
    <3> HIDE DEF u
    <3> QED
      BY <3>1, <3>2
  <2>3. task'[r] = t
    BY <2>1, <2>2
  <2>4. /\ global' \in [Nodes -> Replica] /\ global'[n][x] = p
        /\ \A k \in Nodes, y \in GlobalName : k # n \/ y # x => global'[k][y] = global[k][y]
    <3>1. global' = [global EXCEPT ![n][x] = p]
      BY <1>2, <2>n DEF Owned
    <3>2. global \in [Nodes -> Replica] /\ n \in Nodes /\ x \in GlobalName /\ p \in GlobalPid \cup {NoOwner}
      BY <2>1
    <3> QED
      BY ONLY <3>1, <3>2 DEF Replica
  <2>5. TaskOK(r)'
    BY <1>0, <2>1, <2>n, <2>2, <2>3 DEF TaskOK
  <2>6. req[r].kind = "register" /\ granted[n][x] \in exited \cup {NoOwner}
    BY <1>0, <2>1, <2>n DEF HeldOK, Active
  <2>7. HeldOK(r)'
    BY <1>0, <1>2, <2>n, <2>2, <2>3, <2>4, <2>6 DEF HeldOK, Active
  <2>8. WireOK'
    <3>1. PICK ms : net' \subseteq net \cup ms /\ \A m \in ms : MessageOK(m)' /\ ~Asks(m)
      BY <1>2, NoNews
    <3>2. task[r].stage # "none" /\ written \subseteq written'
      BY <1>0, <1>2
    <3> QED
      BY <1>0, <2>2, <3>1, <3>2, WireOfMove
  <2>9. \E s \in Calls : LeftBy(s, t.at, req[r].name, global[t.at][req[r].name])'
    <3>1. LeftBy(r, t.at, req[r].name, global[t.at][req[r].name])'
      BY <1>0, <2>n, <2>2, <2>3, <2>4, <2>6 DEF LeftBy
    <3> QED
      BY <1>0, <3>1
  <2>10. task[r].stage \in Active /\ t.stage # "none" /\ t.at = task[r].at /\ Leader(t.at) = t.at /\ t.at \in Nodes
    BY <1>0, <2>1, <2>n, <2>2 DEF Active
  <2>11. written \subseteq written' /\ written' \subseteq GlobalName \X GlobalPid /\ <<x, p>> \in written'
    BY <1>2, <2>1, <2>n
  <2>12. /\ \A k \in Nodes, y \in GlobalName :
              k # t.at \/ y # req[r].name => global'[k][y] = global[k][y] /\ granted'[k][y] = granted[k][y]
         /\ global'[t.at][req[r].name] # NoOwner => <<req[r].name, global'[t.at][req[r].name]>> \in written'
         /\ granted'[t.at][req[r].name] \notin exited \cup {NoOwner} =>
              global'[t.at][req[r].name] = granted'[t.at][req[r].name]
         /\ granted' \in [Nodes -> Replica]
    BY <1>2, <2>1, <2>n, <2>2, <2>4, <2>6, <2>11
  <2> QED
    BY <1>0, <2>2, <2>4, <2>5, <2>7, <2>8, <2>9, <2>10, <2>11, <2>12, CallMoves
<1> QED
  BY <1>1, <1>2 DEF Commit, Outcome, history

\* A coordination ends with its name's entry or grant changed.
LEMMA EndsWriting ==
  ASSUME CoordInv, NEW r \in Calls, NEW res \in Outcome, Ends(r, res), task[r].stage \notin {"none", "over"},
         UNCHANGED <<cluster, view, epoch, req, exited, cleanup>>,
         NEW n \in Nodes, NEW x \in GlobalName, n = task[r].at, x = req[r].name,
         task[r].stage \in Active \/ StripeFree(n, x),
         global' \in [Nodes -> Replica], granted' \in [Nodes -> Replica],
         \A k \in Nodes, y \in GlobalName :
           k # n \/ y # x => global'[k][y] = global[k][y] /\ granted'[k][y] = granted[k][y],
         written \subseteq written', written' \subseteq GlobalName \X GlobalPid,
         NEW v, v = global'[n][x],
         v # NoOwner => <<x, v>> \in written',
         granted'[n][x] \notin exited \cup {NoOwner} => v = granted'[n][x],
         \/ v = NoOwner
         \/ req[r].kind = "register" /\ v = req[r].pid /\ res = "success"
         \/ v = global[n][x] /\ v # req[r].pid
  PROVE  CoordInv'
<1>1. WireOK' /\ TaskOK(r)' /\ HeldOK(r)'
  BY EndsIs
<1>2. PICK t \in Coordination :
              /\ task' = [task EXCEPT ![r] = t] /\ t.at = task[r].at /\ t.stage = "over" /\ t.res = res
              /\ t.at \in Nodes /\ Leader(t.at) = t.at
  BY EndsIs
<1>3. task'[r] = t /\ r \in Request /\ Calls \subseteq Request /\ \A s \in Request : s # r => task'[s] = task[s]
  BY <1>2, RunningIs, CallsAre DEF CoordInv
<1>4. ASSUME n = Min(Nodes), v # NoOwner PROVE \E s \in Calls : LeftBy(s, n, x, v)'
  <2>1. CASE req[r].kind = "register" /\ v = req[r].pid /\ res = "success"
    <3>1. LeftBy(r, n, x, v)'
      BY <1>2, <1>3, <2>1 DEF LeftBy
    <3> QED
      BY <3>1
  <2>2. CASE v = global[n][x] /\ v # req[r].pid
    <3>1. PICK s \in Calls : LeftBy(s, n, x, v)
      BY <1>4, <2>2 DEF CoordInv, GrantsSafe, RefusedLeavesNothing
    <3>2. s # r
      BY <2>2, <3>1 DEF LeftBy
    <3>3. LeftBy(s, n, x, v)'
      BY <1>3, <3>1, <3>2 DEF LeftBy
    <3> QED
      BY <3>3
  <2> QED
    BY <1>4, <2>1, <2>2
<1>5. t.at = Min(Nodes) /\ global'[t.at][req[r].name] # NoOwner =>
        \E s \in Calls : LeftBy(s, t.at, req[r].name, global[t.at][req[r].name])'
  <2>1. ASSUME t.at = Min(Nodes), global'[t.at][req[r].name] # NoOwner
        PROVE  \E s \in Calls : LeftBy(s, t.at, req[r].name, global[t.at][req[r].name])'
    <3>1. PICK s \in Calls : LeftBy(s, n, x, v)'
      BY <1>2, <1>4, <2>1
    <3>2. LeftBy(s, t.at, req[r].name, global[t.at][req[r].name])'
      BY <1>2, <3>1 DEF LeftBy
    <3> QED
      BY <3>2
  <2> QED
    BY <2>1
<1>6. /\ \A k \in Nodes, y \in GlobalName :
            k # t.at \/ y # req[r].name => global'[k][y] = global[k][y] /\ granted'[k][y] = granted[k][y]
      /\ global'[t.at][req[r].name] # NoOwner => <<req[r].name, global'[t.at][req[r].name]>> \in written'
      /\ granted'[t.at][req[r].name] \notin exited \cup {NoOwner} =>
            global'[t.at][req[r].name] = granted'[t.at][req[r].name]
      /\ task[r].stage \in Active \/ StripeFree(t.at, req[r].name)
      /\ t.stage # "none" /\ task[r].at = t.at
  BY <1>2
<1> QED
  BY <1>1, <1>2, <1>5, <1>6, CallMoves

LEMMA FinishKeeps ==
  ASSUME CoordInv, NEW r \in Request, Finish(r)
  PROVE  CoordInv'
<1>0. /\ r \in Calls /\ req[r].kind = "register" /\ task[r].stage = "notifying"
      /\ UNCHANGED <<cluster, view, epoch, req, exited, cleanup, written>>
  BY DEF Finish, membership, cleaning, history
<1>1. /\ HeldOK(r) /\ req[r].pid # NoOwner /\ Leader(task[r].at) = task[r].at
      /\ global \in [Nodes -> Replica] /\ granted \in [Nodes -> Replica]
      /\ written \subseteq GlobalName \X GlobalPid
  BY <1>0, RunningIs
<1>2. PICK n \in Nodes, x \in GlobalName, p \in GlobalPid : n = task[r].at /\ x = req[r].name /\ p = req[r].pid
  BY <1>0, RunningIs
<1>3. /\ granted[n][x] \in exited \cup {NoOwner} /\ <<x, p>> \in written
      /\ Fenced(r) \/ p \in exited \/ global[n][x] = p
      /\ task[r].stage \in Active /\ task[r].stage \notin {"none", "over"}
      /\ "success" \in Outcome /\ "refused" \in Outcome
      /\ global[n][x] # NoOwner => <<x, global[n][x]>> \in written
  BY <1>0, <1>1, <1>2 DEF HeldOK, Active, Outcome, CoordInv, GrantsSafe, OnlyCommitted
<1>4. CASE Fenced(r)
  <2>1. Ends(r, "refused") /\ granted' = granted /\ global' = Without(n, x, p)
    BY <1>2, <1>4 DEF Finish, history, Withdrawn
  <2>2. /\ global' \in [Nodes -> Replica] /\ (global'[n][x] = NoOwner \/ (global'[n][x] = global[n][x] /\ global'[n][x] # p))
        /\ \A k \in Nodes, y \in GlobalName : k # n \/ y # x => global'[k][y] = global[k][y]
    <3>1. global \in [Nodes -> Replica] /\ n \in Nodes /\ x \in GlobalName
      BY <1>1
    <3> QED
      BY ONLY <2>1, <3>1 DEF Without, Replica
  <2>3. PICK v : v = global'[n][x]
    OBVIOUS
  <2>4. /\ v # NoOwner => <<x, v>> \in written'
        /\ granted'[n][x] \notin exited \cup {NoOwner} => v = granted'[n][x]
        /\ v = NoOwner \/ (v = global[n][x] /\ v # req[r].pid)
        /\ \A k \in Nodes, y \in GlobalName :
           k # n \/ y # x => global'[k][y] = global[k][y] /\ granted'[k][y] = granted[k][y]
        /\ granted' \in [Nodes -> Replica] /\ written \subseteq written' /\ written' \subseteq GlobalName \X GlobalPid
    BY <1>0, <1>1, <1>2, <1>3, <2>1, <2>2, <2>3
  <2>5. PICK res \in Outcome : res = "refused"
    BY <1>3
  <2>6. Ends(r, res)
    BY <2>1, <2>5
  <2> QED
    BY <1>0, <1>2, <1>3, <2>2, <2>3, <2>4, <2>6, EndsWriting
<1>5. CASE ~Fenced(r)
  <2>1. Ends(r, "success") /\ granted' = [granted EXCEPT ![n][x] = p] /\ global' = global
    BY <1>2, <1>5 DEF Finish
  <2>2. /\ granted' \in [Nodes -> Replica] /\ granted'[n][x] = p
        /\ \A k \in Nodes, y \in GlobalName : k # n \/ y # x => granted'[k][y] = granted[k][y]
    <3>1. granted \in [Nodes -> Replica] /\ n \in Nodes /\ x \in GlobalName /\ p \in GlobalPid
      BY <1>1
    <3> QED
      BY ONLY <2>1, <3>1 DEF Replica
  <2>3. PICK v : v = global'[n][x]
    OBVIOUS
  <2>4. /\ v # NoOwner => <<x, v>> \in written'
        /\ granted'[n][x] \notin exited \cup {NoOwner} => v = granted'[n][x]
        /\ \A k \in Nodes, y \in GlobalName :
           k # n \/ y # x => global'[k][y] = global[k][y] /\ granted'[k][y] = granted[k][y]
        /\ global' \in [Nodes -> Replica] /\ written \subseteq written' /\ written' \subseteq GlobalName \X GlobalPid
    BY <1>0, <1>1, <1>2, <1>3, <1>5, <2>1, <2>2, <2>3
  <2>5. PICK res \in Outcome : res = "success"
    BY <1>3
  <2>6. \/ v = NoOwner
        \/ req[r].kind = "register" /\ v = req[r].pid /\ res = "success"
        \/ v = global[n][x] /\ v # req[r].pid
    BY <1>0, <2>1, <2>3, <2>5
  <2>7. Ends(r, res)
    BY <2>1, <2>5
  <2> QED
    BY <1>0, <1>2, <1>3, <2>2, <2>3, <2>4, <2>6, <2>7, EndsWriting
<1> QED
  BY <1>4, <1>5

LEMMA RegisterAloneKeeps ==
  ASSUME CoordInv, NEW r \in Request, RegisterAlone(r)
  PROVE  CoordInv'
<1>0. /\ r \in Calls /\ req[r].kind = "register" /\ task[r].stage = "queued"
      /\ StripeFree(task[r].at, req[r].name)
      /\ UNCHANGED <<cluster, view, epoch, req, exited, cleanup>>
  BY DEF RegisterAlone, Queued, membership, cleaning
<1>1. CASE \E res \in Outcome : Ends(r, res) /\ UNCHANGED <<global, granted, written>>
  <2>1. PICK res \in Outcome : Ends(r, res)
    BY <1>1
  <2>2. task[r].stage \notin {"none", "over", "notifying"} /\ UNCHANGED <<global, granted, written>>
    BY <1>0, <1>1
  <2> QED
    BY <1>0, <2>1, <2>2, EndsQuietly
<1>2. CASE /\ global' = Owned(r) /\ granted' = [granted EXCEPT ![task[r].at][req[r].name] = req[r].pid]
           /\ written' = written \cup {<<req[r].name, req[r].pid>>} /\ Ends(r, "success")
  <2>1. /\ global \in [Nodes -> Replica] /\ granted \in [Nodes -> Replica]
        /\ written \subseteq GlobalName \X GlobalPid
    BY <1>0, RunningIs
  <2>2. PICK n \in Nodes, x \in GlobalName, p \in GlobalPid : n = task[r].at /\ x = req[r].name /\ p = req[r].pid
    BY <1>0, RunningIs
  <2>3. /\ global' \in [Nodes -> Replica] /\ global'[n][x] = p
        /\ granted' \in [Nodes -> Replica] /\ granted'[n][x] = p
        /\ \A k \in Nodes, y \in GlobalName :
           k # n \/ y # x => global'[k][y] = global[k][y] /\ granted'[k][y] = granted[k][y]
    <3>1. /\ granted \in [Nodes -> Replica] /\ global \in [Nodes -> Replica]
          /\ n \in Nodes /\ x \in GlobalName /\ p \in GlobalPid
          /\ global' = [global EXCEPT ![n][x] = p] /\ granted' = [granted EXCEPT ![n][x] = p]
      BY <1>2, <2>1, <2>2 DEF Owned
    <3> QED
      BY ONLY <3>1 DEF Replica
  <2>4. /\ <<x, p>> \in written' /\ written \subseteq written' /\ written' \subseteq GlobalName \X GlobalPid
        /\ task[r].stage \notin {"none", "over"} /\ "success" \in Outcome /\ StripeFree(n, x)
    BY <1>0, <1>2, <2>1, <2>2 DEF Outcome
  <2>5. PICK v : v = global'[n][x]
    OBVIOUS
  <2>6. PICK res \in Outcome : res = "success"
    BY <2>4
  <2>7. /\ req[r].kind = "register" /\ v = req[r].pid /\ res = "success" /\ Ends(r, res)
        /\ v # NoOwner => <<x, v>> \in written'
        /\ granted'[n][x] \notin exited \cup {NoOwner} => v = granted'[n][x]
    BY <1>0, <1>2, <2>2, <2>3, <2>4, <2>5, <2>6
  <2> QED
    BY <1>0, <2>2, <2>3, <2>4, <2>5, <2>7, EndsWriting
<1>3. "exhausted" \in Outcome /\ "refused" \in Outcome
  BY DEF Outcome
<1>4. \/ /\ global' = Owned(r) /\ granted' = [granted EXCEPT ![task[r].at][req[r].name] = req[r].pid]
         /\ written' = written \cup {<<req[r].name, req[r].pid>>} /\ Ends(r, "success")
      \/ (Ends(r, "exhausted") \/ Ends(r, "refused")) /\ UNCHANGED <<global, granted, written>>
  BY DEF RegisterAlone, history
<1> QED
  BY <1>1, <1>2, <1>3, <1>4

LEMMA UnregisterKeeps ==
  ASSUME CoordInv, NEW r \in Request, Unregister(r)
  PROVE  CoordInv'
<1>0. /\ r \in Calls /\ req[r].kind = "unregister" /\ task[r].stage = "queued"
      /\ StripeFree(task[r].at, req[r].name)
      /\ UNCHANGED <<cluster, view, epoch, req, exited, cleanup, written>>
  BY DEF Unregister, Queued, membership, cleaning
<1>1. CASE Ends(r, "refused") /\ UNCHANGED <<global, granted>>
  <2>0. "refused" \in Outcome
    BY DEF Outcome
  <2>1. PICK res \in Outcome : Ends(r, res)
    BY <1>1, <2>0
  <2>2. task[r].stage \notin {"none", "over", "notifying"} /\ UNCHANGED <<global, granted, written>>
    BY <1>0, <1>1
  <2> QED
    BY <1>0, <2>1, <2>2, EndsQuietly
<1>2. CASE ~(Ends(r, "refused") /\ UNCHANGED <<global, granted>>)
  <2>1. /\ task[r] \in Coordination /\ Leader(task[r].at) = task[r].at /\ TaskOK(r)
        /\ task \in [Request -> Coordination] /\ req[r].pid # NoOwner
        /\ global \in [Nodes -> Replica] /\ granted \in [Nodes -> Replica]
        /\ written \subseteq GlobalName \X GlobalPid /\ epoch \in [Nodes -> Nat]
    BY <1>0, RunningIs
  <2>n. PICK n \in Nodes, x \in GlobalName, p \in GlobalPid : n = task[r].at /\ x = req[r].name /\ p = req[r].pid
    BY <1>0, RunningIs
  <2>a. /\ global[n][x] = p \/ global[n][x] = NoOwner
        /\ global' = [global EXCEPT ![n][x] = NoOwner] /\ net' = net
        /\ granted' = IF granted[n][x] = p THEN [granted EXCEPT ![n][x] = NoOwner] ELSE granted
        /\ task' = [task EXCEPT ![r].stage = "notifying", ![r].left = task[r].members \ {task[r].at}]
    BY <1>2, <2>n DEF Unregister, StillOwner
  <2>2. PICK t \in Coordination :
           /\ task' = [task EXCEPT ![r] = t]
           /\ t.at = n /\ t.stage = "notifying" /\ n \notin t.left /\ t.res = task[r].res /\ t.epoch = task[r].epoch
    <3> DEFINE u == [task[r] EXCEPT !.stage = "notifying", !.left = task[r].members \ {task[r].at}]
    <3>1. /\ u \in Coordination /\ u.at = n /\ u.stage = "notifying" /\ n \notin u.left
          /\ u.res = task[r].res /\ u.epoch = task[r].epoch
      BY <2>1, <2>n DEF Coordination, Active
    <3>2. task' = [task EXCEPT ![r] = u]
      BY <2>a, <2>1
    <3> HIDE DEF u
    <3> QED
      BY <3>1, <3>2
  <2>3. task'[r] = t
    BY <2>1, <2>2
  <2>4. /\ global' \in [Nodes -> Replica] /\ global'[n][x] = NoOwner
        /\ \A k \in Nodes, y \in GlobalName : k # n \/ y # x => global'[k][y] = global[k][y]
    <3>1. global \in [Nodes -> Replica] /\ n \in Nodes /\ x \in GlobalName /\ global' = [global EXCEPT ![n][x] = NoOwner]
      BY <2>1, <2>a
    <3> QED
      BY ONLY <3>1 DEF Replica
  <2>5. /\ granted' \in [Nodes -> Replica] /\ (granted'[n][x] = NoOwner \/ (granted'[n][x] = granted[n][x] /\ granted[n][x] # p))
        /\ \A k \in Nodes, y \in GlobalName : k # n \/ y # x => granted'[k][y] = granted[k][y]
    <3>1. /\ granted \in [Nodes -> Replica] /\ n \in Nodes /\ x \in GlobalName
          /\ granted' = IF granted[n][x] = p THEN [granted EXCEPT ![n][x] = NoOwner] ELSE granted
      BY <2>1, <2>a
    <3> QED
      BY ONLY <3>1 DEF Replica
  <2>6. granted'[n][x] \in exited \cup {NoOwner}
    <3>1. granted[n][x] \notin exited \cup {NoOwner} => global[n][x] = granted[n][x]
      BY <2>1, <2>n DEF CoordInv, GrantsSafe, GrantsKept
    <3> QED
      BY <2>a, <2>5, <3>1
  <2>7. TaskOK(r)'
    <3>1. task[r].epoch <= epoch[n]
      BY <1>0, <2>1, <2>n, Zenon DEF TaskOK
    <3>2. task[r].res = ""
      BY <1>0, <2>1, Zenon DEF TaskOK
    <3>3. t.epoch <= epoch'[n]
      <4>1. epoch' = epoch /\ t.epoch = task[r].epoch
        BY <1>0, <2>2
      <4> QED
        BY ONLY <3>1, <4>1, Zenon
    <3>4. t.at = n /\ n \notin t.left /\ task'[r] = t
      BY <2>2, <2>3
    <3>5. t.res = ""
      BY <2>2, <3>2, Zenon
    <3> QED
      BY <3>3, <3>4, <3>5, Zenon DEF TaskOK
  <2>8. HeldOK(r)'
    BY <1>0, <2>2, <2>3 DEF HeldOK
  <2>9. WireOK'
    <3>1. PICK ms : net' \subseteq net \cup ms /\ \A m \in ms : MessageOK(m)' /\ ~Asks(m)
      BY <2>a, NoNews
    <3>2. task[r].stage # "none" /\ written \subseteq written'
      BY <1>0
    <3> QED
      BY <1>0, <2>2, <3>1, <3>2, WireOfMove
  <2>10. /\ StripeFree(t.at, req[r].name) /\ t.stage # "none" /\ t.at = task[r].at /\ Leader(t.at) = t.at /\ t.at \in Nodes
         /\ written \subseteq written' /\ written' \subseteq GlobalName \X GlobalPid
    BY <1>0, <2>1, <2>n, <2>2
  <2>11. /\ \A k \in Nodes, y \in GlobalName :
              k # t.at \/ y # req[r].name => global'[k][y] = global[k][y] /\ granted'[k][y] = granted[k][y]
         /\ global'[t.at][req[r].name] = NoOwner
         /\ granted'[t.at][req[r].name] \in exited \cup {NoOwner}
    BY <2>n, <2>2, <2>4, <2>5, <2>6
  <2> QED
    BY <1>0, <2>2, <2>4, <2>5, <2>7, <2>8, <2>9, <2>10, <2>11, CallMoves
<1> QED
  BY <1>1, <1>2

-----------------------------------------------------------------------------
(* Names of a cluster: replicas, members and exits. *)

\* A replica that follows another node changes: nothing was granted or is coordinated there.
LEMMA FollowerMoves ==
  ASSUME CoordInv, NEW n \in Nodes, Leader(n) # n,
         UNCHANGED <<cluster, view, epoch, req, task, exited, cleanup, granted, written>>,
         global' \in [Nodes -> Replica],
         \A k \in Nodes : k # n => global'[k] = global[k],
         \A x \in GlobalName : global'[n][x] # NoOwner => <<x, global'[n][x]>> \in written,
         net' \subseteq net
  PROVE  CoordInv'
<1>0. /\ Calls' = Calls /\ Calls \subseteq Request /\ \A k \in Nodes : Leader(k)' = Leader(k)
      /\ Min(Nodes) \in Nodes /\ Min(Nodes) # n
  BY CallsAre, FirstLeads DEF CoordInv, Calls, Leader, Members
<1>1. CoordTypes'
  BY DEF CoordInv, CoordTypes
<1>2. LeadersOK' /\ StripesOK'
  BY <1>0 DEF CoordInv, LeadersOK, StripesOK
<1>3. ASSUME NEW r \in Request PROVE TaskOK(r)'
  <2>1. TaskOK(r) /\ task' = task /\ epoch' = epoch
    BY DEF CoordInv
  <2> QED
    BY ONLY <2>1, Zenon DEF TaskOK
<1>4. ASSUME NEW r \in Calls PROVE HeldOK(r)'
  <2>1. Fenced(r)' <=> Fenced(r)
    BY <1>0 DEF Fenced
  <2>2. task[r].stage \in Active => task[r].at \in Nodes /\ task[r].at # n
    BY RunningIs DEF Active
  <2>3. HeldOK(r) /\ (task[r].stage \in Active => global'[task[r].at] = global[task[r].at])
    BY <2>2, RunningIs
  <2> QED
    BY <1>0, <2>1, <2>3 DEF HeldOK, Active
<1>5. \A r \in Request \ Calls' : task'[r] = NoTask
  BY <1>0 DEF CoordInv
<1>6. OnlyCommitted'
  <2>1. ASSUME NEW k \in Nodes, NEW x \in GlobalName, global'[k][x] # NoOwner
        PROVE  <<x, global'[k][x]>> \in written'
    BY <2>1 DEF CoordInv, GrantsSafe, OnlyCommitted
  <2> QED
    BY <2>1 DEF OnlyCommitted
<1>7. GrantsKept'
  <2>1. ASSUME NEW k \in Nodes, NEW x \in GlobalName, Leader(k) = k, granted'[k][x] \notin exited \cup {NoOwner}
        PROVE  global'[k][x] = granted'[k][x]
    BY <2>1 DEF CoordInv, GrantsSafe, GrantsKept
  <2> QED
    BY <1>0, <2>1 DEF GrantsKept
<1>8. RefusedLeavesNothing'
  <2>1. global'[Min(Nodes)] = global[Min(Nodes)]
    BY <1>0
  <2> QED
    BY <1>0, <2>1 DEF CoordInv, GrantsSafe, RefusedLeavesNothing, LeftBy
<1>9. WireOK'
  <2>1. PICK ms : net' \subseteq net \cup ms /\ \A m \in ms : MessageOK(m)' /\ ~Asks(m)
    BY NoNews
  <2> QED
    BY <2>1, RepliesKeep
<1>10. \A p \in GlobalPid : cleanup'[p] # "none" => p \in exited'
  BY DEF CoordInv
<1> QED
  BY <1>0, <1>1, <1>2, <1>3, <1>4, <1>5, <1>6, <1>7, <1>8, <1>9, <1>10 DEF CoordInv, GrantsSafe

LEMMA HandleCommittedKeeps ==
  ASSUME CoordInv, NEW n \in Nodes, NEW m \in net, HandleCommitted(n, m)
  PROVE  CoordInv'
<1>0. /\ UNCHANGED <<cluster, view, epoch, req, task, exited, cleanup, granted, written>>
      /\ m.type = "committed" /\ m.to = n /\ m.from = Leader(n) /\ net' \subseteq net
      /\ global' = [global EXCEPT ![n][req[m.r].name] = req[m.r].pid]
  BY DEF HandleCommitted, Takes, membership, calls, cleaning, history
<1>1. m.from # m.to /\ m.r \in Calls /\ <<req[m.r].name, req[m.r].pid>> \in written
  BY <1>0 DEF CoordInv, WireOK, MessageOK
<1>2. PICK x \in GlobalName, p \in GlobalPid : x = req[m.r].name /\ p = req[m.r].pid
  BY <1>1, CallsAre DEF CoordInv
<1>3. global \in [Nodes -> Replica] /\ global' = [global EXCEPT ![n][x] = p] /\ n \in Nodes
  BY <1>0, <1>2 DEF CoordInv, CoordTypes
<1>4. /\ global' \in [Nodes -> Replica] /\ global'[n][x] = p
      /\ \A y \in GlobalName : y # x => global'[n][y] = global[n][y]
      /\ \A k \in Nodes : k # n => global'[k] = global[k]
  BY ONLY <1>3, <1>2 DEF Replica
<1>5. ASSUME NEW y \in GlobalName, global'[n][y] # NoOwner PROVE <<y, global'[n][y]>> \in written
  BY <1>1, <1>2, <1>4, <1>5 DEF CoordInv, GrantsSafe, OnlyCommitted
<1>6. Leader(n) # n
  BY <1>0, <1>1
<1> QED
  BY <1>0, <1>4, <1>5, <1>6, FollowerMoves

LEMMA HandleRemovedKeeps ==
  ASSUME CoordInv, NEW n \in Nodes, NEW m \in net, HandleRemoved(n, m)
  PROVE  CoordInv'
<1>0. /\ UNCHANGED <<cluster, view, epoch, req, task, exited, cleanup, granted, written>>
      /\ m.type = "removed" /\ m.to = n /\ m.from = Leader(n) /\ net' \subseteq net
      /\ global' = Without(n, req[m.r].name, req[m.r].pid)
  BY DEF HandleRemoved, Takes, membership, calls, cleaning, history
<1>1. m.from # m.to /\ m.r \in Calls
  BY <1>0 DEF CoordInv, WireOK, MessageOK
<1>2. PICK x \in GlobalName, p \in GlobalPid : x = req[m.r].name /\ p = req[m.r].pid
  BY <1>1, CallsAre DEF CoordInv
<1>3. global \in [Nodes -> Replica] /\ global' = Without(n, x, p) /\ n \in Nodes
  BY <1>0, <1>2 DEF CoordInv, CoordTypes
<1>4. /\ global' \in [Nodes -> Replica]
      /\ \A y \in GlobalName : global'[n][y] = global[n][y] \/ global'[n][y] = NoOwner
      /\ \A k \in Nodes : k # n => global'[k] = global[k]
  BY ONLY <1>3, <1>2 DEF Replica, Without
<1>5. ASSUME NEW y \in GlobalName, global'[n][y] # NoOwner PROVE <<y, global'[n][y]>> \in written
  BY <1>4, <1>5 DEF CoordInv, GrantsSafe, OnlyCommitted
<1>6. Leader(n) # n
  BY <1>0, <1>1
<1> QED
  BY <1>0, <1>4, <1>5, <1>6, FollowerMoves

LEMMA HandleSnapshotKeeps ==
  ASSUME CoordInv, NEW n \in Nodes, NEW m \in net, HandleSnapshot(n, m)
  PROVE  CoordInv'
<1>0. /\ UNCHANGED <<cluster, view, epoch, req, task, exited, cleanup, granted, written>>
      /\ m.type = "snapshot" /\ m.to = n /\ m.from = Leader(n) /\ net' \subseteq net
      /\ global' = [global EXCEPT ![n] = m.entries]
  BY DEF HandleSnapshot, Replaced, Takes, membership, calls, cleaning, history
<1>1. /\ m.from # m.to /\ m.entries \in Replica
      /\ \A x \in GlobalName : m.entries[x] # NoOwner => <<x, m.entries[x]>> \in written
  BY <1>0 DEF CoordInv, WireOK, MessageOK
<1>2. global \in [Nodes -> Replica]
  BY DEF CoordInv, CoordTypes
<1>3. /\ global' \in [Nodes -> Replica] /\ global'[n] = m.entries
      /\ \A k \in Nodes : k # n => global'[k] = global[k]
  BY <1>0, <1>1, <1>2
<1>4. Leader(n) # n
  BY <1>0, <1>1
<1> QED
  BY <1>0, <1>1, <1>3, <1>4, FollowerMoves

\* Entries and grants of n go, and votes; what a coordination has written goes only with
\* a new topology or after the owner's exit.
LEMMA EntriesGo ==
  ASSUME CoordInv, NEW n \in Nodes,
         UNCHANGED <<cluster, view, req, exited, written>>,
         cleanup' \in [GlobalPid -> {"none", "due", "busy"}],
         \A p \in GlobalPid : cleanup'[p] # "none" => p \in exited,
         global' \in [Nodes -> Replica], granted' \in [Nodes -> Replica], epoch' \in [Nodes -> Nat],
         task' \in [Request -> Coordination], net' \subseteq net,
         \A k \in Nodes : k # n => global'[k] = global[k] /\ granted'[k] = granted[k] /\ epoch'[k] = epoch[k],
         \A x \in GlobalName :
           /\ global'[n][x] = global[n][x] \/ global'[n][x] = NoOwner
           /\ granted'[n][x] = granted[n][x] \/ granted'[n][x] = NoOwner,
         \A x \in GlobalName : global'[n][x] # global[n][x] /\ global[n][x] \notin exited =>
           (granted[n][x] = global[n][x] => granted'[n][x] = NoOwner) /\ epoch[n] < epoch'[n],
         epoch'[n] = epoch[n] \/ epoch[n] < epoch'[n],
         \A r \in Request :
           /\ task'[r].at = task[r].at /\ task'[r].stage = task[r].stage /\ task'[r].left = task[r].left
           /\ task'[r].res = task[r].res /\ task'[r].epoch = task[r].epoch
           /\ task[r] = NoTask => task'[r] = NoTask
  PROVE  CoordInv'
<1>0. /\ Calls' = Calls /\ Calls \subseteq Request /\ \A k \in Nodes : Leader(k)' = Leader(k)
      /\ Min(Nodes) \in Nodes
  BY CallsAre, FirstLeads DEF CoordInv, Calls, Leader, Members
<1>e. epoch \in [Nodes -> Nat] /\ task \in [Request -> Coordination] /\ \A r \in Request : task[r].epoch \in Nat
  BY DEF CoordInv, CoordTypes, Coordination
<1>g. \A k \in Nodes, x \in GlobalName :
        /\ global'[k][x] = global[k][x] \/ global'[k][x] = NoOwner
        /\ granted'[k][x] = granted[k][x] \/ granted'[k][x] = NoOwner
  <2>1. ASSUME NEW k \in Nodes, NEW x \in GlobalName
        PROVE  /\ global'[k][x] = global[k][x] \/ global'[k][x] = NoOwner
               /\ granted'[k][x] = granted[k][x] \/ granted'[k][x] = NoOwner
    <3>1. CASE k = n
      <4>1. /\ global'[n][x] = global[n][x] \/ global'[n][x] = NoOwner
            /\ granted'[n][x] = granted[n][x] \/ granted'[n][x] = NoOwner
        BY Zenon
      <4> QED
        BY ONLY <3>1, <4>1
    <3>2. CASE k # n
      <4>1. global'[k] = global[k] /\ granted'[k] = granted[k]
        BY <3>2
      <4> QED
        BY <4>1
    <3> QED
      BY <3>1, <3>2
  <2> QED
    BY <2>1
<1>m. \A k \in Nodes : epoch'[k] \in Nat /\ epoch[k] \in Nat /\ (epoch'[k] = epoch[k] \/ epoch[k] < epoch'[k])
  BY <1>e
<1>1. CoordTypes'
  BY DEF CoordInv, CoordTypes
<1>2. LeadersOK'
  <2>1. \A r \in Request : task'[r].stage # "none" => task'[r].at \in Nodes /\ Leader(task'[r].at) = task'[r].at
    BY DEF CoordInv, LeadersOK
  <2>2. \A k \in Nodes, x \in GlobalName : granted'[k][x] # NoOwner => Leader(k) = k
    BY <1>g DEF CoordInv, LeadersOK
  <2>3. \A k \in Nodes : cluster' \subseteq view'[k]
    BY DEF CoordInv, LeadersOK
  <2> QED
    BY <1>0, <2>1, <2>2, <2>3 DEF LeadersOK
<1>3. StripesOK'
  BY <1>0 DEF CoordInv, StripesOK
<1>4. ASSUME NEW r \in Request PROVE TaskOK(r)'
  <2>1. ASSUME task[r].stage # "none" PROVE task[r].epoch <= epoch'[task[r].at]
    <3>1. task[r].at \in Nodes
      BY <2>1 DEF CoordInv, LeadersOK
    <3>2. task[r].epoch <= epoch[task[r].at]
      BY <2>1, Zenon DEF CoordInv, TaskOK
    <3> QED
      BY <1>e, <1>m, <3>1, <3>2
  <2>2. task[r].at \notin task[r].left /\ (task[r].res # "" => task[r].stage = "over")
    BY Zenon DEF CoordInv, TaskOK
  <2>3. /\ task'[r].at = task[r].at /\ task'[r].stage = task[r].stage /\ task'[r].left = task[r].left
        /\ task'[r].res = task[r].res /\ task'[r].epoch = task[r].epoch
    OBVIOUS
  <2> QED
    BY ONLY <2>1, <2>2, <2>3, Zenon DEF TaskOK
<1>5. ASSUME NEW r \in Calls PROVE HeldOK(r)'
  <2>0. /\ task'[r].at = task[r].at /\ task'[r].stage = task[r].stage /\ task'[r].epoch = task[r].epoch
        /\ HeldOK(r) /\ req[r].name \in GlobalName /\ req[r].pid \in GlobalPid /\ req[r].pid # NoOwner /\ r \in Request
    BY <1>0, RunningIs
  <2>1. ASSUME task[r].stage \in Active
        PROVE  /\ task[r].at \in Nodes /\ task[r].epoch \in Nat /\ task[r].epoch <= epoch[task[r].at]
               /\ epoch[task[r].at] \in Nat /\ epoch'[task[r].at] \in Nat
    <3>1. task[r].at \in Nodes /\ task[r].stage # "none"
      BY <2>1, RunningIs DEF Active
    <3>2. task[r].epoch <= epoch[task[r].at]
      BY <2>0, <3>1, Zenon DEF CoordInv, TaskOK
    <3> QED
      BY <1>e, <1>m, <2>0, <3>1, <3>2
  <2>2. ASSUME task[r].stage \in Active, epoch[task[r].at] < epoch'[task[r].at] PROVE Fenced(r)'
    <3>1. \A a, b, c \in Nat : a <= b /\ b < c => c # a
      OBVIOUS
    <3>2. task[r].epoch # epoch'[task[r].at]
      BY <2>1, <2>2, <3>1
    <3> QED
      BY <2>0, <3>2 DEF Fenced
  <2>3. ASSUME task[r].stage \in Active, Fenced(r) PROVE Fenced(r)'
    <3>1. CASE epoch'[task[r].at] = epoch[task[r].at]
      BY <2>0, <2>3, <3>1 DEF Fenced
    <3>2. CASE epoch[task[r].at] < epoch'[task[r].at]
      BY <2>2, <2>3, <3>2
    <3> QED
      BY <1>m, <2>1, <2>3, <3>1, <3>2
  <2>4. ASSUME req[r].kind = "register", task[r].stage = "notifying"
        PROVE  /\ <<req[r].name, req[r].pid>> \in written'
               /\ Fenced(r)' \/ req[r].pid \in exited' \/ global'[task[r].at][req[r].name] = req[r].pid
    <3>1. task[r].stage \in Active
      BY <2>4 DEF Active
    <3>2. /\ <<req[r].name, req[r].pid>> \in written
          /\ Fenced(r) \/ req[r].pid \in exited \/ global[task[r].at][req[r].name] = req[r].pid
      BY <2>0, <2>4 DEF HeldOK
    <3>3. CASE global[task[r].at][req[r].name] = req[r].pid /\ req[r].pid \notin exited
      <4>1. CASE global'[task[r].at][req[r].name] = global[task[r].at][req[r].name]
        BY <3>2, <3>3, <4>1
      <4>2. CASE global'[task[r].at][req[r].name] # global[task[r].at][req[r].name]
        <5>1. epoch[task[r].at] < epoch'[task[r].at]
          BY <2>0, <2>1, <3>1, <3>3, <4>2
        <5> QED
          BY <2>2, <3>1, <3>2, <5>1
      <4> QED
        BY <4>1, <4>2
    <3> QED
      BY <2>3, <3>1, <3>2, <3>3
  <2>5. ASSUME task[r].stage \in {"begun", "voting"}
        PROVE  req[r].kind = "register" /\ global'[task[r].at][req[r].name] = NoOwner
    <3>1. task[r].stage \in Active
      BY <2>5 DEF Active
    <3> QED
      BY <1>g, <2>0, <2>1, <2>5, <3>1 DEF HeldOK
  <2>6. ASSUME req[r].kind = "register", task[r].stage \in Active
        PROVE  granted'[task[r].at][req[r].name] \in exited \cup {NoOwner}
    BY <1>g, <2>0, <2>1, <2>6 DEF HeldOK
  <2> QED
    BY <2>0, <2>4, <2>5, <2>6 DEF HeldOK
<1>6. \A r \in Request \ Calls' : task'[r] = NoTask
  BY <1>0 DEF CoordInv
<1>7. OnlyCommitted'
  <2>1. ASSUME NEW k \in Nodes, NEW x \in GlobalName, global'[k][x] # NoOwner
        PROVE  <<x, global'[k][x]>> \in written'
    BY <1>g, <2>1 DEF CoordInv, GrantsSafe, OnlyCommitted
  <2> QED
    BY <2>1 DEF OnlyCommitted
<1>8. GrantsKept'
  <2>1. ASSUME NEW k \in Nodes, NEW x \in GlobalName, Leader(k) = k, granted'[k][x] \notin exited \cup {NoOwner}
        PROVE  global'[k][x] = granted'[k][x]
    <3>1. granted'[k][x] = granted[k][x] /\ granted[k][x] = global[k][x]
      BY <1>g, <2>1 DEF CoordInv, GrantsSafe, GrantsKept
    <3>2. CASE k = n
      BY <2>1, <3>1, <3>2
    <3>3. CASE k # n
      BY <3>1, <3>3
    <3> QED
      BY <3>2, <3>3
  <2> QED
    BY <1>0, <2>1 DEF GrantsKept
<1>9. RefusedLeavesNothing'
  <2> DEFINE k == Min(Nodes)
  <2>1. ASSUME NEW x \in GlobalName, global'[k][x] # NoOwner
        PROVE  \E s \in Calls : LeftBy(s, k, x, global[k][x])'
    <3>1. global'[k][x] = global[k][x]
      BY <1>0, <1>g, <2>1
    <3>2. PICK s \in Calls : LeftBy(s, k, x, global[k][x])
      BY <2>1, <3>1 DEF CoordInv, GrantsSafe, RefusedLeavesNothing
    <3>3. task'[s].at = task[s].at /\ task'[s].stage = task[s].stage /\ task'[s].res = task[s].res
      BY <1>0
    <3> QED
      BY <3>1, <3>2, <3>3 DEF LeftBy
  <2> QED
    BY <1>0, <2>1 DEF RefusedLeavesNothing
<1>10. WireOK'
  <2>1. ASSUME NEW m \in net, Asks(m) PROVE task'[m.r] = task[m.r]
    <3>1. m.r \in Request /\ task[m.r] = NoTask
      BY <1>0, <2>1 DEF CoordInv, WireOK, MessageOK, Asks
    <3> QED
      BY <3>1
  <2>2. PICK ms : net' \subseteq net \cup ms /\ \A m \in ms : MessageOK(m)' /\ ~Asks(m)
    BY NoNews
  <2> QED
    BY <1>0, <2>1, <2>2, WireKeeps
<1> QED
  BY <1>0, <1>1, <1>2, <1>3, <1>4, <1>5, <1>6, <1>7, <1>8, <1>9, <1>10 DEF CoordInv, GrantsSafe

LEMMA ExceptIs ==
  ASSUME NEW f \in Replica, NEW ps
  PROVE  /\ Except(f, ps) \in Replica
         /\ \A x \in GlobalName : /\ f[x] \in ps => Except(f, ps)[x] = NoOwner
                                  /\ f[x] \notin ps => Except(f, ps)[x] = f[x]
  BY DEF Except, Replica

LEMMA CleanupEndKeeps ==
  ASSUME CoordInv, NEW p \in GlobalPid, CleanupEnd(p)
  PROVE  CoordInv'
<1>0. /\ UNCHANGED <<cluster, view, epoch, req, task, exited, net, granted, written>>
      /\ cleanup[p] = "busy" /\ cleanup' = [cleanup EXCEPT ![p] = "none"]
      /\ global' = [global EXCEPT ![HomeOf[p]] = Except(global[HomeOf[p]], {p})]
  BY DEF CleanupEnd, membership, calls, history
<1>1. PICK n \in Nodes : n = HomeOf[p]
  BY OwnerAssumption
<1>2. /\ global \in [Nodes -> Replica] /\ granted \in [Nodes -> Replica] /\ epoch \in [Nodes -> Nat]
      /\ task \in [Request -> Coordination] /\ cleanup \in [GlobalPid -> {"none", "due", "busy"}]
      /\ p \in exited /\ \A q \in GlobalPid : cleanup[q] # "none" => q \in exited
  BY <1>0 DEF CoordInv, CoordTypes
<1>3. PICK g \in Replica : g = Except(global[n], {p})
  BY <1>2, ExceptIs
<1>4. \A x \in GlobalName : /\ global[n][x] = p => g[x] = NoOwner
                            /\ global[n][x] # p => g[x] = global[n][x]
  <2>1. PICK f \in Replica : f = global[n]
    BY <1>2
  <2> QED
    BY <1>3, <2>1, ExceptIs
<1>5. global' \in [Nodes -> Replica] /\ global'[n] = g /\ \A k \in Nodes : k # n => global'[k] = global[k]
  BY <1>0, <1>1, <1>2, <1>3
<1>6. /\ cleanup' \in [GlobalPid -> {"none", "due", "busy"}]
      /\ \A q \in GlobalPid : cleanup'[q] # "none" => q \in exited
  BY <1>0, <1>2
<1>7. \A x \in GlobalName :
        /\ global'[n][x] = global[n][x] \/ global'[n][x] = NoOwner
        /\ granted'[n][x] = granted[n][x] \/ granted'[n][x] = NoOwner
  BY <1>0, <1>4, <1>5
<1>8. \A x \in GlobalName : ~(global'[n][x] # global[n][x] /\ global[n][x] \notin exited)
  BY <1>2, <1>4, <1>5
<1>9. epoch'[n] = epoch[n] /\ \A k \in Nodes : k # n => global'[k] = global[k] /\ granted'[k] = granted[k] /\ epoch'[k] = epoch[k]
  BY <1>0, <1>5
<1>10. /\ granted' \in [Nodes -> Replica] /\ epoch' \in [Nodes -> Nat] /\ net' \subseteq net
       /\ task' \in [Request -> Coordination] /\ \A r \in Request : task'[r] = task[r]
  BY <1>0, <1>2
<1> QED
  BY <1>0, <1>5, <1>6, <1>7, <1>8, <1>9, <1>10, EntriesGo

LEMMA ReconcileKeeps ==
  ASSUME CoordInv, NEW n \in Nodes, Reconcile(n)
  PROVE  CoordInv'
<1>0. PICK owners, closed :
        /\ UNCHANGED <<cluster, view, req, exited, cleanup, written>>
        /\ epoch' = [epoch EXCEPT ![n] = epoch[n] + 1]
        /\ global' = [global EXCEPT ![n] = Except(global[n], owners)]
        /\ granted' = [granted EXCEPT ![n] = Except(granted[n], owners)]
        /\ \A r \in closed : r \in Calls /\ task[r].held
        /\ task' = [r \in Request |-> IF r \in closed THEN Drained(task[r]) ELSE task[r]]
        /\ net' \subseteq net
  <2> DEFINE os == {p \in GlobalPid : HomeOf[p] \in topo[n] \ Members(n)}
             cs == {r \in Calls : task[r].at = n /\ task[r].held}
  <2>1. /\ UNCHANGED <<cluster, view, req, exited, cleanup, written>>
        /\ epoch' = [epoch EXCEPT ![n] = epoch[n] + 1]
        /\ global' = [global EXCEPT ![n] = Except(global[n], os)]
        /\ granted' = [granted EXCEPT ![n] = Except(granted[n], os)]
        /\ net' \subseteq net
    BY DEF Reconcile, cleaning
  <2>2. task' = [r \in Request |-> IF r \in cs THEN Drained(task[r]) ELSE task[r]]
    BY DEF Reconcile
  <2>3. \A r \in cs : r \in Calls /\ task[r].held
    BY Zenon
  <2> HIDE DEF os, cs
  <2> QED
    BY <2>1, <2>2, <2>3, Zenon
<1>1. /\ global \in [Nodes -> Replica] /\ granted \in [Nodes -> Replica] /\ epoch \in [Nodes -> Nat]
      /\ task \in [Request -> Coordination] /\ cleanup \in [GlobalPid -> {"none", "due", "busy"}]
      /\ \A q \in GlobalPid : cleanup[q] # "none" => q \in exited
  BY DEF CoordInv, CoordTypes
<1>2. /\ global' \in [Nodes -> Replica] /\ \A k \in Nodes : k # n => global'[k] = global[k]
      /\ \A x \in GlobalName : /\ global[n][x] \in owners => global'[n][x] = NoOwner
                               /\ global[n][x] \notin owners => global'[n][x] = global[n][x]
  <2>1. PICK f \in Replica : f = global[n]
    BY <1>1
  <2>2. PICK g \in Replica : g = Except(f, owners)
    BY ExceptIs
  <2>3. \A x \in GlobalName : (f[x] \in owners => g[x] = NoOwner) /\ (f[x] \notin owners => g[x] = f[x])
    BY <2>2, ExceptIs
  <2>4. global' \in [Nodes -> Replica] /\ global'[n] = g /\ \A k \in Nodes : k # n => global'[k] = global[k]
    BY <1>0, <1>1, <2>1, <2>2
  <2> QED
    BY <2>1, <2>3, <2>4
<1>3. /\ granted' \in [Nodes -> Replica] /\ \A k \in Nodes : k # n => granted'[k] = granted[k]
      /\ \A x \in GlobalName : /\ granted[n][x] \in owners => granted'[n][x] = NoOwner
                               /\ granted[n][x] \notin owners => granted'[n][x] = granted[n][x]
  <2>1. PICK f \in Replica : f = granted[n]
    BY <1>1
  <2>2. PICK g \in Replica : g = Except(f, owners)
    BY ExceptIs
  <2>3. \A x \in GlobalName : (f[x] \in owners => g[x] = NoOwner) /\ (f[x] \notin owners => g[x] = f[x])
    BY <2>2, ExceptIs
  <2>4. granted' \in [Nodes -> Replica] /\ granted'[n] = g /\ \A k \in Nodes : k # n => granted'[k] = granted[k]
    BY <1>0, <1>1, <2>1, <2>2
  <2> QED
    BY <2>1, <2>3, <2>4
<1>4. epoch' \in [Nodes -> Nat] /\ epoch[n] < epoch'[n] /\ \A k \in Nodes : k # n => epoch'[k] = epoch[k]
  BY <1>0, <1>1
<1>5. ASSUME NEW r \in Request
      PROVE  /\ task'[r] \in Coordination
             /\ task'[r].at = task[r].at /\ task'[r].stage = task[r].stage /\ task'[r].left = task[r].left
             /\ task'[r].res = task[r].res /\ task'[r].epoch = task[r].epoch
  <2>1. PICK t \in Coordination : t = task[r]
    BY <1>1
  <2> DEFINE u == Drained(t)
  <2>2. /\ u \in Coordination /\ u.at = t.at /\ u.stage = t.stage /\ u.left = t.left /\ u.res = t.res /\ u.epoch = t.epoch
    BY DEF Coordination, Drained
  <2>3. task'[r] = u \/ task'[r] = t
    BY <1>0, <2>1
  <2> HIDE DEF u
  <2> QED
    BY <2>1, <2>2, <2>3
<1>6. ASSUME NEW r \in Request, task[r] = NoTask PROVE task'[r] = NoTask
  <2>1. r \notin closed
    <3>1. NoTask.held = FALSE
      BY DEF NoTask
    <3> QED
      BY <1>0, <1>6, <3>1, Zenon
  <2> QED
    BY <1>0, <1>6, <2>1
<1>7. task' \in [Request -> Coordination]
  BY <1>0, <1>5
<1>8. \A x \in GlobalName :
        /\ global'[n][x] = global[n][x] \/ global'[n][x] = NoOwner
        /\ granted'[n][x] = granted[n][x] \/ granted'[n][x] = NoOwner
  BY <1>2, <1>3
<1>9. \A x \in GlobalName : global'[n][x] # global[n][x] =>
        (granted[n][x] = global[n][x] => granted'[n][x] = NoOwner)
  BY <1>2, <1>3
<1>10. \A k \in Nodes : k # n => global'[k] = global[k] /\ granted'[k] = granted[k] /\ epoch'[k] = epoch[k]
  BY <1>2, <1>3, <1>4
<1> QED
  BY <1>0, <1>1, <1>2, <1>3, <1>4, <1>5, <1>6, <1>7, <1>8, <1>9, <1>10, EntriesGo

\* Who leads is a matter of the view.
LEMMA LeadsIn ==
  ASSUME NEW v \in SUBSET Nodes, NEW n \in Nodes
  PROVE  Min(v \cup {n}) = n <=> \A k \in v : n <= k
<1>1. v \cup {n} \in SUBSET Nat /\ v \cup {n} # {} /\ n \in Nat
  BY NodesAssumption
<1>2. PICK l \in v \cup {n} : l = Min(v \cup {n}) /\ \A k \in v \cup {n} : l <= k
  BY <1>1, MinOfNats
<1>3. l \in Nat /\ l <= n
  BY <1>1, <1>2
<1>4. ASSUME \A k \in v : n <= k PROVE l = n
  <2>1. n <= l
    BY <1>1, <1>2, <1>4
  <2> QED
    BY <1>1, <1>3, <2>1
<1> QED
  BY <1>2, <1>4

LEMMA RefreshKeeps ==
  ASSUME CoordInv, NEW n \in Nodes, Refresh(n)
  PROVE  CoordInv'
<1>0. /\ view' = [view EXCEPT ![n] = cluster]
      /\ UNCHANGED <<cluster, epoch, global, req, task, exited, cleanup, net, granted, written>>
  BY DEF Refresh, calls, cleaning, history
<1>1. /\ Calls' = Calls /\ view \in [Nodes -> SUBSET Nodes] /\ cluster \in SUBSET Nodes /\ cluster \subseteq view[n]
      /\ \A k \in Nodes : cluster \subseteq view[k]
  BY <1>0 DEF CoordInv, CoordTypes, LeadersOK, Calls
<1>2. view' \in [Nodes -> SUBSET Nodes] /\ view'[n] = cluster /\ \A k \in Nodes : k # n => view'[k] = view[k]
  BY <1>0, <1>1
<1>3. ASSUME NEW k \in Nodes, Leader(k) = k PROVE Leader(k)' = k
  <2>1. \A j \in view[k] : k <= j
    BY <1>1, <1>3, LeadsIn DEF Leader, Members
  <2>2. PICK v \in SUBSET Nodes : v = view'[k]
    BY <1>2
  <2>3. \A j \in v : k <= j
    BY <1>1, <1>2, <2>1, <2>2
  <2>4. Min(v \cup {k}) = k
    BY <2>3, LeadsIn
  <2> QED
    BY <2>2, <2>4 DEF Leader, Members
<1>4. CoordTypes'
  BY <1>0, <1>2 DEF CoordInv, CoordTypes
<1>5. LeadersOK'
  <2>1. \A k \in Nodes : cluster' \subseteq view'[k]
    BY <1>0, <1>1, <1>2
  <2>2. ASSUME NEW r \in Request, task'[r].stage # "none" PROVE task'[r].at \in Nodes /\ Leader(task[r].at)' = task'[r].at
    <3>1. task[r].at \in Nodes /\ Leader(task[r].at) = task[r].at /\ task' = task
      BY <1>0, <2>2 DEF CoordInv, LeadersOK
    <3>2. PICK k \in Nodes : k = task[r].at
      BY <3>1
    <3> QED
      BY <1>3, <3>1, <3>2
  <2>3. ASSUME NEW k \in Nodes, NEW x \in GlobalName, granted'[k][x] # NoOwner PROVE Leader(k)' = k
    BY <1>0, <1>3, <2>3 DEF CoordInv, LeadersOK
  <2> QED
    BY <2>1, <2>2, <2>3 DEF LeadersOK
<1>6. StripesOK' /\ \A r \in Request \ Calls' : task'[r] = NoTask
  BY <1>0, <1>1 DEF CoordInv, StripesOK
<1>7. ASSUME NEW r \in Request PROVE TaskOK(r)'
  <2>1. TaskOK(r) /\ task' = task /\ epoch' = epoch
    BY <1>0 DEF CoordInv
  <2> QED
    BY ONLY <2>1, Zenon DEF TaskOK
<1>8. ASSUME NEW r \in Calls PROVE HeldOK(r)'
  BY <1>0, <1>1 DEF CoordInv, HeldOK, Fenced
<1>9. OnlyCommitted'
  BY <1>0 DEF CoordInv, GrantsSafe, OnlyCommitted
<1>10. GrantsKept'
  <2>1. ASSUME NEW k \in Nodes, NEW x \in GlobalName, granted'[k][x] \notin exited' \cup {NoOwner}
        PROVE  global'[k][x] = granted'[k][x]
    <3>1. Leader(k) = k
      BY <1>0, <2>1 DEF CoordInv, LeadersOK
    <3> QED
      BY <1>0, <2>1, <3>1 DEF CoordInv, GrantsSafe, GrantsKept
  <2> QED
    BY <2>1 DEF GrantsKept
<1>11. RefusedLeavesNothing'
  BY <1>0, <1>1 DEF CoordInv, GrantsSafe, RefusedLeavesNothing, LeftBy
<1>12. WireOK'
  <2>1. PICK ms : net' \subseteq net \cup ms /\ \A m \in ms : MessageOK(m)' /\ ~Asks(m)
    BY <1>0, NoNews
  <2> QED
    BY <1>0, <2>1, RepliesKeep
<1>13. \A p \in GlobalPid : cleanup'[p] # "none" => p \in exited'
  BY <1>0 DEF CoordInv
<1> QED
  BY <1>1, <1>4, <1>5, <1>6, <1>7, <1>8, <1>9, <1>10, <1>11, <1>12, <1>13 DEF CoordInv, GrantsSafe

\* A step of the network alone: messages go, and those that come ask for nothing.
LEMMA Exchange ==
  ASSUME CoordInv, UNCHANGED <<cluster, view, epoch, global, req, task, exited, cleanup, granted, written>>,
         NEW ms, net' \subseteq net \cup ms, \A m \in ms : MessageOK(m)' /\ ~Asks(m)
  PROVE  CoordInv'
<1>1. WireOK'
  BY RepliesKeep
<1>2. /\ exited \subseteq exited' /\ exited' \subseteq GlobalPid /\ cluster' \subseteq cluster
      /\ cleanup' \in [GlobalPid -> {"none", "due", "busy"}]
      /\ \A p \in GlobalPid : cleanup'[p] # "none" => p \in exited'
  BY DEF CoordInv, CoordTypes
<1> QED
  BY <1>1, <1>2, QuietStep

LEMMA LossKeeps ==
  ASSUME CoordInv, UNCHANGED <<cluster, view, epoch, global, req, task, exited, cleanup, granted, written>>,
         net' \subseteq net
  PROVE  CoordInv'
<1>1. PICK ms : net' \subseteq net \cup ms /\ \A m \in ms : MessageOK(m)' /\ ~Asks(m)
  BY NoNews
<1> QED
  BY <1>1, Exchange

LEMMA SendingKeeps ==
  ASSUME CoordInv, UNCHANGED <<cluster, view, epoch, global, req, task, exited, cleanup, granted, written>>,
         NEW m, net' \subseteq net \cup {m}, MessageOK(m)', ~Asks(m)
  PROVE  CoordInv'
<1> DEFINE ms == {m}
<1>1. net' \subseteq net \cup ms /\ \A k \in ms : MessageOK(k)' /\ ~Asks(k)
  OBVIOUS
<1> HIDE DEF ms
<1> QED
  BY <1>1, Exchange

LEMMA SendPrepareKeeps ==
  ASSUME CoordInv, NEW r \in Request, NEW n \in Nodes, SendPrepare(r, n)
  PROVE  CoordInv'
<1>0. /\ UNCHANGED <<cluster, view, epoch, global, req, task, exited, cleanup, granted, written>>
      /\ r \in Calls /\ task[r].stage = "voting"
  BY DEF SendPrepare, membership, calls, cleaning, history
<1>1. PICK m : /\ m.type = "prepare" /\ m.from = task[r].at /\ m.to = n /\ m.r = r /\ net' \subseteq net \cup {m}
  <2> DEFINE e == Message("prepare", task[r].at, n, r)
  <2>1. e.type = "prepare" /\ e.from = task[r].at /\ e.to = n /\ e.r = r
    BY DEF Message
  <2>2. net' \subseteq net \cup {e}
    BY DEF SendPrepare, Sent
  <2> QED
    BY <2>1, <2>2
<1>2. task[r].at \in Nodes /\ Calls' = Calls
  BY <1>0, RunningIs DEF Calls
<1>3. MessageOK(m)' /\ ~Asks(m)
  BY <1>0, <1>1, <1>2 DEF MessageOK, Asks
<1> QED
  BY <1>0, <1>1, <1>3, SendingKeeps

LEMMA HandlePrepareKeeps ==
  ASSUME CoordInv, NEW n \in Nodes, NEW m \in net, HandlePrepare(n, m)
  PROVE  CoordInv'
<1>0. /\ UNCHANGED <<cluster, view, epoch, req, task, exited, cleanup, granted, written>>
      /\ m.type = "prepare"
  BY DEF HandlePrepare, Takes, membership, calls, cleaning, history
<1>1. global' = global
  BY DEF HandlePrepare, OnPrepare
<1>2. m.from \in Nodes /\ m.r \in Calls /\ Calls' = Calls
  BY <1>0 DEF CoordInv, WireOK, MessageOK, Calls
<1>3. PICK v : /\ v.type = "vote" /\ v.from = n /\ v.to = m.from /\ v.r = m.r /\ net' \subseteq net \cup {v}
  <2>1. PICK res : net' = (net \ {m}) \cup Sent({[Message("vote", n, m.from, m.r) EXCEPT !.res = res]})
    BY DEF HandlePrepare
  <2> DEFINE e == [Message("vote", n, m.from, m.r) EXCEPT !.res = res]
  <2>2. e.type = "vote" /\ e.from = n /\ e.to = m.from /\ e.r = m.r
    BY DEF Message
  <2>3. net' \subseteq net \cup {e}
    BY <2>1 DEF Sent
  <2> QED
    BY <2>2, <2>3
<1>4. MessageOK(v)' /\ ~Asks(v)
  BY <1>0, <1>2, <1>3 DEF MessageOK, Asks
<1> QED
  BY <1>0, <1>1, <1>3, <1>4, SendingKeeps

LEMMA SynchronizeKeeps ==
  ASSUME CoordInv, NEW n \in Nodes, Synchronize(n)
  PROVE  CoordInv'
<1>0. /\ UNCHANGED <<cluster, view, epoch, global, req, task, exited, cleanup, granted, written>>
      /\ Leader(n) # n
  BY DEF Synchronize, membership, calls, cleaning, history
<1>1. PICK m : /\ m.type = "sync" /\ m.from = n /\ m.to = Leader(n) /\ net' \subseteq net \cup {m}
  <2> DEFINE e == SyncMessage("sync", n, Leader(n), <<>>)
  <2>1. e.type = "sync" /\ e.from = n /\ e.to = Leader(n)
    BY DEF SyncMessage
  <2>2. net' \subseteq net \cup {e}
    BY DEF Synchronize, Sent
  <2> QED
    BY <2>1, <2>2
<1>2. Leader(n) \in Nodes
  BY LeaderIs DEF CoordInv
<1>3. MessageOK(m)' /\ ~Asks(m)
  BY <1>0, <1>1, <1>2 DEF MessageOK, Asks
<1> QED
  BY <1>0, <1>1, <1>3, SendingKeeps

\* The coordinator's own replica is what a snapshot brings.
LEMMA HandleSyncKeeps ==
  ASSUME CoordInv, NEW n \in Nodes, NEW m \in net, HandleSync(n, m)
  PROVE  CoordInv'
<1>0. /\ UNCHANGED <<cluster, view, epoch, global, req, task, exited, cleanup, granted, written>>
      /\ m.type = "sync" /\ m.to = n
  BY DEF HandleSync, Takes, membership, calls, cleaning, history
<1>1. m.from \in Nodes /\ m.from # n
  BY <1>0 DEF CoordInv, WireOK, MessageOK
<1>2. PICK a : /\ a.type = "snapshot" /\ a.from = n /\ a.to = m.from /\ a.entries = global[n]
               /\ net' \subseteq net \cup {a}
  <2> DEFINE e == SyncMessage("snapshot", n, m.from, global[n])
  <2>1. e.type = "snapshot" /\ e.from = n /\ e.to = m.from /\ e.entries = global[n]
    BY DEF SyncMessage
  <2>2. net' \subseteq net \cup {e}
    BY DEF HandleSync, Sent
  <2> QED
    BY <2>1, <2>2
<1>3. /\ a.entries \in Replica
      /\ \A x \in GlobalName : a.entries[x] # NoOwner => <<x, a.entries[x]>> \in written
  BY <1>2 DEF CoordInv, CoordTypes, GrantsSafe, OnlyCommitted
<1>4. MessageOK(a)' /\ ~Asks(a)
  BY <1>0, <1>1, <1>2, <1>3 DEF MessageOK, Asks
<1> QED
  BY <1>0, <1>2, <1>4, SendingKeeps

\* Members and cleanup attempts come and go without touching a name.
LEMMA CleanupMoves ==
  ASSUME CoordInv, UNCHANGED <<view, epoch, global, req, task, net, granted, written>>,
         exited \subseteq exited', exited' \subseteq GlobalPid, cluster' \subseteq cluster,
         cleanup' \in [GlobalPid -> {"none", "due", "busy"}],
         \A p \in GlobalPid : cleanup'[p] # "none" => p \in exited'
  PROVE  CoordInv'
<1>1. WireOK'
  <2>1. PICK ms : net' \subseteq net \cup ms /\ \A m \in ms : MessageOK(m)' /\ ~Asks(m)
    BY NoNews
  <2> QED
    BY <2>1, RepliesKeep
<1> QED
  BY <1>1, QuietStep

LEMMA ExitKeeps ==
  ASSUME CoordInv, NEW p \in GlobalPid,
         Exit(p) \/ CleanupStart(p) \/ (CleanupAnswer(p) /\ p \in exited)
  PROVE  CoordInv'
<1>0. /\ UNCHANGED <<view, epoch, global, req, task, net, granted, written, cluster>>
      /\ \/ exited' = exited \cup {p}
         \/ exited' = exited /\ (cleanup[p] # "none" \/ p \in exited)
      /\ \E c \in {"none", "due", "busy"} : cleanup' = [cleanup EXCEPT ![p] = c] \/ cleanup' = cleanup
  <2>1. CASE Exit(p)
    BY <2>1 DEF Exit, membership, calls, history
  <2>2. CASE CleanupStart(p)
    BY <2>2 DEF CleanupStart, membership, calls, history
  <2>3. CASE CleanupAnswer(p) /\ p \in exited
    <3>1. UNCHANGED <<membership, global, calls, task, sync, net, history>>
      BY <2>3, Zenon DEF CleanupAnswer
    <3>2. UNCHANGED <<exited, cleanup>> \/ Stopped(p)
      BY <2>3, Zenon DEF CleanupAnswer
    <3> QED
      BY <2>3, <3>1, <3>2 DEF Stopped, membership, calls, history
  <2> QED
    BY <2>1, <2>2, <2>3
<1>1. /\ cleanup \in [GlobalPid -> {"none", "due", "busy"}] /\ exited \subseteq GlobalPid
      /\ \A q \in GlobalPid : cleanup[q] # "none" => q \in exited
  BY DEF CoordInv, CoordTypes
<1>2. exited \subseteq exited' /\ exited' \subseteq GlobalPid /\ p \in exited' /\ cluster' \subseteq cluster
  BY <1>0, <1>1
<1>3. /\ cleanup' \in [GlobalPid -> {"none", "due", "busy"}]
      /\ \A q \in GlobalPid : cleanup'[q] # "none" => q \in exited'
  BY <1>0, <1>1, <1>2
<1> QED
  BY <1>0, <1>2, <1>3, CleanupMoves

\* The calls of users and of cleanups.
LEMMA CallerKeeps ==
  ASSUME CoordInv, NEW p \in GlobalPid, NEW x \in GlobalName, RegisterGlobal(p, x) \/ CleanupCall(p, x)
  PROVE  CoordInv'
<1>1. CASE RegisterGlobal(p, x)
  <2>1. Issue("register", x, p, FALSE) /\ UNCHANGED <<exited, cleanup>>
    BY <1>1 DEF RegisterGlobal, cleaning
  <2> QED
    BY <2>1, IssueKeeps
<1>2. CASE CleanupCall(p, x)
  <2>1. CASE Issue("unregister", x, p, TRUE) /\ UNCHANGED <<exited, cleanup>>
    BY <2>1, IssueKeeps
  <2>2. CASE /\ UNCHANGED <<view, epoch, global, req, task, net, granted, written, cluster, exited>>
             /\ cleanup' = [cleanup EXCEPT ![p] = "due"]
    <3>1. /\ cleanup \in [GlobalPid -> {"none", "due", "busy"}] /\ exited \subseteq GlobalPid
          /\ \A q \in GlobalPid : cleanup[q] # "none" => q \in exited
          /\ cleanup[p] = "busy"
      BY <1>2 DEF CoordInv, CoordTypes, CleanupCall
    <3>2. /\ cleanup' \in [GlobalPid -> {"none", "due", "busy"}]
          /\ \A q \in GlobalPid : cleanup'[q] # "none" => q \in exited'
          /\ exited \subseteq exited' /\ exited' \subseteq GlobalPid /\ cluster' \subseteq cluster
      BY <2>2, <3>1
    <3> QED
      BY <2>2, <3>2, CleanupMoves
  <2> QED
    BY <1>2, <2>1, <2>2 DEF CleanupCall, Stopped, membership, calls, history
<1> QED
  BY <1>1, <1>2

LEMMA RemoveNameKeeps ==
  ASSUME CoordInv, NEW n \in Nodes, NEW x \in GlobalName, RemoveName(n, x)
  PROVE  CoordInv'
<1>1. PICK p : p = global[n][x]
  OBVIOUS
<1>2. p # NoOwner /\ Issue("unregister", x, p, FALSE) /\ UNCHANGED <<exited, cleanup>>
  BY <1>1 DEF RemoveName, cleaning
<1>3. p \in GlobalPid
  BY <1>1, <1>2 DEF CoordInv, CoordTypes, Replica
<1> QED
  BY <1>2, <1>3, IssueKeeps

LEMMA HandleKeeps ==
  ASSUME CoordInv, NEW n \in Nodes, Handle(n)
  PROVE  CoordInv'
<1>1. PICK m \in net :
     \/ HandleDecision(n, m) \/ HandleRequest(n, m) \/ HandlePrepare(n, m)
     \/ HandleVote(n, m) \/ HandleUnregister(n, m) \/ HandleCommitted(n, m)
     \/ HandleRemoved(n, m) \/ HandleSync(n, m) \/ HandleSnapshot(n, m)
  BY DEF Handle
<1>2. CASE HandleDecision(n, m)
  <2>1. /\ UNCHANGED <<cluster, view, epoch, global, req, task, exited, cleanup, granted, written>>
        /\ net' \subseteq net
    BY <1>2 DEF HandleDecision, membership, cleaning, history
  <2> QED
    BY <2>1, LossKeeps
<1> QED
  BY <1>1, <1>2, HandleRequestKeeps, HandlePrepareKeeps, HandleVoteKeeps, HandleUnregisterKeeps,
     HandleCommittedKeeps, HandleRemovedKeeps, HandleSyncKeeps, HandleSnapshotKeeps

LEMMA GrantsStep ==
  ASSUME GrantsInv, [CoordNext]_coordVars
  PROVE  CoordInv'
<1>0. CoordInv /\ JobsOK
  BY DEF GrantsInv
<1>1. ASSUME NEW p \in GlobalPid, NEW x \in GlobalName, RegisterGlobal(p, x) \/ CleanupCall(p, x) PROVE CoordInv'
  BY <1>0, <1>1, CallerKeeps
<1>2. ASSUME NEW n \in Nodes, NEW x \in GlobalName, RemoveName(n, x) PROVE CoordInv'
  BY <1>0, <1>2, RemoveNameKeeps
<1>3. ASSUME NEW r \in Request, GiveUpWaiting(r) PROVE CoordInv'
  <2>1. /\ UNCHANGED <<cluster, view, epoch, global, req, task, exited, cleanup, granted, written>>
        /\ net' \subseteq net
    BY <1>3 DEF GiveUpWaiting, membership, cleaning, history
  <2> QED
    BY <1>0, <2>1, LossKeeps
<1>4. ASSUME NEW r \in Request, Cancel(r) PROVE CoordInv'
  BY <1>0, <1>4, CancelKeeps
<1>5. ASSUME NEW r \in Request, CoordStep(r) PROVE CoordInv'
  BY <1>0, <1>5, BeginKeeps, OpenKeeps, CommitKeeps, GiveUpKeeps, NotifyKeeps, FinishKeeps,
     RegisterAloneKeeps, UnregisterKeeps, FinishUnregisterKeeps DEF CoordStep
<1>6. ASSUME NEW r \in Request, NEW n \in Nodes, SendPrepare(r, n) PROVE CoordInv'
  BY <1>0, <1>6, SendPrepareKeeps
<1>7. ASSUME NEW n \in Nodes, Handle(n) \/ Synchronize(n) PROVE CoordInv'
  BY <1>0, <1>7, HandleKeeps, SynchronizeKeeps
<1>8. ASSUME NEW n \in Nodes, SyncTimeout(n) PROVE CoordInv'
  <2>1. /\ UNCHANGED <<cluster, view, epoch, global, req, task, exited, cleanup, granted, written>>
        /\ net' \subseteq net
    BY <1>8 DEF SyncTimeout, membership, calls, cleaning, history
  <2> QED
    BY <1>0, <2>1, LossKeeps
<1>9. ASSUME NEW p \in GlobalPid, Exit(p) \/ CleanupStart(p) PROVE CoordInv'
  BY <1>0, <1>9, ExitKeeps
<1>10. ASSUME NEW p \in GlobalPid, CleanupAnswer(p) PROVE CoordInv'
  <2>1. p \in exited
    BY <1>0, <1>10, Zenon DEF CleanupAnswer, JobsOK
  <2> QED
    BY <1>0, <1>10, <2>1, ExitKeeps
<1>11. ASSUME NEW p \in GlobalPid, CleanupEnd(p) PROVE CoordInv'
  BY <1>0, <1>11, CleanupEndKeeps
<1>12. ASSUME NEW n \in Nodes, RemoveNode(n) PROVE CoordInv'
  <2>1. /\ UNCHANGED <<view, epoch, global, req, task, net, granted, written, exited, cleanup>>
        /\ cluster' \subseteq cluster
    BY <1>12 DEF RemoveNode, calls, cleaning, history
  <2>2. /\ cleanup \in [GlobalPid -> {"none", "due", "busy"}] /\ exited \subseteq GlobalPid
        /\ \A q \in GlobalPid : cleanup[q] # "none" => q \in exited
    BY <1>0 DEF CoordInv, CoordTypes
  <2> QED
    BY <1>0, <2>1, <2>2, CleanupMoves
<1>13. ASSUME NEW n \in Nodes, Refresh(n) \/ Reconcile(n) PROVE CoordInv'
  BY <1>0, <1>13, RefreshKeeps, ReconcileKeeps
<1>14. CASE UNCHANGED coordVars
  <2>1. /\ UNCHANGED <<cluster, view, epoch, global, req, task, exited, cleanup, granted, written>>
        /\ net' \subseteq net
    BY <1>14 DEF coordVars, membership, calls, cleaning, history
  <2> QED
    BY <1>0, <2>1, LossKeeps
<1> QED
  BY <1>1, <1>2, <1>3, <1>4, <1>5, <1>6, <1>7, <1>8, <1>9, <1>10, <1>11, <1>12, <1>13, <1>14 DEF CoordNext

LEMMA JobsStep ==
  ASSUME GrantsInv, CoordInv', [CoordNext]_coordVars
  PROVE  JobsOK'
<1>0. job \in [GlobalPid -> Nat] /\ (\A p \in GlobalPid : job[p] # 0 => p \in exited) /\ Len(req') \in Nat
  BY DEF GrantsInv, JobsOK, CoordInv, CoordTypes
<1>1. CASE job' = job /\ exited \subseteq exited'
  BY <1>0, <1>1 DEF JobsOK
<1>2. CASE \E p \in GlobalPid, j \in Nat : job' = [job EXCEPT ![p] = j] /\ exited' = exited /\ (j # 0 => p \in exited)
  BY <1>0, <1>2 DEF JobsOK
<1>3. ASSUME NEW p \in GlobalPid, NEW x \in GlobalName, CleanupCall(p, x) PROVE JobsOK'
  <2>1. p \in exited
    BY <1>3 DEF CleanupCall, GrantsInv, CoordInv
  <2>2. (job' = [job EXCEPT ![p] = Len(req')] /\ exited' = exited) \/ (job' = job /\ exited' = exited)
    BY <1>3 DEF CleanupCall, Stopped
  <2> QED
    BY <1>0, <1>1, <1>2, <2>1, <2>2
<1>4. ASSUME NEW p \in GlobalPid, CleanupAnswer(p) PROVE JobsOK'
  <2>1. job' = [job EXCEPT ![p] = 0]
    BY <1>4, Zenon DEF CleanupAnswer
  <2>2. UNCHANGED <<exited, cleanup>> \/ Stopped(p)
    BY <1>4, Zenon DEF CleanupAnswer
  <2>3. exited' = exited
    BY <2>2 DEF Stopped
  <2> QED
    BY <1>2, <2>1, <2>3
<1>5. ASSUME NEW p \in GlobalPid, Exit(p) \/ CleanupStart(p) \/ CleanupEnd(p) PROVE JobsOK'
  BY <1>1, <1>5 DEF Exit, CleanupStart, CleanupEnd
<1>6. CASE UNCHANGED cleaning
  BY <1>1, <1>6 DEF cleaning
<1>7. ASSUME NEW p \in GlobalPid, NEW x \in GlobalName, RegisterGlobal(p, x) PROVE UNCHANGED cleaning
  BY <1>7 DEF RegisterGlobal
<1>8. ASSUME NEW n \in Nodes, NEW x \in GlobalName, RemoveName(n, x) PROVE UNCHANGED cleaning
  BY <1>8 DEF RemoveName
<1>9. ASSUME NEW r \in Request, GiveUpWaiting(r) \/ Cancel(r) PROVE UNCHANGED cleaning
  BY <1>9, Zenon DEF GiveUpWaiting, Cancel
<1>10. ASSUME NEW r \in Request, CoordStep(r) PROVE UNCHANGED cleaning
  <2>1. Begin(r) => UNCHANGED cleaning
    BY Zenon DEF Begin
  <2>2. Open(r) => UNCHANGED cleaning
    BY Zenon DEF Open
  <2>3. Commit(r) => UNCHANGED cleaning
    BY Zenon DEF Commit
  <2>4. GiveUp(r) => UNCHANGED cleaning
    BY Zenon DEF GiveUp
  <2>5. Notify(r) => UNCHANGED cleaning
    BY Zenon DEF Notify
  <2>6. Finish(r) => UNCHANGED cleaning
    BY Zenon DEF Finish
  <2>7. RegisterAlone(r) => UNCHANGED cleaning
    BY Zenon DEF RegisterAlone
  <2>8. Unregister(r) \/ FinishUnregister(r) => UNCHANGED cleaning
    BY Zenon DEF Unregister, FinishUnregister
  <2> QED
    BY <1>10, <2>1, <2>2, <2>3, <2>4, <2>5, <2>6, <2>7, <2>8, Zenon DEF CoordStep
<1>11. ASSUME NEW r \in Request, NEW n \in Nodes, SendPrepare(r, n) PROVE UNCHANGED cleaning
  BY <1>11 DEF SendPrepare
<1>12. ASSUME NEW n \in Nodes, Handle(n) PROVE UNCHANGED cleaning
  BY <1>12, Zenon DEF Handle, HandleDecision, HandleRequest, HandlePrepare, HandleVote, HandleUnregister,
     HandleCommitted, HandleRemoved, HandleSync, HandleSnapshot
<1>13. ASSUME NEW n \in Nodes, Synchronize(n) \/ SyncTimeout(n) PROVE UNCHANGED cleaning
  BY <1>13, Zenon DEF Synchronize, SyncTimeout
<1>14. ASSUME NEW n \in Nodes, RemoveNode(n) \/ Refresh(n) \/ Reconcile(n) PROVE UNCHANGED cleaning
  BY <1>14, Zenon DEF RemoveNode, Refresh, Reconcile
<1>15. CASE UNCHANGED coordVars
  BY <1>6, <1>15 DEF coordVars
<1> QED
  BY <1>3, <1>4, <1>5, <1>6, <1>7, <1>8, <1>9, <1>10, <1>11, <1>12, <1>13, <1>14, <1>15 DEF CoordNext

LEMMA GrantsInit ==
  ASSUME CoordInit
  PROVE  GrantsInv
<1>0. /\ cluster = Nodes /\ view = [n \in Nodes |-> Nodes] /\ epoch = [n \in Nodes |-> 0]
      /\ global = [n \in Nodes |-> [x \in GlobalName |-> NoOwner]] /\ granted = global
      /\ req = <<>> /\ exited = {} /\ net = {} /\ written = {}
      /\ cleanup = [p \in GlobalPid |-> "none"] /\ job = [p \in GlobalPid |-> 0]
  BY Zenon DEF CoordInit
<1>t. task = [r \in Request |-> NoTask]
  BY Zenon DEF CoordInit
<1>1. Calls = {}
  BY <1>0 DEF Calls
<1>2. CoordTypes
  <2>1. global \in [Nodes -> Replica]
    BY <1>0 DEF Replica
  <2>2. task \in [Request -> Coordination]
    BY <1>t, CoordinationIs, Zenon
  <2>3. Len(req) <= MaxRequests /\ view \in [Nodes -> SUBSET Nodes] /\ epoch \in [Nodes -> Nat]
    BY <1>0, RequestsAssumption
  <2>4. /\ req \in Seq([kind : {"register", "unregister"}, name : GlobalName, pid : GlobalPid, cleanup : BOOLEAN])
        /\ exited \subseteq GlobalPid /\ cleanup \in [GlobalPid -> {"none", "due", "busy"}]
        /\ written \subseteq GlobalName \X GlobalPid /\ cluster \subseteq Nodes
    BY <1>0
  <2> QED
    BY <1>0, <2>1, <2>2, <2>3, <2>4 DEF CoordTypes
<1>3. \A n \in Nodes, x \in GlobalName : global[n][x] = NoOwner /\ granted[n][x] = NoOwner
  BY <1>0
<1>4. /\ \A r \in Request : task[r] = NoTask
      /\ \A r \in Request : task[r].stage = "none" /\ task[r].res = "" /\ task[r].left = {}
  <2>1. \A r \in Request : task[r] = NoTask
    BY <1>t, Zenon
  <2> QED
    BY <2>1, CoordinationIs, Zenon
<1>5. LeadersOK
  <2>1. \A r \in Request : task[r].stage = "none"
    BY <1>4, Zenon
  <2>2. \A n \in Nodes : cluster \subseteq view[n]
    BY <1>0
  <2> QED
    BY <1>3, <2>1, <2>2, Zenon DEF LeadersOK
<1>6. \A r \in Request : TaskOK(r)
  BY <1>4, Zenon DEF TaskOK
<1>7. StripesOK /\ WireOK
  BY <1>0, <1>1 DEF StripesOK, WireOK
<1>8. GrantsSafe
  BY <1>3, <1>2, FirstLeads DEF GrantsSafe, OnlyCommitted, GrantsKept, RefusedLeavesNothing
<1>9. JobsOK /\ \A p \in GlobalPid : cleanup[p] # "none" => p \in exited
  BY <1>0 DEF JobsOK
<1>10. (\A r \in Calls : HeldOK(r)) /\ \A r \in Request \ Calls : task[r] = NoTask
  BY <1>1, <1>4, Zenon
<1> QED
  BY <1>2, <1>5, <1>6, <1>7, <1>8, <1>9, <1>10, Zenon DEF GrantsInv, CoordInv

\* No replica shows a name before a coordinator committed it, a grant to a live process
\* is kept by a node that coordinates until it is withdrawn, and a refused registration
\* leaves nothing at the coordinator (RegistryCoordinator), however calls, votes, lost or
\* late messages, snapshots, member changes, exits and cleanups interleave.
THEOREM GrantsAreSafe == CoordSpec => []GrantsSafe
<1>1. CoordInit => GrantsInv
  BY GrantsInit
<1>2. GrantsInv /\ [CoordNext]_coordVars => GrantsInv'
  BY GrantsStep, JobsStep DEF GrantsInv
<1>3. GrantsInv => GrantsSafe
  BY DEF GrantsInv, CoordInv
<1> QED
  BY <1>1, <1>2, <1>3, PTL DEF CoordSpec

=============================================================================
