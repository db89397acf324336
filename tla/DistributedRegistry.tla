------------------------- MODULE DistributedRegistry -------------------------
(***************************************************************************)
(* One node's name registry (DistributedRegistry in                        *)
(* crates/lunatic-distributed/src/distributed/registry.rs): a local and a  *)
(* global namespace, an index from a process to its names, and the         *)
(* resources the names take, all behind one RwLock, so every operation is  *)
(* one step.                                                               *)
(*                                                                         *)
(* Timestamps, audit events and the check of a name's characters are left  *)
(* out: Name holds valid names only.                                       *)
(***************************************************************************)
EXTENDS Integers, FiniteSets, Amounts

CONSTANTS Name, Pid, NoPid,
          Node,             \* node ids
          NodeOf,           \* NodeOf[p]: the node of a GlobalProcessId
          Size,             \* Size[n]: UTF-8 bytes of a name
          MaxEntries,       \* RegistryLimits::max_entries
          MaxBytes          \* RegistryLimits::max_retained_bytes

ASSUME NameAssumption == IsFiniteSet(Name)
ASSUME PidAssumption == NoPid \notin Pid /\ NodeOf \in [Pid -> Node]
ASSUME LimitAssumption ==
  MaxEntries \in Nat /\ MaxBytes \in Nat /\ Size \in [Name -> Nat]

Local == "local"
Global == "global"
Key == {Local, Global} \X Name        \* ScopedProcessName

VARIABLES
  owner,     \* owner[k]: the forward maps `local` and `global`
  reverse,   \* reverse[p]: the keys the index lists for p
  entries,   \* usage.entries
  bytes      \* usage.retained_bytes

vars == <<owner, reverse, entries, bytes>>

Init ==
  /\ owner = [k \in Key |-> NoPid]
  /\ reverse = [p \in Pid |-> {}]
  /\ entries = 0 /\ bytes = 0

Registered == {k \in Key : owner[k] # NoPid}
OfScope(s) == {k \in Key : k[1] = s}

\* retained_bytes_for_name: a name is kept in a forward and in the reverse map.
Retained(K) == 2 * Total([k \in K |-> Size[k[2]]])

\* usage_after_add.
HasRoom(k) == entries + 1 <= MaxEntries /\ bytes + Retained({k}) <= MaxBytes

\* add_reverse_mapping, and an entry's charge.
Insert(k, p) ==
  /\ owner' = [owner EXCEPT ![k] = p]
  /\ reverse' = [reverse EXCEPT ![p] = @ \cup {k}]
  /\ entries' = entries + 1
  /\ bytes' = bytes + Retained({k})

ReleaseEntriesOnly(K) == entries' = entries - Cardinality(K) /\ UNCHANGED bytes
\* What the removed entries were charged.
Release(K) == entries' = entries - Cardinality(K) /\ bytes' = bytes - Retained(K)

\* remove_scoped_registration for each key of K, all of which are registered.
RemoveKeys(K) ==
  /\ owner' = [k \in Key |-> IF k \in K THEN NoPid ELSE owner[k]]
  /\ reverse' = [p \in Pid |-> reverse[p] \ {k \in K : owner[k] = p}]
  /\ Release(K)

-----------------------------------------------------------------------------

\* register_local and register_global: an error leaves everything as it was.
register_local(n, p) ==
  owner[<<Local, n>>] = NoPid /\ HasRoom(<<Local, n>>) /\ Insert(<<Local, n>>, p)
register_global(n, p) ==
  owner[<<Global, n>>] = NoPid /\ HasRoom(<<Global, n>>) /\ Insert(<<Global, n>>, p)

KeepMapping(k, p) == [reverse EXCEPT ![p] = @ \cup {k}]
\* apply_global moves the index entry from the old owner to the new one.
MoveMapping(k, p) ==
  [q \in Pid |-> IF q = p THEN reverse[q] \cup {k}
                 ELSE IF q = owner[k] THEN reverse[q] \ {k} ELSE reverse[q]]

\* A replaced name keeps its charge.
ChargeKept == UNCHANGED <<entries, bytes>>

apply_global(n, p) ==
  LET k == <<Global, n>> IN
  \/ owner[k] = NoPid /\ HasRoom(k) /\ Insert(k, p)
  \/ /\ owner[k] # NoPid
     /\ owner' = [owner EXCEPT ![k] = p]
     /\ reverse' = MoveMapping(k, p)
     /\ ChargeKept

remove_global_if_owner(n, p) == owner[<<Global, n>>] = p /\ RemoveKeys({<<Global, n>>})

unregister(n) ==
  LET K == {k \in Registered : k[2] = n} IN K # {} /\ RemoveKeys(K)

\* unregister_process finds p's names through the index, then drops p from it.
unregister_process(p) ==
  LET K == {k \in reverse[p] : owner[k] = p} IN
  /\ owner' = [k \in Key |-> IF k \in K THEN NoPid ELSE owner[k]]
  /\ reverse' = [reverse EXCEPT ![p] = {}]
  /\ Release(K)

remove_local_registrations(p) ==
  RemoveKeys({k \in reverse[p] : k[1] = Local /\ owner[k] = p})

remove_node_registrations(node) ==
  RemoveKeys({k \in Registered : k[1] = Global /\ NodeOf[owner[k]] = node})

\* The local names and the snapshot's fit together.
SnapshotFits(E, B) == E <= MaxEntries /\ B <= MaxBytes

\* replace_global_snapshot validates everything, then swaps the global map in and
\* rebuilds the index and the usage from both maps.
replace_global_snapshot(snapshot) ==
  LET new == [k \in Key |-> IF k[1] = Global THEN snapshot[k[2]] ELSE owner[k]]
      locals == {k \in Registered : k[1] = Local}
      globals == {k \in OfScope(Global) : snapshot[k[2]] # NoPid}
      E == Cardinality(locals) + Cardinality(globals)
      B == Retained(locals) + Retained(globals)
  IN  /\ SnapshotFits(E, B)
      /\ owner' = new
      /\ reverse' = [p \in Pid |-> {k \in Key : new[k] = p}]
      /\ entries' = E
      /\ bytes' = B

clear ==
  /\ owner' = [k \in Key |-> NoPid]
  /\ reverse' = [p \in Pid |-> {}]
  /\ entries' = 0 /\ bytes' = 0

Next ==
  \/ \E n \in Name, p \in Pid :
       \/ register_local(n, p) \/ register_global(n, p)
       \/ apply_global(n, p) \/ remove_global_if_owner(n, p)
  \/ \E n \in Name : unregister(n)
  \/ \E p \in Pid : unregister_process(p) \/ remove_local_registrations(p)
  \/ \E node \in Node : remove_node_registrations(node)
  \/ \E s \in [Name -> Pid \cup {NoPid}] : replace_global_snapshot(s)
  \/ clear

Spec == Init /\ [][Next]_vars

-----------------------------------------------------------------------------
(* Properties. *)

\* The index lists exactly the names a process owns in the forward maps, after
\* any sequence of registrations, replacements, partial removals and snapshots:
\* the cleanup of an exited process, which reads only the index, misses no name
\* and frees no other process's name.
IndexExact == \A p \in Pid : reverse[p] = {k \in Key : owner[k] = p}

\* The entries and the bytes charged, kept by increments on some paths, recomputed
\* on one and skipped on another, are what the names cost, and stay within the
\* node's limits for both namespaces together: no sequence of calls makes the node
\* refuse names for good or underflow, which the code answers with a panic.
UsageExact ==
  /\ entries = Cardinality(Registered) /\ entries <= MaxEntries
  /\ bytes = Retained(Registered) /\ bytes <= MaxBytes

\* The index is the inverse of the forward maps, and the usage is what they hold.
NamesExact == IndexExact /\ UsageExact

\* The inductive invariant of the proofs: the types besides.
IndexInv ==
  /\ owner \in [Key -> Pid \cup {NoPid}]
  /\ reverse \in [Pid -> SUBSET Key]
  /\ NamesExact
=============================================================================
