------------------------ MODULE EnvironmentRegistry ------------------------
(***************************************************************************)
(* LunaticEnvironments (crates/lunatic-process/src/env.rs): a bounded      *)
(* registry that holds its environments weakly.  An environment lives as   *)
(* long as some task holds it: through the canonical Arc that the registry *)
(* hands out, or through a clone of the value, which shares the inner      *)
(* state.  The task that drops the last holder runs the destructor of      *)
(* EnvironmentLifetime, which must take the registry's entry again; by     *)
(* then another task may have created the id anew, as a new generation.    *)
(*                                                                         *)
(* lock[i] is the DashMap entry of id i; upgrades of weak references and   *)
(* drops of strong ones need no lock and fall between the sections.        *)
(***************************************************************************)
EXTENDS Naturals, FiniteSets

CONSTANTS Id, Task,
          Registry,         \* module registries an environment can be created with
          NoRegistry,       \* created, or asked for, without one
          MaxEnvironments,  \* max_environments
          MaxGeneration     \* bound: generations in a behaviour

ASSUME RegistryAssumption ==
  /\ MaxEnvironments \in Nat /\ MaxGeneration \in Nat
  /\ IsFiniteSet(Id) /\ Id # {} /\ NoRegistry \notin Registry

Generation == 1 .. MaxGeneration
Vacant == 0
VARIABLES
  entry,      \* entry[i]: generation stored for id i, or Vacant
  lock,       \* lock[i]: some task holds the entry of i
  count,      \* environment_count
  next,       \* next_generation
  idOf,       \* idOf[g]: environment_id of generation g
  registry,   \* registry[g]: module_registry of generation g
  canonical,  \* canonical[g]: tasks that hold the canonical Arc of g
  clones,     \* clones[g]: tasks that hold another clone of g
  pc,         \* pc[t]: where t's call is
  target,     \* target[t]: the id t's call is about
  asked,      \* asked[t]: the module registry t's create is called with
  working     \* working[t]: the generation t has upgraded, or destroys

vars == <<entry, lock, count, next, idOf, registry, canonical, clones,
          pc, target, asked, working>>

Alive(g) == canonical[g] \cup clones[g] # {}
AnyId == CHOOSE i \in Id : TRUE

Init ==
  /\ entry = [i \in Id |-> Vacant] /\ lock = [i \in Id |-> FALSE]
  /\ count = 0 /\ next = 1
  /\ idOf = [g \in Generation |-> AnyId]
  /\ registry = [g \in Generation |-> NoRegistry]
  /\ canonical = [g \in Generation |-> {}] /\ clones = [g \in Generation |-> {}]
  /\ pc = [t \in Task |-> "idle"] /\ target = [t \in Task |-> AnyId]
  /\ asked = [t \in Task |-> NoRegistry] /\ working = [t \in Task |-> Vacant]

Goto(t, l) == pc' = [pc EXCEPT ![t] = l]
\* The call is over, and its local variables with it.
Return(t) ==
  /\ Goto(t, "idle")
  /\ target' = [target EXCEPT ![t] = AnyId] /\ asked' = [asked EXCEPT ![t] = NoRegistry]
  /\ working' = [working EXCEPT ![t] = Vacant]
Lock(i) == lock' = [lock EXCEPT ![i] = TRUE]
Unlock(i) == lock' = [lock EXCEPT ![i] = FALSE]
Hold(t, g) == canonical' = [canonical EXCEPT ![g] = @ \cup {t}]

-----------------------------------------------------------------------------
(* create_atomic and get. *)

\* The upgraded environment is checked, and perhaps dropped, without the entry.
Upgraded(t, g) ==
  /\ Hold(t, g)
  /\ working' = [working EXCEPT ![t] = g]
  /\ Goto(t, "validate")

KeepEntry(i) == Lock(i)
\* The entry taken in the same step is given up again, before the validation.
DropEntry(i) == UNCHANGED lock

\* The entry is taken and the canonical reference upgraded.  A task asks for an id
\* it does not hold: what it does with a second reference to the same Arc is no
\* different from what another task does with one.
EnterCreate(t, i, r) ==
  /\ pc[t] = "idle" /\ ~lock[i]
  /\ \A g \in Generation : t \in canonical[g] => idOf[g] # i
  /\ target' = [target EXCEPT ![t] = i] /\ asked' = [asked EXCEPT ![t] = r]
  /\ \/ /\ entry[i] # Vacant /\ canonical[entry[i]] # {}
        /\ Upgraded(t, entry[i]) /\ DropEntry(i)
     \/ /\ entry[i] # Vacant /\ canonical[entry[i]] = {}
        /\ Lock(i) /\ Goto(t, "inner") /\ UNCHANGED <<canonical, working>>
     \/ /\ entry[i] = Vacant
        /\ Lock(i) /\ Goto(t, "vacant") /\ UNCHANGED <<canonical, working>>
  /\ UNCHANGED <<entry, count, next, idOf, registry, clones>>

\* A clone can keep the inner state alive without the canonical Arc: a new
\* canonical Arc is made for it.
CreateInner(t) ==
  LET i == target[t] IN
  /\ pc[t] = "inner"
  /\ IF Alive(entry[i])
       THEN Upgraded(t, entry[i]) /\ Unlock(i)
       ELSE Goto(t, "replace") /\ UNCHANGED <<lock, canonical, working>>
  /\ UNCHANGED <<entry, count, next, idOf, registry, clones, target, asked>>

\* get: the canonical reference is upgraded, or the entry has none.
EnterGet(t, i) ==
  /\ pc[t] = "idle" /\ ~lock[i]
  /\ \A g \in Generation : t \in canonical[g] => idOf[g] # i
  /\ entry[i] # Vacant
  /\ \/ canonical[entry[i]] # {} /\ Hold(t, entry[i]) /\ UNCHANGED <<lock, pc, target>>
     \/ /\ canonical[entry[i]] = {}
        /\ Lock(i) /\ Goto(t, "getInner") /\ UNCHANGED canonical
        /\ target' = [target EXCEPT ![t] = i]
  /\ UNCHANGED <<entry, count, next, idOf, registry, clones, asked, working>>

GetInner(t) ==
  LET i == target[t] IN
  /\ pc[t] = "getInner"
  /\ IF Alive(entry[i]) THEN Hold(t, entry[i]) ELSE UNCHANGED canonical
  /\ Unlock(i) /\ Return(t)
  /\ UNCHANGED <<entry, count, next, idOf, registry, clones>>

Install(t, i) ==
  /\ entry' = [entry EXCEPT ![i] = next]
  /\ idOf' = [idOf EXCEPT ![next] = i]
  /\ registry' = [registry EXCEPT ![next] = asked[t]]
  /\ Hold(t, next)

ReplacementCharge == 1
\* "Transfer that slot to the replacement."
TransferredCharge == 0

Replace(t) ==
  LET i == target[t] IN
  /\ pc[t] = "replace" /\ next <= MaxGeneration
  /\ Install(t, i)
  /\ count' = count + TransferredCharge
  /\ next' = next + 1
  /\ Unlock(i) /\ Return(t)
  /\ UNCHANGED clones

HasSlotAtLimit == count <= MaxEnvironments
HasSlot == count < MaxEnvironments

\* reserve_environment_slot for a vacant entry; a refusal costs a generation.
CreateVacant(t) ==
  LET i == target[t] IN
  /\ pc[t] = "vacant" /\ next <= MaxGeneration
  /\ next' = next + 1
  /\ IF HasSlot THEN Install(t, i) /\ count' = count + 1
                ELSE UNCHANGED <<entry, idOf, registry, canonical, count>>
  /\ Unlock(i) /\ Return(t)
  /\ UNCHANGED clones

\* The generation counter, or the bound on it, is exhausted.
CreateFails(t) ==
  /\ pc[t] \in {"replace", "vacant"} /\ next > MaxGeneration
  /\ Unlock(target[t]) /\ Return(t)
  /\ UNCHANGED <<entry, count, next, idOf, registry, canonical, clones>>

-----------------------------------------------------------------------------
(* Holders go; the last one runs the destructor. *)

\* The step after t's reference to g is gone.
AfterDrop(t, g, holders) ==
  \/ holders # {} /\ Return(t)
  \/ /\ holders = {} /\ Goto(t, "dropping")
     /\ target' = [target EXCEPT ![t] = idOf[g]] /\ working' = [working EXCEPT ![t] = g]
     /\ asked' = [asked EXCEPT ![t] = NoRegistry]

\* validate_registry; the environment is dropped when it has another registry.
Validate(t) ==
  LET g == working[t]
      fits == asked[t] \in {NoRegistry, registry[g]}
  IN  /\ pc[t] = "validate"
      /\ IF fits
           THEN Return(t) /\ UNCHANGED canonical
           ELSE /\ canonical' = [canonical EXCEPT ![g] = @ \ {t}]
                /\ AfterDrop(t, g, (canonical[g] \ {t}) \cup clones[g])
      /\ UNCHANGED <<entry, lock, count, next, idOf, registry, clones>>

CloneValue(t, g) ==
  /\ pc[t] = "idle" /\ t \in canonical[g] /\ t \notin clones[g]
  /\ clones' = [clones EXCEPT ![g] = @ \cup {t}]
  /\ UNCHANGED <<entry, lock, count, next, idOf, registry, canonical, pc, target, asked, working>>

DropCanonical(t, g) ==
  /\ pc[t] = "idle" /\ t \in canonical[g]
  /\ canonical' = [canonical EXCEPT ![g] = @ \ {t}]
  /\ AfterDrop(t, g, (canonical[g] \ {t}) \cup clones[g])
  /\ UNCHANGED <<entry, lock, count, next, idOf, registry, clones>>

DropClone(t, g) ==
  /\ pc[t] = "idle" /\ t \in clones[g]
  /\ clones' = [clones EXCEPT ![g] = @ \ {t}]
  /\ AfterDrop(t, g, canonical[g] \cup (clones[g] \ {t}))
  /\ UNCHANGED <<entry, lock, count, next, idOf, registry, canonical>>

AnyGeneration(i, g) == entry[i] # Vacant
\* release_generation acts only on the generation it was made for.
SameGeneration(i, g) == entry[i] = g

\* release_generation: the slot first, then the entry.
ReleaseSlot(t) ==
  LET g == working[t]
      i == target[t]
  IN  /\ pc[t] = "dropping" /\ ~lock[i]
      /\ IF SameGeneration(i, g)
           THEN /\ count' = count - 1 /\ Lock(i) /\ Goto(t, "removing")
                /\ UNCHANGED <<target, asked, working>>
           ELSE Return(t) /\ UNCHANGED <<lock, count>>
      /\ UNCHANGED <<entry, next, idOf, registry, canonical, clones>>

RemoveEntry(t) ==
  LET i == target[t] IN
  /\ pc[t] = "removing"
  /\ entry' = [entry EXCEPT ![i] = Vacant]
  /\ Unlock(i) /\ Return(t)
  /\ UNCHANGED <<count, next, idOf, registry, canonical, clones>>

-----------------------------------------------------------------------------

Call(t) ==
  \/ \E i \in Id, r \in Registry \cup {NoRegistry} : EnterCreate(t, i, r)
  \/ \E i \in Id : EnterGet(t, i)
  \/ \E g \in Generation : CloneValue(t, g) \/ DropCanonical(t, g) \/ DropClone(t, g)
Continue(t) ==
  \/ CreateInner(t) \/ GetInner(t) \/ Replace(t) \/ CreateVacant(t) \/ CreateFails(t)
  \/ Validate(t) \/ ReleaseSlot(t) \/ RemoveEntry(t)

Next == \E t \in Task : Call(t) \/ Continue(t)

Spec == Init /\ [][Next]_vars
\* A thread inside a call runs on, and DashMap's lock admits every waiter some time.
FairSpec == Spec /\ \A t \in Task : SF_vars(Continue(t))

-----------------------------------------------------------------------------
(* Properties. *)

\* Every variable has its type.
TypeOK ==
  /\ entry \in [Id -> Generation \cup {Vacant}]
  /\ lock \in [Id -> BOOLEAN]
  /\ count \in Nat /\ next \in 1 .. MaxGeneration + 1
  /\ idOf \in [Generation -> Id]
  /\ registry \in [Generation -> Registry \cup {NoRegistry}]
  /\ canonical \in [Generation -> SUBSET Task]
  /\ clones \in [Generation -> SUBSET Task]
  /\ pc \in [Task -> {"idle", "inner", "getInner", "replace", "vacant", "validate", "dropping", "removing"}]
  /\ target \in [Task -> Id]
  /\ asked \in [Task -> Registry \cup {NoRegistry}]
  /\ working \in [Task -> Generation \cup {Vacant}]

\* "The maximum number of simultaneously live environments on a node", however
\* creations overlap with the destructors of earlier generations.
LiveBounded == Cardinality({g \in Generation : Alive(g)}) <= MaxEnvironments

\* A live environment is the one its id is registered with: no late destructor
\* takes the entry of a newer generation, and no id has two live environments.
LiveIsRegistered == \A g \in Generation : Alive(g) => entry[idOf[g]] = g

Charged == {i \in Id : entry[i] # Vacant
                       /\ \A t \in Task : pc[t] = "removing" => target[t] # i}

\* The charge follows the entries: a slot given back early belongs to a
\* destructor that is removing its entry, and a transferred slot is paid once.
SlotAccounting == count = Cardinality(Charged)

\* The charge is exact and the node's limit holds.
SlotsSafe == SlotAccounting /\ LiveBounded

\* create, get and every drop of an environment return: no destructor waits for
\* an entry its own task, or a task waiting for it, has locked.
EveryCallReturns == \A t \in Task : []<>(pc[t] = "idle")

-----------------------------------------------------------------------------
(* What makes the invariants inductive. *)

HoldsEntry(t) == pc[t] \in {"inner", "getInner", "replace", "vacant", "removing"}

\* An entry is held by at most one task.
LockDiscipline ==
  \A t \in Task : HoldsEntry(t) =>
    /\ lock[target[t]]
    /\ \A u \in Task \ {t} : HoldsEntry(u) => target[u] # target[t]

\* Generations are handed out in order, each for one id.
BirthOrder ==
  /\ \A g \in Generation : g >= next => ~Alive(g)
  /\ \A i \in Id : entry[i] # Vacant => entry[i] < next /\ idOf[entry[i]] = i

\* What a task inside a call knows.
Knows(t) ==
  /\ pc[t] = "vacant" => entry[target[t]] = Vacant
  /\ pc[t] \in {"inner", "getInner", "replace"} => entry[target[t]] # Vacant
  /\ pc[t] = "replace" => ~Alive(entry[target[t]])
  /\ pc[t] = "validate" => /\ working[t] \in Generation
                            /\ t \in canonical[working[t]]
  /\ pc[t] \in {"dropping", "removing"} =>
       /\ working[t] \in Generation /\ working[t] < next
       /\ target[t] = idOf[working[t]] /\ ~Alive(working[t])
  /\ pc[t] = "removing" => entry[target[t]] = working[t]
CallKnows == \A t \in Task : Knows(t)

Accounting == SlotAccounting /\ count <= MaxEnvironments

RegistryInv == TypeOK /\ LockDiscipline /\ BirthOrder /\ LiveIsRegistered /\ CallKnows /\ Accounting
=============================================================================
