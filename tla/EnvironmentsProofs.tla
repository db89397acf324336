------------------------- MODULE EnvironmentsProofs -------------------------
(***************************************************************************)
(* Proofs about EnvironmentRegistry, for any ids, tasks, registries and    *)
(* limits.  RegistryInv is inductive: an entry has one holder at a time,   *)
(* generations are numbered in order, and a task inside a call knows what  *)
(* it has seen of the entry it holds or of the generation it destroys.     *)
(*                                                                         *)
(* And about HostProcess, for any directories, names, handles, settings    *)
(* and root configuration.  HostInv says that every process has no more    *)
(* than its parent; NamesInv, that whoever creates a named process holds   *)
(* the lock of the registry and found no entry.                            *)
(***************************************************************************)
EXTENDS EnvironmentRegistry, HostProcess, FiniteSetTheorems, FunctionTheorems, TLAPS

USE DEF Vacant

\* The registry starts empty.
LEMMA InitInv == Init => RegistryInv
<1> SUFFICES ASSUME Init PROVE RegistryInv
  OBVIOUS
<1> USE RegistryAssumption DEF Init
<1>1. AnyId \in Id
  BY DEF AnyId
<1>2. TypeOK
  <2>2. next \in 1 .. MaxGeneration + 1 /\ count \in Nat
    OBVIOUS
  <2> QED
    BY <1>1, <2>2 DEF TypeOK
<1>3. LockDiscipline /\ BirthOrder /\ LiveIsRegistered /\ CallKnows
  BY DEF LockDiscipline, HoldsEntry, BirthOrder, LiveIsRegistered, CallKnows, Knows, Alive
<1>4. Accounting
  <2>1. Charged = {}
    BY DEF Charged
  <2> QED
    BY <2>1, FS_EmptySet DEF Accounting, SlotAccounting
<1> QED
  BY <1>2, <1>3, <1>4 DEF RegistryInv

\* A slot that is given back was charged.
LEMMA ChargedPositive ==
  ASSUME TypeOK, Accounting, NEW i \in Charged
  PROVE  count \in Nat \ {0} /\ count - 1 \in Nat
<1>1. IsFiniteSet(Charged)
  BY RegistryAssumption, FS_Subset DEF Charged
<1>2. Cardinality(Charged) \in Nat /\ Cardinality(Charged) # 0
  BY <1>1, FS_CardinalityType, FS_EmptySet
<1> QED
  BY <1>2 DEF Accounting, SlotAccounting

\* An entry that nobody holds and that is not vacant is charged.
LEMMA UnlockedCharged ==
  ASSUME TypeOK, LockDiscipline, NEW i \in Id, ~lock[i], entry[i] # Vacant
  PROVE  i \in Charged
<1>1. ASSUME NEW t \in Task, pc[t] = "removing" PROVE target[t] # i
  BY <1>1 DEF LockDiscipline, HoldsEntry
<1> QED
  BY <1>1 DEF Charged

\* The part of TypeOK about the calls.
CallTypes ==
  /\ pc \in [Task -> {"idle", "inner", "getInner", "replace", "vacant", "validate", "dropping",
                     "removing"}]
  /\ target \in [Task -> Id] /\ asked \in [Task -> Registry \cup {NoRegistry}]
  /\ working \in [Task -> Generation \cup {Vacant}]

\* The end of a call, and the drop of a reference, leave the call's state typed.
LEMMA ReturnTypes ==
  ASSUME CallTypes, NEW t \in Task, Return(t)
  PROVE  CallTypes'
<1>1. AnyId \in Id
  BY RegistryAssumption DEF AnyId
<1> QED
  BY <1>1 DEF CallTypes, Return, Goto

\* The destructor starts with the id and the generation it is about.
LEMMA AfterDropTypes ==
  ASSUME CallTypes, idOf \in [Generation -> Id],
         NEW t \in Task, NEW g \in Generation, NEW H, AfterDrop(t, g, H)
  PROVE  CallTypes'
<1>1. CASE Return(t)
  BY <1>1, ReturnTypes
<1>2. CASE Goto(t, "dropping") /\ ~Return(t)
  BY <1>2 DEF AfterDrop, CallTypes, Goto
<1> QED
  BY <1>1, <1>2 DEF AfterDrop

\* Every step of every task keeps the types.
LEMMA TypeStep ==
  TypeOK /\ LockDiscipline /\ CallKnows /\ Accounting /\ [Next]_vars => TypeOK'
<1> SUFFICES ASSUME TypeOK, LockDiscipline, CallKnows, Accounting, [Next]_vars PROVE TypeOK'
  OBVIOUS
<1> USE RegistryAssumption DEF TypeOK
<1>0. AnyId \in Id
  BY DEF AnyId
<1>1. CASE UNCHANGED vars
  BY <1>1 DEF vars
<1>2. ASSUME NEW t \in Task, NEW i \in Id, NEW r \in Registry \cup {NoRegistry},
             EnterCreate(t, i, r)
      PROVE  TypeOK'
  <2>1. target' \in [Task -> Id] /\ asked' \in [Task -> Registry \cup {NoRegistry}]
    BY <1>2 DEF EnterCreate
  <2>2. entry[i] \in Generation \/ entry[i] = Vacant
    OBVIOUS
  <2>3. lock' \in [Id -> BOOLEAN]
    BY <1>2 DEF EnterCreate, DropEntry, Lock
  <2>4. canonical' \in [Generation -> SUBSET Task] /\ working' \in [Task -> Generation \cup {Vacant}]
    BY <1>2, <2>2 DEF EnterCreate, DropEntry, Upgraded, Hold
  <2> QED
    BY <1>2, <2>1, <2>3, <2>4 DEF EnterCreate, DropEntry, Upgraded, Goto
<1>3. ASSUME NEW t \in Task, NEW i \in Id, EnterGet(t, i) PROVE TypeOK'
  <2>1. lock' \in [Id -> BOOLEAN]
    BY <1>3 DEF EnterGet, Lock
  <2>2. entry[i] \in Generation
    BY <1>3 DEF EnterGet
  <2>3. canonical' \in [Generation -> SUBSET Task]
    BY <1>3, <2>2 DEF EnterGet, Hold
  <2>4. target' \in [Task -> Id]
    BY <1>3 DEF EnterGet
  <2> QED
    BY <1>3, <2>1, <2>3, <2>4 DEF EnterGet, Goto
<1>4. ASSUME NEW t \in Task, NEW g \in Generation,
             CloneValue(t, g) \/ DropCanonical(t, g) \/ DropClone(t, g)
      PROVE  TypeOK'
  <2>1. CASE CloneValue(t, g)
    BY <2>1 DEF CloneValue
  <2>2. CASE DropCanonical(t, g)
    <3>1. CallTypes'
      BY <2>2, AfterDropTypes DEF DropCanonical, CallTypes
    <3> QED
      BY <2>2, <3>1 DEF DropCanonical, CallTypes
  <2>3. CASE DropClone(t, g)
    <3>1. CallTypes'
      BY <2>3, AfterDropTypes DEF DropClone, CallTypes
    <3> QED
      BY <2>3, <3>1 DEF DropClone, CallTypes
  <2> QED
    BY <1>4, <2>1, <2>2, <2>3
<1>5. ASSUME NEW t \in Task, CreateInner(t) PROVE TypeOK'
  <2>1. entry[target[t]] \in Generation
    BY <1>5 DEF CreateInner, CallKnows, Knows
  <2>2. lock' \in [Id -> BOOLEAN]
    BY <1>5 DEF CreateInner, Unlock
  <2>3. canonical' \in [Generation -> SUBSET Task] /\ working' \in [Task -> Generation \cup {Vacant}]
    BY <1>5, <2>1 DEF CreateInner, Upgraded, Hold
  <2> QED
    BY <1>5, <2>1, <2>2, <2>3 DEF CreateInner, Upgraded, Goto
<1>6. ASSUME NEW t \in Task, GetInner(t) PROVE TypeOK'
  <2>1. entry[target[t]] \in Generation
    BY <1>6 DEF GetInner, CallKnows, Knows
  <2> QED
    BY <1>0, <1>6, <2>1 DEF GetInner, Return, Goto, Hold, Unlock
<1>7. ASSUME NEW t \in Task, Replace(t) PROVE TypeOK'
  <2>1. next \in Generation /\ next + 1 \in 1 .. MaxGeneration + 1 /\ count + 0 = count
    BY <1>7 DEF Replace, Generation
  <2> QED
    BY <1>0, <1>7, <2>1 DEF Replace, Install, Return, Goto, Hold, Unlock, TransferredCharge
<1>8. ASSUME NEW t \in Task, CreateVacant(t) PROVE TypeOK'
  <2>1. next \in Generation /\ next + 1 \in 1 .. MaxGeneration + 1 /\ count + 1 \in Nat
    BY <1>8 DEF CreateVacant, Generation
  <2> QED
    BY <1>0, <1>8, <2>1 DEF CreateVacant, Install, Return, Goto, Hold, Unlock
<1>9. ASSUME NEW t \in Task, CreateFails(t) PROVE TypeOK'
  BY <1>0, <1>9 DEF CreateFails, Return, Goto, Unlock
<1>10. ASSUME NEW t \in Task, Validate(t) PROVE TypeOK'
  <2>1. working[t] \in Generation
    BY <1>10 DEF Validate, CallKnows, Knows
  <2>2. CallTypes'
    BY <1>10, <2>1, ReturnTypes, AfterDropTypes DEF Validate, CallTypes
  <2> QED
    BY <1>10, <2>1, <2>2 DEF Validate, CallTypes
<1>11. ASSUME NEW t \in Task, ReleaseSlot(t) PROVE TypeOK'
  <2>1. CASE ~SameGeneration(target[t], working[t])
    BY <1>0, <1>11, <2>1 DEF ReleaseSlot, Return, Goto
  <2>2. CASE SameGeneration(target[t], working[t])
    <3>1. working[t] \in Generation /\ ~lock[target[t]]
      BY <1>11 DEF ReleaseSlot, CallKnows, Knows
    <3>2. entry[target[t]] # Vacant
      BY <2>2, <3>1 DEF SameGeneration, Generation
    <3>3. count - 1 \in Nat
      BY <3>1, <3>2, UnlockedCharged, ChargedPositive
    <3> QED
      BY <1>11, <2>2, <3>3 DEF ReleaseSlot, Goto, Lock
  <2> QED
    BY <2>1, <2>2
<1>12. ASSUME NEW t \in Task, RemoveEntry(t) PROVE TypeOK'
  BY <1>0, <1>12 DEF RemoveEntry, Return, Goto, Unlock
<1> QED
  BY <1>1, <1>2, <1>3, <1>4, <1>5, <1>6, <1>7, <1>8, <1>9, <1>10, <1>11, <1>12
     DEF Next, Call, Continue

\* Entries change hands one at a time.
LEMMA LockStep == RegistryInv /\ [Next]_vars => LockDiscipline'
<1> SUFFICES ASSUME RegistryInv, [Next]_vars PROVE LockDiscipline'
  OBVIOUS
<1> USE DEF RegistryInv, TypeOK, LockDiscipline, HoldsEntry
<1>1. CASE UNCHANGED vars
  BY <1>1 DEF vars
<1>2. ASSUME NEW t \in Task, NEW i \in Id, NEW r \in Registry \cup {NoRegistry},
             EnterCreate(t, i, r)
      PROVE  LockDiscipline'
  BY <1>2 DEF EnterCreate, DropEntry, Upgraded, Goto, Lock
<1>3. ASSUME NEW t \in Task, NEW i \in Id, EnterGet(t, i) PROVE LockDiscipline'
  BY <1>3 DEF EnterGet, Goto, Lock
<1>4. ASSUME NEW t \in Task, NEW g \in Generation,
             CloneValue(t, g) \/ DropCanonical(t, g) \/ DropClone(t, g)
      PROVE  LockDiscipline'
  BY <1>4 DEF CloneValue, DropCanonical, DropClone, AfterDrop, Return, Goto
<1>5. ASSUME NEW t \in Task, CreateInner(t) PROVE LockDiscipline'
  <2>1. pc[t] = "inner" /\ target' = target
    BY <1>5 DEF CreateInner
  <2>2. CASE Goto(t, "replace") /\ UNCHANGED lock
    BY <2>1, <2>2 DEF Goto
  <2>3. CASE Goto(t, "validate") /\ Unlock(target[t])
    BY <2>1, <2>3 DEF Goto, Unlock
  <2> QED
    BY <1>5, <2>2, <2>3 DEF CreateInner, Upgraded
<1>6. ASSUME NEW t \in Task, GetInner(t) \/ Replace(t) \/ CreateVacant(t)
                             \/ CreateFails(t) \/ RemoveEntry(t)
      PROVE  LockDiscipline'
  BY <1>6 DEF GetInner, Replace, CreateVacant, CreateFails, RemoveEntry, Return, Goto, Unlock
<1>7. ASSUME NEW t \in Task, Validate(t) PROVE LockDiscipline'
  BY <1>7 DEF Validate, AfterDrop, Return, Goto
<1>8. ASSUME NEW t \in Task, ReleaseSlot(t) PROVE LockDiscipline'
  BY <1>8 DEF ReleaseSlot, Return, Goto, Lock
<1> QED
  BY <1>1, <1>2, <1>3, <1>4, <1>5, <1>6, <1>7, <1>8 DEF Next, Call, Continue

\* A step makes a generation alive only when it was, or when it is the next one.
LEMMA OnlyNextComesAlive ==
  ASSUME RegistryInv, [Next]_vars, NEW g \in Generation, Alive(g)', ~Alive(g)
  PROVE  g = next /\ next' = next + 1 /\ entry' = [entry EXCEPT ![idOf'[g]] = g]
<1> USE DEF RegistryInv, TypeOK
<1>1. ASSUME UNCHANGED <<canonical, clones>> PROVE FALSE
  BY <1>1 DEF Alive
<1>2. ASSUME NEW t \in Task, NEW h \in Generation, Alive(h), Hold(t, h), UNCHANGED clones
      PROVE  FALSE
  BY <1>2 DEF Hold, Alive
<1>3. ASSUME NEW t \in Task, next <= MaxGeneration, Install(t, target[t]), next' = next + 1,
             UNCHANGED clones
      PROVE  g = next /\ entry' = [entry EXCEPT ![idOf'[g]] = g]
  <2>1. next \in Generation
    BY <1>3, RegistryAssumption DEF Generation
  <2>2. g = next
    BY <1>3, <2>1 DEF Install, Hold, Alive
  <2> QED
    BY <1>3, <2>1, <2>2 DEF Install
<1>4. CASE UNCHANGED vars
  BY <1>1, <1>4 DEF vars
<1>5. ASSUME NEW t \in Task, NEW i \in Id, NEW r \in Registry \cup {NoRegistry},
             EnterCreate(t, i, r)
      PROVE  FALSE
  <2>1. CASE UNCHANGED canonical
    BY <1>1, <1>5, <2>1 DEF EnterCreate
  <2>2. CASE entry[i] # Vacant /\ canonical[entry[i]] # {} /\ Hold(t, entry[i])
    <3>1. entry[i] \in Generation /\ Alive(entry[i])
      BY <2>2 DEF Alive
    <3> QED
      BY <1>2, <1>5, <2>2, <3>1 DEF EnterCreate
  <2> QED
    BY <1>5, <2>1, <2>2 DEF EnterCreate, DropEntry, Upgraded
<1>6. ASSUME NEW t \in Task, NEW i \in Id, EnterGet(t, i) PROVE FALSE
  <2>1. CASE UNCHANGED canonical
    BY <1>1, <1>6, <2>1 DEF EnterGet
  <2>2. CASE entry[i] # Vacant /\ canonical[entry[i]] # {} /\ Hold(t, entry[i])
    <3>1. entry[i] \in Generation /\ Alive(entry[i])
      BY <2>2 DEF Alive
    <3> QED
      BY <1>2, <1>6, <2>2, <3>1 DEF EnterGet
  <2> QED
    BY <1>6, <2>1, <2>2 DEF EnterGet
<1>7. ASSUME NEW t \in Task, NEW h \in Generation,
             CloneValue(t, h) \/ DropCanonical(t, h) \/ DropClone(t, h)
      PROVE  FALSE
  BY <1>7 DEF CloneValue, DropCanonical, DropClone, Alive
<1>8. ASSUME NEW t \in Task, CreateInner(t) \/ GetInner(t) PROVE FALSE
  <2>1. entry[target[t]] \in Generation
    BY <1>8 DEF CreateInner, GetInner, CallKnows, Knows
  <2> QED
    BY <1>1, <1>2, <1>8, <2>1 DEF CreateInner, GetInner, Upgraded
<1>9. ASSUME NEW t \in Task, Replace(t) \/ CreateVacant(t)
      PROVE  g = next /\ next' = next + 1 /\ entry' = [entry EXCEPT ![idOf'[g]] = g]
  BY <1>1, <1>3, <1>9 DEF Replace, CreateVacant
<1>10. ASSUME NEW t \in Task, CreateFails(t) \/ ReleaseSlot(t) \/ RemoveEntry(t) PROVE FALSE
  BY <1>1, <1>10 DEF CreateFails, ReleaseSlot, RemoveEntry
<1>11. ASSUME NEW t \in Task, Validate(t) PROVE FALSE
  <2>1. working[t] \in Generation
    BY <1>11 DEF Validate, CallKnows, Knows
  <2> QED
    BY <1>11, <2>1 DEF Validate, Alive
<1> QED
  BY <1>4, <1>5, <1>6, <1>7, <1>8, <1>9, <1>10, <1>11 DEF Next, Call, Continue

\* The entry and the ids change in one place only: an entry whose holder installs
\* the next generation, or removes the generation it has destroyed.
LEMMA EntryStep ==
  ASSUME RegistryInv, [Next]_vars
  PROVE  \/ UNCHANGED <<entry, idOf>> /\ next' \in {next, next + 1}
         \/ \E t \in Task :
              /\ pc[t] = "replace" \/ pc[t] = "vacant"
              /\ next \in Generation /\ next' = next + 1
              /\ entry' = [entry EXCEPT ![target[t]] = next]
              /\ idOf' = [idOf EXCEPT ![next] = target[t]] /\ pc'[t] = "idle"
         \/ \E t \in Task :
              /\ pc[t] = "removing" /\ UNCHANGED <<idOf, next>>
              /\ entry' = [entry EXCEPT ![target[t]] = Vacant] /\ pc'[t] = "idle"
<1> DEFINE Goal ==
         \/ UNCHANGED <<entry, idOf>> /\ next' \in {next, next + 1}
         \/ \E t \in Task :
              /\ pc[t] = "replace" \/ pc[t] = "vacant"
              /\ next \in Generation /\ next' = next + 1
              /\ entry' = [entry EXCEPT ![target[t]] = next]
              /\ idOf' = [idOf EXCEPT ![next] = target[t]] /\ pc'[t] = "idle"
         \/ \E t \in Task :
              /\ pc[t] = "removing" /\ UNCHANGED <<idOf, next>>
              /\ entry' = [entry EXCEPT ![target[t]] = Vacant] /\ pc'[t] = "idle"
<1>1. ASSUME UNCHANGED <<entry, idOf, next>> PROVE Goal
  BY <1>1
<1>2. ASSUME NEW t \in Task, Replace(t) \/ CreateVacant(t) PROVE Goal
  <2>1. next \in Generation
    BY <1>2, RegistryAssumption DEF Replace, CreateVacant, RegistryInv, TypeOK, Generation
  <2> QED
    BY <1>2, <2>1 DEF Replace, CreateVacant, Install, Return, Goto, RegistryInv, TypeOK
<1>3. ASSUME NEW t \in Task, RemoveEntry(t) PROVE Goal
  BY <1>3 DEF RemoveEntry, Return, Goto, RegistryInv, TypeOK
<1>4. CASE UNCHANGED vars
  BY <1>1, <1>4 DEF vars
<1>5. CASE Next
  <2> SUFFICES ASSUME NEW t \in Task, Call(t) \/ Continue(t) PROVE Goal
    BY <1>5 DEF Next
  <2>1. CASE Call(t)
    BY <1>1, <2>1 DEF Call, EnterCreate, DropEntry, EnterGet, CloneValue, DropCanonical, DropClone
  <2>2. CASE CreateInner(t) \/ GetInner(t) \/ CreateFails(t) \/ Validate(t) \/ ReleaseSlot(t)
    BY <1>1, <2>2 DEF CreateInner, GetInner, CreateFails, Validate, ReleaseSlot
  <2> QED
    BY <1>2, <1>3, <2>1, <2>2 DEF Continue
<1> QED
  BY <1>4, <1>5

\* Generations stay in order.
LEMMA BirthStep == RegistryInv /\ [Next]_vars => BirthOrder'
<1> SUFFICES ASSUME RegistryInv, [Next]_vars PROVE BirthOrder'
  OBVIOUS
<1> USE RegistryAssumption DEF RegistryInv, TypeOK, BirthOrder
<1>1. next' \in Nat /\ next \in Nat /\ next <= next'
  BY EntryStep
<1>2. ASSUME NEW g \in Generation, g >= next' PROVE ~Alive(g)'
  <2>1. g \in Nat /\ g >= next
    BY <1>1, <1>2 DEF Generation
  <2> QED
    BY <1>1, <1>2, <2>1, OnlyNextComesAlive
<1>3. ASSUME NEW i \in Id, entry'[i] # Vacant
      PROVE  entry'[i] < next' /\ idOf'[entry'[i]] = i
  <2>0. \A j \in Id : entry[j] \in Nat
    BY DEF Generation
  <2>1. CASE UNCHANGED <<entry, idOf>> /\ next' \in {next, next + 1}
    <3>1. entry[i] < next /\ idOf[entry[i]] = i
      BY <1>3, <2>1
    <3> QED
      BY <1>1, <2>0, <2>1, <3>1
  <2>2. ASSUME NEW t \in Task, next \in Generation, next' = next + 1,
               entry' = [entry EXCEPT ![target[t]] = next],
               idOf' = [idOf EXCEPT ![next] = target[t]]
        PROVE  entry'[i] < next' /\ idOf'[entry'[i]] = i
    <3>1. CASE i = target[t]
      BY <2>2, <3>1
    <3>2. CASE i # target[t]
      <4>1. entry'[i] = entry[i] /\ entry[i] \in Generation
        BY <1>3, <2>2, <3>2
      <4>2. entry[i] < next /\ idOf[entry[i]] = i
        BY <1>3, <4>1
      <4>3. entry[i] # next /\ entry[i] < next + 1
        BY <1>1, <2>0, <4>2
      <4>4. idOf'[entry[i]] = idOf[entry[i]]
        BY <2>2, <4>1, <4>3, Zenon
      <4> QED
        BY <2>2, <4>1, <4>2, <4>3, <4>4
    <3> QED
      BY <3>1, <3>2
  <2>3. ASSUME NEW t \in Task, UNCHANGED <<idOf, next>>,
               entry' = [entry EXCEPT ![target[t]] = Vacant]
        PROVE  entry'[i] < next' /\ idOf'[entry'[i]] = i
    BY <1>3, <2>3
  <2> QED
    BY <2>1, <2>2, <2>3, EntryStep
<1> QED
  BY <1>2, <1>3

\* A live environment stays registered, and a new one is.
LEMMA LiveStep == RegistryInv /\ [Next]_vars => LiveIsRegistered'
<1> SUFFICES ASSUME RegistryInv, [Next]_vars, NEW g \in Generation, Alive(g)'
             PROVE  entry'[idOf'[g]] = g
  BY DEF LiveIsRegistered
<1> USE RegistryAssumption DEF RegistryInv, TypeOK
<1>1. idOf' \in [Generation -> Id]
  BY TypeStep
<1>2. CASE ~Alive(g)
  BY <1>1, <1>2, OnlyNextComesAlive
<1>3. CASE Alive(g)
  <2>1. entry[idOf[g]] = g /\ idOf[g] \in Id /\ g < next
    BY <1>3 DEF LiveIsRegistered, BirthOrder, Generation
  <2>2. CASE UNCHANGED <<entry, idOf>>
    BY <2>1, <2>2
  <2>3. ASSUME NEW t \in Task, pc[t] = "replace" \/ pc[t] = "vacant", next \in Generation,
               entry' = [entry EXCEPT ![target[t]] = next],
               idOf' = [idOf EXCEPT ![next] = target[t]]
        PROVE  entry'[idOf'[g]] = g
    <3>1. entry[target[t]] # g
      BY <1>3, <2>3 DEF CallKnows, Knows, Generation
    <3>2. idOf'[g] = idOf[g]
      BY <2>1, <2>3
    <3> QED
      BY <2>1, <2>3, <3>1, <3>2
  <2>4. ASSUME NEW t \in Task, pc[t] = "removing", UNCHANGED idOf,
               entry' = [entry EXCEPT ![target[t]] = Vacant]
        PROVE  entry'[idOf'[g]] = g
    <3>1. entry[target[t]] # g
      BY <1>3, <2>4 DEF CallKnows, Knows
    <3> QED
      BY <2>1, <2>4, <3>1
  <2> QED
    BY <2>2, <2>3, <2>4, EntryStep
<1> QED
  BY <1>2, <1>3

\* What a step of one task leaves alone in the others.
LEMMA OthersUntouched ==
  ASSUME RegistryInv, [Next]_vars, NEW u \in Task,
         pc'[u] # pc[u] \/ target'[u] # target[u] \/ working'[u] # working[u]
           \/ \E g \in Generation : (u \in canonical'[g]) # (u \in canonical[g])
  PROVE  Call(u) \/ Continue(u)
<1> USE DEF RegistryInv, TypeOK
<1>1. CASE UNCHANGED vars
  BY <1>1 DEF vars
<1>2. ASSUME NEW t \in Task, Call(t) \/ Continue(t), t # u PROVE FALSE
  <2>1. pc'[u] = pc[u] /\ target'[u] = target[u] /\ working'[u] = working[u]
    <3>1. CASE Call(t)
      BY <1>2, <3>1 DEF Call, EnterCreate, DropEntry, EnterGet, CloneValue, DropCanonical, DropClone,
         AfterDrop, Upgraded, Return, Goto
    <3>2. CASE Continue(t)
      BY <1>2, <3>2 DEF Continue, CreateInner, GetInner, Replace, CreateVacant, CreateFails,
         Validate, ReleaseSlot, RemoveEntry, AfterDrop, Upgraded, Return, Goto
    <3> QED
      BY <1>2, <3>1, <3>2
  <2>2. ASSUME NEW g \in Generation PROVE (u \in canonical'[g]) = (u \in canonical[g])
    <3>1. CASE UNCHANGED canonical
      BY <3>1
    <3>2. ASSUME NEW h, Hold(t, h) PROVE (u \in canonical'[g]) = (u \in canonical[g])
      BY <1>2, <3>2 DEF Hold
    <3>3. ASSUME NEW h \in Generation, DropCanonical(t, h)
          PROVE (u \in canonical'[g]) = (u \in canonical[g])
      BY <1>2, <3>3 DEF DropCanonical
    <3>4. CASE Call(t)
      BY <3>1, <3>2, <3>3, <3>4 DEF Call, EnterCreate, DropEntry, EnterGet, CloneValue, DropClone, Upgraded
    <3>5. CASE Validate(t)
      BY <1>2, <3>5 DEF Validate
    <3>6. CASE Continue(t) /\ ~Validate(t)
      BY <3>1, <3>2, <3>6 DEF Continue, CreateInner, GetInner, Replace, CreateVacant,
         CreateFails, ReleaseSlot, RemoveEntry, Upgraded, Install
    <3> QED
      BY <1>2, <3>4, <3>5, <3>6
  <2> QED
    BY <2>1, <2>2
<1> QED
  BY <1>1, <1>2 DEF Next

\* Only the holder of an entry changes it.
LEMMA HeldEntryStable ==
  ASSUME RegistryInv, [Next]_vars, NEW u \in Task, HoldsEntry(u), HoldsEntry(u)',
         pc'[u] = pc[u], target'[u] = target[u]
  PROVE  entry'[target[u]] = entry[target[u]]
<1> USE DEF RegistryInv, TypeOK
<1>1. ASSUME NEW t \in Task, pc[t] \in {"replace", "vacant", "removing"}, NEW x,
             entry' = [entry EXCEPT ![target[t]] = x], pc'[t] = "idle"
      PROVE  entry'[target[u]] = entry[target[u]]
  <2>1. t # u
    BY <1>1 DEF HoldsEntry
  <2> QED
    BY <1>1, <2>1 DEF LockDiscipline, HoldsEntry
<1> QED
  BY <1>1, EntryStep

\* A generation that has died stays dead.
LEMMA DeadStaysDead ==
  ASSUME RegistryInv, [Next]_vars, NEW g \in Generation, g < next, ~Alive(g)
  PROVE  ~Alive(g)'
<1>1. g # next
  BY RegistryAssumption DEF RegistryInv, TypeOK, Generation
<1> QED
  BY <1>1, OnlyNextComesAlive

\* A step keeps what the other tasks know.
LEMMA OthersKnow ==
  ASSUME RegistryInv, [Next]_vars, NEW u \in Task, pc'[u] = pc[u],
         target'[u] = target[u], working'[u] = working[u],
         \A g \in Generation : (u \in canonical'[g]) = (u \in canonical[g])
  PROVE  Knows(u)'
<1> USE DEF RegistryInv, TypeOK
<1>1. Knows(u)
  BY Zenon DEF CallKnows
<1>2. HoldsEntry(u) => entry'[target[u]] = entry[target[u]]
  BY HeldEntryStable DEF HoldsEntry
<1>3. ASSUME pc[u] = "replace" PROVE ~Alive(entry[target[u]])'
  <2>1. PICK g \in Generation : g = entry[target[u]]
    BY <1>1, <1>3 DEF Knows
  <2>2. g < next /\ ~Alive(g)
    BY <1>1, <1>3, <2>1 DEF Knows, BirthOrder
  <2>3. ~Alive(g)'
    BY <2>2, DeadStaysDead
  <2>4. entry'[target'[u]] = g
    BY <1>2, <1>3, <2>1 DEF HoldsEntry
  <2> QED
    BY <2>3, <2>4 DEF Alive
<1>4. ASSUME pc[u] \in {"dropping", "removing"}
      PROVE  /\ working'[u] \in Generation /\ working'[u] < next'
             /\ target'[u] = idOf'[working'[u]] /\ ~Alive(working[u])'
  <2>1. PICK g \in Generation : g = working[u]
    BY <1>1, <1>4 DEF Knows
  <2>2. g < next /\ ~Alive(g) /\ target[u] = idOf[g]
    BY <1>1, <1>4, <2>1 DEF Knows
  <2>3. g \in Nat /\ next \in Nat /\ g # next
    BY <2>2, RegistryAssumption DEF Generation
  <2>4. ~Alive(g)'
    BY <2>2, DeadStaysDead
  <2>5. g < next'
    BY <2>2, <2>3, EntryStep
  <2>6. idOf'[g] = idOf[g]
    BY <2>3, EntryStep
  <2> QED
    BY <2>1, <2>2, <2>4, <2>5, <2>6 DEF Alive
<1> QED
  BY <1>1, <1>2, <1>3, <1>4 DEF Knows, HoldsEntry

\* A task that takes a step knows what it has just seen.
LEMMA CallStep == RegistryInv /\ [Next]_vars => CallKnows'
<1> SUFFICES ASSUME RegistryInv, [Next]_vars, NEW u \in Task PROVE Knows(u)'
  BY Zenon DEF CallKnows
<1> USE DEF RegistryInv, TypeOK
<1>1. Knows(u)
  BY Zenon DEF CallKnows
<1>2. CASE pc'[u] = "idle"
  BY <1>2 DEF Knows
<1>3. ASSUME NEW g \in Generation, NEW H, AfterDrop(u, g, H),
             canonical'[g] \cup clones'[g] = H, Alive(g), UNCHANGED <<next, idOf>>
      PROVE  Knows(u)'
  <2>1. g < next
    BY <1>3, RegistryAssumption DEF BirthOrder, Generation
  <2>2. pc'[u] = "idle" \/ pc'[u] = "dropping"
    BY <1>3 DEF AfterDrop, Return, Goto
  <2>3. pc'[u] = "dropping" => target'[u] = idOf[g] /\ working'[u] = g /\ ~Alive(g)'
    BY <1>3 DEF AfterDrop, Return, Goto, Alive
  <2> QED
    BY <1>3, <2>1, <2>2, <2>3 DEF Knows, Alive
<1>4. ASSUME NEW i \in Id, NEW r \in Registry \cup {NoRegistry}, EnterCreate(u, i, r)
      PROVE  Knows(u)'
  <2>1. entry[i] # Vacant => entry[i] \in Generation
    OBVIOUS
  <2> QED
    BY <1>4, <2>1 DEF EnterCreate, DropEntry, Upgraded, Hold, Goto, Knows
<1>5. ASSUME NEW i \in Id, EnterGet(u, i) PROVE Knows(u)'
  BY <1>2, <1>5 DEF EnterGet, Goto, Knows
<1>6. ASSUME NEW g \in Generation, CloneValue(u, g) PROVE Knows(u)'
  BY <1>2, <1>6 DEF CloneValue
<1>7. ASSUME NEW g \in Generation, DropCanonical(u, g) \/ DropClone(u, g) PROVE Knows(u)'
  <2>1. Alive(g) /\ UNCHANGED <<next, idOf>>
    BY <1>7 DEF DropCanonical, DropClone, Alive
  <2>2. CASE DropCanonical(u, g)
    <3> DEFINE H == (canonical[g] \ {u}) \cup clones[g]
    <3>1. AfterDrop(u, g, H)
      BY <2>2 DEF DropCanonical
    <3>2. canonical'[g] \cup clones'[g] = H
      BY <2>2 DEF DropCanonical
    <3> QED
      BY <1>3, <2>1, <3>1, <3>2
  <2>3. CASE DropClone(u, g)
    <3> DEFINE H == canonical[g] \cup (clones[g] \ {u})
    <3>1. AfterDrop(u, g, H)
      BY <2>3 DEF DropClone
    <3>2. canonical'[g] \cup clones'[g] = H
      BY <2>3 DEF DropClone
    <3> QED
      BY <1>3, <2>1, <3>1, <3>2
  <2> QED
    BY <1>7, <2>2, <2>3
<1>8. CASE CreateInner(u)
  <2>1. entry[target[u]] \in Generation
    BY <1>1, <1>8 DEF CreateInner, Knows
  <2>2. CASE Alive(entry[target[u]])
    BY <1>8, <2>1, <2>2 DEF CreateInner, Upgraded, Hold, Goto, Knows
  <2>3. CASE ~Alive(entry[target[u]])
    <3>1. PICK g \in Generation : g = entry[target[u]]
      BY <2>1
    <3>2. /\ pc'[u] = "replace" /\ UNCHANGED <<entry, target, canonical, clones>>
      BY <1>8, <2>3 DEF CreateInner, Goto
    <3>3. ~Alive(g)'
      BY <2>3, <3>1, <3>2 DEF Alive
    <3>4. entry'[target'[u]] = g /\ g # Vacant
      BY <3>1, <3>2 DEF Generation, Vacant
    <3> QED
      BY <3>2, <3>3, <3>4 DEF Knows, Alive
  <2> QED
    BY <2>2, <2>3
<1>9. CASE GetInner(u) \/ Replace(u) \/ CreateVacant(u) \/ CreateFails(u) \/ RemoveEntry(u)
  BY <1>2, <1>9 DEF GetInner, Replace, CreateVacant, CreateFails, RemoveEntry, Return, Goto
<1>10. CASE Validate(u)
  <2>1. working[u] \in Generation /\ Alive(working[u])
    BY <1>1, <1>10 DEF Validate, Knows, Alive
  <2>2. PICK g \in Generation : g = working[u]
    BY <2>1
  <2>3. CASE asked[u] \in {NoRegistry, registry[g]}
    BY <1>2, <1>10, <2>2, <2>3 DEF Validate, Return, Goto
  <2>4. CASE asked[u] \notin {NoRegistry, registry[g]}
    <3> DEFINE H == (canonical[g] \ {u}) \cup clones[g]
    <3>1. AfterDrop(u, g, H)
      BY <1>10, <2>2, <2>4 DEF Validate
    <3>2. canonical'[g] \cup clones'[g] = H /\ UNCHANGED <<next, idOf>>
      BY <1>10, <2>2, <2>4 DEF Validate
    <3> QED
      BY <1>3, <2>1, <2>2, <3>1, <3>2
  <2> QED
    BY <2>3, <2>4
<1>11. CASE ReleaseSlot(u)
  <2>1. CASE SameGeneration(target[u], working[u])
    BY <1>1, <1>11, <2>1 DEF ReleaseSlot, SameGeneration, Goto, Knows, Alive
  <2>2. CASE ~SameGeneration(target[u], working[u])
    BY <1>2, <1>11, <2>2 DEF ReleaseSlot, Return, Goto
  <2> QED
    BY <2>1, <2>2
<1>12. CASE Call(u) \/ Continue(u)
  BY <1>4, <1>5, <1>6, <1>7, <1>8, <1>9, <1>10, <1>11, <1>12 DEF Call, Continue
<1> QED
  BY <1>12, OthersUntouched, OthersKnow

\* A finite set without one of its elements.
LEMMA OneLess ==
  ASSUME NEW S, IsFiniteSet(S), NEW x \in S
  PROVE  Cardinality(S \ {x}) = Cardinality(S) - 1
BY FS_RemoveElement

\* The charge follows the entries.
LEMMA AccountingStep == RegistryInv /\ [Next]_vars => Accounting'
<1> SUFFICES ASSUME RegistryInv, [Next]_vars PROVE Accounting'
  OBVIOUS
<1> USE DEF RegistryInv, TypeOK
<1>1. IsFiniteSet(Charged)
  BY RegistryAssumption, FS_Subset DEF Charged
<1>2. ASSUME count' = count, Charged' = Charged PROVE Accounting'
  BY <1>2 DEF Accounting, SlotAccounting
<1>3. ASSUME NEW t \in Task, UNCHANGED <<entry, count>>, pc[t] # "removing",
             pc'[t] # "removing",
             \A u \in Task \ {t} : pc'[u] = pc[u] /\ target'[u] = target[u]
      PROVE  Accounting'
  <2>1. Charged' = Charged
    BY <1>3 DEF Charged
  <2> QED
    BY <1>2, <1>3, <2>1
<1>4. CASE UNCHANGED vars
  <2>1. Charged' = Charged
    BY <1>4 DEF vars, Charged
  <2> QED
    BY <1>2, <1>4, <2>1 DEF vars
<1>5. ASSUME NEW t \in Task, Call(t) PROVE Accounting'
  <2>1. UNCHANGED <<entry, count>> /\ pc[t] = "idle" /\ pc'[t] # "removing"
    BY <1>5 DEF Call, EnterCreate, DropEntry, EnterGet, CloneValue, DropCanonical, DropClone,
       AfterDrop, Upgraded, Return, Goto
  <2>2. \A u \in Task \ {t} : pc'[u] = pc[u] /\ target'[u] = target[u]
    BY <1>5 DEF Call, EnterCreate, DropEntry, EnterGet, CloneValue, DropCanonical, DropClone,
       AfterDrop, Upgraded, Return, Goto
  <2> QED
    BY <1>3, <2>1, <2>2
<1>6. ASSUME NEW t \in Task, CreateInner(t) \/ GetInner(t) \/ CreateFails(t) \/ Validate(t)
      PROVE  Accounting'
  <2>1. UNCHANGED <<entry, count>> /\ pc[t] # "removing" /\ pc'[t] # "removing"
    BY <1>6 DEF CreateInner, GetInner, CreateFails, Validate, AfterDrop, Upgraded, Return, Goto
  <2>2. \A u \in Task \ {t} : pc'[u] = pc[u] /\ target'[u] = target[u]
    BY <1>6 DEF CreateInner, GetInner, CreateFails, Validate, AfterDrop, Upgraded, Return, Goto
  <2> QED
    BY <1>3, <2>1, <2>2
<1>7. ASSUME NEW t \in Task, Replace(t) PROVE Accounting'
  <2>1. entry[target[t]] # Vacant /\ next # Vacant
    BY <1>7 DEF Replace, CallKnows, Knows
  <2>2. \A u \in Task : pc[u] = "removing" <=> pc'[u] = "removing"
    BY <1>7 DEF Replace, Return, Goto
  <2>3. \A u \in Task : pc[u] = "removing" => target'[u] = target[u]
    BY <1>7 DEF Replace, Return, Goto
  <2>4. \A i \in Id : entry'[i] # Vacant <=> entry[i] # Vacant
    BY <1>7, <2>1 DEF Replace, Install
  <2>5. Charged' = Charged
    BY <2>2, <2>3, <2>4 DEF Charged
  <2> QED
    BY <1>2, <1>7, <2>5 DEF Replace, TransferredCharge
<1>8. ASSUME NEW t \in Task, CreateVacant(t) PROVE Accounting'
  <2>1. entry[target[t]] = Vacant /\ next # Vacant
    BY <1>8 DEF CreateVacant, CallKnows, Knows
  <2>2. \A u \in Task : pc[u] = "removing" <=> pc'[u] = "removing"
    BY <1>8 DEF CreateVacant, Return, Goto
  <2>3. \A u \in Task : pc[u] = "removing" => target'[u] = target[u] /\ target[u] # target[t]
    BY <1>8 DEF CreateVacant, Return, Goto, LockDiscipline, HoldsEntry
  <2>4. CASE ~HasSlot
    <3>1. Charged' = Charged
      BY <1>8, <2>2, <2>3, <2>4 DEF CreateVacant, Charged
    <3> QED
      BY <1>2, <1>8, <2>4, <3>1 DEF CreateVacant
  <2>5. CASE HasSlot
    <3>1. entry' = [entry EXCEPT ![target[t]] = next] /\ count' = count + 1
      BY <1>8, <2>5 DEF CreateVacant, Install
    <3>2. Charged' = Charged \cup {target[t]} /\ target[t] \notin Charged
      BY <2>1, <2>2, <2>3, <3>1 DEF Charged
    <3>3. Cardinality(Charged') = Cardinality(Charged) + 1
      BY <1>1, <3>2, FS_AddElement
    <3> QED
      BY <2>5, <3>1, <3>3, RegistryAssumption DEF Accounting, SlotAccounting, HasSlot
  <2> QED
    BY <2>4, <2>5
<1>9. ASSUME NEW t \in Task, ReleaseSlot(t) PROVE Accounting'
  <2>1. CASE ~SameGeneration(target[t], working[t])
    <3>1. UNCHANGED <<entry, count>> /\ pc[t] # "removing" /\ pc'[t] # "removing"
      BY <1>9, <2>1 DEF ReleaseSlot, Return, Goto
    <3>2. \A u \in Task \ {t} : pc'[u] = pc[u] /\ target'[u] = target[u]
      BY <1>9, <2>1 DEF ReleaseSlot, Return, Goto
    <3> QED
      BY <1>3, <3>1, <3>2
  <2>2. CASE SameGeneration(target[t], working[t])
    <3>1. working[t] \in Generation /\ ~lock[target[t]]
      BY <1>9 DEF ReleaseSlot, CallKnows, Knows
    <3>2. target[t] \in Charged
      BY <2>2, <3>1, UnlockedCharged DEF SameGeneration, Generation
    <3>3. /\ count' = count - 1 /\ UNCHANGED <<entry, target>>
          /\ pc' = [pc EXCEPT ![t] = "removing"]
      BY <1>9, <2>2 DEF ReleaseSlot, Goto
    <3>4. Charged' = Charged \ {target[t]}
      BY <3>3 DEF Charged
    <3>5. Cardinality(Charged \ {target[t]}) = Cardinality(Charged) - 1
      BY <1>1, <3>2, OneLess
    <3>6. Cardinality(Charged') = Cardinality(Charged) - 1
      BY <3>4, <3>5
    <3> QED
      BY <3>3, <3>6, RegistryAssumption DEF Accounting, SlotAccounting
  <2> QED
    BY <2>1, <2>2
<1>10. ASSUME NEW t \in Task, RemoveEntry(t) PROVE Accounting'
  <2>1. /\ entry' = [entry EXCEPT ![target[t]] = Vacant] /\ count' = count
        /\ pc[t] = "removing" /\ pc' = [pc EXCEPT ![t] = "idle"]
    BY <1>10 DEF RemoveEntry, Return, Goto
  <2>2. \A u \in Task \ {t} : pc'[u] = pc[u] /\ target'[u] = target[u]
    BY <1>10 DEF RemoveEntry, Return, Goto
  <2>3. target[t] \notin Charged /\ target[t] \notin Charged'
    BY <2>1 DEF Charged
  <2>4. ASSUME NEW i \in Id, i # target[t] PROVE i \in Charged' <=> i \in Charged
    BY <2>1, <2>2, <2>4 DEF Charged
  <2>5. Charged' = Charged
    BY <2>3, <2>4 DEF Charged
  <2> QED
    BY <1>2, <2>1, <2>5
<1> QED
  BY <1>4, <1>5, <1>6, <1>7, <1>8, <1>9, <1>10 DEF Next, Continue

\* RegistryInv holds in every reachable state.
THEOREM RegistryInvariant == Spec => []RegistryInv
<1>1. RegistryInv /\ [Next]_vars => RegistryInv'
  BY TypeStep, LockStep, BirthStep, LiveStep, CallStep, AccountingStep DEF RegistryInv
<1> QED
  BY InitInv, <1>1, PTL DEF Spec

\* Every variable of the registry model keeps its type.
THEOREM RegistryTypeCorrect == Spec => []TypeOK
<1>1. RegistryInv => TypeOK
  BY DEF RegistryInv
<1> QED
  BY RegistryInvariant, <1>1, PTL

\* A live environment is the one its id is registered with: the destructor of an
\* earlier generation never removes the entry of a later one.
THEOREM LiveRegistered == Spec => []LiveIsRegistered
<1>1. RegistryInv => LiveIsRegistered
  BY DEF RegistryInv
<1> QED
  BY RegistryInvariant, <1>1, PTL

\* environment_count is the number of entries that nobody is removing.
THEOREM SlotsAccounted == Spec => []SlotAccounting
<1>1. RegistryInv => SlotAccounting
  BY DEF RegistryInv, Accounting
<1> QED
  BY RegistryInvariant, <1>1, PTL

\* No more than max_environments environments are alive at a time: each has its
\* own charged entry.
THEOREM LiveEnvironmentsBounded == Spec => []LiveBounded
<1>1. RegistryInv => LiveBounded
  <2> SUFFICES ASSUME RegistryInv PROVE LiveBounded
    OBVIOUS
  <2> DEFINE Live == {g \in Generation : Alive(g)}
             f == [g \in Live |-> idOf[g]]
  <2>1. IsFiniteSet(Charged)
    BY RegistryAssumption, FS_Subset DEF Charged
  <2>2. ASSUME NEW g \in Live PROVE idOf[g] \in Charged
    <3>1. idOf[g] \in Id /\ entry[idOf[g]] = g /\ g # Vacant
      BY DEF RegistryInv, TypeOK, LiveIsRegistered, Generation
    <3>2. ASSUME NEW t \in Task, pc[t] = "removing", target[t] = idOf[g] PROVE FALSE
      BY <3>1, <3>2 DEF RegistryInv, CallKnows, Knows
    <3> QED
      BY <3>1, <3>2 DEF Charged
  <2>3. f \in Injection(Live, Charged)
    <3>1. f \in [Live -> Charged]
      BY <2>2
    <3>2. ASSUME NEW g \in Live, NEW h \in Live, f[g] = f[h] PROVE g = h
      BY <3>2 DEF RegistryInv, LiveIsRegistered
    <3> QED
      BY <3>1, <3>2 DEF Injection, IsInjective
  <2>4. Cardinality(Live) <= Cardinality(Charged) /\ IsFiniteSet(Live)
    BY <2>1, <2>3, FS_Injection
  <2>5. Cardinality(Live) \in Nat /\ Cardinality(Charged) \in Nat
    BY <2>1, <2>4, FS_CardinalityType
  <2>6. Cardinality(Charged) <= MaxEnvironments
    BY DEF RegistryInv, Accounting, SlotAccounting
  <2>7. Cardinality(Live) <= MaxEnvironments
    BY <2>4, <2>5, <2>6, RegistryAssumption
  <2> QED
    BY <2>7 DEF LiveBounded
<1> QED
  BY RegistryInvariant, <1>1, PTL

\* environment_count is exact and the limit on live environments holds.
THEOREM SlotsAreSafe == Spec => []SlotsSafe
<1>1. SlotAccounting /\ LiveBounded => SlotsSafe
  BY DEF SlotsSafe
<1> QED
  BY SlotsAccounted, LiveEnvironmentsBounded, <1>1, PTL

-----------------------------------------------------------------------------
(* What a child may be given. *)

LEMMA CeilingFields ==
  /\ RetainedCeilings \subseteq Ceilings /\ QueueCeilings \subseteq Ceilings
  /\ RetainedCeilings = {"entries", "bytes"} /\ "fuel" \notin Ceilings /\ "cap" \notin Ceilings
BY DEF Ceilings, ResourceCeilings, QueueCeilings, HandleCeilings, RetainedCeilings, SqliteCeilings

\* What validate_child_config admits is no more than the parent has.
LEMMA ValidIsNoMore ==
  ASSUME NEW c \in Config, NEW p \in Config, ValidChild(c, p)
  PROVE  NoMoreThan(c, p)
<1>1. /\ RetainedFit(c, c) /\ c.caps \subseteq p.caps /\ (\A f \in Ceilings : c.lim[f] <= p.lim[f])
      /\ WithinFuel(c, p) /\ \A d \in c.dirs : CanDelegatePreopenDir(p, d)
  BY DEF ValidChild, RuntimeLimits, WithinCeilings
<1>2. Places(c) \subseteq Places(p)
  <2> SUFFICES ASSUME NEW d \in c.dirs PROVE Below[d] \subseteq Places(p)
    BY DEF Places
  <2>1. PICK e \in p.dirs : d \in Below[e]
    BY <1>1 DEF CanDelegatePreopenDir
  <2>2. d \in DOMAIN Below /\ e \in DOMAIN Below
    BY DEF Config
  <2>3. Below[d] \subseteq Below[e]
    BY <2>1, <2>2, HostConstants
  <2> QED  BY <2>3 DEF Places
<1>3. RetainedFit(c, p)
  <2> SUFFICES ASSUME NEW f \in RetainedCeilings PROVE c.used[f] <= p.lim[f]
    BY DEF RetainedFit
  <2>1. f \in Ceilings /\ c.used[f] \in Nat /\ c.lim[f] \in Nat /\ p.lim[f] \in Nat
    BY CeilingFields DEF Config
  <2>2. c.used[f] <= c.lim[f] /\ c.lim[f] <= p.lim[f]
    BY <1>1, <2>1 DEF RetainedFit
  <2> QED  BY <2>1, <2>2
<1>4. /\ (c.fuel = 0) => (p.fuel = 0)
      /\ (p.fuel # 0) => (c.fuel <= p.fuel)
  BY <1>1 DEF WithinFuel
<1> QED  BY <1>1, <1>2, <1>3, <1>4 DEF NoMoreThan

\* To have no more is transitive.
LEMMA NoMoreTransitive ==
  ASSUME NEW c \in Config, NEW b \in Config, NEW a \in Config, NoMoreThan(c, b), NoMoreThan(b, a)
  PROVE  NoMoreThan(c, a)
<1>1. c.caps \subseteq a.caps /\ Places(c) \subseteq Places(a)
  BY DEF NoMoreThan
<1>2. ASSUME NEW f \in Ceilings PROVE c.lim[f] <= a.lim[f]
  <2>1. c.lim[f] \in Nat /\ b.lim[f] \in Nat /\ a.lim[f] \in Nat
    BY <1>2 DEF Config
  <2>2. c.lim[f] <= b.lim[f] /\ b.lim[f] <= a.lim[f]
    BY <1>2 DEF NoMoreThan
  <2> QED  BY <2>1, <2>2
<1>3. ASSUME NEW f \in RetainedCeilings PROVE c.used[f] <= a.lim[f]
  <2>1. f \in Ceilings /\ c.used[f] \in Nat /\ b.lim[f] \in Nat /\ a.lim[f] \in Nat
    BY <1>3, CeilingFields DEF Config
  <2>2. c.used[f] <= b.lim[f] /\ b.lim[f] <= a.lim[f]
    BY <1>3, <2>1 DEF NoMoreThan, RetainedFit
  <2> QED  BY <2>1, <2>2
<1>4. /\ (c.fuel = 0) => (a.fuel = 0)
      /\ (a.fuel # 0) => (c.fuel <= a.fuel)
  <2>1. c.fuel \in Nat /\ b.fuel \in Nat /\ a.fuel \in Nat
    BY DEF Config
  <2> QED  BY <2>1 DEF NoMoreThan
<1> QED  BY <1>1, <1>2, <1>3, <1>4 DEF NoMoreThan, RetainedFit

\* Whoever has no more than its parent, and so on, has no more than any ancestor.
LEMMA DelegatedAttenuates ==
  ASSUME HostInv
  PROVE  Attenuation
<1> SUFFICES ASSUME NEW p \in Created, NEW a \in Ancestors(p) PROVE NoMoreThan(conf[p], conf[a])
  BY DEF Attenuation
<1>1. /\ conf \in [Procs -> Config \cup {None}] /\ parent \in [Procs -> Procs \cup {Nobody}] /\ Delegated
      /\ Created \subseteq Procs /\ \A q \in Created : conf[q] \in Config
  BY DEF HostInv, HostTypeOK, Created
<1> DEFINE line == {q \in Created : NoMoreThan(conf[p], conf[q])}
<1>2. ASSUME NEW q \in line \cup {p} PROVE parent[q] \in line \cup {Nobody}
  <2>1. q \in Created /\ parent[q] \in Procs \cup {Nobody}
    BY <1>1
  <2>2. SUFFICES ASSUME parent[q] # Nobody PROVE parent[q] \in line
    OBVIOUS
  <2>3. parent[q] \in Created /\ NoMoreThan(conf[q], conf[parent[q]])
    BY <1>1, <2>1, <2>2 DEF Delegated
  <2>4. CASE q = p
    BY <2>3, <2>4
  <2>5. CASE q \in line
    <3>1. NoMoreThan(conf[p], conf[q]) /\ conf[p] \in Config /\ conf[q] \in Config /\ conf[parent[q]] \in Config
      BY <1>1, <2>1, <2>3, <2>5
    <3> QED  BY <2>3, <3>1, NoMoreTransitive
  <2> QED  BY <2>4, <2>5
<1>3. line \in SUBSET Procs
  BY <1>1
<1>4. a \in line
  BY <1>2, <1>3 DEF Ancestors
<1> QED  BY <1>4

-----------------------------------------------------------------------------
(* The steps. *)

\* Configurations that a setter makes are configurations.
LEMMA EditedConfigs ==
  ASSUME NEW c \in Config
  PROVE  /\ NewChildConfig(c) \in Config
         /\ \A v \in Nat : SetMaxFuel(c, v) \in Config
         /\ \A cap \in Capabilities : SetCapability(c, cap) \in Config
         /\ \A f \in Ceilings, v \in Nat : SetCeiling(c, f, v) \in Config
         /\ \A size \in Nat : [c EXCEPT !.used = Grown(@, size)] \in Config
         /\ \A d \in Dirs : [c EXCEPT !.dirs = @ \cup {d}, !.used = Grown(@, 1)] \in Config
<1>1. NewChildConfig(c) \in Config
  BY DEF NewChildConfig, Config
<1>2. \A v \in Nat : SetMaxFuel(c, v) \in Config
  BY DEF SetMaxFuel, Config
<1>3. \A cap \in Capabilities : SetCapability(c, cap) \in Config
  BY DEF SetCapability, Config
<1>4. ASSUME NEW f \in Ceilings, NEW v \in Nat PROVE SetCeiling(c, f, v) \in Config
  <2>1. c.lim \in [Ceilings -> Nat]
    BY DEF Config
  <2>2. [c.lim EXCEPT ![f] = v] \in [Ceilings -> Nat]
    BY <2>1, <1>4
  <2>3. SetCeiling(c, f, v) = [c EXCEPT !.lim = [c.lim EXCEPT ![f] = v]]
    BY DEF SetCeiling
  <2> QED  BY <2>2, <2>3 DEF Config
<1>5. \A size \in Nat : Grown(c.used, size) \in [RetainedCeilings -> Nat]
  <2>1. RetainedCeilings = {"entries", "bytes"}
    BY CeilingFields
  <2>2. c.used \in [RetainedCeilings -> Nat]
    BY DEF Config
  <2>3. c.used["entries"] \in Nat /\ c.used["bytes"] \in Nat
    BY <2>1, <2>2
  <2> QED  BY <2>1, <2>3 DEF Grown
<1>6. \A size \in Nat : [c EXCEPT !.used = Grown(@, size)] \in Config
  BY <1>5 DEF Config
<1>7. ASSUME NEW d \in Dirs PROVE [c EXCEPT !.dirs = @ \cup {d}, !.used = Grown(@, 1)] \in Config
  <2>1. c.dirs \cup {d} \in SUBSET DOMAIN Below
    BY HostConstants DEF Config
  <2>2. Grown(c.used, 1) \in [RetainedCeilings -> Nat]
    BY <1>5
  <2> QED  BY <2>1, <2>2 DEF Config
<1> QED  BY <1>1, <1>2, <1>3, <1>4, <1>6, <1>7

LEMMA NoneIsNoConfig == None \notin Config
BY DEF None, Config

LEMMA HostInitInv ==
  ASSUME HostInit
  PROVE  HostInv
<1>1. 1 \in Procs /\ Nobody \notin Procs /\ Root \in Config /\ Root # None
  BY NoneIsNoConfig, HostConstants DEF Procs, Nobody
<1>2. Idle \in CallRecords /\ Idle.op = "none"
  BY DEF Idle, CallRecords, Nobody
<1>3. HostTypeOK
  BY <1>1, <1>2 DEF HostInit, HostTypeOK
<1>4. ActorsExist /\ Delegated
  BY <1>1, <1>2 DEF HostInit, ActorsExist, Delegated, Created
<1> QED  BY <1>3, <1>4 DEF HostInv

\* A step that gives nobody a configuration.
LEMMA ConfigsStay ==
  ASSUME HostInv, UNCHANGED <<conf, parent>>, alive' \subseteq alive,
         table' \in [Procs -> [Handles -> Config \cup {None}]],
         call' \in [Procs -> CallRecords],
         \A p \in Procs : call'[p].op # "none" => p \in Created
  PROVE  HostInv'
<1>1. Created' = Created
  BY DEF Created
<1>2. HostTypeOK'
  BY DEF HostInv, HostTypeOK
<1>3. ActorsExist'
  BY <1>1 DEF HostInv, ActorsExist
<1>4. Delegated'
  BY <1>1 DEF HostInv, Delegated
<1> QED  BY <1>2, <1>3, <1>4 DEF HostInv

\* A step that creates process n below p with configuration c.
LEMMA ConfigGiven ==
  ASSUME HostInv, NEW p \in Created, NEW n \in Procs \ Created, NEW c \in Config,
         ValidChild(c, conf[p]),
         conf' = [conf EXCEPT ![n] = c], parent' = [parent EXCEPT ![n] = p],
         alive' \subseteq alive \cup {n}, table' = table,
         call' \in [Procs -> CallRecords],
         \A q \in Procs : call'[q].op # "none" => q \in Created \cup {n}
  PROVE  HostInv'
<1>1. /\ conf \in [Procs -> Config \cup {None}] /\ parent \in [Procs -> Procs \cup {Nobody}]
      /\ alive \subseteq Procs /\ p \in Procs /\ n \in Procs /\ conf[p] \in Config /\ c # None
  BY NoneIsNoConfig DEF HostInv, HostTypeOK, Created
<1>2. Created' = Created \cup {n}
  BY <1>1 DEF Created
<1>3. HostTypeOK'
  BY <1>1 DEF HostInv, HostTypeOK
<1>4. ActorsExist'
  BY <1>2 DEF HostInv, ActorsExist
<1>5. Delegated'
  <2> SUFFICES ASSUME NEW q \in Created', parent'[q] # Nobody
               PROVE  parent'[q] \in Created' /\ NoMoreThan(conf'[q], conf'[parent'[q]])
    BY DEF Delegated
  <2>1. CASE q = n
    <3>1. parent'[q] = p /\ conf'[q] = c /\ conf'[p] = conf[p]
      BY <1>1, <2>1 DEF Created
    <3> QED  BY <1>1, <1>2, <3>1, ValidIsNoMore
  <2>2. CASE q # n
    <3>1. q \in Created /\ q \in Procs /\ parent'[q] = parent[q] /\ conf'[q] = conf[q]
      BY <1>1, <1>2, <2>2 DEF Created
    <3>2. parent[q] \in Created /\ NoMoreThan(conf[q], conf[parent[q]])
      BY <3>1 DEF HostInv, Delegated
    <3>3. conf'[parent[q]] = conf[parent[q]]
      BY <1>1, <3>2 DEF Created
    <3> QED  BY <1>2, <3>1, <3>2, <3>3
  <2> QED  BY <2>1, <2>2
<1> QED  BY <1>3, <1>4, <1>5 DEF HostInv

\* What the invariant says of the records of calls, in the words of the steps.
LEMMA CallFacts ==
  ASSUME HostInv
  PROVE  /\ call \in [Procs -> CallRecords] /\ table \in [Procs -> [Handles -> Config \cup {None}]]
         /\ conf \in [Procs -> Config \cup {None}] /\ parent \in [Procs -> Procs \cup {Nobody}]
         /\ Idle \in CallRecords /\ Idle.op = "none" /\ alive \subseteq Procs
         /\ \A p \in Procs : (p \in alive \/ call[p].op # "none") => p \in Created /\ conf[p] \in Config
         /\ \A p \in Created : p \in Procs /\ (parent[p] # Nobody => parent[p] \in Created)
BY DEF HostInv, HostTypeOK, ActorsExist, Delegated, Created, Idle, CallRecords, Nobody

\* The changes of a table of configurations.
LEMMA TableSteps ==
  ASSUME HostInv, NEW p \in Procs,
         CreateConfig(p) \/ DropConfig(p) \/ ConfigSet(p) \/ AddEntry(p) \/ PreopenDir(p)
  PROVE  HostInv'
<1>1. p \in Created /\ conf[p] \in Config
  BY CallFacts DEF CreateConfig, DropConfig, ConfigSet, AddEntry, PreopenDir, Running
<1>2. UNCHANGED <<alive, conf, parent, call>>
  BY DEF CreateConfig, DropConfig, ConfigSet, AddEntry, PreopenDir, MutateChildConfig, procs
<1>3. PICK h \in Handles, c \in Config \cup {None} : table' = [table EXCEPT ![p][h] = c]
  <2>1. CASE CreateConfig(p)
    BY <1>1, <2>1, EditedConfigs DEF CreateConfig
  <2>2. CASE DropConfig(p)
    BY <2>2 DEF DropConfig
  <2>3. CASE ConfigSet(p)
    <3>1. PICK h \in Handles, s \in Settings :
            /\ table[p][h] # None
            /\ MutateChildConfig(p, h,
                 CASE s[1] = "fuel" -> SetMaxFuel(table[p][h], s[2])
                   [] s[1] = "cap" -> SetCapability(table[p][h], s[2])
                   [] OTHER -> SetCeiling(table[p][h], s[1], s[2]))
      BY <2>3 DEF ConfigSet
    <3>2. table[p][h] \in Config
      BY <3>1, CallFacts
    <3>3. \/ s[1] = "fuel" /\ s[2] \in Nat
          \/ s[1] = "cap" /\ s[2] \in Capabilities
          \/ s[1] \in Ceilings /\ s[2] \in Nat /\ s[1] # "fuel" /\ s[1] # "cap"
      BY CeilingFields, HostConstants
    <3>4. CASE s[1] = "fuel" /\ s[2] \in Nat
      <4>1. table' = [table EXCEPT ![p][h] = SetMaxFuel(table[p][h], s[2])]
        BY <3>1, <3>4 DEF MutateChildConfig
      <4> QED  BY <3>2, <3>4, <4>1, EditedConfigs
    <3>5. CASE s[1] = "cap" /\ s[2] \in Capabilities
      <4>1. table' = [table EXCEPT ![p][h] = SetCapability(table[p][h], s[2])]
        BY <3>1, <3>5 DEF MutateChildConfig
      <4> QED  BY <3>2, <3>5, <4>1, EditedConfigs
    <3>6. CASE s[1] \in Ceilings /\ s[2] \in Nat /\ s[1] # "fuel" /\ s[1] # "cap"
      <4>1. table' = [table EXCEPT ![p][h] = SetCeiling(table[p][h], s[1], s[2])]
        BY <3>1, <3>6 DEF MutateChildConfig
      <4> QED  BY <3>2, <3>6, <4>1, EditedConfigs
    <3> QED  BY <3>3, <3>4, <3>5, <3>6
  <2>4. CASE AddEntry(p)
    <3>1. PICK h \in Handles, size \in 1..2 :
            table[p][h] # None /\ MutateChildConfig(p, h, [table[p][h] EXCEPT !.used = Grown(@, size)])
      BY <2>4 DEF AddEntry
    <3>2. table[p][h] \in Config /\ size \in Nat
      BY <3>1, CallFacts
    <3>3. table' = [table EXCEPT ![p][h] = [table[p][h] EXCEPT !.used = Grown(@, size)]]
      BY <3>1 DEF MutateChildConfig
    <3>4. [table[p][h] EXCEPT !.used = Grown(@, size)] \in Config
      BY <3>2, EditedConfigs
    <3> QED  BY <3>3, <3>4
  <2>5. CASE PreopenDir(p)
    <3>1. PICK h \in Handles, d \in Dirs :
            /\ table[p][h] # None
            /\ MutateChildConfig(p, h, [table[p][h] EXCEPT !.dirs = @ \cup {d}, !.used = Grown(@, 1)])
      BY <2>5 DEF PreopenDir
    <3>2. table[p][h] \in Config
      BY <3>1, CallFacts
    <3>3. table' = [table EXCEPT ![p][h] = [table[p][h] EXCEPT !.dirs = @ \cup {d}, !.used = Grown(@, 1)]]
      BY <3>1 DEF MutateChildConfig
    <3>4. [table[p][h] EXCEPT !.dirs = @ \cup {d}, !.used = Grown(@, 1)] \in Config
      BY <3>2, EditedConfigs
    <3> QED  BY <3>3, <3>4
  <2> QED  BY <2>1, <2>2, <2>3, <2>4, <2>5
<1>4. table' \in [Procs -> [Handles -> Config \cup {None}]]
  BY <1>3, CallFacts
<1> QED  BY <1>2, <1>4, CallFacts, ConfigsStay

\* The steps of a call that creates no process, and what neither table nor call sees.
LEMMA CallSteps ==
  ASSUME HostInv, NEW p \in Procs,
         \/ CompileModule(p) \/ DropModule(p) \/ StartSection(p) \/ StartSectionCall(p)
         \/ SpawnReturns(p) \/ Found(p) \/ NamedReturns(p)
         \/ \E n \in Names, h \in Handles \cup {0} : GetOrSpawn(p, n, h)
         \/ \E n \in Names : LocalRemove(p, n) \/ \E q \in Procs \cup {Remote} : LocalPut(p, n, q)
  PROVE  HostInv'
<1>1. UNCHANGED <<alive, conf, parent, table>>
  BY DEF CompileModule, DropModule, StartSection, StartSectionCall, SpawnReturns, Found, NamedReturns,
         GetOrSpawn, LocalRemove, LocalPut, procs, tables
<1>2. /\ call' \in [Procs -> CallRecords]
      /\ \A q \in Procs : call'[q].op # "none" => q \in Created
  <2>1. CASE UNCHANGED call
    BY <2>1, CallFacts
  <2>2. CASE p \in Created /\ \E op \in {"initlock", "initdone"} : call' = [call EXCEPT ![p].op = op]
    <3>1. PICK op \in {"initlock", "initdone"} : call' = [call EXCEPT ![p].op = op]
      BY <2>2
    <3>2. [call[p] EXCEPT !.op = op] \in CallRecords
      BY CallFacts DEF CallRecords
    <3> QED  BY <2>2, <3>1, <3>2, CallFacts
  <2>3. CASE call' = [call EXCEPT ![p] = Idle]
    BY <2>3, CallFacts
  <2>4. CASE \E n \in Names, h \in Handles \cup {0} : GetOrSpawn(p, n, h)
    <3>1. PICK n \in Names, h \in Handles \cup {0} : GetOrSpawn(p, n, h)
      BY <2>4
    <3>2. [Idle EXCEPT !.op = "lock", !.name = n, !.handle = h] \in CallRecords
      BY CallFacts DEF CallRecords
    <3>3. p \in Created /\ call' = [call EXCEPT ![p] = [Idle EXCEPT !.op = "lock", !.name = n, !.handle = h]]
      BY <3>1, CallFacts DEF GetOrSpawn, Running
    <3> QED  BY <3>2, <3>3, CallFacts
  <2>5. CASE StartSection(p) \/ StartSectionCall(p)
    <3>1. p \in Created
      BY <2>5, CallFacts DEF StartSection, StartSectionCall
    <3> QED  BY <2>2, <2>5, <3>1 DEF StartSection, StartSectionCall
  <2> QED
    BY <2>1, <2>3, <2>4, <2>5
    DEF CompileModule, DropModule, SpawnReturns, Found, NamedReturns, LocalRemove, LocalPut
<1>3. table' \in [Procs -> [Handles -> Config \cup {None}]] /\ alive' \subseteq alive
  BY <1>1, CallFacts
<1> QED  BY <1>1, <1>2, <1>3, ConfigsStay

\* What a spawn gives its child is a configuration the parent may give.
LEMMA ChosenConfig ==
  ASSUME HostInv, NEW p \in Created, NEW h \in Handles \cup {0}, MaySpawn(p, h)
  PROVE  Chosen(p, h) \in Config /\ ValidChild(Chosen(p, h), conf[p])
<1>1. ValidChild(Chosen(p, h), conf[p]) /\ Chosen(p, h) # None
  BY DEF MaySpawn
<1>2. Chosen(p, h) \in Config \cup {None}
  <2>1. p \in Procs /\ conf[p] \in Config \cup {None}
    BY CallFacts
  <2>2. h # 0 => table[p][h] \in Config \cup {None}
    BY <2>1, CallFacts
  <2> QED  BY <2>1, <2>2 DEF Chosen
<1> QED  BY <1>1, <1>2

\* A spawn publishes its child before the instantiation.
LEMMA BeginStep ==
  ASSUME HostInv, NEW p \in Created, NEW h \in Handles \cup {0}, NEW op \in {"spawn", "named"},
         NEW name \in Names \cup {""}, MaySpawn(p, h), Begin(p, h, op, name)
  PROVE  HostInv'
<1>1. PICK n \in Procs \ Created :
        /\ alive' = alive \cup {n} /\ conf' = [conf EXCEPT ![n] = Chosen(p, h)]
        /\ parent' = [parent EXCEPT ![n] = p]
        /\ call' = [call EXCEPT ![n] = [Idle EXCEPT !.op = "init"],
                                ![p] = [Idle EXCEPT !.op = op, !.name = name, !.child = n]]
  BY DEF Begin
<1>2. Chosen(p, h) \in Config /\ ValidChild(Chosen(p, h), conf[p])
  BY ChosenConfig
<1>3. [Idle EXCEPT !.op = "init"] \in CallRecords /\ [Idle EXCEPT !.op = op, !.name = name, !.child = n] \in CallRecords
  BY CallFacts DEF CallRecords
<1>4. call' \in [Procs -> CallRecords] /\ \A q \in Procs : call'[q].op # "none" => q \in Created \cup {n}
  <2>1. call \in [Procs -> CallRecords] /\ p \in Procs /\ n \in Procs
    BY CallFacts
  <2>2. ASSUME NEW q \in Procs
        PROVE  /\ q # n /\ q # p => call'[q] = call[q]
               /\ q = p => call'[q] = [Idle EXCEPT !.op = op, !.name = name, !.child = n]
               /\ q = n => call'[q] = [Idle EXCEPT !.op = "init"]
    BY <1>1, <2>1
  <2>3. call' \in [Procs -> CallRecords]
    BY <1>1, <1>3, <2>1
  <2>4. \A q \in Procs : call[q].op # "none" => q \in Created
    BY CallFacts
  <2> QED  BY <2>2, <2>3, <2>4
<1>5. table' = table
  BY DEF Begin, tables
<1> QED  BY <1>1, <1>2, <1>4, <1>5, ConfigGiven

\* The births: spawn, get_or_spawn and the spawn on another node.
LEMMA BirthSteps ==
  ASSUME HostInv, NEW p \in Procs,
         \/ \E h \in Handles \cup {0} : Spawn(p, h) \/ RemoteSpawn(p, h)
         \/ SpawnNamed(p)
  PROVE  HostInv'
<1>1. ASSUME NEW h \in Handles \cup {0}, Spawn(p, h) PROVE HostInv'
  <2>1. p \in Created /\ MaySpawn(p, h) /\ Begin(p, h, "spawn", "")
    BY <1>1, CallFacts DEF Spawn, Running
  <2> QED  BY <2>1, BeginStep
<1>2. ASSUME NEW h \in Handles \cup {0}, RemoteSpawn(p, h) PROVE HostInv'
  <2>1. p \in Created /\ MaySpawn(p, h) /\ UNCHANGED <<alive, table, call>>
    BY <1>2, CallFacts DEF RemoteSpawn, Running, tables
  <2>2. PICK n \in Procs \ Created :
          conf' = [conf EXCEPT ![n] = Chosen(p, h)] /\ parent' = [parent EXCEPT ![n] = p]
    BY <1>2 DEF RemoteSpawn
  <2>3. Chosen(p, h) \in Config /\ ValidChild(Chosen(p, h), conf[p])
    BY <2>1, ChosenConfig
  <2>4. call' \in [Procs -> CallRecords] /\ \A q \in Procs : call'[q].op # "none" => q \in Created \cup {n}
    BY <2>1, CallFacts
  <2> QED  BY <2>1, <2>2, <2>3, <2>4, ConfigGiven
<1>3. ASSUME SpawnNamed(p) PROVE HostInv'
  <2>1. p \in Created /\ call[p].name \in Names \cup {""} /\ call[p].handle \in Handles \cup {0}
    <3>1. call[p].op = "lock" /\ call[p] \in CallRecords
      BY <1>3, CallFacts DEF SpawnNamed
    <3> QED  BY <3>1, CallFacts DEF CallRecords
  <2>2. \/ MaySpawn(p, call[p].handle) /\ Begin(p, call[p].handle, "named", call[p].name)
        \/ call' = [call EXCEPT ![p] = Idle] /\ UNCHANGED <<procs, tables>>
    BY <1>3 DEF SpawnNamed
  <2>3. CASE MaySpawn(p, call[p].handle) /\ Begin(p, call[p].handle, "named", call[p].name)
    BY <2>1, <2>3, BeginStep
  <2>4. CASE call' = [call EXCEPT ![p] = Idle] /\ UNCHANGED <<procs, tables>>
    <3>1. /\ call' \in [Procs -> CallRecords] /\ \A q \in Procs : call'[q].op # "none" => q \in Created
          /\ UNCHANGED <<alive, conf, parent, table>>
      BY <2>4, CallFacts DEF procs, tables
    <3> QED  BY <3>1, CallFacts, ConfigsStay
  <2> QED  BY <2>2, <2>3, <2>4
<1> QED  BY <1>1, <1>2, <1>3

\* The end of an instantiation and the deaths: calls end, and processes stay created.
LEMMA EndSteps ==
  ASSUME HostInv, NEW p \in Procs,
         Instantiated(p) \/ InstantiateFails(p) \/ Exit(p) \/ KilledInCall(p)
  PROVE  HostInv'
<1>1. ASSUME Instantiated(p) PROVE HostInv'
  <2>1. /\ p \in Created /\ parent[p] \in Procs \cup {Nobody} /\ (parent[p] # Nobody => parent[p] \in Created)
        /\ UNCHANGED <<alive, conf, parent, table>>
    BY <1>1, CallFacts DEF Instantiated, Initialising, procs, tables
  <2> DEFINE first == [call EXCEPT ![p] = Idle]
             q == parent[p]
  <2>2. PICK back \in {"namedback", "spawnback"} : call' = [call EXCEPT ![p] = Idle, ![q].op = back]
    BY <1>1 DEF Instantiated
  <2>3. first \in [Procs -> CallRecords] /\ \A r \in Procs : first[r].op # "none" => r \in Created
    BY CallFacts
  <2>4. call' = [first EXCEPT ![q].op = back]
    BY <2>2
  <2> HIDE DEF first
  <2>5. CASE q \in Procs
    <3>1. [first[q] EXCEPT !.op = back] \in CallRecords
      <4>1. first[q] \in CallRecords
        BY <2>3, <2>5
      <4> QED  BY <4>1 DEF CallRecords
    <3>2. q \in Created
      BY <2>1, <2>5, HostConstants DEF Procs, Nobody
    <3>3. call' = [first EXCEPT ![q] = [first[q] EXCEPT !.op = back]]
      BY <2>4
    <3>4. call' \in [Procs -> CallRecords] /\ \A r \in Procs : call'[r].op # "none" => r \in Created
      BY <2>3, <3>1, <3>2, <3>3
    <3> QED  BY <2>1, <3>4, CallFacts, ConfigsStay
  <2>6. CASE q \notin Procs
    <3>1. call' = first
      BY <2>3, <2>4, <2>6
    <3> QED  BY <2>1, <2>3, <3>1, CallFacts, ConfigsStay
  <2> QED  BY <2>5, <2>6
<1>2. ASSUME InstantiateFails(p) PROVE HostInv'
  <2>1. /\ UNCHANGED <<conf, parent, table>> /\ alive' \subseteq alive
        /\ call' = [call EXCEPT ![p] = Idle, ![parent[p]] = Idle]
    BY <1>2 DEF InstantiateFails, tables
  <2>2. call' \in [Procs -> CallRecords] /\ \A r \in Procs : call'[r].op # "none" => r \in Created
    BY <2>1, CallFacts
  <2> QED  BY <2>1, <2>2, CallFacts, ConfigsStay
<1>3. ASSUME NEW killed, Gone(p, killed) PROVE HostInv'
  <2>1. /\ UNCHANGED <<conf, parent>> /\ alive' \subseteq alive
        /\ table' = [table EXCEPT ![p] = [h \in Handles |-> None]]
        /\ call' = [q \in Procs |-> IF q \in killed THEN Idle ELSE call[q]]
    BY <1>3 DEF Gone
  <2>2. call' \in [Procs -> CallRecords] /\ \A r \in Procs : call'[r].op # "none" => r \in Created
    BY <2>1, CallFacts
  <2>3. table' \in [Procs -> [Handles -> Config \cup {None}]]
    BY <2>1, CallFacts
  <2> QED  BY <2>1, <2>2, <2>3, ConfigsStay
<1> QED  BY <1>1, <1>2, <1>3 DEF Exit, KilledInCall

LEMMA HostStep ==
  ASSUME HostInv, [HostNext]_hostVars
  PROVE  HostInv'
<1>1. CASE HostNext
  <2>1. PICK p \in Procs : Step(p) \/ Progress(p) \/ StartSection(p) \/ InstantiateFails(p)
    BY <1>1 DEF HostNext
  <2>2. CASE Step(p)
    BY <2>2, TableSteps, CallSteps, BirthSteps, EndSteps DEF Step
  <2>3. CASE Progress(p)
    BY <2>3, CallSteps, BirthSteps, EndSteps DEF Progress
  <2>4. CASE StartSection(p) \/ InstantiateFails(p)
    BY <2>4, CallSteps, EndSteps
  <2> QED  BY <2>1, <2>2, <2>3, <2>4
<1>2. CASE UNCHANGED hostVars
  <2>1. UNCHANGED <<alive, conf, parent, table, call>>
    BY <1>2 DEF hostVars, procs, tables
  <2> QED  BY <2>1, CallFacts, ConfigsStay
<1> QED  BY <1>1, <1>2

\* No process, here or on another node, ever has more than any of its ancestors, however
\* the configurations in between were created, changed and delegated.
THEOREM NobodyHasMoreThanAnAncestor == HostSpec => []Attenuation
<1>1. HostInit => HostInv
  BY HostInitInv
<1>2. HostInv /\ [HostNext]_hostVars => HostInv'
  BY HostStep
<1>3. HostInv => Attenuation
  BY DelegatedAttenuates
<1> QED  BY <1>1, <1>2, <1>3, PTL DEF HostSpec

-----------------------------------------------------------------------------
(* One process per name. *)

\* A step that leaves the registry alone, and the call of whoever creates a named process
\* unless it ends.
LEMMA NamesStay ==
  ASSUME HostInv, HostInv', NamesInv, UNCHANGED <<localRegistry, named>>,
         Created \subseteq Created', alive' \cap Created \subseteq alive,
         \A p \in Procs : call'[p].op = "lock" => call'[p].name \in Names,
         \A p \in Procs : Naming(p)' =>
             Naming(p) /\ call'[p].name = call[p].name /\ call'[p].child = call[p].child /\ registryLock' = p
  PROVE  NamesInv'
<1>1. NamesTyped'
  <2>1. \A p \in Procs : call'[p].op \in {"lock", "named", "namedback"} => call'[p].name \in Names
    BY DEF NamesInv, NamesTyped, Naming
  <2>2. named' \in [Names -> SUBSET Created']
    BY DEF NamesInv, NamesTyped
  <2> QED  BY <2>1, <2>2 DEF NamesInv, NamesTyped
<1>2. LockHeld'
  BY DEF NamesInv, LockHeld
<1>3. EntryIsCurrent'
  BY DEF NamesInv, NamesTyped, EntryIsCurrent
<1> QED  BY <1>1, <1>2, <1>3 DEF NamesInv

LEMMA NamesInit ==
  ASSUME HostInit
  PROVE  NamesInv
<1>1. \A p \in Procs : call[p].op = "none"
  BY DEF HostInit, Idle
<1>2. NamesTyped
  BY <1>1 DEF HostInit, NamesTyped
<1>3. LockHeld /\ EntryIsCurrent
  BY <1>1 DEF HostInit, LockHeld, Naming, EntryIsCurrent
<1> QED  BY <1>2, <1>3 DEF NamesInv

\* The processes that were created stay created.
LEMMA CreatedStay ==
  ASSUME HostInv, [HostNext]_hostVars
  PROVE  Created \subseteq Created' /\ alive' \cap Created \subseteq alive
<1>1. conf \in [Procs -> Config \cup {None}]
  BY CallFacts
<1>2. CASE UNCHANGED conf /\ alive' \subseteq alive
  BY <1>2 DEF Created
<1>3. CASE \E n \in Procs \ Created, c \in Config : conf' = [conf EXCEPT ![n] = c] /\ alive' \subseteq alive \cup {n}
  BY <1>1, <1>3 DEF Created
<1>4. ASSUME NEW p \in Procs, NEW h, NEW op, NEW name, Begin(p, h, op, name), Chosen(p, h) \in Config
      PROVE  \E n \in Procs \ Created, c \in Config : conf' = [conf EXCEPT ![n] = c] /\ alive' \subseteq alive \cup {n}
  BY <1>4 DEF Begin
<1>5. ASSUME NEW p \in Procs, \E h \in Handles \cup {0} : Spawn(p, h) \/ RemoteSpawn(p, h)
      PROVE  \E n \in Procs \ Created, c \in Config : conf' = [conf EXCEPT ![n] = c] /\ alive' \subseteq alive \cup {n}
  <2>1. PICK h \in Handles \cup {0} : Spawn(p, h) \/ RemoteSpawn(p, h)
    BY <1>5
  <2>2. p \in Created /\ MaySpawn(p, h)
    BY <2>1, CallFacts DEF Spawn, RemoteSpawn, Running
  <2>3. Chosen(p, h) \in Config
    BY <2>2, ChosenConfig
  <2>4. CASE Spawn(p, h)
    BY <1>4, <2>3, <2>4 DEF Spawn
  <2>5. CASE RemoteSpawn(p, h)
    BY <2>3, <2>5 DEF RemoteSpawn
  <2> QED  BY <2>1, <2>4, <2>5
<1>6. ASSUME NEW p \in Procs, SpawnNamed(p)
      PROVE  \/ UNCHANGED conf /\ alive' \subseteq alive
             \/ \E n \in Procs \ Created, c \in Config : conf' = [conf EXCEPT ![n] = c] /\ alive' \subseteq alive \cup {n}
  <2>1. CASE UNCHANGED procs
    BY <2>1 DEF procs
  <2>2. CASE MaySpawn(p, call[p].handle) /\ Begin(p, call[p].handle, "named", call[p].name)
    <3>1. call[p].op = "lock" /\ call[p] \in CallRecords
      BY <1>6, CallFacts DEF SpawnNamed
    <3>2. p \in Created /\ call[p].handle \in Handles \cup {0}
      BY <3>1, CallFacts DEF CallRecords
    <3> QED  BY <1>4, <2>2, <3>2, ChosenConfig
  <2> QED  BY <1>6, <2>1, <2>2 DEF SpawnNamed
<1>7. ASSUME NEW p \in Procs, NEW killed, Gone(p, killed) PROVE UNCHANGED conf /\ alive' \subseteq alive
  BY <1>7 DEF Gone
<1>8. ASSUME NEW p \in Procs, Instantiated(p) \/ InstantiateFails(p) PROVE UNCHANGED conf /\ alive' \subseteq alive
  BY <1>8 DEF Instantiated, InstantiateFails, procs
<1>9. ASSUME UNCHANGED procs PROVE UNCHANGED conf /\ alive' \subseteq alive
  BY <1>9 DEF procs
<1>10. ASSUME NEW p \in Procs,
              \/ CreateConfig(p) \/ DropConfig(p) \/ ConfigSet(p) \/ AddEntry(p) \/ PreopenDir(p)
              \/ CompileModule(p) \/ DropModule(p) \/ StartSection(p) \/ StartSectionCall(p)
              \/ SpawnReturns(p) \/ Found(p) \/ NamedReturns(p)
              \/ \E n \in Names, h \in Handles \cup {0} : GetOrSpawn(p, n, h)
              \/ \E n \in Names : LocalRemove(p, n) \/ \E q \in Procs \cup {Remote} : LocalPut(p, n, q)
       PROVE  UNCHANGED conf /\ alive' \subseteq alive
  BY <1>9, <1>10
  DEF CreateConfig, DropConfig, ConfigSet, AddEntry, PreopenDir, MutateChildConfig, CompileModule, DropModule,
      StartSection, StartSectionCall, SpawnReturns, Found, NamedReturns, GetOrSpawn, LocalRemove, LocalPut
<1>11. CASE UNCHANGED hostVars
  BY <1>2, <1>9, <1>11 DEF hostVars
<1>12. CASE HostNext
  <2>1. PICK p \in Procs : Step(p) \/ Progress(p) \/ StartSection(p) \/ InstantiateFails(p)
    BY <1>12 DEF HostNext
  <2>2. CASE Step(p)
    BY <1>2, <1>3, <1>5, <1>7, <1>10, <2>2 DEF Step, Exit, KilledInCall
  <2>3. CASE Progress(p)
    BY <1>2, <1>3, <1>6, <1>8, <1>10, <2>3 DEF Progress
  <2> QED  BY <1>2, <1>8, <1>10, <2>1, <2>2, <2>3
<1> QED  BY <1>11, <1>12

\* The steps that leave the registry alone.
LEMMA NamesQuiet ==
  ASSUME HostInv, HostInv', NamesInv, NEW p \in Procs,
         Created \subseteq Created', alive' \cap Created \subseteq alive,
         \/ CreateConfig(p) \/ DropConfig(p) \/ ConfigSet(p) \/ AddEntry(p) \/ PreopenDir(p)
         \/ CompileModule(p) \/ DropModule(p) \/ StartSection(p) \/ StartSectionCall(p)
         \/ SpawnReturns(p) \/ Found(p) \/ Instantiated(p) \/ InstantiateFails(p) \/ Exit(p) \/ KilledInCall(p)
         \/ \E h \in Handles \cup {0} : Spawn(p, h) \/ RemoteSpawn(p, h)
         \/ \E n \in Names, h \in Handles \cup {0} : GetOrSpawn(p, n, h)
         \/ UNCHANGED hostVars
  PROVE  NamesInv'
<1> DEFINE Same(q) == call'[q].name = call[q].name /\ call'[q].child = call[q].child
           Kept(q) == /\ call'[q].op = "lock" => call'[q].name \in Names
                      /\ call'[q].op \in {"named", "namedback"} =>
                           call[q].op \in {"named", "namedback"} /\ Same(q) /\ registryLock' = q
<1>1. SUFFICES ASSUME NEW q \in Procs PROVE UNCHANGED <<localRegistry, named>> /\ Kept(q)
  BY <1>1, NamesStay DEF Naming
<1>2. /\ call[q].op \in {"lock", "named", "namedback"} => call[q].name \in Names
      /\ call[q].op \in {"named", "namedback"} => registryLock = q
  BY DEF NamesInv, NamesTyped, LockHeld, Naming
<1>3. call \in [Procs -> CallRecords] /\ call[q] \in CallRecords /\ Idle.op = "none"
  BY CallFacts
<1>4. CASE UNCHANGED <<localRegistry, named, registryLock>> /\ (call'[q] = call[q] \/ call'[q].op \notin {"lock", "named", "namedback"})
  BY <1>2, <1>4
<1>5. CASE \/ CreateConfig(p) \/ DropConfig(p) \/ ConfigSet(p) \/ AddEntry(p) \/ PreopenDir(p)
           \/ CompileModule(p) \/ DropModule(p) \/ (\E h \in Handles \cup {0} : RemoteSpawn(p, h)) \/ UNCHANGED hostVars
  BY <1>4, <1>5
  DEF CreateConfig, DropConfig, ConfigSet, AddEntry, PreopenDir, MutateChildConfig, CompileModule, DropModule,
      RemoteSpawn, hostVars
<1>6. CASE StartSection(p) \/ StartSectionCall(p)
  <2>1. CASE q = p
    <3>1. call'[q].op \in {"initlock", "initdone"}
      BY <1>3, <1>6, <2>1 DEF StartSection, StartSectionCall, CallRecords
    <3> QED  BY <1>4, <1>6, <3>1 DEF StartSection, StartSectionCall
  <2>2. CASE q # p
    BY <1>3, <1>4, <1>6, <2>2 DEF StartSection, StartSectionCall
  <2> QED  BY <2>1, <2>2
<1>7. CASE SpawnReturns(p) \/ Found(p)
  <2>1. call' = [call EXCEPT ![p] = Idle] /\ UNCHANGED <<localRegistry, named, registryLock>>
    BY <1>7 DEF SpawnReturns, Found
  <2> QED  BY <1>3, <1>4, <2>1
<1>8. CASE Instantiated(p)
  <2>1. PICK back \in {"namedback", "spawnback"} :
          /\ call' = [call EXCEPT ![p] = Idle, ![parent[p]].op = back]
          /\ back = "namedback" => call[parent[p]].op = "named"
    BY <1>8 DEF Instantiated
  <2>2. UNCHANGED <<localRegistry, named, registryLock>>
    BY <1>8 DEF Instantiated
  <2>3. CASE q # p /\ q # parent[p]
    BY <1>3, <1>4, <2>1, <2>2, <2>3
  <2>4. CASE q = p /\ q # parent[p]
    <3>1. call'[q] = Idle
      BY <1>3, <2>1, <2>4
    <3> QED  BY <1>3, <1>4, <2>2, <3>1
  <2>5. CASE q = parent[p] /\ q # p
    <3>1. call'[q] = [call[q] EXCEPT !.op = back]
      BY <1>3, <2>1, <2>5
    <3>2. call'[q].op = back /\ Same(q)
      BY <1>3, <3>1 DEF CallRecords
    <3> QED  BY <1>2, <2>1, <2>2, <2>5, <3>2
  <2>6. CASE q = parent[p] /\ q = p
    <3>1. call[p].op # "named" /\ back = "spawnback"
      BY <1>8, <2>1, <2>6 DEF Instantiated, Initialising
    <3>2. call'[q] = [Idle EXCEPT !.op = back]
      BY <1>3, <2>1, <2>6
    <3>3. call'[q].op = "spawnback"
      BY <3>1, <3>2 DEF Idle
    <3> QED  BY <1>4, <2>2, <3>3
  <2> QED  BY <2>3, <2>4, <2>5, <2>6
<1>9. CASE InstantiateFails(p)
  <2>1. /\ call' = [call EXCEPT ![p] = Idle, ![parent[p]] = Idle] /\ UNCHANGED <<localRegistry, named>>
        /\ registryLock' = IF registryLock = parent[p] THEN Nobody ELSE registryLock
    BY <1>9 DEF InstantiateFails
  <2>2. call'[q] = IF q \in {p, parent[p]} THEN Idle ELSE call[q]
    BY <1>3, <2>1
  <2> QED  BY <1>2, <1>3, <2>1, <2>2
<1>10. ASSUME NEW killed, p \in killed, Gone(p, killed) PROVE UNCHANGED <<localRegistry, named>> /\ Kept(q)
  <2>1. /\ call'[q] = IF q \in killed THEN Idle ELSE call[q]
        /\ UNCHANGED <<localRegistry, named>> /\ registryLock' = IF registryLock = p THEN Nobody ELSE registryLock
    BY <1>10 DEF Gone
  <2> QED  BY <1>2, <1>3, <1>10, <2>1
<1>11. CASE \E h \in Handles \cup {0} : Spawn(p, h)
  <2>1. PICK h \in Handles \cup {0} : Spawn(p, h)
    BY <1>11
  <2>2. PICK n \in Procs \ Created :
          call' = [call EXCEPT ![n] = [Idle EXCEPT !.op = "init"],
                               ![p] = [Idle EXCEPT !.op = "spawn", !.name = "", !.child = n]]
    BY <2>1 DEF Spawn, Begin
  <2>3. UNCHANGED <<localRegistry, named, registryLock>>
    BY <2>1 DEF Spawn
  <2>4. CASE q = p
    <3>1. call'[q] = [Idle EXCEPT !.op = "spawn", !.name = "", !.child = n]
      BY <1>3, <2>2, <2>4
    <3>2. call'[q].op = "spawn"
      BY <3>1 DEF Idle
    <3> QED  BY <1>4, <2>3, <3>2
  <2>5. CASE q = n /\ q # p
    <3>1. call'[q] = [Idle EXCEPT !.op = "init"]
      BY <1>3, <2>2, <2>5
    <3>2. call'[q].op = "init"
      BY <3>1 DEF Idle
    <3> QED  BY <1>4, <2>3, <3>2
  <2>6. CASE q # n /\ q # p
    BY <1>3, <1>4, <2>2, <2>3, <2>6
  <2> QED  BY <2>4, <2>5, <2>6
<1>12. CASE \E n \in Names, h \in Handles \cup {0} : GetOrSpawn(p, n, h)
  <2>1. PICK n \in Names, h \in Handles \cup {0} : GetOrSpawn(p, n, h)
    BY <1>12
  <2>2. /\ call' = [call EXCEPT ![p] = [Idle EXCEPT !.op = "lock", !.name = n, !.handle = h]]
        /\ UNCHANGED <<localRegistry, named, registryLock>>
    BY <2>1 DEF GetOrSpawn
  <2>3. CASE q = p
    <3>1. call'[q] = [Idle EXCEPT !.op = "lock", !.name = n, !.handle = h]
      BY <1>3, <2>2, <2>3
    <3>2. call'[q].op = "lock" /\ call'[q].name = n
      BY <3>1 DEF Idle
    <3> QED  BY <2>2, <3>2
  <2>4. CASE q # p
    BY <1>3, <1>4, <2>2, <2>4
  <2> QED  BY <2>3, <2>4
<1> QED  BY <1>5, <1>6, <1>7, <1>8, <1>9, <1>10, <1>11, <1>12 DEF Exit, KilledInCall

\* What a lookup leaves of the registry: the stale entry of its name is gone, and others
\* only where their process is dead.
LEMMA TidiedEntries ==
  ASSUME NamesInv, NEW name \in Names, localRegistry[name] = Nobody \/ Dead(localRegistry[name])
  PROVE  /\ Tidied(name) \in [Names -> Procs \cup {Nobody, Remote}] /\ Tidied(name)[name] = Nobody
         /\ \A n \in Names : Tidied(name)[n] = localRegistry[n]
                             \/ (Tidied(name)[n] = Nobody /\ localRegistry[n] \notin alive)
<1> DEFINE r == IF Dead(localRegistry[name]) THEN [localRegistry EXCEPT ![name] = Nobody] ELSE localRegistry
<1>1. localRegistry \in [Names -> Procs \cup {Nobody, Remote}]
  BY DEF NamesInv, NamesTyped
<1>2. r[name] = Nobody
  BY <1>1
<1>3. r \in [Names -> Procs \cup {Nobody, Remote}]
  BY <1>1
<1>4. ASSUME NEW n \in Names PROVE r[n] = localRegistry[n] \/ (r[n] = Nobody /\ localRegistry[n] \notin alive)
  <2>1. Dead(localRegistry[name]) => localRegistry[name] \notin alive
    BY DEF Dead
  <2>2. n # name => r[n] = localRegistry[n]
    BY <1>1, <1>4
  <2>3. n = name => localRegistry[n] \notin alive \/ r[n] = localRegistry[n]
    BY <1>1, <1>4, <2>1
  <2> QED  BY <1>2, <2>2, <2>3
<1>5. Tidied(name) = IF Room(r, name) THEN r ELSE Swept(r)
  BY DEF Tidied
<1> HIDE DEF r
<1>6. \A n \in Names : Swept(r)[n] = IF Dead(r[n]) THEN Nobody ELSE r[n]
  BY DEF Swept
<1>7. Swept(r) \in [Names -> Procs \cup {Nobody, Remote}]
  BY <1>3 DEF Swept
<1>8. Tidied(name) \in [Names -> Procs \cup {Nobody, Remote}]
  BY <1>3, <1>5, <1>7
<1>9. Tidied(name)[name] = Nobody
  BY <1>2, <1>5, <1>6
<1>10. ASSUME NEW n \in Names
       PROVE  Tidied(name)[n] = localRegistry[n] \/ (Tidied(name)[n] = Nobody /\ localRegistry[n] \notin alive)
  <2>1. Dead(r[n]) => r[n] \notin alive
    BY DEF Dead
  <2>2. Swept(r)[n] = r[n] \/ (Swept(r)[n] = Nobody /\ r[n] \notin alive)
    BY <1>6, <1>10, <2>1
  <2> QED  BY <1>4, <1>5, <1>10, <2>2
<1> QED  BY <1>8, <1>9, <1>10

\* Whoever finds no process under a name creates one, under the lock.
LEMMA NamesSpawned ==
  ASSUME HostInv, HostInv', NamesInv, NEW p \in Procs,
         Created \subseteq Created', alive' \cap Created \subseteq alive, SpawnNamed(p)
  PROVE  NamesInv'
<1> DEFINE name == call[p].name
<1>1. /\ call[p].op = "lock" /\ name \in Names /\ registryLock = Nobody /\ localRegistry' = Tidied(name)
      /\ localRegistry[name] = Nobody \/ Dead(localRegistry[name])
      /\ named' = [n \in Names |-> IF localRegistry'[n] = Nobody THEN named[n] \cap alive ELSE named[n]]
  BY DEF SpawnNamed, NamesInv, NamesTyped
<1>2. /\ localRegistry' \in [Names -> Procs \cup {Nobody, Remote}] /\ localRegistry'[name] = Nobody
      /\ \A n \in Names : localRegistry'[n] = localRegistry[n]
                          \/ (localRegistry'[n] = Nobody /\ localRegistry[n] \notin alive)
  BY <1>1, TidiedEntries
<1>3. /\ named \in [Names -> SUBSET Created] /\ named' \in [Names -> SUBSET Created']
      /\ \A n \in Names : named'[n] \subseteq named[n]
  BY <1>1 DEF NamesInv, NamesTyped
<1>4. EntryIsCurrent'
  <2> SUFFICES ASSUME NEW n \in Names, NEW q \in named'[n], q \in alive' PROVE q = localRegistry'[n]
    BY DEF EntryIsCurrent
  <2>1. q \in named[n] /\ q \in alive
    BY <1>3
  <2>2. q = localRegistry[n]
    BY <2>1 DEF NamesInv, EntryIsCurrent
  <2> QED  BY <1>2, <2>1, <2>2
<1>5. call \in [Procs -> CallRecords] /\ Idle.op = "none" /\ p \in Created
  BY <1>1, CallFacts
<1>6. \A q \in Procs : call[q].op \notin {"named", "namedback"}
  <2> SUFFICES ASSUME NEW q \in Procs, Naming(q) PROVE FALSE
    BY DEF Naming
  <2>1. registryLock = q
    BY DEF NamesInv, LockHeld
  <2> QED  BY <1>1, <2>1 DEF Nobody, Procs
<1>7. ASSUME NEW q \in Procs
      PROVE  /\ call'[q].op \in {"lock", "named", "namedback"} => call'[q].name \in Names
             /\ call'[q].op \in {"named", "namedback"} =>
                  registryLock' = q /\ call'[q].child \in Created' /\ localRegistry'[call'[q].name] = Nobody
  <2>1. call[q].op = "lock" => call[q].name \in Names
    BY DEF NamesInv, NamesTyped
  <2>2. CASE call' = [call EXCEPT ![p] = Idle]
    <3>1. call'[q] = IF q = p THEN Idle ELSE call[q]
      BY <1>5, <2>2
    <3> QED  BY <1>5, <1>6, <2>1, <3>1
  <2>3. CASE MaySpawn(p, call[p].handle) /\ Begin(p, call[p].handle, "named", call[p].name) /\ registryLock' = p
    <3>1. PICK n \in Procs \ Created :
            /\ conf' = [conf EXCEPT ![n] = Chosen(p, call[p].handle)]
            /\ call' = [call EXCEPT ![n] = [Idle EXCEPT !.op = "init"],
                                    ![p] = [Idle EXCEPT !.op = "named", !.name = name, !.child = n]]
      BY <2>3 DEF Begin
    <3>2. n \in Created'
      <4>1. conf \in [Procs -> Config \cup {None}]
        BY CallFacts
      <4> QED  BY <2>3, <3>1, <4>1 DEF MaySpawn, Created
    <3>3. CASE q = p
      <4>1. call'[q] = [Idle EXCEPT !.op = "named", !.name = name, !.child = n]
        BY <1>5, <3>1, <3>3
      <4>2. call'[q].name = name /\ call'[q].child = n
        BY <4>1 DEF Idle
      <4> QED  BY <1>1, <1>2, <2>3, <3>2, <3>3, <4>2
    <3>4. CASE q = n /\ q # p
      <4>1. call'[q] = [Idle EXCEPT !.op = "init"]
        BY <1>5, <3>1, <3>4
      <4>2. call'[q].op = "init"
        BY <4>1 DEF Idle
      <4> QED  BY <4>2
    <3>5. CASE q # n /\ q # p
      <4>1. call'[q] = call[q]
        BY <1>5, <3>1, <3>5
      <4> QED  BY <1>6, <2>1, <4>1
    <3> QED  BY <3>3, <3>4, <3>5
  <2> QED  BY <2>2, <2>3 DEF SpawnNamed
<1>8. NamesTyped' /\ LockHeld'
  BY <1>2, <1>3, <1>7 DEF NamesTyped, LockHeld, Naming
<1> QED  BY <1>4, <1>8 DEF NamesInv

\* The child is registered and the lock released.
LEMMA NamesReturned ==
  ASSUME HostInv, NamesInv, NEW p \in Procs, NamedReturns(p)
  PROVE  NamesInv'
<1> DEFINE name == call[p].name
           child == call[p].child
<1>1. /\ Naming(p) /\ UNCHANGED <<alive, conf>> /\ call' = [call EXCEPT ![p] = Idle]
      /\ localRegistry' = [localRegistry EXCEPT ![name] = child]
      /\ named' = [named EXCEPT ![name] = @ \cup {child}]
  BY DEF NamedReturns, Naming, procs
<1>2. /\ registryLock = p /\ child \in Created /\ localRegistry[name] = Nobody /\ name \in Names
      /\ localRegistry \in [Names -> Procs \cup {Nobody, Remote}] /\ named \in [Names -> SUBSET Created]
      /\ Created' = Created /\ Created \subseteq Procs /\ Nobody \notin Procs
  BY <1>1 DEF NamesInv, NamesTyped, LockHeld, Naming, Created, Nobody, Procs
<1>3. ASSUME NEW q \in Procs
      PROVE  call'[q].op \notin {"named", "namedback"} /\ (call'[q].op = "lock" => call'[q].name \in Names)
  <2>1. call'[q] = IF q = p THEN Idle ELSE call[q]
    BY <1>1, CallFacts
  <2>2. Idle.op = "none" /\ (call[q].op = "lock" => call[q].name \in Names)
    BY CallFacts DEF NamesInv, NamesTyped
  <2>3. Naming(q) => q = p
    BY <1>2 DEF NamesInv, LockHeld
  <2> QED  BY <2>1, <2>2, <2>3 DEF Naming
<1>4. NamesTyped'
  <2>1. localRegistry' \in [Names -> Procs \cup {Nobody, Remote}]
    BY <1>1, <1>2
  <2>2. named' \in [Names -> SUBSET Created']
    BY <1>1, <1>2
  <2> QED  BY <1>3, <2>1, <2>2 DEF NamesTyped
<1>5. LockHeld'
  BY <1>3 DEF LockHeld, Naming
<1>6. EntryIsCurrent'
  <2> SUFFICES ASSUME NEW n \in Names, NEW q \in named'[n], q \in alive' PROVE q = localRegistry'[n]
    BY DEF EntryIsCurrent
  <2>1. q \in named[n] => q = localRegistry[n] /\ q \in Procs
    BY <1>1, <1>2 DEF NamesInv, EntryIsCurrent
  <2>2. CASE n = name
    <3>1. localRegistry'[n] = child /\ (q = child \/ q \in named[n])
      BY <1>1, <1>2, <2>2
    <3> QED  BY <1>2, <2>1, <2>2, <3>1
  <2>3. CASE n # name
    <3>1. localRegistry'[n] = localRegistry[n] /\ q \in named[n]
      BY <1>1, <1>2, <2>3
    <3> QED  BY <2>1, <3>1
  <2> QED  BY <2>2, <2>3
<1> QED  BY <1>4, <1>5, <1>6 DEF NamesInv

\* put and remove wait for the lock, and end what get_or_spawn answers for.
LEMMA NamesChanged ==
  ASSUME HostInv, NamesInv, NEW p \in Procs, NEW n \in Names, NEW q \in Procs \cup {Remote},
         LocalRemove(p, n) \/ LocalPut(p, n, q)
  PROVE  NamesInv'
<1>1. PICK e \in Procs \cup {Nobody, Remote} : localRegistry' = [localRegistry EXCEPT ![n] = e]
  BY DEF LocalRemove, LocalPut
<1>2. /\ registryLock = Nobody /\ named' = [named EXCEPT ![n] = {}] /\ UNCHANGED <<alive, conf, call, registryLock>>
      /\ Nobody \notin Procs
  BY DEF LocalRemove, LocalPut, procs, Nobody, Procs
<1>3. /\ localRegistry \in [Names -> Procs \cup {Nobody, Remote}] /\ named \in [Names -> SUBSET Created]
      /\ Created' = Created
  BY <1>2 DEF NamesInv, NamesTyped, Created
<1>4. NamesTyped'
  <2>1. localRegistry' \in [Names -> Procs \cup {Nobody, Remote}]
    BY <1>1, <1>3
  <2>2. named' \in [Names -> SUBSET Created']
    BY <1>2, <1>3
  <2> QED  BY <1>2, <2>1, <2>2 DEF NamesInv, NamesTyped
<1>5. LockHeld'
  <2>1. \A r \in Procs : ~Naming(r)
    BY <1>2 DEF NamesInv, LockHeld
  <2> QED  BY <1>2, <2>1 DEF LockHeld, Naming
<1>6. EntryIsCurrent'
  <2> SUFFICES ASSUME NEW m \in Names PROVE named'[m] \cap alive' \subseteq {localRegistry'[m]}
    BY DEF EntryIsCurrent
  <2>1. CASE m = n
    BY <1>2, <1>3, <2>1
  <2>2. CASE m # n
    BY <1>1, <1>2, <1>3, <2>2 DEF NamesInv, EntryIsCurrent
  <2> QED  BY <2>1, <2>2
<1> QED  BY <1>4, <1>5, <1>6 DEF NamesInv

LEMMA NamesStep ==
  ASSUME HostInv, NamesInv, [HostNext]_hostVars
  PROVE  NamesInv'
<1>1. HostInv' /\ Created \subseteq Created' /\ alive' \cap Created \subseteq alive
  BY HostStep, CreatedStay
<1>2. CASE UNCHANGED hostVars
  <2>1. 1 \in Procs
    BY HostConstants DEF Procs
  <2> QED  BY <1>1, <1>2, <2>1, NamesQuiet
<1>3. CASE HostNext
  <2>1. PICK p \in Procs : Step(p) \/ Progress(p) \/ StartSection(p) \/ InstantiateFails(p)
    BY <1>3 DEF HostNext
  <2>2. CASE \E n \in Names : LocalRemove(p, n) \/ \E q \in Procs \cup {Remote} : LocalPut(p, n, q)
    BY <2>2, NamesChanged
  <2>3. CASE Step(p)
    BY <1>1, <2>2, <2>3, NamesQuiet DEF Step
  <2>4. CASE Progress(p)
    BY <1>1, <2>4, NamesQuiet, NamesSpawned, NamesReturned DEF Progress
  <2> QED  BY <1>1, <2>1, <2>3, <2>4, NamesQuiet
<1> QED  BY <1>2, <1>3

\* A call reports what it did: only one whose process runs reports that it succeeded.
LEMMA AuditStep ==
  ASSUME AuditTrue, [HostNext]_hostVars
  PROVE  AuditTrue'
<1>1. CASE UNCHANGED audit
  BY <1>1 DEF AuditTrue
<1>2. CASE \E result \in {"Failed", "Denied", "Cancelled"} : Log(result, FALSE)
  BY <1>2 DEF AuditTrue, Log
<1>3. CASE Log("Succeeded", TRUE)
  BY <1>3 DEF AuditTrue, Log
<1>4. CASE UNCHANGED hostVars
  BY <1>1, <1>4 DEF hostVars
<1>5. CASE HostNext
  <2>1. PICK p \in Procs : Step(p) \/ Progress(p) \/ StartSection(p) \/ InstantiateFails(p)
    BY <1>5 DEF HostNext
  <2>2. CASE Step(p)
    BY <1>1, <1>2, <2>2
    DEF Step, CreateConfig, DropConfig, ConfigSet, AddEntry, PreopenDir, MutateChildConfig, CompileModule, DropModule,
        Spawn, RemoteSpawn, GetOrSpawn, LocalRemove, LocalPut, Exit, KilledInCall
  <2>3. CASE Progress(p)
    BY <1>1, <1>2, <1>3, <2>3
    DEF Progress, StartSectionCall, Instantiated, SpawnReturns, Found, SpawnNamed, NamedReturns
  <2> QED  BY <1>1, <1>2, <2>1, <2>2, <2>3 DEF StartSection, InstantiateFails
<1> QED  BY <1>4, <1>5

\* At most one live process was created under a name while nobody else changes its entry,
\* whoever raced to create it; and the audit trail says of every spawn what happened.
THEOREM OneProcessIsSpawnedPerName == HostSpec => []SpawnsSafe
<1>1. HostInit => HostInv /\ NamesInv /\ AuditTrue
  <2>1. HostInit => AuditTrue
    BY DEF HostInit, AuditTrue
  <2> QED  BY <2>1, HostInitInv, NamesInit
<1>2. HostInv /\ NamesInv /\ AuditTrue /\ [HostNext]_hostVars => (HostInv /\ NamesInv /\ AuditTrue)'
  BY HostStep, NamesStep, AuditStep
<1>3. NamesInv /\ AuditTrue => SpawnsSafe
  <2> SUFFICES ASSUME NamesInv, NEW n \in DOMAIN named PROVE Cardinality(named[n] \cap alive) <= 1
    BY DEF SpawnsSafe, OneProcessPerName
  <2>1. named[n] \cap alive = {} \/ named[n] \cap alive = {localRegistry[n]}
    BY DEF NamesInv, NamesTyped, EntryIsCurrent
  <2>2. Cardinality({}) = 0 /\ Cardinality({localRegistry[n]}) = 1
    BY FS_EmptySet, FS_Singleton
  <2> QED  BY <2>1, <2>2
<1> QED  BY <1>1, <1>2, <1>3, PTL DEF HostSpec

=============================================================================
