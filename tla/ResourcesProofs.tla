-------------------------- MODULE ResourcesProofs --------------------------
(***************************************************************************)
(* What a process takes from its node is bounded and given back.           *)
(*                                                                         *)
(* The quotas of ProcessAdmission hold and leak nothing, for any number of *)
(* environments, spawners and any limits.  The argument: each counter is   *)
(* at every moment the number of spawners that own a unit of it (Charged,  *)
(* Leased), and every step moves one spawner in or out of each set.        *)
(*                                                                         *)
(* The timers of a process stay below their ceiling, for any ceiling and   *)
(* any number of timers: a task that waits is in the table, every entry    *)
(* has its permit, and a cleanup takes out finished tasks only.            *)
(*                                                                         *)
(* The credentials of the command line are named by its file, for any      *)
(* number of its processes.  The argument: only the holder of the lock     *)
(* changes the file and the store, and CliInv says what the file holds of  *)
(* its reference at each place of its command, so that a kill or a loss of *)
(* power between any two of them leaves the name or the tombstone behind.  *)
(***************************************************************************)
EXTENDS ProcessAdmission, Timers, CliCredentials, SequenceLemmas

-----------------------------------------------------------------------------
(* Finite sets that change by one element. *)

LEMMA OneMore ==
  ASSUME NEW S, IsFiniteSet(S), NEW x, x \notin S
  PROVE  Cardinality(S \cup {x}) = Cardinality(S) + 1
BY FS_AddElement

LEMMA OneLess ==
  ASSUME NEW S, IsFiniteSet(S), NEW x \in S
  PROVE  Cardinality(S \ {x}) = Cardinality(S) - 1
BY FS_RemoveElement

LEMMA PartTaken ==
  ASSUME NEW S, IsFiniteSet(S), NEW T, T \subseteq S
  PROVE  /\ IsFiniteSet(T) /\ IsFiniteSet(S \ T) /\ Cardinality(T) \in Nat /\ Cardinality(S) \in Nat
         /\ Cardinality(S \ T) = Cardinality(S) - Cardinality(T)
<1>1. S \cap T = T
  OBVIOUS
<1>2. IsFiniteSet(S \ T) /\ Cardinality(S \ T) = Cardinality(S) - Cardinality(S \cap T)
  BY FS_Difference
<1>3. IsFiniteSet(T) /\ Cardinality(T) \in Nat /\ Cardinality(S) \in Nat
  BY FS_Subset, FS_CardinalityType
<1> QED  BY <1>1, <1>2, <1>3

LEMMA ChargedFinite == IsFiniteSet(Leased) /\ \A e \in Env : IsFiniteSet(Charged(e))
BY AdmissionAssumption, FS_Subset DEF Leased, Charged

-----------------------------------------------------------------------------

LEMMA InitInv == Init => AdmissionInv
<1> SUFFICES ASSUME Init PROVE AdmissionInv
  OBVIOUS
<1>1. TypeOK /\ Phases /\ HookPhases
  BY DEF Init, TypeOK, Phases, HookPhases
<1>2. Leased = {} /\ \A e \in Env : Charged(e) = {}
  BY DEF Init, Leased, Charged
<1> QED
  BY <1>1, <1>2, FS_EmptySet, AdmissionAssumption DEF AdmissionInv, Accounting, Init

-----------------------------------------------------------------------------
(* The parts that are no arithmetic. *)

LEMMA PhasesStep == AdmissionInv /\ [Next]_vars => Phases' /\ HookPhases'
<1> SUFFICES ASSUME AdmissionInv, [Next]_vars PROVE Phases' /\ HookPhases'
  OBVIOUS
<1> USE DEF AdmissionInv, TypeOK
<1>1. CASE UNCHANGED vars
  BY <1>1 DEF vars, Phases, HookPhases
<1>2. ASSUME NEW p \in Spawner, Step(p) PROVE Phases'
  BY <1>2 DEF Phases, Step, ReserveSlot, ReserveLease, Rollback, Insert, Start, End, RemoveProcess,
     Found, ReleaseSlot, DropLease, ExitHook, AfterHook, Terminate, RemoveOutside, ReleaseOutside, DropOutside, Goto
<1>3. ASSUME NEW p \in Spawner, Step(p) PROVE HookPhases'
  BY <1>3 DEF HookPhases, Step, ReserveSlot, ReserveLease, Rollback, Insert, Start, End, RemoveProcess,
     Found, ReleaseSlot, DropLease, ExitHook, AfterHook, Terminate, RemoveOutside, ReleaseOutside, DropOutside, Goto
<1> QED
  BY <1>1, <1>2, <1>3 DEF Next

-----------------------------------------------------------------------------
(* The counters. *)

LEMMA AccountingStep == AdmissionInv /\ [Next]_vars => Accounting' /\ count' \in [Env -> Nat] /\ node' \in Nat
<1> SUFFICES ASSUME AdmissionInv, [Next]_vars
             PROVE  Accounting' /\ count' \in [Env -> Nat] /\ node' \in Nat
  OBVIOUS
<1> DEFINE Goal == Accounting' /\ count' \in [Env -> Nat] /\ node' \in Nat
<1> USE DEF AdmissionInv, TypeOK
<1>1. IsFiniteSet(Leased) /\ \A e \in Env : IsFiniteSet(Charged(e))
  BY ChargedFinite
\* The four ways a step moves a spawner.
<1>2. ASSUME UNCHANGED <<count, node>>, Leased' = Leased, \A e \in Env : Charged(e)' = Charged(e)
      PROVE  Goal
  BY <1>2 DEF Accounting
<1>3. ASSUME NEW p \in Spawner, NEW e \in Env, e = env'[p], node' = node, Leased' = Leased,
             \A f \in Env \ {e} : Charged(f)' = Charged(f),
             \/ /\ p \notin Charged(e) /\ Charged(e)' = Charged(e) \cup {p}
                /\ count' = [count EXCEPT ![e] = @ + 1] /\ count[e] < EnvLimit
             \/ /\ p \in Charged(e) /\ Charged(e)' = Charged(e) \ {p}
                /\ count' = [count EXCEPT ![e] = @ - 1]
      PROVE  Goal
  <2>1. \/ Cardinality(Charged(e)') = count[e] + 1 /\ count[e] < EnvLimit /\ count'[e] = count[e] + 1
        \/ Cardinality(Charged(e)') = count[e] - 1 /\ count'[e] = count[e] - 1
    BY <1>1, <1>3, OneMore, OneLess DEF Accounting
  <2>2. Cardinality(Charged(e)') \in Nat
    BY <1>1, <1>3, FS_CardinalityType, FS_AddElement, FS_RemoveElement
  <2>3. count'[e] = Cardinality(Charged(e)') /\ count'[e] <= EnvLimit /\ count'[e] \in Nat
    BY <2>1, <2>2, AdmissionAssumption DEF Accounting
  <2>4. \A f \in Env \ {e} : count'[f] = count[f]
    BY <1>3
  <2>5. count' \in [Env -> Nat]
    BY <1>3, <2>3, <2>4
  <2> QED
    BY <1>3, <2>3, <2>4, <2>5 DEF Accounting
<1>4. ASSUME NEW p \in Spawner, count' = count, \A f \in Env : Charged(f)' = Charged(f),
             \/ p \notin Leased /\ Leased' = Leased \cup {p} /\ node' = node + 1 /\ node < NodeLimit
             \/ p \in Leased /\ Leased' = Leased \ {p} /\ node' = node - 1
      PROVE  Goal
  <2>1. node' = Cardinality(Leased')
    BY <1>1, <1>4, OneMore, OneLess DEF Accounting
  <2>2. Cardinality(Leased') \in Nat
    BY <1>1, <1>4, FS_CardinalityType, FS_AddElement, FS_RemoveElement
  <2> QED
    BY <1>4, <2>1, <2>2, AdmissionAssumption DEF Accounting
<1> USE DEF Goto
<1>5. CASE UNCHANGED vars
  <2>1. Leased' = Leased /\ \A e \in Env : Charged(e)' = Charged(e)
    BY <1>5 DEF vars, Leased, Charged
  <2> QED
    BY <1>2, <1>5, <2>1 DEF vars
<1>6. ASSUME NEW p \in Spawner, NEW e \in Env, ReserveSlot(p, e) PROVE Goal
  <2>1. p \notin listed /\ ~(\E f \in Env : p \in Charged(f))
    BY <1>6 DEF ReserveSlot, Phases, Charged
  <2>2. Charged(e)' = Charged(e) \cup {p}
    BY <1>6, <2>1 DEF ReserveSlot, Charged
  <2>3. \A f \in Env \ {e} : Charged(f)' = Charged(f)
    BY <1>6, <2>1 DEF ReserveSlot, Charged
  <2>4. Leased' = Leased
    BY <1>6 DEF ReserveSlot, Leased
  <2>5. e = env'[p] /\ node' = node /\ count[e] < EnvLimit
    BY <1>6 DEF ReserveSlot, HasSlot
  <2>6. count' = [count EXCEPT ![e] = @ + 1]
    BY <1>6 DEF ReserveSlot, SlotAdded
  <2> QED
    BY <1>3, <2>1, <2>2, <2>3, <2>4, <2>5, <2>6
<1>7. ASSUME NEW p \in Spawner, ReserveLease(p) PROVE Goal
  <2>1. \A f \in Env : Charged(f)' = Charged(f)
    BY <1>7 DEF ReserveLease, Charged
  <2>2. CASE HasLease
    <3>1. p \notin Leased
      BY <1>7 DEF ReserveLease, Phases, Leased
    <3>2. Leased' = Leased \cup {p}
      BY <1>7, <2>2 DEF ReserveLease, Leased
    <3> QED
      BY <1>4, <1>7, <2>1, <2>2, <3>1, <3>2 DEF ReserveLease, HasLease
  <2>3. CASE ~HasLease
    <3>1. Leased' = Leased
      BY <1>7, <2>3 DEF ReserveLease, Leased
    <3> QED
      BY <1>2, <1>7, <2>1, <2>3, <3>1 DEF ReserveLease
  <2> QED
    BY <2>2, <2>3
\* A slot goes back, by a rollback, the guard or another caller.
<1>8. ASSUME NEW p \in Spawner, Rollback(p) \/ ReleaseSlot(p) \/ ReleaseOutside(p) PROVE Goal
  <2> USE DEF Rollback, ReleaseSlot, ReleaseOutside, RollbackSlot, SlotReleased
  <2> DEFINE e == env[p]
  <2>1. e \in Env /\ env' = env /\ p \in Charged(e) /\ node' = node /\ listed' = listed
    BY <1>8 DEF Charged
  <2>2. count' = [count EXCEPT ![e] = @ - 1]
    BY <1>8
  <2>3. Leased' = Leased
    BY <1>8 DEF Leased
  <2>4. p \notin listed /\ p \notin Charged(e)'
    BY <1>8 DEF Phases, Charged
  <2>5. \A q \in Spawner \ {p} : pc'[q] = pc[q] /\ outside'[q] = outside[q]
    BY <1>8
  <2>6. Charged(e)' = Charged(e) \ {p}
    BY <2>1, <2>4, <2>5 DEF Charged
  <2>7. \A f \in Env \ {e} : Charged(f)' = Charged(f)
    BY <2>1, <2>5 DEF Charged
  <2> HIDE DEF e
  <2> QED
    BY <1>3, <2>1, <2>2, <2>3, <2>6, <2>7 DEF e
<1>9. ASSUME NEW p \in Spawner, DropLease(p) \/ DropOutside(p) PROVE Goal
  <2> USE DEF DropLease, DropOutside
  <2>1. \A f \in Env : Charged(f)' = Charged(f)
    BY <1>9 DEF Charged
  <2>2. p \in Leased /\ p \notin listed /\ p \notin Leased'
    BY <1>9 DEF Leased, Phases
  <2>3. Leased' = Leased \ {p}
    BY <1>9, <2>2 DEF Leased
  <2> QED
    BY <1>4, <1>9, <2>1, <2>2, <2>3
<1>10. ASSUME NEW p \in Spawner,
              \/ Insert(p) \/ Start(p) \/ End(p) \/ RemoveProcess(p)
              \/ ExitHook(p) \/ Terminate(p) \/ RemoveOutside(p)
       PROVE  Goal
  <2> USE DEF Insert, Start, End, RemoveProcess, Found, ExitHook, AfterHook, Terminate, RemoveOutside
  <2>1. \A f \in Env : Charged(f)' = Charged(f)
    BY <1>10 DEF Charged, Phases
  <2>2. Leased' = Leased
    BY <1>10 DEF Leased, Phases
  <2> QED
    BY <1>2, <1>10, <2>1, <2>2
<1> QED
  BY <1>5, <1>6, <1>7, <1>8, <1>9, <1>10 DEF Next, Step

LEMMA TypeStep == AdmissionInv /\ [Next]_vars => TypeOK'
<1> SUFFICES ASSUME AdmissionInv, [Next]_vars PROVE TypeOK'
  OBVIOUS
<1>1. count' \in [Env -> Nat] /\ node' \in Nat
  BY AccountingStep
<1>2. CASE UNCHANGED vars
  BY <1>2 DEF vars, AdmissionInv, TypeOK
<1>3. ASSUME NEW p \in Spawner, Step(p) PROVE TypeOK'
  <2> USE <1>3 DEF AdmissionInv, TypeOK, Step, ReserveSlot, ReserveLease, Rollback, Insert, Start, End,
     RemoveProcess, ReleaseSlot, DropLease, ExitHook, AfterHook, Terminate, RemoveOutside, ReleaseOutside, DropOutside, Goto
  <2>1. listed' \in SUBSET Spawner /\ terminated' \in SUBSET Spawner
    OBVIOUS
  <2>2. env' \in [Spawner -> Env]
    OBVIOUS
  <2>3. pc' \in [Spawner -> {"idle", "slot", "lease", "rollback", "setup", "running",
                             "unregister", "release", "drop", "hook", "terminate"}]
    OBVIOUS
  <2>4. outside' \in [Spawner -> {"none", "release", "drop"}]
    OBVIOUS
  <2>5. hooks' \in [Spawner -> Nat]
    OBVIOUS
  <2> QED
    BY <1>1, <2>1, <2>2, <2>3, <2>4, <2>5
<1> QED
  BY <1>2, <1>3 DEF Next

\* AdmissionInv holds in every reachable state.
THEOREM AdmissionInvariant == Spec => []AdmissionInv
<1>1. AdmissionInv /\ [Next]_vars => AdmissionInv'
  BY TypeStep, PhasesStep, AccountingStep DEF AdmissionInv
<1> QED
  BY InitInv, <1>1, PTL DEF Spec

\* No counter of the admission ever goes below zero, and the rest keeps its type.
THEOREM AdmissionTypeCorrect == Spec => []TypeOK
<1>1. AdmissionInv => TypeOK
  BY DEF AdmissionInv
<1> QED
  BY AdmissionInvariant, <1>1, PTL

\* An environment never lists more than max_processes processes.
THEOREM EnvironmentQuota == Spec => []EnvBounded
<1>1. AdmissionInv => EnvBounded
  <2> SUFFICES ASSUME AdmissionInv, NEW e \in Env PROVE Cardinality(Members(e)) <= EnvLimit
    BY DEF EnvBounded
  <2>1. Members(e) \subseteq Charged(e)
    BY DEF Members, Charged, AdmissionInv, TypeOK
  <2>2. Cardinality(Members(e)) <= Cardinality(Charged(e)) /\ IsFiniteSet(Members(e))
    BY <2>1, ChargedFinite, FS_Subset
  <2>3. Cardinality(Members(e)) \in Nat /\ Cardinality(Charged(e)) \in Nat
    BY <2>2, ChargedFinite, FS_CardinalityType
  <2> QED
    BY <2>2, <2>3, AdmissionAssumption DEF AdmissionInv, Accounting
<1> QED
  BY AdmissionInvariant, <1>1, PTL

\* All environments together never list more processes than the node admits.
THEOREM NodeQuota == Spec => []NodeBounded
<1>1. AdmissionInv => NodeBounded
  <2> SUFFICES ASSUME AdmissionInv PROVE Cardinality(listed) <= NodeLimit
    BY DEF NodeBounded
  <2>1. listed \subseteq Leased
    BY DEF Leased, AdmissionInv, TypeOK
  <2>2. Cardinality(listed) <= Cardinality(Leased) /\ IsFiniteSet(listed)
    BY <2>1, ChargedFinite, FS_Subset
  <2>3. Cardinality(listed) \in Nat /\ Cardinality(Leased) \in Nat
    BY <2>2, ChargedFinite, FS_CardinalityType
  <2> QED
    BY <2>2, <2>3, AdmissionAssumption DEF AdmissionInv, Accounting
<1> QED
  BY AdmissionInvariant, <1>1, PTL

\* Once every admission and removal is over, the counters are the sizes of the maps.
THEOREM QuotasNeverLeak == Spec => []NothingLeaks
<1>1. AdmissionInv => NothingLeaks
  <2> SUFFICES ASSUME AdmissionInv, Settled
               PROVE  /\ \A e \in Env : count[e] = Cardinality(Members(e))
                      /\ node = Cardinality(listed)
    BY DEF NothingLeaks
  <2>1. Leased = listed
    BY DEF Leased, Settled, AdmissionInv, TypeOK
  <2>2. \A e \in Env : Charged(e) = Members(e)
    BY DEF Charged, Members, Settled, AdmissionInv, TypeOK
  <2> QED
    BY <2>1, <2>2 DEF AdmissionInv, Accounting
<1> QED
  BY AdmissionInvariant, <1>1, PTL

\* The exit hook of a process runs once, after the process has left the map and
\* before its lifecycle is terminated.
THEOREM HookRunsOnce == Spec => []HookOnce
<1>1. AdmissionInv => HookOnce
  BY DEF AdmissionInv, TypeOK, Phases, HookPhases, HookOnce
<1> QED
  BY AdmissionInvariant, <1>1, PTL

\* Both limits hold while spawns and removals race, and every exit hook runs once.
THEOREM AdmissionIsSafe == Spec => []AdmissionSafe
<1>1. EnvBounded /\ NodeBounded /\ HookOnce => AdmissionSafe
  BY DEF AdmissionSafe
<1> QED
  BY EnvironmentQuota, NodeQuota, HookRunsOnce, <1>1, PTL

-----------------------------------------------------------------------------
(* Timers. *)

\* The next timer has an id of its own.
LEMMA FreshIsFree ==
  ASSUME Ids \subseteq Nat, \E i \in Ids : task[i] = "none"
  PROVE  Fresh \in Ids /\ task[Fresh] = "none"
<1> DEFINE Free == {i \in Ids : task[i] = "none"}
<1>1. Free \subseteq Nat /\ Free # {}
  OBVIOUS
<1>2. PICK i \in Free : \A j \in Free : i <= j
  BY <1>1, LeastNat
<1>3. i \in Ids /\ task[i] = "none" /\ \A j \in Ids : j < i => task[j] # "none"
  BY <1>1, <1>2
<1> QED  BY <1>3 DEF Fresh

\* A cleanup leaves every task that has not finished, and is counted.
LEMMA CleanedCounts ==
  ASSUME TimersInv
  PROVE  /\ Cleaned \subseteq entries /\ IsFiniteSet(Cleaned) /\ Cardinality(Cleaned) \in Nat
         /\ IsFiniteSet(entries \ Cleaned) /\ Cardinality(entries) \in Nat
         /\ Cardinality(entries \ Cleaned) = Cardinality(entries) - Cardinality(Cleaned)
         /\ \A i \in Cleaned : task[i] # "waiting"
<1>1. Cleaned \subseteq entries /\ \A i \in Cleaned : task[i] # "waiting"
  BY DEF Cleaned, Finished
<1>2. IsFiniteSet(entries)
  BY DEF TimersInv, TimersTypeOK
<1> QED  BY <1>1, <1>2, PartTaken

LEMMA TimersInitially ==
  ASSUME Capacity \in Nat, TimersInit
  PROVE  TimersInv
BY FS_EmptySet DEF TimersInit, TimersInv, TimersTypeOK

LEMMA TimersStep ==
  ASSUME Ids \subseteq Nat, Capacity \in Nat, Delays \subseteq Nat, TimersInv, [TimersNext]_timersVars
  PROVE  TimersInv'
<1>1. /\ TimersTypeOK /\ permits + Cardinality(entries) = Capacity
      /\ \A i \in Ids : task[i] = "waiting" => i \in entries
      /\ \A i \in entries : task[i] # "none"
  BY DEF TimersInv
<1>2. IsFiniteSet(entries) /\ Cardinality(entries) \in Nat
  BY <1>1, FS_CardinalityType DEF TimersTypeOK
<1>3. ASSUME NEW d \in Delays, SendAfter(d) PROVE TimersInv'
  <2>1. Fresh \in Ids /\ task[Fresh] = "none" /\ Fresh \notin entries
    BY <1>1, <1>3, FreshIsFree DEF SendAfter
  <2> DEFINE Rest == entries \ Cleaned
  <2>2. /\ entries' = Rest \cup {Fresh} /\ permits' = permits + Cardinality(Cleaned) - 1
        /\ permits + Cardinality(Cleaned) > 0
        /\ due' = [due EXCEPT ![Fresh] = now + d] /\ task' = [task EXCEPT ![Fresh] = "waiting"]
        /\ UNCHANGED <<now, owner>>
    BY <1>3 DEF SendAfter
  <2>3. /\ IsFiniteSet(Rest) /\ Cardinality(Rest) = Cardinality(entries) - Cardinality(Cleaned)
        /\ Cardinality(Cleaned) \in Nat /\ Fresh \notin Rest
        /\ \A i \in Cleaned : task[i] # "waiting"
    BY <2>1, CleanedCounts
  <2>4. IsFiniteSet(entries') /\ Cardinality(entries') = Cardinality(Rest) + 1
    BY <2>2, <2>3, FS_AddElement
  <2>5. permits' \in Nat /\ permits' + Cardinality(entries') = Capacity
    BY <1>1, <1>2, <2>2, <2>3, <2>4 DEF TimersTypeOK
  <2>6. now + d \in Nat
    BY <1>1 DEF TimersTypeOK
  <2>7. TimersTypeOK'
    BY <1>1, <2>1, <2>2, <2>4, <2>5, <2>6 DEF TimersTypeOK
  <2>8. \A i \in Ids : task'[i] = IF i = Fresh THEN "waiting" ELSE task[i]
    BY <1>1, <2>2 DEF TimersTypeOK
  <2>9. /\ \A i \in Ids : task'[i] = "waiting" => i \in entries'
        /\ \A i \in entries' : task'[i] # "none"
    BY <1>1, <2>1, <2>2, <2>3, <2>8 DEF TimersTypeOK
  <2> QED  BY <2>5, <2>7, <2>9 DEF TimersInv
\* Aborting tasks and taking them out.
<1>4. ASSUME NEW gone, gone \subseteq entries, entries' = entries \ gone, task' = Aborted(gone),
             permits' = permits + Cardinality(gone), UNCHANGED <<now, due>>,
             owner' \in {"alive", "refused", "gone"}
      PROVE  TimersInv'
  <2>1. /\ IsFiniteSet(entries \ gone) /\ Cardinality(gone) \in Nat
        /\ Cardinality(entries \ gone) = Cardinality(entries) - Cardinality(gone)
    BY <1>2, <1>4, PartTaken
  <2>2. IsFiniteSet(entries') /\ Cardinality(entries') = Cardinality(entries) - Cardinality(gone)
    BY <1>4, <2>1
  <2>3. \A i \in Ids : task'[i] = IF i \in gone /\ task[i] = "waiting" THEN "aborted" ELSE task[i]
    BY <1>4 DEF Aborted
  <2>4. task' \in [Ids -> {"none", "waiting", "running", "done", "aborted"}]
    BY <1>1, <1>4 DEF Aborted, TimersTypeOK
  <2>5. permits' \in Nat /\ permits' + Cardinality(entries') = Capacity
    BY <1>1, <1>2, <1>4, <2>1, <2>2 DEF TimersTypeOK
  <2>6. TimersTypeOK'
    BY <1>1, <1>4, <2>2, <2>4, <2>5 DEF TimersTypeOK
  <2>7. /\ \A i \in Ids : task'[i] = "waiting" => i \in entries'
        /\ \A i \in entries' : task'[i] # "none"
    BY <1>1, <1>4, <2>3 DEF TimersTypeOK
  <2> QED  BY <2>5, <2>6, <2>7 DEF TimersInv
<1>5. ASSUME NEW i \in Ids, CancelTimer(i) PROVE TimersInv'
  <2>1. /\ {i} \subseteq entries /\ entries' = entries \ {i} /\ task' = Aborted({i}) /\ permits' = permits + 1
        /\ UNCHANGED <<now, due, owner>>
    BY <1>5 DEF CancelTimer
  <2>2. Cardinality({i}) = 1
    BY FS_Singleton
  <2> QED  BY <1>1, <1>4, <2>1, <2>2 DEF TimersTypeOK
<1>6. CASE DropTimers
  <2>1. /\ entries' = entries \ entries /\ task' = Aborted(entries) /\ permits' = permits + Cardinality(entries)
        /\ UNCHANGED <<now, due>> /\ owner' = "gone"
    BY <1>6 DEF DropTimers
  <2> QED  BY <1>4, <2>1
\* A task goes on, which no longer waits.
<1>7. ASSUME NEW i \in Ids, Wake(i) \/ Fire(i) PROVE TimersInv'
  <2>1. /\ UNCHANGED <<now, due, entries, permits, owner>> /\ task[i] # "none"
        /\ task' = [task EXCEPT ![i] = "running"] \/ task' = [task EXCEPT ![i] = "done"]
    BY <1>7 DEF Wake, Fire
  <2>2. /\ task' \in [Ids -> {"none", "waiting", "running", "done", "aborted"}]
        /\ \A j \in Ids : task'[j] = task[j] \/ task'[j] \in {"running", "done"}
    BY <1>1, <2>1 DEF TimersTypeOK
  <2> QED  BY <1>1, <2>1, <2>2 DEF TimersInv, TimersTypeOK
<1>8. CASE Refuse
  <2>1. Cardinality(Cleaned) = 0
    BY <1>1, <1>8, CleanedCounts DEF Refuse, TimersTypeOK
  <2>2. Cleaned = {}
    BY <2>1, CleanedCounts, FS_EmptySet
  <2>3. UNCHANGED <<now, due, task, entries, permits>> /\ owner' = "refused"
    BY <1>8, <2>2 DEF Refuse
  <2> QED  BY <1>1, <2>3 DEF TimersInv, TimersTypeOK
<1>9. CASE Tick
  BY <1>1, <1>9 DEF Tick, TimersInv, TimersTypeOK
<1>10. CASE UNCHANGED timersVars
  BY <1>1, <1>10 DEF timersVars, TimersInv, TimersTypeOK
<1> QED  BY <1>3, <1>5, <1>6, <1>7, <1>8, <1>9, <1>10 DEF TimersNext

\* The tasks that wait are in the table, and the table is within its permits.
LEMMA TimersWithinCeiling ==
  ASSUME Capacity \in Nat, TimersInv
  PROVE  TasksBounded
<1> DEFINE Waiting == {i \in Ids : task[i] = "waiting"}
<1>1. Waiting \subseteq entries /\ IsFiniteSet(entries)
  BY DEF TimersInv, TimersTypeOK
<1>2. Cardinality(Waiting) <= Cardinality(entries) /\ Cardinality(entries) \in Nat /\ Cardinality(Waiting) \in Nat
  BY <1>1, FS_Subset, FS_CardinalityType
<1>3. permits \in Nat /\ permits + Cardinality(entries) = Capacity
  BY DEF TimersInv, TimersTypeOK
<1>4. Cardinality(Waiting) <= Capacity
  BY <1>2, <1>3
<1> QED  BY <1>3, <1>4 DEF TasksBounded

\* A timer that is due and finished is cleaned up unless one due no later has not finished.
LEMMA RefusalHasCause ==
  ASSUME Ids \subseteq Nat, Capacity \in Nat, TimersInv, [TimersNext]_timersVars,
         owner = "alive", owner' = "refused"
  PROVE  (\A i \in entries : ~Expired(i)) \/ (\E i \in entries : Expired(i) /\ ~Finished(i))
<1>1. Refuse
  BY DEF TimersNext, timersVars, SendAfter, CancelTimer, Wake, Fire, DropTimers, Tick
<1>2. Cleaned = {}
  <2>1. permits \in Nat /\ permits + Cardinality(Cleaned) = 0
    BY <1>1 DEF Refuse, TimersInv, TimersTypeOK
  <2>2. Cardinality(Cleaned) = 0 /\ IsFiniteSet(Cleaned)
    BY <2>1, CleanedCounts
  <2> QED  BY <2>2, FS_EmptySet
<1>3. SUFFICES ASSUME \A i \in entries : Expired(i) => Finished(i), NEW i \in entries, Expired(i)
               PROVE  FALSE
  OBVIOUS
<1>4. \A j \in entries : due[j] <= due[i] => Expired(j)
  <2>1. now \in Nat /\ \A j \in entries : due[j] \in Nat
    BY DEF TimersInv, TimersTypeOK
  <2> QED  BY <1>3, <2>1 DEF Expired
<1>5. \A j \in entries : due[j] \in Nat
  BY DEF TimersInv, TimersTypeOK
<1>6. \A j \in entries : due[j] < due[i] \/ due[j] = due[i] => Finished(j)
  BY <1>3, <1>4, <1>5
<1>7. i \in Cleaned
  BY <1>3, <1>6 DEF Cleaned
<1> QED  BY <1>2, <1>7

\* For any ceiling, any delays and any number of timers, the tasks that wait never outnumber the ceiling,
\* every permit is free or held by an entry, and send_after refuses a timer only while one that
\* is due has not finished or none is due: the cleanup frees what it can.
THEOREM TimersAreExact ==
  ASSUME Ids \subseteq Nat, Capacity \in Nat, Delays \subseteq Nat
  PROVE  TimersSpec => TimersExact
<1> DEFINE Cause == owner = "alive" /\ owner' = "refused" =>
        (\A i \in entries : ~Expired(i)) \/ (\E i \in entries : Expired(i) /\ ~Finished(i))
<1>1. TimersInit => TimersInv
  BY TimersInitially
<1>2. TimersInv /\ [TimersNext]_timersVars => TimersInv'
  BY TimersStep
<1>3. TimersInv => TasksBounded
  BY TimersWithinCeiling
<1>4. TimersInv /\ [TimersNext]_timersVars => [Cause]_timersVars
  BY RefusalHasCause
<1>5. TimersSpec => []TasksBounded
  BY <1>1, <1>2, <1>3, PTL DEF TimersSpec
<1>6. TimersSpec => [][Cause]_timersVars
  BY <1>1, <1>2, <1>4, PTL DEF TimersSpec
<1>7. TimersExact <=> []TasksBounded /\ [][Cause]_timersVars
  BY DEF TimersExact, RefusedForCause
<1> QED  BY <1>5, <1>6, <1>7

-----------------------------------------------------------------------------
(* The credentials of the command line. *)

LEMMA ConfigFacts ==
  /\ Missing.kind = "none" /\ Missing.provider = No /\ Missing.pending = No
  /\ \A a, b : Current(a, b).kind = "current" /\ Current(a, b).provider = a /\ Current(a, b).pending = b
               /\ Names(Current(a, b)) = {a, b}
  /\ \A a : Legacy(a).kind = "legacy" /\ Legacy(a).provider = a /\ Legacy(a).pending = No /\ Names(Legacy(a)) = {a, No}
  /\ Names(Missing) = {No}
BY DEF Missing, Current, Legacy, Names

LEMMA RefsFacts == LegacyRef \in Refs /\ No \notin Refs /\ No \in Nat /\ Refs \subseteq Nat /\ Nobody \notin Procs
BY CliAssumption DEF LegacyRef, Refs, No, Nobody

\* A file names at most one reference.
LEMMA OneName ==
  ASSUME NEW d \in Configs
  PROVE  /\ d.provider \in Refs \cup {No} /\ d.pending \in Refs \cup {No}
         /\ d.provider = No \/ d.pending = No
         /\ d.pending # No => d = Current(No, d.pending)
         /\ d.kind = "current" => (d = Current(d.provider, No) \/ d = Current(No, d.pending))
         /\ d.kind = "legacy" => d \in {Legacy(No), Legacy(LegacyRef)}
         /\ Names(d) = {d.provider, d.pending}
<1>1. CASE d = Missing
  BY <1>1, ConfigFacts DEF Names
<1>2. CASE d \in {Legacy(No), Legacy(LegacyRef)}
  BY <1>2, ConfigFacts, RefsFacts DEF Names
<1>3. CASE \E r \in Refs \cup {No} : d = Current(r, No)
  <2>1. PICK r \in Refs \cup {No} : d = Current(r, No)
    BY <1>3
  <2> QED  BY <2>1, ConfigFacts, RefsFacts DEF Names
<1>4. CASE \E r \in Refs : d = Current(No, r)
  <2>1. PICK r \in Refs : d = Current(No, r)
    BY <1>4
  <2> QED  BY <2>1, ConfigFacts, RefsFacts DEF Names
<1> QED  BY <1>1, <1>2, <1>3, <1>4 DEF Configs

LEMMA IsConfig ==
  ASSUME NEW r \in Refs \cup {No}
  PROVE  Current(r, No) \in Configs /\ Current(No, r) \in Configs
BY DEF Configs

-----------------------------------------------------------------------------
(* What a write or a call of the store leaves of the files. *)

\* The file is replaced by one that names every credential and has that of its provider: the
\* write succeeds, fails, or is not known to be durable.
LEMMA FileWritten ==
  ASSUME FilesOK, NEW new \in Configs, new.kind = "current", UNCHANGED <<store, torn>>,
         \A r \in Refs : store[r] # No => r \in Names(new),
         (new.provider # No /\ ~torn) => store[new.provider] # No,
         \/ disk' = new /\ safe' = new
         \/ UNCHANGED <<disk, safe>>
         \/ disk' = new /\ UNCHANGED safe
  PROVE  FilesOK'
<1>1. disk' \in Configs /\ safe' \in Configs /\ store' \in [Refs -> Nat] /\ torn' \in BOOLEAN
  BY DEF FilesOK
<1>2. disk'.kind = "legacy" => safe' = disk'
  BY DEF FilesOK
<1>3. SecretsNamed'
  <2> SUFFICES ASSUME NEW r \in Refs, store[r] # No PROVE r \in Names(disk)' \cap Names(safe)'
    BY DEF SecretsNamed
  <2>1. r \in Names(new) /\ r \in Names(disk) /\ r \in Names(safe)
    BY DEF FilesOK, SecretsNamed
  <2> QED  BY <2>1 DEF Names
<1>4. ProviderHasSecret'
  BY DEF FilesOK, ProviderHasSecret
<1> QED  BY <1>1, <1>2, <1>3, <1>4 DEF FilesOK

\* A credential is stored under a reference that both files name, or deleted where it is not
\* the provider's; or nothing happens.
LEMMA StoreChanged ==
  ASSUME FilesOK, NEW r \in Refs, NEW v \in Nat, PutMaybe(r, v), UNCHANGED <<disk, safe, torn>>,
         v # No => r \in Names(disk) \cap Names(safe),
         v = No => ~(disk.kind = "current" /\ disk.provider = r)
  PROVE  FilesOK'
<1>1. store' = store \/ store' = [store EXCEPT ![r] = v]
  BY DEF PutMaybe
<1>2. store' \in [Refs -> Nat]
  BY <1>1 DEF FilesOK
<1>3. \A q \in Refs : store'[q] = store[q] \/ (q = r /\ store'[q] = v)
  BY <1>1 DEF FilesOK
<1>4. Names(disk)' = Names(disk) /\ Names(safe)' = Names(safe)
  BY DEF Names
<1>5. SecretsNamed'
  BY <1>3, <1>4 DEF FilesOK, SecretsNamed
<1>6. ProviderHasSecret'
  <2> SUFFICES ASSUME disk.kind = "current", disk.provider # No, ~torn PROVE store'[disk.provider] # No
    BY DEF ProviderHasSecret
  <2>1. disk.provider \in Refs /\ store[disk.provider] # No
    BY OneName DEF FilesOK, ProviderHasSecret
  <2> QED  BY <1>3, <2>1
<1> QED  BY <1>2, <1>5, <1>6 DEF FilesOK

\* A file without a name: the store is empty.
LEMMA NoNameNoSecret ==
  ASSUME FilesOK, disk.provider = No, disk.pending = No
  PROVE  \A r \in Refs : store[r] = No
BY RefsFacts, OneName DEF FilesOK, SecretsNamed

-----------------------------------------------------------------------------
(* What a step leaves of the commands. *)

\* The command of p is at a place that the invariant allows, and no other command has moved.
Moved(p) ==
  /\ cmd' \in [Procs -> Commands] /\ \A q \in Procs \ {p} : cmd'[q] = cmd[q]
  /\ CommandOK(p)'

\* Only the process that holds the lock changes the file or the store.
LEMMA OthersWait ==
  ASSUME CliInv, NEW p \in Procs, Moved(p), lock' = lock \/ (lock \in {p, Nobody} /\ lock' \in {p, Nobody}),
         lock = p \/ UNCHANGED <<disk, safe, store>>, FilesOK', FreshOK'
  PROVE  CliInv'
<1>1. ASSUME NEW q \in Procs, q # p PROVE CommandOK(q)'
  <2>1. cmd'[q] = cmd[q] /\ CommandOK(q)
    BY <1>1 DEF Moved, CliInv
  <2>2. (lock' = q) <=> (lock = q)
    BY <1>1, RefsFacts
  <2>3. CASE cmd[q].pc \notin Holding
    BY <2>1, <2>2, <2>3 DEF CommandOK, InsideOK, Holding
  <2>4. CASE cmd[q].pc \in Holding
    <3>1. lock = q /\ UNCHANGED <<disk, safe, store>>
      BY <1>1, <2>1, <2>4 DEF CommandOK
    <3>2. BeingStored(cmd[q])' = BeingStored(cmd[q])
      BY <2>1, <3>1 DEF BeingStored, Names
    <3> QED  BY <2>1, <2>2, <3>1, <3>2 DEF CommandOK, InsideOK
  <2> QED  BY <2>3, <2>4
<1>2. \A q \in Procs : CommandOK(q)'
  BY <1>1 DEF Moved
<1> QED  BY <1>2 DEF CliInv, Moved

LEMMA IdleIsCommand ==
  Idle \in Commands /\ Idle.pc = "none" /\ ~Idle.first /\ Idle.prev = No /\ Idle.op = "none"
BY RefsFacts DEF Idle, Commands, No

LEMMA Returned ==
  ASSUME CliInv, NEW p \in Procs, Return(p)
  PROVE  Moved(p) /\ lock' = Nobody
<1>1. cmd' = [cmd EXCEPT ![p] = Idle] /\ lock' = Nobody /\ cmd \in [Procs -> Commands]
  BY DEF Return, CliInv
<1>2. cmd'[p] = Idle /\ cmd' \in [Procs -> Commands] /\ \A q \in Procs \ {p} : cmd'[q] = cmd[q]
  BY <1>1, IdleIsCommand
<1>3. CommandOK(p)'
  BY <1>1, <1>2, IdleIsCommand, RefsFacts DEF CommandOK, InsideOK, Holding
<1> QED  BY <1>1, <1>2, <1>3 DEF Moved

\* What the command of p is when it has gone on to another place
LEMMA Continued ==
  ASSUME CliInv, NEW p \in Procs, NEW place \in Holding, Continue(p, place)
  PROVE  /\ cmd' \in [Procs -> Commands] /\ \A q \in Procs \ {p} : cmd'[q] = cmd[q]
         /\ cmd'[p].pc = place /\ cmd'[p].ref = cmd[p].ref /\ cmd'[p].secret = cmd[p].secret
         /\ cmd'[p].first = cmd[p].first /\ cmd'[p].prev = cmd[p].prev /\ cmd'[p].op = cmd[p].op /\ lock' = lock
<1>1. cmd' = [cmd EXCEPT ![p] = [cmd[p] EXCEPT !.pc = place]] /\ lock' = lock /\ cmd[p] \in Commands /\ cmd \in [Procs -> Commands]
  BY DEF Continue, CliInv
<1>2. [cmd[p] EXCEPT !.pc = place] \in Commands
  BY <1>1 DEF Commands, Holding
<1>3. cmd'[p] = [cmd[p] EXCEPT !.pc = place]
  BY <1>1
<1>4. /\ cmd'[p].pc = place /\ cmd'[p].ref = cmd[p].ref /\ cmd'[p].secret = cmd[p].secret
      /\ cmd'[p].first = cmd[p].first /\ cmd'[p].prev = cmd[p].prev /\ cmd'[p].op = cmd[p].op
  BY <1>1, <1>3 DEF Commands
<1> QED  BY <1>1, <1>2, <1>4

LEMMA LoadedMoves ==
  ASSUME CliInv, NEW p \in Procs, lock = p, Loaded(p), disk' \in Configs, ~cmd[p].first, cmd[p].prev = No
  PROVE  Moved(p) /\ lock' \in {p, Nobody}
<1>1. CASE cmd[p].op = "login"
  <2>1. Continue(p, "load") /\ "load" \in Holding
    BY <1>1 DEF Loaded, Holding
  <2>2. /\ cmd' \in [Procs -> Commands] /\ \A q \in Procs \ {p} : cmd'[q] = cmd[q]
        /\ cmd'[p].pc = "load" /\ cmd'[p].first = cmd[p].first /\ cmd'[p].prev = cmd[p].prev /\ lock' = lock
    BY <2>1, Continued
  <2>3. CommandOK(p)'
    BY <2>2 DEF CommandOK, InsideOK, Holding
  <2> QED  BY <2>2, <2>3 DEF Moved
<1>2. CASE cmd[p].op = "start"
  <2> DEFINE c == [Idle EXCEPT !.op = "start", !.pc = "request", !.ref = disk'.provider]
  <2>1. cmd' = [cmd EXCEPT ![p] = c] /\ lock' = Nobody /\ cmd \in [Procs -> Commands]
    BY <1>2 DEF Loaded, CliInv
  <2>2. c \in Commands /\ c.pc = "request"
    <3>1. disk'.provider \in Refs \cup {No}
      BY OneName
    <3> QED  BY <3>1, IdleIsCommand DEF Commands, Idle
  <2> HIDE DEF c
  <2>3. cmd'[p] = c /\ cmd' \in [Procs -> Commands] /\ \A q \in Procs \ {p} : cmd'[q] = cmd[q]
    BY <2>1, <2>2
  <2>4. CommandOK(p)'
    BY <2>1, <2>2, <2>3, RefsFacts DEF CommandOK, InsideOK, Holding
  <2> QED  BY <2>1, <2>3, <2>4 DEF Moved
<1>3. CASE cmd[p].op \notin {"login", "start"}
  <2>1. Return(p)
    BY <1>3 DEF Loaded
  <2> QED  BY <2>1, Returned
<1> QED  BY <1>1, <1>2, <1>3

-----------------------------------------------------------------------------
(* Commands that do not hold the lock. *)

\* The command of p becomes c, at a place without duties.
LEMMA SetTo ==
  ASSUME CliInv, NEW p \in Procs, NEW c \in Commands, cmd' = [cmd EXCEPT ![p] = c],
         c.pc \in {"none", "acquire", "load", "request", "poll"},
         c.pc \in {"acquire", "load"} => (~c.first /\ c.prev = No),
         (lock' = p) <=> (c.pc = "load")
  PROVE  Moved(p)
<1>1. cmd'[p] = c /\ cmd' \in [Procs -> Commands] /\ \A q \in Procs \ {p} : cmd'[q] = cmd[q]
  BY DEF CliInv
<1>2. CommandOK(p)'
  BY <1>1 DEF CommandOK, InsideOK, Holding
<1> QED  BY <1>1, <1>2 DEF Moved

\* Nothing is written: what the invariant says of the files stays.
LEMMA FilesStay ==
  ASSUME FilesOK, UNCHANGED <<disk, safe, store, torn>>
  PROVE  FilesOK'
BY DEF FilesOK, SecretsNamed, ProviderHasSecret, Names

LEMMA CliCommand ==
  ASSUME CliInv, NEW p \in Procs, NEW op \in {"open", "start", "logout"}, Command(p, op)
  PROVE  CliInv'
<1> DEFINE c == [Idle EXCEPT !.op = op, !.pc = "acquire"]
<1>1. cmd[p] = Idle /\ cmd' = [cmd EXCEPT ![p] = c] /\ UNCHANGED <<disk, safe, store, lock, fresh, torn>>
  BY DEF Command
<1>2. c \in Commands /\ c.pc = "acquire" /\ ~c.first /\ c.prev = No
  BY IdleIsCommand DEF Commands, Idle
<1>3. lock # p
  BY <1>1, IdleIsCommand DEF CliInv, CommandOK, Holding
<1> HIDE DEF c
<1>4. Moved(p)
  BY <1>1, <1>2, <1>3, SetTo
<1>5. FilesOK' /\ FreshOK'
  BY <1>1, FilesStay DEF CliInv, FreshOK
<1> QED  BY <1>1, <1>4, <1>5, OthersWait

LEMMA CliAcquire ==
  ASSUME CliInv, NEW p \in Procs, Acquire(p)
  PROVE  CliInv'
<1> DEFINE c == [cmd[p] EXCEPT !.pc = "load"]
<1>1. /\ cmd[p].pc = "acquire" /\ lock = Nobody /\ lock' = p /\ cmd' = [cmd EXCEPT ![p] = c]
      /\ UNCHANGED <<disk, safe, store, fresh, torn>> /\ cmd[p] \in Commands
  BY DEF Acquire, At, CliInv
<1>2. c \in Commands /\ c.pc = "load" /\ c.first = cmd[p].first /\ c.prev = cmd[p].prev
  BY <1>1 DEF Commands
<1>3. ~cmd[p].first /\ cmd[p].prev = No
  BY <1>1 DEF CliInv, CommandOK
<1> HIDE DEF c
<1>4. Moved(p)
  BY <1>1, <1>2, <1>3, SetTo
<1>5. FilesOK' /\ FreshOK'
  BY <1>1, FilesStay DEF CliInv, FreshOK
<1> QED  BY <1>1, <1>4, <1>5, OthersWait

LEMMA CliRequest ==
  ASSUME CliInv, NEW p \in Procs, Request(p)
  PROVE  CliInv'
<1>1. cmd[p].pc = "request" /\ UNCHANGED <<disk, safe, store, lock, fresh, torn>> /\ cmd[p] \in Commands
  BY DEF Request, At, CliInv
<1>2. PICK c \in {[cmd[p] EXCEPT !.pc = "poll"], Idle} : cmd' = [cmd EXCEPT ![p] = c]
  BY DEF Request
<1>3. c \in Commands /\ c.pc \in {"poll", "none"}
  BY <1>1, <1>2, IdleIsCommand DEF Commands
<1>4. lock # p
  BY <1>1 DEF CliInv, CommandOK, Holding
<1>5. Moved(p)
  BY <1>1, <1>2, <1>3, <1>4, SetTo
<1>6. FilesOK' /\ FreshOK'
  BY <1>1, FilesStay DEF CliInv, FreshOK
<1> QED  BY <1>1, <1>5, <1>6, OthersWait

LEMMA CliPoll ==
  ASSUME CliInv, NEW p \in Procs, Poll(p)
  PROVE  CliInv'
<1> DEFINE l == [Idle EXCEPT !.op = "login", !.pc = "acquire"]
<1>1. cmd[p].pc = "poll" /\ UNCHANGED <<disk, safe, store, lock, fresh, torn>>
  BY DEF Poll, At
<1>2. PICK c \in {Idle, l} : cmd' = [cmd EXCEPT ![p] = c]
  BY DEF Poll
<1>3. l \in Commands /\ l.pc = "acquire" /\ ~l.first /\ l.prev = No
  BY IdleIsCommand DEF Commands, Idle
<1> HIDE DEF l
<1>4. c \in Commands /\ c.pc \in {"acquire", "none"} /\ ~c.first /\ c.prev = No
  BY <1>2, <1>3, IdleIsCommand
<1>5. lock # p
  BY <1>1 DEF CliInv, CommandOK, Holding
<1>6. Moved(p)
  BY <1>1, <1>2, <1>4, <1>5, SetTo
<1>7. FilesOK' /\ FreshOK'
  BY <1>1, FilesStay DEF CliInv, FreshOK
<1> QED  BY <1>1, <1>6, <1>7, OthersWait

LEMMA CliKill ==
  ASSUME CliInv, NEW p \in Procs, Kill(p)
  PROVE  CliInv'
<1>1. /\ cmd' = [cmd EXCEPT ![p] = Idle] /\ lock' = IF lock = p THEN Nobody ELSE lock
      /\ UNCHANGED <<disk, safe, store, fresh, torn>>
  BY DEF Kill
<1>2. lock' # p
  BY <1>1, RefsFacts
<1>3. Moved(p)
  BY <1>1, <1>2, IdleIsCommand, SetTo
<1>4. FilesOK' /\ FreshOK'
  BY <1>1, FilesStay DEF CliInv, FreshOK
<1> QED  BY <1>1, <1>3, <1>4, OthersWait

LEMMA CliPowerLoss ==
  ASSUME CliInv, PowerLoss
  PROVE  CliInv'
<1>1. /\ disk' = safe /\ torn' = TRUE /\ cmd' = [p \in Procs |-> Idle] /\ lock' = Nobody
      /\ UNCHANGED <<safe, store, fresh>> /\ FilesOK
  BY DEF PowerLoss, CliInv
<1>2. SecretsNamed'
  BY <1>1 DEF FilesOK, SecretsNamed, Names
<1>3. FilesOK' /\ FreshOK'
  BY <1>1, <1>2 DEF CliInv, FilesOK, FreshOK, ProviderHasSecret
<1>4. ASSUME NEW p \in Procs PROVE CommandOK(p)'
  BY <1>1, IdleIsCommand, RefsFacts DEF CommandOK, InsideOK, Holding
<1>5. cmd' \in [Procs -> Commands]
  BY <1>1, IdleIsCommand
<1> QED  BY <1>3, <1>4, <1>5 DEF CliInv

-----------------------------------------------------------------------------
(* Commands that hold the lock. *)

LEMMA CliLoadCurrent ==
  ASSUME CliInv, NEW p \in Procs, LoadCurrent(p)
  PROVE  CliInv'
<1>1. /\ cmd[p].pc = "load" /\ UNCHANGED <<disk, safe, store, fresh, torn>> /\ (Return(p) \/ Loaded(p))
  BY DEF LoadCurrent, At
<1>2. lock = p /\ ~cmd[p].first /\ cmd[p].prev = No /\ disk' \in Configs
  BY <1>1 DEF CliInv, CommandOK, Holding, FilesOK
<1>3. Moved(p) /\ lock' \in {p, Nobody}
  BY <1>1, <1>2, Returned, LoadedMoves
<1>4. FilesOK' /\ FreshOK'
  BY <1>1, FilesStay DEF CliInv, FreshOK
<1> QED  BY <1>2, <1>3, <1>4, OthersWait

LEMMA CliRefuseCommand ==
  ASSUME CliInv, NEW p \in Procs, RefuseCommand(p)
  PROVE  CliInv'
<1>1. cmd[p].pc = "load" /\ Return(p) /\ UNCHANGED <<disk, safe, store, fresh, torn>>
  BY DEF RefuseCommand, At
<1>2. lock = p
  BY <1>1 DEF CliInv, CommandOK, Holding
<1>3. Moved(p) /\ lock' = Nobody
  BY <1>1, Returned
<1>4. FilesOK' /\ FreshOK'
  BY <1>1, FilesStay DEF CliInv, FreshOK
<1> QED  BY <1>2, <1>3, <1>4, OthersWait

LEMMA CliWriteDefault ==
  ASSUME CliInv, NEW p \in Procs, WriteDefault(p)
  PROVE  CliInv'
<1> DEFINE new == Current(No, No)
<1>1. /\ cmd[p].pc = "load" /\ disk \in {Missing, Legacy(No)} /\ UNCHANGED <<store, fresh, torn>>
      /\ \/ disk' = new /\ safe' = new /\ Loaded(p)
         \/ UNCHANGED <<disk, safe>> /\ Return(p)
         \/ disk' = new /\ UNCHANGED safe /\ Return(p)
  BY DEF WriteDefault, WriteConfig, At, ContinueOrReturn
<1>2. lock = p /\ ~cmd[p].first /\ cmd[p].prev = No /\ FilesOK
  BY <1>1 DEF CliInv, CommandOK, Holding
<1>3. disk.provider = No /\ disk.pending = No /\ new \in Configs /\ new.kind = "current" /\ new.provider = No
  BY <1>1, ConfigFacts, IsConfig
<1>4. \A r \in Refs : store[r] = No
  BY <1>2, <1>3, NoNameNoSecret
<1> HIDE DEF new
<1>5. FilesOK'
  BY <1>1, <1>2, <1>3, <1>4, FileWritten
<1>6. Moved(p) /\ lock' \in {p, Nobody}
  BY <1>1, <1>2, <1>3, Returned, LoadedMoves
<1>7. FreshOK'
  BY <1>1 DEF CliInv, FreshOK
<1> QED  BY <1>2, <1>5, <1>6, <1>7, OthersWait

\* A command that begins to store a credential
LEMMA BeginsToStore ==
  ASSUME CliInv, NEW p \in Procs, NEW c \in Commands, lock = p, lock' = p, cmd' = [cmd EXCEPT ![p] = c], c.pc = "put",
         BeingStored(cmd[p])', cmd'[p].first => store'[cmd'[p].ref] = No
  PROVE  Moved(p)
<1>1. cmd'[p] = c /\ cmd' \in [Procs -> Commands] /\ \A q \in Procs \ {p} : cmd'[q] = cmd[q]
  BY DEF CliInv
<1>2. CommandOK(p)'
  BY <1>1 DEF CommandOK, InsideOK, Holding
<1> QED  BY <1>1, <1>2 DEF Moved

LEMMA CliMigrate ==
  ASSUME CliInv, NEW p \in Procs, Migrate(p)
  PROVE  CliInv'
<1> DEFINE c == [cmd[p] EXCEPT !.pc = "put", !.ref = LegacyRef, !.secret = fresh'.secrets, !.prev = No, !.first = FALSE]
<1>1. /\ cmd[p].pc = "load" /\ disk = Legacy(LegacyRef) /\ fresh' = [fresh EXCEPT !.secrets = @ + 1]
      /\ cmd' = [cmd EXCEPT ![p] = c] /\ UNCHANGED <<disk, safe, store, lock, torn>>
      /\ cmd[p] \in Commands /\ cmd \in [Procs -> Commands]
  BY DEF Migrate, At, CliInv
<1>2. lock = p /\ FilesOK /\ FreshOK
  BY <1>1 DEF CliInv, CommandOK, Holding
<1>3. FreshOK' /\ fresh'.secrets \in Nat /\ fresh'.secrets # No
  BY <1>1, <1>2 DEF FreshOK, No
<1>4. /\ c \in Commands /\ c.pc = "put" /\ c.ref = LegacyRef /\ c.secret = fresh'.secrets /\ c.prev = No /\ ~c.first
  BY <1>1, <1>3, RefsFacts DEF Commands
<1>5. cmd'[p] = c
  BY <1>1
<1> HIDE DEF c
<1>6. safe = disk /\ LegacyRef \in Names(safe)
  BY <1>1, <1>2, ConfigFacts DEF FilesOK
<1>7. BeingStored(cmd[p])'
  BY <1>1, <1>3, <1>4, <1>5, <1>6, RefsFacts DEF BeingStored, Names
<1>8. Moved(p)
  BY <1>1, <1>2, <1>4, <1>5, <1>7, BeginsToStore
<1>9. FilesOK'
  BY <1>1, <1>2, FilesStay
<1> QED  BY <1>1, <1>2, <1>3, <1>8, <1>9, OthersWait

LEMMA CliRefresh ==
  ASSUME CliInv, NEW p \in Procs, Refresh(p)
  PROVE  CliInv'
<1> DEFINE c == [cmd[p] EXCEPT !.pc = "put", !.ref = disk.provider, !.secret = fresh'.secrets, !.prev = store[disk.provider]]
<1>1. /\ cmd[p].pc = "load" /\ disk.kind = "current" /\ disk.provider # No /\ store[disk.provider] # No
      /\ fresh' = [fresh EXCEPT !.secrets = @ + 1]
      /\ cmd' = [cmd EXCEPT ![p] = c] /\ UNCHANGED <<disk, safe, store, lock, torn>>
      /\ cmd[p] \in Commands /\ cmd \in [Procs -> Commands]
  BY DEF Refresh, At, CliInv
<1>2. lock = p /\ FilesOK /\ FreshOK /\ ~cmd[p].first
  BY <1>1 DEF CliInv, CommandOK, Holding
<1>3. FreshOK' /\ fresh'.secrets \in Nat /\ fresh'.secrets # No
  BY <1>1, <1>2 DEF FreshOK, No
<1>4. disk.provider \in Refs /\ store[disk.provider] \in Nat /\ disk = Current(disk.provider, No) /\ disk.provider \in Names(safe)
  <2>1. disk.provider \in Refs /\ disk \in Configs
    BY <1>1, <1>2, OneName DEF FilesOK
  <2>2. disk = Current(disk.provider, No)
    BY <1>1, <2>1, OneName, ConfigFacts
  <2> QED  BY <1>1, <1>2, <2>1, <2>2 DEF FilesOK, SecretsNamed
<1>5. /\ c \in Commands /\ c.pc = "put" /\ c.ref = disk.provider /\ c.secret = fresh'.secrets /\ c.prev = store[disk.provider]
      /\ c.first = cmd[p].first
  BY <1>1, <1>3, <1>4 DEF Commands
<1>6. cmd'[p] = c
  BY <1>1
<1> HIDE DEF c
<1>7. BeingStored(cmd[p])'
  <2>1. disk' = disk /\ store' = store /\ safe' = safe
    BY <1>1
  <2> QED  BY <1>1, <1>2, <1>3, <1>4, <1>5, <1>6, <2>1 DEF BeingStored, Names
<1>8. Moved(p)
  BY <1>1, <1>2, <1>5, <1>6, <1>7, BeginsToStore
<1>9. FilesOK'
  BY <1>1, <1>2, FilesStay
<1> QED  BY <1>1, <1>2, <1>3, <1>8, <1>9, OthersWait

LEMMA CliStage ==
  ASSUME CliInv, NEW p \in Procs, Stage(p)
  PROVE  CliInv'
<1> DEFINE r == fresh.refs + 1
           new == Current(No, r)
           c == [NewLogin(p) EXCEPT !.pc = "put"]
<1>1. /\ cmd[p].pc = "load" /\ disk = Current(No, No) /\ fresh.refs < MaxRefs
      /\ fresh' = [refs |-> fresh.refs + 1, secrets |-> fresh.secrets + 1] /\ fresh'.refs = r
      /\ UNCHANGED <<store, torn>> /\ cmd[p] \in Commands /\ cmd \in [Procs -> Commands]
  BY DEF Stage, CanLogin, At, CliInv
<1>2. \/ disk' = new /\ safe' = new /\ UNCHANGED lock /\ cmd' = [cmd EXCEPT ![p] = c]
      \/ UNCHANGED <<disk, safe>> /\ Return(p)
      \/ disk' = new /\ UNCHANGED safe /\ Return(p)
  BY <1>1 DEF Stage
<1>3. lock = p /\ FilesOK /\ FreshOK /\ ~cmd[p].first /\ cmd[p].prev = No
  BY <1>1 DEF CliInv, CommandOK, Holding
<1>4. r \in Refs /\ FreshOK' /\ fresh.secrets + 1 \in Nat /\ fresh.secrets + 1 # No
  BY <1>1, <1>3, CliAssumption DEF FreshOK, Refs, No
<1>5. \A q \in Refs : store[q] = No
  <2>1. disk.provider = No /\ disk.pending = No
    BY <1>1, ConfigFacts
  <2> QED  BY <1>3, <2>1, NoNameNoSecret
<1>6. new \in Configs /\ new.kind = "current" /\ new.provider = No
  BY <1>4, IsConfig, ConfigFacts
<1>7. /\ c \in Commands /\ c.pc = "put" /\ c.ref = r /\ c.secret = fresh.secrets + 1 /\ c.first /\ c.prev = cmd[p].prev
  BY <1>1, <1>4 DEF Commands, NewLogin
<1>8. Names(new) = {No, r}
  BY ConfigFacts
<1> HIDE DEF new, c, r
<1>9. FilesOK'
  BY <1>1, <1>2, <1>3, <1>5, <1>6, FileWritten
<1>10. CASE disk' = new /\ safe' = new /\ UNCHANGED lock /\ cmd' = [cmd EXCEPT ![p] = c]
  <2>1. cmd'[p] = c
    BY <1>1, <1>10
  <2>2. BeingStored(cmd[p])'
    <3>1. Names(safe)' = Names(new)
      BY <1>10 DEF Names
    <3> QED  BY <1>3, <1>4, <1>7, <1>8, <1>10, <2>1, <3>1 DEF BeingStored, new
  <2>3. store'[cmd'[p].ref] = No
    BY <1>1, <1>4, <1>5, <1>7, <2>1
  <2>4. Moved(p)
    BY <1>3, <1>7, <1>10, <2>2, <2>3, BeginsToStore
  <2> QED  BY <1>3, <1>4, <1>9, <1>10, <2>4, OthersWait
<1>11. CASE Return(p)
  BY <1>3, <1>4, <1>9, <1>11, Returned, OthersWait
<1> QED  BY <1>2, <1>10, <1>11

\* A command that goes on to another place of a login or a migration
LEMMA GoesOn ==
  ASSUME CliInv, NEW p \in Procs, NEW place \in Holding, Continue(p, place), lock = p, InsideOK(cmd[p])', place # "load"
  PROVE  Moved(p) /\ lock' = p
<1>1. /\ cmd' \in [Procs -> Commands] /\ \A q \in Procs \ {p} : cmd'[q] = cmd[q]
      /\ cmd'[p].pc = place /\ lock' = lock
  BY Continued
<1>2. CommandOK(p)'
  BY <1>1 DEF CommandOK, Holding
<1> QED  BY <1>1, <1>2 DEF Moved

LEMMA CliPut ==
  ASSUME CliInv, NEW p \in Procs, Put(p)
  PROVE  CliInv'
<1>1. cmd[p].pc = "put" /\ UNCHANGED <<disk, safe, fresh, torn>> /\ cmd[p] \in Commands
  BY DEF Put, At, CliInv
<1>2. lock = p /\ FilesOK /\ FreshOK /\ BeingStored(cmd[p]) /\ (cmd[p].first => store[cmd[p].ref] = No)
  BY <1>1 DEF CliInv, CommandOK, InsideOK, Holding
<1>3. cmd[p].ref \in Refs /\ cmd[p].secret \in Nat /\ cmd[p].secret # No /\ cmd[p].ref \in Names(disk) \cap Names(safe)
  BY <1>1, <1>2, ConfigFacts DEF BeingStored, Commands
<1>4. FreshOK'
  BY <1>1, <1>2 DEF FreshOK
<1>5. ASSUME NEW place \in {"verify", "rollback"}, PutMaybe(cmd[p].ref, cmd[p].secret), Continue(p, place) PROVE CliInv'
  <2>1. FilesOK'
    BY <1>1, <1>2, <1>3, <1>5, StoreChanged
  <2>2. place \in Holding /\ place # "load"
    BY DEF Holding
  <2>3. /\ cmd'[p].pc = place /\ cmd'[p].ref = cmd[p].ref /\ cmd'[p].secret = cmd[p].secret
        /\ cmd'[p].first = cmd[p].first /\ cmd'[p].prev = cmd[p].prev
    BY <1>5, <2>2, Continued
  <2>4. store'[cmd[p].ref] \in {store[cmd[p].ref], cmd[p].secret}
    BY <1>2, <1>3, <1>5 DEF PutMaybe, FilesOK
  <2>5. BeingStored(cmd[p])'
    BY <1>1, <1>2, <1>3, <2>3, <2>4 DEF BeingStored, Names
  <2>6. InsideOK(cmd[p])'
    BY <2>3, <2>5 DEF InsideOK
  <2>7. Moved(p) /\ lock' = p
    BY <1>2, <1>5, <2>2, <2>6, GoesOn
  <2> QED  BY <1>2, <1>4, <2>1, <2>7, OthersWait
<1>6. CASE store' = store /\ cmd[p].first /\ Continue(p, "clear")
  <2>1. FilesOK'
    BY <1>1, <1>2, <1>6, FilesStay
  <2>2. "clear" \in Holding
    BY DEF Holding
  <2>3. cmd'[p].pc = "clear" /\ cmd'[p].ref = cmd[p].ref
    BY <1>6, <2>2, Continued
  <2>4. disk' = Current(No, cmd[p].ref)
    BY <1>1, <1>2, <1>6 DEF BeingStored
  <2>5. InsideOK(cmd[p])'
    BY <1>2, <1>3, <1>6, <2>3, <2>4 DEF InsideOK
  <2>6. Moved(p) /\ lock' = p
    BY <1>2, <1>6, <2>2, <2>5, GoesOn
  <2> QED  BY <1>2, <1>4, <2>1, <2>6, OthersWait
<1>7. CASE store' = store /\ Return(p)
  <2>1. FilesOK'
    BY <1>1, <1>2, <1>7, FilesStay
  <2> QED  BY <1>2, <1>4, <1>7, <2>1, Returned, OthersWait
<1> QED  BY <1>5, <1>6, <1>7 DEF Put, ContinueOrReturn

LEMMA CliVerify ==
  ASSUME CliInv, NEW p \in Procs, Verify(p)
  PROVE  CliInv'
<1>1. cmd[p].pc = "verify" /\ UNCHANGED <<disk, safe, store, fresh, torn>>
  BY DEF Verify, At
<1>2. lock = p /\ FilesOK /\ FreshOK /\ BeingStored(cmd[p])
  BY <1>1 DEF CliInv, CommandOK, InsideOK, Holding
<1>3. FilesOK' /\ FreshOK'
  BY <1>1, <1>2, FilesStay DEF FreshOK
<1>4. CASE Return(p)
  BY <1>2, <1>3, <1>4, Returned, OthersWait
<1>5. ASSUME NEW place \in {"commit", "rollback"}, Continue(p, place), place = "commit" => (store[cmd[p].ref] # No /\ cmd[p].prev = No)
      PROVE  CliInv'
  <2>1. place \in Holding /\ place # "load"
    BY DEF Holding
  <2>2. /\ cmd'[p].pc = place /\ cmd'[p].ref = cmd[p].ref /\ cmd'[p].secret = cmd[p].secret
        /\ cmd'[p].first = cmd[p].first /\ cmd'[p].prev = cmd[p].prev
    BY <1>5, <2>1, Continued
  <2>3. BeingStored(cmd[p])'
    BY <1>1, <1>2, <2>2 DEF BeingStored, Names
  <2>4. InsideOK(cmd[p])'
    BY <1>1, <1>5, <2>2, <2>3 DEF InsideOK
  <2>5. Moved(p) /\ lock' = p
    BY <1>2, <1>5, <2>1, <2>4, GoesOn
  <2> QED  BY <1>2, <1>3, <2>5, OthersWait
<1>6. cmd[p].secret # No
  BY <1>2 DEF BeingStored
<1>7. \/ Return(p)
      \/ Continue(p, "rollback")
      \/ Continue(p, "commit") /\ store[cmd[p].ref] # No /\ cmd[p].prev = No
  BY <1>6 DEF Verify, ContinueOrReturn
<1> QED  BY <1>4, <1>5, <1>7

\* A deletion that goes on to clear a tombstone, or ends the command
LEMMA Deleted ==
  ASSUME CliInv, NEW p \in Procs, lock = p, cmd[p].ref \in Refs, UNCHANGED <<disk, safe, fresh, torn>>,
         NEW next \in {"clear", "return"}, DeleteVerified(p, cmd[p].ref, next, "return"),
         ~(disk.kind = "current" /\ disk.provider = cmd[p].ref),
         next = "clear" => disk = Current(No, cmd[p].ref)
  PROVE  CliInv'
<1>1. FilesOK /\ FreshOK /\ FreshOK'
  BY DEF CliInv, FreshOK
<1>2. PutMaybe(cmd[p].ref, No)
  BY DEF DeleteVerified, PutMaybe
<1>3. FilesOK'
  BY <1>1, <1>2, StoreChanged, RefsFacts
<1>4. CASE Return(p)
  BY <1>1, <1>3, <1>4, Returned, OthersWait
<1>5. CASE store' = [store EXCEPT ![cmd[p].ref] = No] /\ next = "clear" /\ Continue(p, "clear")
  <2>1. "clear" \in Holding
    BY DEF Holding
  <2>2. cmd'[p].pc = "clear" /\ cmd'[p].ref = cmd[p].ref
    BY <1>5, <2>1, Continued
  <2>3. store'[cmd[p].ref] = No
    BY <1>1, <1>5 DEF FilesOK
  <2>4. InsideOK(cmd[p])'
    BY <1>5, <2>2, <2>3 DEF InsideOK
  <2>5. Moved(p) /\ lock' = p
    BY <1>5, <2>1, <2>4, GoesOn
  <2> QED  BY <1>1, <1>3, <2>5, OthersWait
<1> QED  BY <1>4, <1>5 DEF DeleteVerified, ContinueOrReturn

LEMMA CliRollBackCredential ==
  ASSUME CliInv, NEW p \in Procs, RollBackCredential(p)
  PROVE  CliInv'
<1>1. cmd[p].pc = "rollback" /\ UNCHANGED <<disk, safe, fresh, torn>> /\ cmd[p] \in Commands
  BY DEF RollBackCredential, At, CliInv
<1>2. lock = p /\ FilesOK /\ FreshOK /\ BeingStored(cmd[p])
  BY <1>1 DEF CliInv, CommandOK, InsideOK, Holding
<1>3. cmd[p].ref \in Refs /\ cmd[p].prev \in Nat /\ cmd[p].ref \in Names(disk) \cap Names(safe)
  BY <1>1, <1>2, ConfigFacts DEF BeingStored, Commands
<1>4. CASE cmd[p].prev # No
  <2>1. PutMaybe(cmd[p].ref, cmd[p].prev) /\ Return(p)
    BY <1>4 DEF RollBackCredential
  <2>2. FilesOK' /\ FreshOK'
    BY <1>1, <1>2, <1>3, <1>4, <2>1, StoreChanged DEF FreshOK
  <2> QED  BY <1>2, <2>1, <2>2, Returned, OthersWait
<1>5. CASE cmd[p].prev = No
  <2> DEFINE next == IF cmd[p].first THEN "clear" ELSE "return"
  <2>1. DeleteVerified(p, cmd[p].ref, next, "return") /\ next \in {"clear", "return"}
    BY <1>5 DEF RollBackCredential
  <2>2. disk = Current(No, cmd[p].ref) \/ (~cmd[p].first /\ disk = Legacy(cmd[p].ref))
    BY <1>2, <1>5 DEF BeingStored
  <2>3. ~(disk.kind = "current" /\ disk.provider = cmd[p].ref) /\ (next = "clear" => disk = Current(No, cmd[p].ref))
    BY <1>3, <2>2, ConfigFacts, RefsFacts
  <2> HIDE DEF next
  <2> QED  BY <1>1, <1>2, <1>3, <2>1, <2>3, Deleted
<1> QED  BY <1>4, <1>5

LEMMA CliDelete ==
  ASSUME CliInv, NEW p \in Procs, Delete(p)
  PROVE  CliInv'
<1>1. cmd[p].pc = "delete" /\ UNCHANGED <<disk, safe, fresh, torn>> /\ DeleteVerified(p, cmd[p].ref, "clear", "return")
  BY DEF Delete, At
<1>2. lock = p /\ cmd[p].ref \in Refs /\ disk = Current(No, cmd[p].ref)
  BY <1>1 DEF CliInv, CommandOK, InsideOK, Holding
<1>3. disk.provider # cmd[p].ref
  BY <1>2, ConfigFacts, RefsFacts
<1> QED  BY <1>1, <1>2, <1>3, Deleted

LEMMA CliClear ==
  ASSUME CliInv, NEW p \in Procs, Clear(p)
  PROVE  CliInv'
<1> DEFINE new == Current(No, No)
<1>1. /\ cmd[p].pc = "clear" /\ UNCHANGED <<store, fresh, torn>> /\ Return(p)
      /\ (disk' = new /\ safe' = new) \/ UNCHANGED <<disk, safe>> \/ (disk' = new /\ UNCHANGED safe)
  BY DEF Clear, WriteConfig, At, ContinueOrReturn
<1>2. lock = p /\ FilesOK /\ cmd[p].ref \in Refs /\ disk = Current(No, cmd[p].ref) /\ store[cmd[p].ref] = No
  BY <1>1 DEF CliInv, CommandOK, InsideOK, Holding
<1>3. \A r \in Refs : store[r] = No
  <2>1. Names(disk) = {No, cmd[p].ref}
    BY <1>2, ConfigFacts
  <2> QED  BY <1>2, <2>1, RefsFacts DEF FilesOK, SecretsNamed
<1>4. new \in Configs /\ new.kind = "current" /\ new.provider = No
  BY IsConfig, ConfigFacts
<1> HIDE DEF new
<1>5. FilesOK' /\ FreshOK'
  BY <1>1, <1>2, <1>3, <1>4, FileWritten DEF CliInv, FreshOK
<1> QED  BY <1>1, <1>2, <1>5, Returned, OthersWait

LEMMA CliCommit ==
  ASSUME CliInv, NEW p \in Procs, Commit(p)
  PROVE  CliInv'
<1> DEFINE r == cmd[p].ref
           new == Current(r, No)
<1>1. /\ cmd[p].pc = "commit" /\ UNCHANGED <<store, fresh, torn>>
      /\ \/ disk' = new /\ safe' = new /\ (Return(p) \/ (~cmd[p].first /\ Loaded(p)))
         \/ UNCHANGED <<disk, safe>> /\ (Return(p) \/ Continue(p, "rollback"))
         \/ disk' = new /\ UNCHANGED safe /\ Return(p)
  BY DEF Commit, WriteConfig, At, ContinueOrReturn
<1>2. lock = p /\ FilesOK /\ BeingStored(cmd[p]) /\ store[r] # No /\ cmd[p].prev = No
  BY <1>1 DEF CliInv, CommandOK, InsideOK, Holding
<1>3. r \in Refs /\ Names(disk) = {No, r}
  BY <1>2, ConfigFacts DEF BeingStored
<1>4. new \in Configs /\ new.kind = "current" /\ new.provider = r /\ Names(new) = {r, No}
  BY <1>3, IsConfig, ConfigFacts
<1>5. \A q \in Refs : store[q] # No => q \in Names(new)
  BY <1>2, <1>3, <1>4 DEF FilesOK, SecretsNamed
<1>6. FreshOK'
  BY <1>1 DEF CliInv, FreshOK
<1> HIDE DEF new, r
<1>7. FilesOK'
  BY <1>1, <1>2, <1>4, <1>5, FileWritten
<1>8. CASE Return(p)
  BY <1>2, <1>6, <1>7, <1>8, Returned, OthersWait
<1>9. CASE ~cmd[p].first /\ Loaded(p) /\ disk' = new
  <2>1. Moved(p) /\ lock' \in {p, Nobody}
    BY <1>2, <1>4, <1>9, LoadedMoves
  <2> QED  BY <1>2, <1>6, <1>7, <2>1, OthersWait
<1>10. CASE UNCHANGED <<disk, safe>> /\ Continue(p, "rollback")
  <2>1. "rollback" \in Holding /\ "rollback" # "load"
    BY DEF Holding
  <2>2. /\ cmd'[p].pc = "rollback" /\ cmd'[p].ref = cmd[p].ref /\ cmd'[p].secret = cmd[p].secret
        /\ cmd'[p].first = cmd[p].first /\ cmd'[p].prev = cmd[p].prev
    BY <1>10, <2>1, Continued
  <2>3. BeingStored(cmd[p])'
    BY <1>1, <1>2, <1>10, <2>2 DEF BeingStored, Names
  <2>4. InsideOK(cmd[p])'
    BY <2>2, <2>3 DEF InsideOK
  <2>5. Moved(p) /\ lock' = p
    BY <1>2, <1>10, <2>1, <2>4, GoesOn
  <2> QED  BY <1>2, <1>6, <1>7, <2>5, OthersWait
<1> QED  BY <1>1, <1>8, <1>9, <1>10

\* A logout that goes on to delete the credential its tombstone names
LEMMA GoesToDelete ==
  ASSUME CliInv, NEW p \in Procs, lock = p, lock' = p, NEW r \in Refs, cmd' = [cmd EXCEPT ![p] = [@ EXCEPT !.pc = "delete", !.ref = r]],
         disk' = Current(No, r)
  PROVE  Moved(p)
<1> DEFINE c == [cmd[p] EXCEPT !.pc = "delete", !.ref = r]
<1>1. c \in Commands /\ c.pc = "delete" /\ c.ref = r
  BY DEF CliInv, Commands
<1>2. cmd' = [cmd EXCEPT ![p] = c]
  OBVIOUS
<1> HIDE DEF c
<1>3. cmd'[p] = c /\ cmd' \in [Procs -> Commands] /\ \A q \in Procs \ {p} : cmd'[q] = cmd[q]
  BY <1>1, <1>2 DEF CliInv
<1>4. CommandOK(p)'
  BY <1>1, <1>3 DEF CommandOK, InsideOK, Holding
<1> QED  BY <1>3, <1>4 DEF Moved

LEMMA CliResume ==
  ASSUME CliInv, NEW p \in Procs, Resume(p)
  PROVE  CliInv'
<1>1. /\ cmd[p].pc = "load" /\ disk.pending # No /\ UNCHANGED <<disk, safe, store, lock, fresh, torn>>
      /\ cmd' = [cmd EXCEPT ![p] = [@ EXCEPT !.pc = "delete", !.ref = disk.pending]]
  BY DEF Resume, At
<1>2. lock = p /\ FilesOK
  BY <1>1 DEF CliInv, CommandOK, Holding
<1>3. disk.pending \in Refs /\ disk = Current(No, disk.pending)
  BY <1>1, <1>2, OneName DEF FilesOK
<1>4. Moved(p)
  <2>1. PICK r \in Refs : r = disk.pending
    BY <1>3
  <2>2. disk' = Current(No, r)
    BY <1>1, <1>3, <2>1
  <2> QED  BY <1>1, <1>2, <2>1, <2>2, GoesToDelete
<1>5. FilesOK' /\ FreshOK'
  BY <1>1, <1>2, FilesStay DEF CliInv, FreshOK
<1> QED  BY <1>1, <1>2, <1>4, <1>5, OthersWait

LEMMA CliTombstone ==
  ASSUME CliInv, NEW p \in Procs, Tombstone(p)
  PROVE  CliInv'
<1>1. PICK r : r = disk.provider
  OBVIOUS
<1> DEFINE new == Current(No, r)
<1>2. /\ cmd[p].pc = "load" /\ disk.provider # No /\ UNCHANGED <<store, fresh, torn>>
      /\ \/ /\ disk' = new /\ safe' = new /\ UNCHANGED lock
            /\ cmd' = [cmd EXCEPT ![p] = [@ EXCEPT !.pc = "delete", !.ref = r]]
         \/ UNCHANGED <<disk, safe>> /\ Return(p)
         \/ disk' = new /\ UNCHANGED safe /\ Return(p)
  BY <1>1 DEF Tombstone, At
<1>3. lock = p /\ FilesOK /\ FreshOK'
  BY <1>2 DEF CliInv, CommandOK, Holding, FreshOK
<1>4. r \in Refs /\ Names(disk) = {r, No}
  BY <1>1, <1>2, <1>3, OneName DEF FilesOK
<1>5. new \in Configs /\ new.kind = "current" /\ new.provider = No /\ Names(new) = {No, r}
  BY <1>4, IsConfig, ConfigFacts
<1>6. \A q \in Refs : store[q] # No => q \in Names(new)
  BY <1>3, <1>4, <1>5 DEF FilesOK, SecretsNamed
<1> HIDE DEF new
<1>7. FilesOK'
  BY <1>2, <1>3, <1>5, <1>6, FileWritten
<1>8. CASE Return(p)
  BY <1>3, <1>7, <1>8, Returned, OthersWait
<1>9. CASE disk' = new /\ UNCHANGED lock /\ cmd' = [cmd EXCEPT ![p] = [@ EXCEPT !.pc = "delete", !.ref = r]]
  <2>1. Moved(p)
    BY <1>3, <1>4, <1>9, GoesToDelete DEF new
  <2> QED  BY <1>3, <1>7, <1>9, <2>1, OthersWait
<1> QED  BY <1>2, <1>8, <1>9

-----------------------------------------------------------------------------

LEMMA CliStarts ==
  ASSUME CliInit
  PROVE  CliInv
<1>1. /\ disk \in {Missing, Legacy(No), Legacy(LegacyRef)} /\ safe = disk /\ store = [r \in Refs |-> No] /\ lock = Nobody
      /\ cmd = [p \in Procs |-> Idle] /\ fresh = [refs |-> 1, secrets |-> 0] /\ torn = FALSE
  BY DEF CliInit
<1>2. disk \in Configs /\ disk.kind # "current"
  BY <1>1, ConfigFacts DEF Configs
<1>3. FilesOK
  BY <1>1, <1>2, RefsFacts DEF FilesOK, SecretsNamed, ProviderHasSecret
<1>4. FreshOK
  BY <1>1, CliAssumption DEF FreshOK
<1>5. cmd \in [Procs -> Commands]
  BY <1>1, IdleIsCommand
<1>6. ASSUME NEW p \in Procs PROVE CommandOK(p)
  BY <1>1, IdleIsCommand, RefsFacts DEF CommandOK, InsideOK, Holding
<1> QED  BY <1>3, <1>4, <1>5, <1>6 DEF CliInv

LEMMA CliStep ==
  ASSUME CliInv, [CliNext]_cliVars
  PROVE  CliInv'
<1>1. ASSUME NEW p \in Procs, NEW op \in {"open", "start", "logout"}, Command(p, op) PROVE CliInv'
  BY <1>1, CliCommand
<1>2. ASSUME NEW p \in Procs, Acquire(p) \/ Request(p) \/ Poll(p) \/ Kill(p) PROVE CliInv'
  BY <1>2, CliAcquire, CliRequest, CliPoll, CliKill
<1>3. ASSUME NEW p \in Procs, WriteDefault(p) \/ LoadCurrent(p) \/ RefuseCommand(p) \/ Migrate(p) \/ Refresh(p) \/ Stage(p) PROVE CliInv'
  BY <1>3, CliWriteDefault, CliLoadCurrent, CliRefuseCommand, CliMigrate, CliRefresh, CliStage
<1>4. ASSUME NEW p \in Procs, Put(p) \/ Verify(p) \/ RollBackCredential(p) \/ Clear(p) \/ Commit(p) PROVE CliInv'
  BY <1>4, CliPut, CliVerify, CliRollBackCredential, CliClear, CliCommit
<1>5. ASSUME NEW p \in Procs, Resume(p) \/ Tombstone(p) \/ Delete(p) PROVE CliInv'
  BY <1>5, CliResume, CliTombstone, CliDelete
<1>6. CASE PowerLoss
  BY <1>6, CliPowerLoss
<1>7. CASE UNCHANGED cliVars
  <2>1. UNCHANGED <<disk, safe, store, lock, cmd, fresh, torn>>
    BY <1>7 DEF cliVars
  <2>2. FilesOK' /\ FreshOK'
    BY <2>1, FilesStay DEF CliInv, FreshOK
  <2>3. \A p \in Procs : CommandOK(p)'
    BY <2>1 DEF CliInv, CommandOK, InsideOK, BeingStored, Names
  <2> QED  BY <2>1, <2>2, <2>3 DEF CliInv
<1> QED  BY <1>1, <1>2, <1>3, <1>4, <1>5, <1>6, <1>7 DEF CliNext

\* Whatever call of the store or write fails, is cut off by a kill or undone by a loss of
\* power: the file names every credential in the store, and the provider it names has one,
\* unless a loss of power undid a write (config.rs, login_at_with_writer and
\* remove_local_credential_with_writer).
THEOREM CredentialsAreNamed == CliSpec => []CredentialsSafe
<1>1. CliInit => CliInv
  BY CliStarts
<1>2. CliInv /\ [CliNext]_cliVars => CliInv'
  BY CliStep
<1>3. CliInv => CredentialsSafe
  BY DEF CliInv, FilesOK, CredentialsSafe
<1> QED  BY <1>1, <1>2, <1>3, PTL DEF CliSpec

=============================================================================
