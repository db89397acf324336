-------------------------- MODULE ProcessAdmission --------------------------
(***************************************************************************)
(* Admission of processes to an environment and to the node, and the end   *)
(* of their membership (crates/lunatic-process/src/env.rs, the guards of   *)
(* lib.rs and wasm.rs).  A spawn reserves a slot of the environment, then  *)
(* a lease of the node, and inserts the process; its registration guard    *)
(* takes it out again when the process ends or when setting it up fails,   *)
(* also if somebody else has called remove_process first.  The counters    *)
(* are separate atomics, so every access is a step of its own.             *)
(*                                                                         *)
(* A Spawner runs one process at a time; process ids are never reused, so  *)
(* a spawner stands for the id of its current process.  An id that is      *)
(* already registered is refused before anything is touched.               *)
(***************************************************************************)
EXTENDS Naturals, FiniteSets

CONSTANTS Env, Spawner,
          EnvLimit,    \* max_processes of every environment
          NodeLimit    \* limit of NodeProcessQuota

ASSUME AdmissionAssumption ==
  /\ EnvLimit \in Nat /\ NodeLimit \in Nat
  /\ IsFiniteSet(Spawner) /\ Env # {}

VARIABLES
  count,       \* count[e]: process_count of environment e
  node,        \* count of NodeProcessQuota
  listed,      \* spawners whose process is in the map of its environment
  env,         \* env[p]: the environment of p's process
  pc,          \* pc[p]: where the spawn, or the end of the process, is
  outside,     \* outside[p]: what a remove_process of another caller has yet to give back
  hooks,       \* hooks[p]: calls of the exit hook of p's process
  terminated   \* spawners whose process has terminated its lifecycle

vars == <<count, node, listed, env, pc, outside, hooks, terminated>>

Init ==
  /\ count = [e \in Env |-> 0] /\ node = 0 /\ listed = {}
  /\ env \in [Spawner -> Env]
  /\ pc = [p \in Spawner |-> "idle"] /\ outside = [p \in Spawner |-> "none"]
  /\ hooks = [p \in Spawner |-> 0] /\ terminated = {}

Goto(p, l) == pc' = [pc EXCEPT ![p] = l]
SlotAdded(e) == count' = [count EXCEPT ![e] = @ + 1]
SlotReleased(e) == count' = [count EXCEPT ![e] = @ - 1]

-----------------------------------------------------------------------------
(* add_process. *)

HasSlotAtLimit(e) == count[e] <= EnvLimit
HasSlot(e) == count[e] < EnvLimit
HasLeaseAtLimit == node <= NodeLimit
HasLease == node < NodeLimit

\* reserve_process_slot; a refusal leaves everything as it is.
ReserveSlot(p, e) ==
  /\ pc[p] = "idle" /\ outside[p] = "none" /\ HasSlot(e)
  /\ SlotAdded(e) /\ Goto(p, "slot")
  /\ env' = [env EXCEPT ![p] = e] /\ hooks' = [hooks EXCEPT ![p] = 0]
  /\ terminated' = terminated \ {p}
  /\ UNCHANGED <<node, listed, outside>>

ReserveLease(p) ==
  /\ pc[p] = "slot"
  /\ IF HasLease THEN node' = node + 1 /\ Goto(p, "lease")
                 ELSE Goto(p, "rollback") /\ UNCHANGED node
  /\ UNCHANGED <<count, listed, env, outside, hooks, terminated>>

KeepsSlot(e) == UNCHANGED count
\* A node refusal gives the environment's slot back.
RollbackSlot(e) == SlotReleased(e)

Rollback(p) ==
  /\ pc[p] = "rollback" /\ RollbackSlot(env[p]) /\ Goto(p, "idle")
  /\ UNCHANGED <<node, listed, env, outside, hooks, terminated>>

Insert(p) ==
  /\ pc[p] = "lease" /\ listed' = listed \cup {p} /\ Goto(p, "setup")
  /\ UNCHANGED <<count, node, env, outside, hooks, terminated>>

-----------------------------------------------------------------------------
(* The process and the guards around it. *)

\* Instantiation, version tracking and the link to the parent succeed.
Start(p) ==
  /\ pc[p] = "setup" /\ Goto(p, "running")
  /\ UNCHANGED <<count, node, listed, env, outside, hooks, terminated>>

\* The process finishes, its task is dropped, or its spawn fails.
End(p) ==
  /\ pc[p] \in {"setup", "running"} /\ Goto(p, "unregister")
  /\ UNCHANGED <<count, node, listed, env, outside, hooks, terminated>>

\* DashMap::remove gives the entry to one caller only.
Found(p) == p \in listed

\* remove_process by the guard: the entry, then the slot, then the lease.
RemoveProcess(p) ==
  /\ pc[p] = "unregister"
  /\ listed' = listed \ {p}
  /\ IF Found(p) THEN Goto(p, "release") ELSE Goto(p, "hook")
  /\ UNCHANGED <<count, node, env, outside, hooks, terminated>>

ReleaseSlot(p) ==
  /\ pc[p] = "release" /\ SlotReleased(env[p]) /\ Goto(p, "drop")
  /\ UNCHANGED <<node, listed, env, outside, hooks, terminated>>

DropLease(p) ==
  /\ pc[p] = "drop" /\ node' = node - 1 /\ Goto(p, "hook")
  /\ UNCHANGED <<count, listed, env, outside, hooks, terminated>>

NextAfterHook == "unregister"
\* unregister_inner has taken the environment and the hook out of the guard.
AfterHook == "terminate"

ExitHook(p) ==
  /\ pc[p] = "hook" /\ hooks' = [hooks EXCEPT ![p] = @ + 1] /\ Goto(p, AfterHook)
  /\ UNCHANGED <<count, node, listed, env, outside, terminated>>

Terminate(p) ==
  /\ pc[p] = "terminate" /\ terminated' = terminated \cup {p} /\ Goto(p, "idle")
  /\ UNCHANGED <<count, node, listed, env, outside, hooks>>

-----------------------------------------------------------------------------
(* remove_process by a caller without the guard. *)

RemoveOutside(p) ==
  /\ p \in listed
  /\ listed' = listed \ {p} /\ outside' = [outside EXCEPT ![p] = "release"]
  /\ UNCHANGED <<count, node, env, pc, hooks, terminated>>

ReleaseOutside(p) ==
  /\ outside[p] = "release"
  /\ SlotReleased(env[p]) /\ outside' = [outside EXCEPT ![p] = "drop"]
  /\ UNCHANGED <<node, listed, env, pc, hooks, terminated>>

DropOutside(p) ==
  /\ outside[p] = "drop"
  /\ node' = node - 1 /\ outside' = [outside EXCEPT ![p] = "none"]
  /\ UNCHANGED <<count, listed, env, pc, hooks, terminated>>

-----------------------------------------------------------------------------

Step(p) ==
  \/ \E e \in Env : ReserveSlot(p, e)
  \/ ReserveLease(p) \/ Rollback(p) \/ Insert(p) \/ Start(p) \/ End(p)
  \/ RemoveProcess(p) \/ ReleaseSlot(p) \/ DropLease(p) \/ ExitHook(p) \/ Terminate(p)
  \/ RemoveOutside(p) \/ ReleaseOutside(p) \/ DropOutside(p)

Next == \E p \in Spawner : Step(p)
Spec == Init /\ [][Next]_vars

-----------------------------------------------------------------------------
(* Properties. *)

\* Every variable has its type.
TypeOK ==
  /\ count \in [Env -> Nat] /\ node \in Nat
  /\ listed \in SUBSET Spawner /\ terminated \in SUBSET Spawner
  /\ env \in [Spawner -> Env]
  /\ pc \in [Spawner -> {"idle", "slot", "lease", "rollback", "setup", "running",
                         "unregister", "release", "drop", "hook", "terminate"}]
  /\ outside \in [Spawner -> {"none", "release", "drop"}]
  /\ hooks \in [Spawner -> Nat]

Members(e) == {p \in listed : env[p] = e}

\* No environment has more processes than max_processes, whatever the node
\* refuses and whoever removes them.
EnvBounded == \A e \in Env : Cardinality(Members(e)) <= EnvLimit

\* "The maximum aggregate number of simultaneously live processes on a node."
NodeBounded == Cardinality(listed) <= NodeLimit

Settled == \A p \in Spawner : pc[p] \in {"idle", "setup", "running"} /\ outside[p] = "none"

\* When no admission or removal is under way, the counters are the sizes of the
\* maps: no refusal, failed setup or doubled removal leaks or returns a slot twice.
NothingLeaks == Settled => /\ \A e \in Env : count[e] = Cardinality(Members(e))
                           /\ node = Cardinality(listed)

\* The exit hook "runs exactly once when process membership ends": not before, not
\* twice, and always by the time the process counts as terminated.
HookOnce ==
  \A p \in Spawner : /\ hooks[p] <= 1
                     /\ hooks[p] = 1 => p \notin listed
                     /\ p \in terminated => hooks[p] = 1

\* Both quotas hold and the end of a process is reported once, whichever of its
\* spawner, its guard and an outside caller takes it down.
AdmissionSafe == EnvBounded /\ NodeBounded /\ HookOnce

-----------------------------------------------------------------------------
(* What makes the invariants inductive. *)

\* The spawners that have a slot of e, and the ones that have a lease of the node.
Charged(e) ==
  {p \in Spawner : env[p] = e /\ \/ pc[p] \in {"slot", "lease", "rollback", "release"}
                                 \/ p \in listed \/ outside[p] = "release"}
Leased ==
  {p \in Spawner : pc[p] \in {"lease", "release", "drop"} \/ p \in listed
                   \/ outside[p] # "none"}

\* Where a process can be listed, or be given back by another caller.
Phases ==
  \A p \in Spawner :
    /\ p \in listed => pc[p] \in {"setup", "running", "unregister"} /\ outside[p] = "none"
    /\ outside[p] # "none" => pc[p] \in {"setup", "running", "unregister", "hook", "terminate", "idle"}

\* How often the hook has run.
HookPhases ==
  \A p \in Spawner :
    /\ pc[p] = "terminate" => hooks[p] = 1
    /\ pc[p] = "idle" => hooks[p] <= 1
    /\ pc[p] \notin {"terminate", "idle"} => hooks[p] = 0
    /\ p \in terminated => pc[p] = "idle" /\ hooks[p] = 1

Accounting ==
  /\ \A e \in Env : count[e] = Cardinality(Charged(e)) /\ count[e] <= EnvLimit
  /\ node = Cardinality(Leased) /\ node <= NodeLimit

AdmissionInv == TypeOK /\ Phases /\ HookPhases /\ Accounting
=============================================================================
