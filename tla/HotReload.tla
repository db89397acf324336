----------------------------- MODULE HotReload ------------------------------
(***************************************************************************)
(* A module update of watch mode (src/hot_reload/mod.rs, src/mode/run.rs): *)
(* the ReloadCoordinator asks every process that runs the module to apply  *)
(* the candidate version, collects acknowledgements under a timeout, and   *)
(* commits, or asks all of them to roll back and collects again            *)
(* (crates/lunatic-process/src/hot_reload.rs).  A process forwards the     *)
(* requests from its signal queue to the queue of its execution driver,    *)
(* which alone decides on them (lib.rs, wasm.rs).  The ModuleRegistry      *)
(* keeps the versions somebody may still need (module_registry.rs).        *)
(*                                                                         *)
(* One module and one environment.  The transaction lock of the module is  *)
(* held from BeginUpdate until the coordinator is idle again; the watch    *)
(* loop launches processes only in between.                                *)
(***************************************************************************)
EXTENDS Naturals, Sequences, FiniteSets

CONSTANTS Process,
          MaxVersion    \* bound: versions compiled in a behaviour

ASSUME ReloadAssumption == MaxVersion \in Nat /\ IsFiniteSet(Process)

Version == 0 .. MaxVersion
max_versions == 2
RoomForOneRequest == 1
RELOAD_QUEUE_CAPACITY == 16
Command == [phase : {"apply", "rollback"}, expected : Version, target : Version]
None == [phase |-> "none", expected |-> 0, target |-> 0]

VARIABLES
  versions,    \* versions the registry has, in the order of their numbers
  next,        \* next_version
  committed,   \* committed_version
  members,     \* members[v]: processes registered for version v
  launch,      \* launch_version of the watch loop
  pc,          \* what the coordinator is doing
  status,      \* ReloadStatus of the module
  old, cand,   \* the versions of the current update
  targets,     \* affected_processes
  replies,     \* replies[p]: p's acknowledgement channel in the current phase
  phase,       \* phase[p]: running, stopped (its future is dropped) or gone
  tracked,     \* tracked[p]: current_versions of p's context
  runs,        \* runs[p]: version of p's instance
  signals,     \* signals[p]: reload requests in p's signal queue
  queue,       \* queue[p]: requests in the queue of p's driver
  doing        \* doing[p]: the request p's driver executes

reloadVars == <<versions, next, committed, members, launch, pc, status, old, cand, targets,
          replies, phase, tracked, runs, signals, queue, doing>>
registry == <<versions, next, committed, members>>
update == <<pc, status, old, cand, targets>>

\* The watch loop starts with version 0 registered and committed.
ReloadInit ==
  /\ versions = {0} /\ next = 1 /\ committed = 0
  /\ members = [v \in Version |-> {}] /\ launch = 0
  /\ pc = "idle" /\ status = "none" /\ old = 0 /\ cand = 0 /\ targets = {}
  /\ replies = [p \in Process |-> "none"]
  /\ phase = [p \in Process |-> "gone"]
  /\ tracked = [p \in Process |-> 0] /\ runs = [p \in Process |-> 0]
  /\ signals = [p \in Process |-> <<>>] /\ queue = [p \in Process |-> <<>>]
  /\ doing = [p \in Process |-> None]

-----------------------------------------------------------------------------
(* The registry. *)

Recent(vs) == {v \in vs : Cardinality({w \in vs : w > v}) < max_versions}
NeededByProcess(v, c, ms) == ms[v] # {}
Needed(v, c, ms) == v = c \/ ms[v] # {}

\* cleanup_old_versions
Cleaned(vs, c, ms) == {v \in vs : v \in Recent(vs) \/ Needed(v, c, ms)}
NotCleaned(vs, c, ms) == vs
\* mark_committed, transition_process and unregister_process end with a cleanup.
AfterChange(vs, c, ms) == Cleaned(vs, c, ms)

processes_for_module == UNION {members[v] : v \in versions}
Joined(p, v) == [members EXCEPT ![v] = @ \cup {p}]
Left(p) == [v \in Version |-> members[v] \ {p}]

-----------------------------------------------------------------------------
(* The coordinator. *)

blocks_new_operation == status \in {"Applying", "RollingBack", "InDoubt"}

\* register_module_update up to start_reload: the candidate is added and the
\* processes that run the module become the targets.
BeginUpdate ==
  LET vs == versions \cup {next} IN
  /\ pc = "idle" /\ ~blocks_new_operation /\ next <= MaxVersion
  /\ old' = committed /\ cand' = next /\ next' = next + 1
  /\ versions' = IF Cardinality(vs) > max_versions THEN Cleaned(vs, committed, members) ELSE vs
  /\ targets' = processes_for_module
  /\ status' = "Applying" /\ pc' = "dispatchApply"
  /\ UNCHANGED <<committed, members, launch, replies, phase, tracked, runs, signals, queue, doing>>

\* A process that is gone, or whose signal queue refuses the request, drops the
\* acknowledgement sender.
Send(reached, c) ==
  /\ signals' = [p \in Process |-> IF p \in reached THEN Append(signals[p], c) ELSE signals[p]]
  /\ replies' = [p \in Process |-> IF p \in reached THEN "pending"
                                   ELSE IF p \in targets THEN "closed" ELSE "none"]
Reachable == SUBSET {p \in targets : phase[p] # "gone"}

DispatchApply(reached) ==
  /\ pc = "dispatchApply" /\ reached \in Reachable
  /\ Send(reached, [phase |-> "apply", expected |-> old, target |-> cand])
  /\ pc' = "apply"
  /\ UNCHANGED <<registry, launch, status, old, cand, targets, phase, tracked, runs, queue, doing>>

DispatchRollback(reached) ==
  /\ pc = "dispatchRollback" /\ reached \in Reachable
  /\ Send(reached, [phase |-> "rollback", expected |-> cand, target |-> old])
  /\ pc' = "rollback"
  /\ UNCHANGED <<registry, launch, status, old, cand, targets, phase, tracked, runs, queue, doing>>

AllAnswered == \A p \in targets : replies[p] # "pending"
\* collect_acknowledgements returns when every channel has answered or when its
\* timer expires.
CollectionOver(expired) == expired \/ AllAnswered
errors == {p \in targets : replies[p] # "done"}

EndApply(expired) ==
  /\ pc = "apply" /\ CollectionOver(expired)
  /\ \/ errors = {} /\ status' = "Committed" /\ pc' = "commit"
     \/ errors # {} /\ status' = "RollingBack" /\ pc' = "dispatchRollback"
  /\ UNCHANGED <<registry, launch, old, cand, targets, replies, phase, tracked, runs, signals, queue, doing>>

\* mark_committed; the watch loop notes the version for its next launch.
MarkCommitted ==
  /\ pc = "commit" /\ cand \in versions
  /\ committed' = cand /\ launch' = cand
  /\ versions' = AfterChange(versions, cand, members)
  /\ pc' = "idle"
  /\ UNCHANGED <<next, members, status, old, cand, targets, replies, phase, tracked, runs, signals, queue, doing>>

EndRollback(expired) ==
  /\ pc = "rollback" /\ CollectionOver(expired)
  /\ status' = IF errors = {} THEN "RolledBack" ELSE "InDoubt"
  /\ pc' = "idle"
  /\ UNCHANGED <<registry, launch, old, cand, targets, replies, phase, tracked, runs, signals, queue, doing>>

-----------------------------------------------------------------------------
(* A process. *)

\* An acknowledgement counts only in the phase whose channel it is for.
Answered(p, cs, r) ==
  IF replies[p] = "pending" /\ \E c \in cs : c.phase = pc
    THEN [replies EXCEPT ![p] = r] ELSE replies
Answer(p, c, r) == replies' = Answered(p, {c}, r)
Elements(s) == {s[i] : i \in 1 .. Len(s)}

Tracks(p, v) == tracked' = [tracked EXCEPT ![p] = v]

\* WatchProcessLauncher::start, until the process is registered.
Launch(p) ==
  /\ pc = "idle" /\ phase[p] = "gone" /\ launch \in versions
  /\ members' = Joined(p, launch)
  /\ Tracks(p, launch) /\ runs' = [runs EXCEPT ![p] = launch]
  /\ phase' = [phase EXCEPT ![p] = "running"]
  /\ UNCHANGED <<versions, next, committed, launch, update, replies, signals, queue, doing>>

TargetReached(p, c) == tracked[p] = c.target
\* "Always enqueue rollback, even when the process still reports the target version."
AnsweredBySignalLoop(p, c) == FALSE

\* The signal loop hands the request to the driver.  The driver's queue is never
\* full: an update sends a process at most two requests.
TakeSignal(p) ==
  LET c == Head(signals[p]) IN
  /\ phase[p] = "running" /\ signals[p] # <<>>
  /\ signals' = [signals EXCEPT ![p] = Tail(@)]
  /\ IF AnsweredBySignalLoop(p, c)
       THEN Answer(p, c, "done") /\ UNCHANGED queue
       ELSE queue' = [queue EXCEPT ![p] = Append(@, c)] /\ UNCHANGED replies
  /\ UNCHANGED <<registry, launch, update, phase, tracked, runs, doing>>

ExpectationMet(p, c) == c.expected = tracked[p]

\* The driver cancels the guest's call and looks at the request.
DriverTakes(p) ==
  LET c == Head(queue[p]) IN
  /\ phase[p] = "running" /\ doing[p] = None /\ queue[p] # <<>>
  /\ queue' = [queue EXCEPT ![p] = Tail(@)]
  /\ \/ TargetReached(p, c) /\ Answer(p, c, "done") /\ UNCHANGED doing
     \/ ~TargetReached(p, c) /\ ~ExpectationMet(p, c) /\ Answer(p, c, "failed") /\ UNCHANGED doing
     \/ /\ ~TargetReached(p, c) /\ ExpectationMet(p, c)
        /\ doing' = [doing EXCEPT ![p] = c] /\ UNCHANGED replies
  /\ UNCHANGED <<registry, launch, update, phase, tracked, runs, signals>>

\* perform_pending_reload succeeds: the new instance is in place.
Swap(p) ==
  /\ doing[p] # None /\ runs[p] = tracked[p]
  /\ {doing[p].target, tracked[p]} \subseteq versions
  /\ runs' = [runs EXCEPT ![p] = doing[p].target]
  /\ UNCHANGED <<registry, launch, update, replies, phase, tracked, signals, queue, doing>>

\* perform_pending_reload fails and puts the old instance back.
ReloadFails(p) ==
  /\ doing[p] # None /\ runs[p] = tracked[p]
  /\ Answer(p, doing[p], "failed") /\ doing' = [doing EXCEPT ![p] = None]
  /\ UNCHANGED <<registry, launch, update, phase, tracked, runs, signals, queue>>

\* transition_current_version, and the acknowledgement.
Account(p) ==
  LET v == doing[p].target
      ms == [Left(p) EXCEPT ![v] = @ \cup {p}]
  IN  /\ doing[p] # None /\ runs[p] = v
      /\ v \in versions /\ p \in members[tracked[p]]
      /\ members' = ms /\ versions' = AfterChange(versions, committed, ms)
      /\ Tracks(p, v)
      /\ Answer(p, doing[p], "done") /\ doing' = [doing EXCEPT ![p] = None]
      /\ UNCHANGED <<next, committed, launch, update, phase, runs, signals, queue>>

\* The process ends, whatever it is doing: its future, and the driver with it, is
\* dropped and its versions are unregistered.
Stop(p) ==
  /\ phase[p] = "running" /\ phase' = [phase EXCEPT ![p] = "stopped"]
  /\ replies' = Answered(p, Elements(queue[p]) \cup {doing[p]}, "closed")
  /\ queue' = [queue EXCEPT ![p] = <<>>] /\ doing' = [doing EXCEPT ![p] = None]
  /\ members' = Left(p) /\ versions' = AfterChange(versions, committed, Left(p))
  /\ UNCHANGED <<next, committed, launch, update, tracked, runs, signals>>

\* It leaves the environment, and its signal queue is dropped.
Leave(p) ==
  /\ phase[p] = "stopped" /\ phase' = [phase EXCEPT ![p] = "gone"]
  /\ replies' = Answered(p, Elements(signals[p]), "closed")
  /\ signals' = [signals EXCEPT ![p] = <<>>]
  /\ UNCHANGED <<registry, launch, update, tracked, runs, queue, doing>>

-----------------------------------------------------------------------------

Coordinate ==
  \/ \E reached \in SUBSET Process : DispatchApply(reached) \/ DispatchRollback(reached)
  \/ \E expired \in BOOLEAN : EndApply(expired) \/ EndRollback(expired)
  \/ MarkCommitted
Work(p) == TakeSignal(p) \/ DriverTakes(p) \/ Swap(p) \/ ReloadFails(p) \/ Account(p)

ReloadNext ==
  \/ BeginUpdate \/ Coordinate
  \/ \E p \in Process : Launch(p) \/ Work(p) \/ Stop(p) \/ Leave(p)

ReloadSpec == ReloadInit /\ [][ReloadNext]_reloadVars
\* The coordinator's timers expire; nothing is assumed of the processes.
ReloadFairSpec == ReloadSpec /\ WF_reloadVars(Coordinate)

-----------------------------------------------------------------------------
(* Properties. *)

\* Every variable has its type.
TypeOK ==
  /\ versions \in SUBSET Version /\ next \in 1 .. MaxVersion + 1 /\ committed \in Version
  /\ members \in [Version -> SUBSET Process] /\ launch \in Version
  /\ pc \in {"idle", "dispatchApply", "apply", "commit", "dispatchRollback", "rollback"}
  /\ status \in {"none", "Applying", "RollingBack", "Committed", "RolledBack", "InDoubt"}
  /\ old \in Version /\ cand \in Version /\ targets \in SUBSET Process
  /\ replies \in [Process -> {"none", "pending", "closed", "failed", "done"}]
  /\ phase \in [Process -> {"running", "stopped", "gone"}]
  /\ tracked \in [Process -> Version] /\ runs \in [Process -> Version]
  /\ signals \in [Process -> Seq(Command)] /\ queue \in [Process -> Seq(Command)]
  /\ doing \in [Process -> Command \cup {None}]

Running == {p \in Process : phase[p] = "running"}

\* Whenever no update is under way and none is in doubt, every running process runs
\* the committed version and no request is left that could move it: a commit is no
\* false success, a confirmed rollback covers an apply that came after its timeout.
Agreement ==
  pc = "idle" /\ status # "InDoubt" =>
    \A p \in Running : /\ runs[p] = committed /\ doing[p] = None
                       /\ signals[p] = <<>> /\ queue[p] = <<>>

\* The registry counts a process for exactly the version its context tracks, and
\* keeps the module of every instance, of the candidate and of the version to roll
\* back to: no commit, transition or rollback misses its module.
ModulesKept ==
  /\ \A p \in Process, v \in Version :
       p \in members[v] <=> phase[p] = "running" /\ tracked[p] = v
  /\ {committed, launch} \cup {runs[p] : p \in Running} \subseteq versions
  /\ pc # "idle" => {old, cand} \subseteq versions

\* Versions nobody needs are dropped, whatever process gives one up last: only the
\* latest ones, the committed one and the ones with processes stay.
NothingHoarded == \A v \in versions : v \in Recent(versions) \/ Needed(v, committed, members)

\* The queue of a driver never refuses a request: a process has at most two, even if
\* it answers none before its update is rolled back.
NothingRefused == \A p \in Process : Len(queue[p]) <= RELOAD_QUEUE_CAPACITY

\* Instances, registry and compiled modules agree whenever an update is over, no step
\* of one loses a module it needs or keeps one nobody does, and no driver refuses a
\* request.
ReloadSafe == Agreement /\ ModulesKept /\ NothingHoarded /\ NothingRefused

\* Every update ends: it commits, is rolled back or is in doubt, even if processes
\* never answer.
UpdateEnds == []<>(pc = "idle")
-----------------------------------------------------------------------------
(* Why the processes agree: what a process has been asked, and not yet answered. *)

ApplyRequest == [phase |-> "apply", expected |-> old, target |-> cand]
RollbackRequest == [phase |-> "rollback", expected |-> cand, target |-> old]

\* The requests on their way to p and in p, in the order in which it answers them
InOrder(d, q, s) == ((IF d = None THEN <<>> ELSE <<d>>) \o q) \o s
Asked(p) == InOrder(doing[p], queue[p], signals[p])

\* An update is under way, or its outcome is not known.
Unsettled == pc # "idle" \/ status = "InDoubt"

\* p has yet to apply the candidate, and will meet the version it expects.
MayApply(p) == Asked(p) = <<ApplyRequest>> /\ tracked[p] = old
\* A request to roll back is behind whatever was asked before.
MustRollBack(p) == \/ Asked(p) = <<RollbackRequest>>
                   \/ Asked(p) = <<ApplyRequest, RollbackRequest>> /\ tracked[p] = old

RequestsOK(p) ==
  /\ ~Unsettled => Asked(p) = <<>> /\ tracked[p] = committed
  /\ Unsettled => tracked[p] \in {old, cand}
  /\ pc = "dispatchApply" => Asked(p) = <<>> /\ tracked[p] = old
  /\ pc = "apply" =>
       \/ Asked(p) = <<>> /\ replies[p] # "pending" /\ (replies[p] = "done" => tracked[p] = cand)
       \/ MayApply(p) /\ replies[p] = "pending"
  /\ pc = "commit" => Asked(p) = <<>> /\ tracked[p] = cand
  /\ pc = "dispatchRollback" => Asked(p) = <<>> \/ MayApply(p)
  /\ pc = "rollback" =>
       \/ MustRollBack(p) /\ replies[p] = "pending"
       \/ Asked(p) = <<>> /\ replies[p] # "pending" /\ (replies[p] = "done" => tracked[p] = old)
       \/ MayApply(p) /\ replies[p] \notin {"pending", "done"}
  /\ pc = "idle" /\ Unsettled => Asked(p) = <<>> \/ MayApply(p) \/ MustRollBack(p)

\* An instance is of the version that is tracked, or of the one it is about to be.
InstanceOK(p) == runs[p] = tracked[p] \/ (doing[p] # None /\ runs[p] = doing[p].target)

\* Who does not run does nothing, and who is gone has no signal queue.
EndedOK(p) ==
  /\ phase[p] # "running" => queue[p] = <<>> /\ doing[p] = None
  /\ phase[p] = "gone" => signals[p] = <<>>

VersionsOK ==
  /\ versions \subseteq 0 .. next - 1 /\ {next - 1, committed} \subseteq versions /\ launch = committed
  /\ Unsettled => old = committed /\ cand = next - 1 /\ old # cand
  /\ \A p \in Running : tracked[p] \in versions

MembersOK == \A p \in Process, v \in Version :
  p \in members[v] <=> phase[p] = "running" /\ tracked[p] = v

ProcessesOK ==
  /\ \A p \in Process : EndedOK(p)
  /\ \A p \in Running : RequestsOK(p) /\ InstanceOK(p)
  /\ pc # "idle" => Running \subseteq targets
  /\ pc = "commit" => status = "Committed"

ReloadInv == TypeOK /\ VersionsOK /\ MembersOK /\ NothingHoarded /\ ProcessesOK
=============================================================================
