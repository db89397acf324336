----------------------------- MODULE Supervisor -----------------------------
(***************************************************************************)
(* A process-backed OTP supervisor: the message loop of                    *)
(* spawn_with_environment, the restart strategies and the shutdown of      *)
(* children.                                                               *)
(*                                                                         *)
(* Children are numbered in start order; processes are numbered as they    *)
(* are created.  A callback that blocks (stop_child, start_child) is split *)
(* where it waits for another process; the supervisor handles one thing at *)
(* a time and can only be killed where its loop awaits.  Notices of deaths *)
(* reach its mailbox in any order.                                         *)
(***************************************************************************)
EXTENDS Naturals, Integers, FiniteSets, Sequences

CONSTANTS
    N,              \* children 1..N
    Policy,         \* RestartPolicy of each child
    Patient,        \* children with ShutdownPolicy::Infinity
    Strategies,     \* restart strategies to consider
    MaxRestarts,    \* max_restarts of the specification
    MaxSeconds,     \* max_seconds of the specification
    MaxProcs,       \* bound: processes created
    MaxTime         \* bound: seconds that pass

ASSUME SupervisorAssumption == N \in Nat /\ MaxProcs \in Nat

Children == 1..N
Procs == 1..MaxProcs

VARIABLES
    strategy,   \* RestartStrategy of this supervisor
    now,        \* current_timestamp_secs
    child,      \* ChildState.process of each child, 0 for None
    state,      \* state of each process: "none", "alive", "killed" or "dead"
    deaths,     \* ProcessDied on its way to the supervisor: <<process, reason>>
    history,    \* restart_history, timestamps only
    loop,       \* "starting", "idle", "stopping", "restarting", "rollback",
                \* "escalating", "shutdown" or "gone"
    remaining,  \* children the current phase has still to stop or start
    toStart,    \* children to start once the stops of a restart are done
    started,    \* children the current phase has started
    request,    \* shutdown was requested
    outcome,    \* how the supervisor process ended, "none" before
    crashes,    \* history: processes that died without being killed
    restarts,   \* history: how many restart operations there were
    causes      \* history: the processes whose deaths they answered

kids == <<child, state, deaths>>
plan == <<loop, remaining, toStart, started>>
record == <<crashes, restarts, causes>>
supervisorVars == <<strategy, now, kids, history, plan, request, outcome, record>>

SupervisorInit ==
    /\ strategy \in Strategies /\ now = 0
    /\ child = [c \in Children |-> 0] /\ state = [p \in Procs |-> "none"]
    /\ deaths = {} /\ history = <<>>
    /\ loop = "starting" /\ remaining = Children /\ toStart = {} /\ started = {}
    /\ request = FALSE /\ outcome = "none"
    /\ crashes = {} /\ restarts = 0 /\ causes = {}

Created == {p \in Procs : state[p] # "none"}
Registered(p) == p # 0 /\ state[p] \in {"alive", "killed"}
Waiting == loop = "idle"

\* The child whose turn it is: children are started in their order and stopped in reverse.
Turn ==
    {c \in remaining : \A d \in remaining :
        IF loop \in {"starting", "restarting"} THEN c <= d ELSE d <= c}

\* The guard of the process is dropped: Kill to every process of the cleanup tracker.
KillTracked(s) == [p \in Procs |-> IF s[p] = "alive" /\ \E c \in Children : child[c] = p
                                   THEN "killed" ELSE s[p]]

\* Mutant of Exit: a supervisor that fails disarms its guard too.
ExitDisarmed(status) ==
    /\ loop' = "gone" /\ outcome' = status
    /\ remaining' = {} /\ toStart' = {} /\ started' = {}
    /\ UNCHANGED state

\* The supervisor process returns, with its guard armed unless it stopped normally.
Exit(status) ==
    /\ loop' = "gone" /\ outcome' = status
    /\ remaining' = {} /\ toStart' = {} /\ started' = {}
    /\ state' = IF status = "normal" THEN state ELSE KillTracked(state)

----------------------------------------------------------------------------
(* Children                                                                *)

\* A child returns or fails by itself.
Crash(p) ==
    /\ state[p] = "alive" /\ state' = [state EXCEPT ![p] = "dead"]
    /\ \E reason \in {"normal", "failure"} : deaths' = deaths \cup {<<p, reason>>}
    /\ crashes' = crashes \cup {p}
    /\ UNCHANGED <<strategy, now, child, history, plan, request, outcome, restarts, causes>>

\* A killed process ends.
Die(p) ==
    /\ state[p] = "killed" /\ state' = [state EXCEPT ![p] = "dead"]
    /\ deaths' = deaths \cup {<<p, "failure">>}
    /\ UNCHANGED <<strategy, now, child, history, plan, request, outcome, record>>

SecondPasses ==
    /\ now < MaxTime /\ now' = now + 1
    /\ UNCHANGED <<strategy, kids, history, plan, request, outcome, record>>

\* SupervisorHandle::shutdown.
RequestShutdown ==
    /\ ~request /\ request' = TRUE
    /\ UNCHANGED <<strategy, now, kids, history, plan, outcome, record>>

\* The supervisor process itself is killed.
KillSupervisor ==
    /\ Waiting /\ Exit("killed")
    /\ UNCHANGED <<strategy, now, child, deaths, history, request, record>>

----------------------------------------------------------------------------
(* stop_child                                                              *)

\* A phase that stops children: restart, rollback of a failed start, shutdown.
Stopping == loop \in {"stopping", "rollback", "escalating", "shutdown"}

\* The child has no process, or its process is not registered any more.
StopGone ==
    /\ Stopping
    /\ \E c \in Turn :
        /\ ~Registered(child[c])
        /\ child' = [child EXCEPT ![c] = 0] /\ remaining' = remaining \ {c}
    /\ UNCHANGED <<strategy, now, state, deaths, history, loop, toStart, started, request, outcome,
                   record>>

\* Kill is sent; wait_for_process_exit polls until StopGone.
StopKill ==
    /\ Stopping
    /\ \E c \in Turn :
        /\ Registered(child[c]) /\ state[child[c]] = "alive"
        /\ state' = [state EXCEPT ![child[c]] = "killed"]
    /\ UNCHANGED <<strategy, now, child, deaths, history, plan, request, outcome, record>>

\* The wait times out: a rollback goes on, a restart escalates, a shutdown fails.
StopTimeout ==
    /\ Stopping
    /\ \E c \in Turn \ Patient :
        /\ Registered(child[c]) /\ state[child[c]] = "killed"
        /\ \/ /\ loop = "rollback" /\ remaining' = remaining \ {c}
              /\ UNCHANGED <<state, loop, toStart, started, outcome>>
           \/ /\ loop = "stopping" /\ loop' = "escalating" /\ remaining' = Children
              /\ toStart' = {} /\ started' = {} /\ UNCHANGED <<state, outcome>>
           \/ loop \in {"shutdown", "escalating"} /\ Exit("failed")
    /\ UNCHANGED <<strategy, now, child, deaths, history, request, record>>

----------------------------------------------------------------------------
(* start_child_internal                                                    *)

Starting == loop \in {"starting", "restarting"}

\* The process starts and its monitor is acknowledged; it may be dead by then.
StartOk ==
    /\ Starting /\ Cardinality(Created) < MaxProcs
    /\ LET p == Cardinality(Created) + 1 IN
        \E c \in Turn :
            /\ child' = [child EXCEPT ![c] = p] /\ state' = [state EXCEPT ![p] = "alive"]
            /\ remaining' = remaining \ {c} /\ started' = started \cup {c}
    /\ UNCHANGED <<strategy, now, deaths, history, loop, toStart, request, outcome, record>>

\* The start function fails, or the monitor cannot be installed and the process is
\* killed: what this phase started is stopped again, in reverse order.
StartFails ==
    /\ Starting
    /\ \/ UNCHANGED state
       \/ /\ Cardinality(Created) < MaxProcs
          /\ state' = [state EXCEPT ![Cardinality(Created) + 1] = "killed"]
    /\ \E c \in Turn : child' = [child EXCEPT ![c] = 0]
    /\ loop' = "rollback" /\ remaining' = started
    /\ toStart' = {} /\ started' = {}
    /\ UNCHANGED <<strategy, now, deaths, history, request, outcome, record>>

----------------------------------------------------------------------------
(* The loop                                                                *)

\* A phase has nothing left to do.
PhaseDone ==
    /\ remaining = {}
    /\ \/ /\ loop \in {"starting", "restarting"} /\ loop' = "idle" /\ started' = {}
          /\ UNCHANGED <<state, remaining, toStart, outcome>>
       \/ /\ loop = "stopping" /\ loop' = "restarting" /\ remaining' = toStart /\ toStart' = {}
          /\ UNCHANGED <<state, started, outcome>>
       \/ /\ loop = "rollback" /\ restarts > 0      \* a restart failed: escalate
          /\ loop' = "escalating" /\ remaining' = Children /\ toStart' = {}
          /\ UNCHANGED <<state, started, outcome>>
       \/ loop = "rollback" /\ restarts = 0 /\ Exit("failed")
       \/ loop = "shutdown" /\ Exit("normal")
       \/ loop = "escalating" /\ Exit("failed")
    /\ UNCHANGED <<strategy, now, child, deaths, history, request, record>>

\* Mutant of Affected: rest-for-one restarts only the failed child.
AffectedOne(c) ==
    IF strategy = "OneForAll" THEN {x \in Children : x = c \/ child[x] # 0} ELSE {c}

\* Children a strategy restarts when child c failed; siblings without a process stay stopped.
Affected(c) ==
    CASE strategy = "OneForAll" -> {x \in Children : x = c \/ child[x] # 0}
      [] strategy = "RestForOne" -> {x \in c..N : x = c \/ child[x] # 0}
      [] OTHER -> {c}

\* reserve_restart_events: the history of the window and room for all restarts of one operation.
InWindow == SelectSeq(history, LAMBDA t : t >= now - MaxSeconds)
Reserve(k) == Len(InWindow) + k <= MaxRestarts

\* Mutant of ShouldRestart: a permanent child is treated as a transient one.
ShouldRestartFailed(c, reason) == Policy[c] # "Temporary" /\ reason # "normal"

ShouldRestart(c, reason) ==
    Policy[c] = "Permanent" \/ (Policy[c] = "Transient" /\ reason # "normal")

\* handle_process_exit for the death of process p; which child it is about is decided by
\* the process, so a notice of a process that was replaced or stopped is ignored.
\* (OwnerByChild, a mutant, takes the notice of a replaced process for its successor's.)
OwnerByChild(p) == {c \in Children : child[c] # 0 /\ child[c] >= p}
Owner(p) == {c \in Children : child[c] = p}

HandleDeath ==
    /\ Waiting /\ ~request
    /\ \E notice \in deaths :
        /\ deaths' = deaths \ {notice}
        /\ \/ Owner(notice[1]) = {} /\ UNCHANGED <<history, plan, restarts, causes>>
           \/ \E c \in Owner(notice[1]) :
                \/ /\ ~ShouldRestart(c, notice[2])      \* stop_child
                   /\ loop' = "stopping" /\ remaining' = {c} /\ toStart' = {}
                   /\ UNCHANGED <<history, started, restarts, causes>>
                \/ /\ ShouldRestart(c, notice[2]) /\ Reserve(Cardinality(Affected(c)))
                   /\ history' = InWindow \o [i \in 1..Cardinality(Affected(c)) |-> now]
                   /\ loop' = "stopping" /\ remaining' = Affected(c) /\ toStart' = Affected(c)
                   /\ restarts' = restarts + 1 /\ causes' = causes \cup {notice[1]}
                   /\ UNCHANGED started
                \/ /\ ShouldRestart(c, notice[2]) /\ ~Reserve(Cardinality(Affected(c)))
                   /\ history' = InWindow
                   /\ loop' = "escalating" /\ remaining' = Children
                   /\ UNCHANGED <<toStart, started, restarts, causes>>
    /\ UNCHANGED <<strategy, now, child, state, request, outcome, crashes>>

\* The biased select looks at the shutdown request first.
HandleShutdown ==
    /\ Waiting /\ request
    /\ loop' = "shutdown" /\ remaining' = Children
    /\ UNCHANGED <<strategy, now, kids, history, toStart, started, request, outcome, record>>

Supervise ==
    \/ StopGone \/ StopKill \/ StopTimeout \/ StartOk \/ StartFails \/ PhaseDone
    \/ HandleDeath \/ HandleShutdown

SupervisorNext ==
    \/ Supervise \/ SecondPasses \/ RequestShutdown \/ KillSupervisor
    \/ \E p \in Procs : Crash(p) \/ Die(p)

SupervisorSpec == SupervisorInit /\ [][SupervisorNext]_supervisorVars

\* The supervisor's task runs on and a killed child ends; children need never die
\* by themselves and nobody need ask for a shutdown.
SupervisorFairSpec ==
    /\ SupervisorSpec
    /\ WF_supervisorVars(Supervise) /\ \A p \in Procs : WF_supervisorVars(Die(p))

----------------------------------------------------------------------------
(* Properties                                                              *)

\* A supervisor that has ended, in whichever way (a shutdown, an escalation that itself
\* fails on a child that does not stop, a failed start, a kill), leaves no child running:
\* every process it started is dead or has been sent Kill.
NoOrphan == loop = "gone" => \A p \in Procs : state[p] # "alive"

\* What rest-for-one and one-for-all are for: while the supervisor waits for events, no
\* child runs with a process older than the one of a child started before it.
DependencyOrder ==
    Waiting /\ strategy \in {"RestForOne", "OneForAll"} =>
        \A c, d \in Children : c < d /\ child[c] # 0 /\ child[d] # 0 => child[c] < child[d]

\* Every restart operation answers a death the supervisor did not cause: the notices of
\* siblings it stopped itself, arriving after their replacements, cause none.
RestartsHaveCause == restarts <= Cardinality(crashes)

\* The three together: nothing outlives the supervisor, nothing runs on a dead dependency,
\* nothing is restarted without a cause.
RestartsSafe == NoOrphan /\ DependencyOrder /\ RestartsHaveCause

Serves(c) == child[c] # 0 /\ state[child[c]] = "alive"

\* A permanent child runs again and again, however it and the others die and whichever
\* notices arrive late, unless the supervisor gives up and ends.
Served == loop = "gone" \/ \A c \in Children : Policy[c] = "Permanent" => Serves(c)

----------------------------------------------------------------------------
(* The inductive invariant of the proofs                                   *)

Ordered == strategy \in {"RestForOne", "OneForAll"}

\* Processes are numbered as they are created, and no two children have the same one.
ProcessesNumbered ==
    /\ child \in [Children -> Nat]
    /\ state \in [Procs -> {"none", "alive", "killed", "dead"}]
    /\ remaining \subseteq Children /\ toStart \subseteq Children /\ started \subseteq Children
    /\ Created = 1..Cardinality(Created)
    /\ \A c \in Children : child[c] # 0 => child[c] \in Created
    /\ \A c, d \in Children : c # d /\ child[c] # 0 => child[c] # child[d]
    /\ \A notice \in deaths : notice[1] \in Procs /\ state[notice[1]] = "dead"

\* Every running process is the process of a child, so that a stop or the guard finds it.
AliveIsTracked ==
    /\ \A p \in Procs : state[p] = "alive" => loop # "gone" /\ \E c \in Children : child[c] = p
    /\ loop \in {"starting", "restarting"} => \A c \in remaining : child[c] = 0
    /\ loop = "stopping" =>
        /\ toStart # {} => remaining \subseteq toStart
        /\ \A c \in toStart \ remaining : child[c] = 0
    /\ loop = "shutdown" => \A c \in Children \ remaining : child[c] = 0

\* With an ordered strategy the processes of the children are in their order, and those that
\* come after a child that is going to be started are started after it or have no process.
OrderKept ==
    Ordered =>
        /\ \A c, d \in Children : c < d /\ child[c] # 0 /\ child[d] # 0 => child[c] < child[d]
        /\ loop \in {"starting", "restarting"} =>
            \A c \in remaining, d \in Children \ remaining : c < d => child[d] = 0
        /\ loop = "stopping" =>
            \A c \in toStart, d \in Children \ toStart : c < d => child[d] = 0

\* Each restart answered one crash.  A process of a child that is not being stopped runs or
\* has crashed, and no restart has answered that yet.
CausesCounted ==
    /\ crashes \subseteq {p \in Procs : state[p] = "dead"} /\ causes \subseteq crashes
    /\ restarts = Cardinality(causes)
    /\ loop \in {"starting", "idle", "stopping", "restarting"} =>
        \A c \in Children :
            child[c] # 0 /\ (loop = "stopping" => c \notin remaining) =>
                /\ child[c] \notin causes
                /\ state[child[c]] = "alive" \/ child[c] \in crashes

SupervisorInv == ProcessesNumbered /\ AliveIsTracked /\ OrderKept /\ CausesCounted
=============================================================================
