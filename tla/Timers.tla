------------------------------- MODULE Timers -------------------------------
(***************************************************************************)
(* Delayed messages of one process: send_after and cancel_timer, the table *)
(* and heap of TimerResources, and the task of each timer.                 *)
(***************************************************************************)
EXTENDS Naturals, FiniteSets

CONSTANTS
    Ids,            \* bound: timers ever created
    Capacity,       \* DEFAULT_MAX_TIMERS
    Delays,         \* delays a guest asks for
    MaxTime         \* bound: the clock

VARIABLES
    now,        \* the clock
    due,        \* deadline of each timer that was created
    task,       \* its task: "none", "waiting", "running", "done", "aborted"
    entries,    \* timers in hash_map, each with a permit and a heap entry
    permits,    \* free permits of the admission semaphore
    sent,       \* history: timers whose message was handed to the target
    revoked,    \* history: timers cancel_timer answered 1 for
    owner       \* the process: "alive", "refused" by a full table, "gone"

timersVars == <<now, due, task, entries, permits, sent, revoked, owner>>

TimersInit ==
    /\ now = 0 /\ due = [i \in Ids |-> 0] /\ task = [i \in Ids |-> "none"]
    /\ entries = {} /\ permits = Capacity /\ sent = {} /\ revoked = {} /\ owner = "alive"

Expired(i) == due[i] <= now
Finished(i) == task[i] \in {"done", "aborted"}

\* (A mutant: a passed deadline is taken for a finished task.)
CleanedByDeadline == {i \in entries : Expired(i)}

\* (A mutant: a timer is not yet due at its deadline.)
CleanedAfter == {i \in entries : /\ due[i] < now /\ Finished(i)
                                 /\ \A j \in entries : due[j] <= due[i] => Finished(j)}

\* cleanup_expired_timers: from the earliest deadline on, up to the first timer
\* that is not due or whose task has not finished.
Cleaned == {i \in entries : /\ Expired(i) /\ Finished(i)
                            /\ \A j \in entries : due[j] < due[i] => Finished(j)
                            /\ \A j \in entries : due[j] = due[i] /\ j < i => Finished(j)}

Fresh == CHOOSE i \in Ids : task[i] = "none" /\ \A j \in Ids : j < i => task[j] # "none"

\* try_reserve cleans up and takes a permit; then the task is spawned and entered.
SendAfter(delay) ==
    /\ owner = "alive" /\ \E i \in Ids : task[i] = "none"
    /\ permits + Cardinality(Cleaned) > 0
    /\ entries' = (entries \ Cleaned) \cup {Fresh}
    /\ permits' = permits + Cardinality(Cleaned) - 1
    /\ due' = [due EXCEPT ![Fresh] = now + delay] /\ task' = [task EXCEPT ![Fresh] = "waiting"]
    /\ UNCHANGED <<now, sent, revoked, owner>>

\* No permit is left: the host function fails, which ends the guest.
Refuse ==
    /\ owner = "alive" /\ permits + Cardinality(Cleaned) = 0
    /\ owner' = "refused" /\ entries' = entries \ Cleaned
    /\ UNCHANGED <<now, due, task, permits, sent, revoked>>

\* JoinHandle::abort reaches a task that is not being polled.
Aborted(ts) == [i \in Ids |-> IF i \in ts /\ task[i] = "waiting" THEN "aborted" ELSE task[i]]

\* TimerResources::remove and abort; 1 for an entry, whatever its task has done.
CancelTimer(i) ==
    /\ owner = "alive" /\ i \in entries
    /\ entries' = entries \ {i} /\ permits' = permits + 1
    /\ task' = Aborted({i}) /\ revoked' = revoked \cup {i}
    /\ UNCHANGED <<now, due, sent, owner>>

\* The task: it sleeps, wakes, and sends without awaiting again.
Wake(i) ==
    /\ task[i] = "waiting" /\ Expired(i)
    /\ task' = [task EXCEPT ![i] = "running"]
    /\ UNCHANGED <<now, due, entries, permits, sent, revoked, owner>>

Fire(i) ==
    /\ task[i] = "running"
    /\ task' = [task EXCEPT ![i] = "done"] /\ sent' = sent \cup {i}
    /\ UNCHANGED <<now, due, entries, permits, revoked, owner>>

\* The process ends: the table is dropped and every task in it aborted.
DropTimers ==
    /\ owner # "gone" /\ owner' = "gone"
    /\ task' = Aborted(entries) /\ entries' = {}
    /\ permits' = permits + Cardinality(entries)
    /\ UNCHANGED <<now, due, sent, revoked>>

Tick ==
    /\ now < MaxTime /\ now' = now + 1
    /\ UNCHANGED <<due, task, entries, permits, sent, revoked, owner>>

TimersNext ==
    \/ \E d \in Delays : SendAfter(d)
    \/ \E i \in Ids : CancelTimer(i) \/ Wake(i) \/ Fire(i)
    \/ Refuse \/ DropTimers \/ Tick

TimersSpec == TimersInit /\ [][TimersNext]_timersVars

-----------------------------------------------------------------------------
(***************************************************************************)
(* The tasks that still hold a message of the process never outnumber its  *)
(* ceiling (but for those already sending when they were cancelled), and   *)
(* every permit is free or held by an entry.                               *)
(***************************************************************************)
TasksBounded ==
    /\ Cardinality({i \in Ids : task[i] = "waiting"}) <= Capacity
    /\ owner = "alive" => permits + Cardinality(entries) = Capacity

(***************************************************************************)
(* A process is refused a timer only while its table holds no timer that   *)
(* is due, or one that is due and has not finished: finished timers alone  *)
(* never keep it full.                                                     *)
(***************************************************************************)
RefusedForCause ==
    [][owner = "alive" /\ owner' = "refused" =>
        (\A i \in entries : ~Expired(i)) \/ (\E i \in entries : Expired(i) /\ ~Finished(i))]_timersVars

\* The timers of a process stay below its ceiling, and it is refused one only for a timer
\* that waits or runs.
TimersExact == []TasksBounded /\ RefusedForCause

(***************************************************************************)
(* What the documentation of cancel_timer says: 1 means that the timer was *)
(* there to cancel; one that had expired is answered with 0.               *)
(***************************************************************************)
CancelledIsNotSent == [][\A i \in Ids : i \in revoked' \ revoked => i \notin sent]_timersVars

-----------------------------------------------------------------------------
(* Why the ceiling holds: a task that waits is in the table, and an entry has a permit. *)

TimersTypeOK ==
    /\ now \in Nat /\ due \in [Ids -> Nat] /\ permits \in Nat
    /\ task \in [Ids -> {"none", "waiting", "running", "done", "aborted"}]
    /\ entries \subseteq Ids /\ IsFiniteSet(entries) /\ owner \in {"alive", "refused", "gone"}

TimersInv ==
    /\ TimersTypeOK
    /\ \A i \in Ids : task[i] = "waiting" => i \in entries
    /\ \A i \in entries : task[i] # "none"
    /\ permits + Cardinality(entries) = Capacity
=============================================================================
