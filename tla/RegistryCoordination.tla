------------------------ MODULE RegistryCoordination ------------------------
(***************************************************************************)
(* Cluster-wide process names (RegistryCoordinator in                      *)
(* crates/lunatic-distributed/src/distributed/registry_coordination.rs,    *)
(* with the workers of client.rs that drive it): the member with the       *)
(* lowest id coordinates, asks for a majority, writes its own replica,     *)
(* and tells the others, who also pull snapshots.                          *)
(*                                                                         *)
(* Messages travel on separate streams: they may be lost and overtake each *)
(* other; one that is lost stays in flight for ever.  Every node has its   *)
(* own view of the members, refreshed from the control plane; members      *)
(* leave, ids are never reused.  A replica is its global map:              *)
(* DistributedRegistry shows that index and usage follow it.               *)
(*                                                                         *)
(* A request id stands for the pair (requesting node, request id).  What   *)
(* the code would ignore whatever happens is dropped from the network: the *)
(* ballots of a vote that is closed, the decision for a caller that went,  *)
(* the exchange of a synchronization that timed out.  Timestamps are left  *)
(* out.                                                                    *)
(***************************************************************************)
EXTENDS Naturals, Sequences, FiniteSets, FiniteSetsExt

CONSTANTS Nodes,         \* a finite set of positive numbers
          GlobalName, GlobalPid, NoOwner,
          HomeOf,        \* HomeOf[p]: the node of a GlobalProcessId
          Stripe,        \* Stripe[x]: name_lock_index
          MaxGlobal,     \* RegistryLimits::max_entries
          MaxPending,    \* RegistryLimits::max_pending_responses
          MaxRequests,   \* bound: registration and removal calls
          MaxRemovals,   \* bound: nodes the control plane removes
          MaxExits,      \* bound: processes that exit
          Syncing        \* bound: nodes whose registry_sync_worker synchronizes

ASSUME NodesAssumption == Nodes \subseteq Nat \ {0} /\ Nodes # {}
ASSUME OwnerAssumption == NoOwner \notin GlobalPid /\ HomeOf \in [GlobalPid -> Nodes]
ASSUME RequestsAssumption == MaxRequests \in Nat

Request == 1 .. MaxRequests

VARIABLES
  cluster,   \* the control plane's members
  view,      \* view[n]: control_client.node_ids()
  topo,      \* topo[n]: topology_nodes, the members of n's last reconciliation
  epoch,     \* epoch[n]: topology_epoch
  global,    \* global[n][x]: n's replica
  req,       \* req[r]: what call r asks for
  pend,      \* pend[r]: coordinator that call r waits for, 0 if none
  result,    \* result[r]: what call r returned, "" before
  task,      \* task[r]: the coordination of r, at the node it runs on
  sync,      \* sync[n]: coordinator that n's synchronization waits for, 0 if none
  exited,    \* processes that have exited
  cleanup,   \* cleanup[p]: registry_cleanup_pending
  work,      \* work[p]: names left in the cleanup attempt that runs
  job,       \* job[p]: the call that attempt waits for, 0 if none
  net,       \* messages in flight
  \* What only the properties read:
  granted,   \* granted[n][x]: whom n last told it has x, until withdrawn
  written    \* <<x, p>> written by a coordinator

membership == <<cluster, view, topo, epoch>>
calls == <<req, pend, result>>
cleaning == <<exited, cleanup, work, job>>
history == <<granted, written>>
coordVars == <<membership, global, calls, task, sync, cleaning, net, history>>

NoTask == [at |-> 0, stage |-> "none", members |-> {}, epoch |-> 0,
           held |-> FALSE,           \* it has an entry in pending_votes
           yes |-> {}, no |-> {}, full |-> FALSE, left |-> {}, res |-> ""]

CoordInit ==
  /\ cluster = Nodes
  /\ view = [n \in Nodes |-> Nodes] /\ topo = view /\ epoch = [n \in Nodes |-> 0]
  /\ global = [n \in Nodes |-> [x \in GlobalName |-> NoOwner]]
  /\ req = <<>>
  /\ pend = [r \in Request |-> 0] /\ result = [r \in Request |-> ""]
  /\ task = [r \in Request |-> NoTask]
  /\ sync = [n \in Nodes |-> 0]
  /\ exited = {}
  /\ cleanup = [p \in GlobalPid |-> "none"] /\ work = [p \in GlobalPid |-> {}]
  /\ job = [p \in GlobalPid |-> 0]
  /\ net = {}
  /\ granted = global /\ written = {}

Calls == 1 .. Len(req)
Home(r) == HomeOf[req[r].pid]

\* RegistryCoordinator::members and leader.
Members(n) == view[n] \cup {n}
Leader(n) == Min(Members(n))

\* Leases of the pending budget in use at n: one for each waiter, and one for
\* each vote and for the votes together.
Used(n) ==
  LET votes(r) == Cardinality(task[r].yes \cup task[r].no) + 1 IN
  Cardinality({r \in Calls : pend[r] # 0 /\ Home(r) = n})
  + (IF sync[n] # 0 THEN 1 ELSE 0)
  + MapThenSumSet(votes, {r \in Calls :
                            task[r].at = n /\ (task[r].held \/ task[r].stage = "begun")})

\* Client::send_registry_coordination refuses a target outside the view.
Sent(ms) == {m \in ms : m.to \in view[m.from]}
Message(t, from, to, r) == [type |-> t, from |-> from, to |-> to, r |-> r, res |-> ""]

Active == {"begun", "voting", "notifying"}
FreeForAll(n, x) == TRUE
\* The stripe of x's name is not held by another coordination on n.
StripeFree(n, x) ==
  ~ \E r \in Calls : /\ task[r].at = n /\ task[r].stage \in Active
                     /\ Stripe[req[r].name] = Stripe[x]

RoomAt(n) == Cardinality({x \in GlobalName : global[n][x] # NoOwner}) < MaxGlobal

\* The prepares and votes of the calls rs.
Ballots(rs) == {m \in net : m.type \in {"prepare", "vote"} /\ m.r \in rs}

Over(n, res) == [NoTask EXCEPT !.at = n, !.stage = "over", !.res = res]

\* A coordination ends: its caller gets the result, at home or by message.
Ends(r, res) ==
  /\ task' = [task EXCEPT ![r] = Over(task[r].at, res)]
  /\ IF Home(r) = task[r].at
       THEN result' = [result EXCEPT ![r] = res] /\ net' = net \ Ballots({r})
       ELSE /\ net' = (net \ Ballots({r})) \cup
                 IF pend[r] = task[r].at
                   THEN Sent({[Message("decision", task[r].at, Home(r), r) EXCEPT !.res = res]})
                   ELSE {}
            /\ UNCHANGED result
  /\ UNCHANGED pend

-----------------------------------------------------------------------------
(* Callers. *)

Waiting(n, mem) == [NoTask EXCEPT !.at = n, !.stage = "queued", !.members = mem]

\* A call is coordinated here, or sent to the leader and waited for.
Issue(kind, x, p, auto) ==
  LET r == Len(req) + 1
      n == HomeOf[p] IN
  /\ r \in Request
  /\ req' = Append(req, [kind |-> kind, name |-> x, pid |-> p, cleanup |-> auto])
  /\ IF Leader(n) = n
       THEN /\ task' = [task EXCEPT ![r] = Waiting(n, Members(n))]
            /\ UNCHANGED <<pend, net>>
       ELSE /\ Used(n) < MaxPending
            /\ pend' = [pend EXCEPT ![r] = Leader(n)]
            /\ net' = net \cup Sent({Message(kind, n, Leader(n), r)})
            /\ UNCHANGED task
  /\ UNCHANGED <<membership, global, result, sync, history>>

\* Client::register_global for a process that exists when it is called.
RegisterGlobal(p, x) ==
  p \notin exited /\ Issue("register", x, p, FALSE) /\ UNCHANGED cleaning

\* The remove host call: the owner is looked up in the replica.
RemoveName(n, x) ==
  /\ global[n][x] # NoOwner /\ HomeOf[global[n][x]] = n
  /\ Issue("unregister", x, global[n][x], FALSE) /\ UNCHANGED cleaning

\* The caller's timer fires, or its process is killed, and the waiter goes.
GiveUpWaiting(r) ==
  /\ r \in Calls /\ pend[r] # 0
  /\ pend' = [pend EXCEPT ![r] = 0]
  /\ result' = [result EXCEPT ![r] = "error"]
  /\ net' = {m \in net : m.type # "decision" \/ m.r # r}
  /\ UNCHANGED <<membership, global, req, task, sync, cleaning, history>>

\* A process is killed in a call that coordinates: the coordination is dropped.
Cancel(r) ==
  /\ r \in Calls /\ ~req[r].cleanup
  /\ task[r].at = Home(r) /\ task[r].stage \in {"queued", "voting", "notifying"}
  /\ result' = [result EXCEPT ![r] = "error"]
  /\ task' = [task EXCEPT ![r] = Over(Home(r), "dropped")]
  /\ net' = net \ Ballots({r})
  /\ UNCHANGED <<membership, global, req, pend, sync, cleaning, history>>

\* handle_message takes a message of type t from an active member.  What it would
\* ignore has no step below: to be ignored is to be lost.
Takes(n, t, m) ==
  m \in net /\ m.type = t /\ m.to = n /\ m.from \in view[n]

\* GlobalRegisterDecision and GlobalUnregisterResponse.
HandleDecision(n, m) ==
  /\ Takes(n, "decision", m)
  /\ pend[m.r] = m.from /\ Leader(n) = m.from
  /\ pend' = [pend EXCEPT ![m.r] = 0]
  /\ result' = [result EXCEPT ![m.r] = m.res]
  /\ net' = net \ {m}
  /\ UNCHANGED <<membership, global, req, task, sync, cleaning, history>>

-----------------------------------------------------------------------------
(* The coordinator: registration. *)

\* A proposal is coordinated by the leader and refused by anyone else.
HandleRequest(n, m) ==
  /\ Takes(n, "register", m)
  /\ IF Leader(n) = n
       THEN /\ task' = [task EXCEPT ![m.r] = Waiting(n, {})]
            /\ net' = net \ {m}
       ELSE /\ net' = (net \ {m}) \cup
                      Sent({[Message("decision", n, m.from, m.r) EXCEPT !.res = "refused"]})
            /\ UNCHANGED task
  /\ UNCHANGED <<membership, global, calls, sync, cleaning, history>>

Queued(r, kind) ==
  /\ r \in Calls /\ req[r].kind = kind /\ task[r].stage = "queued"
  /\ StripeFree(task[r].at, req[r].name)

\* register_single_node, chosen when the call was made.
Alone(r) == task[r].members = {task[r].at}

\* coordinate_registration up to its first vote: what is known now decides.
Begin(r) ==
  LET n == task[r].at
      x == req[r].name
      refusal == IF global[n][x] # NoOwner THEN "refused"
                 ELSE IF ~RoomAt(n) THEN "exhausted"
                 ELSE IF Home(r) \notin Members(n) THEN "refused"
                 ELSE IF Used(n) + 2 > MaxPending THEN "exhausted" ELSE ""
  IN /\ Queued(r, "register") /\ ~Alone(r)
     /\ IF refusal # "" THEN Ends(r, refusal)
        ELSE /\ task' = [task EXCEPT ![r].stage = "begun", ![r].members = Members(n),
                                     ![r].yes = {n}]
             /\ UNCHANGED <<net, pend, result>>
     /\ UNCHANGED <<membership, global, req, sync, cleaning, history>>

\* The epoch is read, and the vote entered, after the members were.
Open(r) ==
  /\ r \in Calls /\ task[r].stage = "begun"
  /\ task' = [task EXCEPT ![r].stage = "voting", ![r].epoch = epoch[task[r].at],
                          ![r].held = TRUE]
  /\ UNCHANGED <<membership, global, calls, sync, cleaning, net, history>>

\* A prepare, or its repetition, to a member that has not voted.
SendPrepare(r, n) ==
  /\ r \in Calls /\ task[r].stage = "voting" /\ task[r].held
  /\ n \in task[r].members \ (task[r].yes \cup task[r].no)
  /\ LET ms == Sent({Message("prepare", task[r].at, n, r)}) IN
     ms # {} /\ ~(ms \subseteq net) /\ net' = net \cup ms
  /\ UNCHANGED <<membership, global, calls, task, sync, cleaning, history>>

AppliesPrepared(n, r) == [global EXCEPT ![n][req[r].name] = req[r].pid]
\* A follower keeps nothing of a prepare.
OnPrepare(n, r) == global

\* handle_register_request: a follower's vote on the leader's prepare.
HandlePrepare(n, m) ==
  LET x == req[m.r].name
      ok == \/ global[n][x] = req[m.r].pid
            \/ global[n][x] = NoOwner /\ RoomAt(n)
  IN /\ Takes(n, "prepare", m) /\ m.from = Leader(n)
     /\ global' = IF ok THEN OnPrepare(n, m.r) ELSE global
     /\ net' = (net \ {m}) \cup
          Sent({[Message("vote", n, m.from, m.r) EXCEPT !.res = IF ok THEN "yes" ELSE "no"]})
     /\ UNCHANGED <<membership, calls, task, sync, cleaning, history>>

VotesAgain(t, n) == t.held /\ n \in t.members
\* A member's first vote, while the votes are kept.
MayVote(t, n) == t.held /\ n \in t.members \ (t.yes \cup t.no)

\* record_vote: one vote per member, while the votes are kept.
HandleVote(n, m) ==
  LET t == task[m.r] IN
  /\ Takes(n, "vote", m)
  /\ MayVote(t, m.from)
  /\ net' = net \ {m}
  /\ task' =
       IF Used(n) >= MaxPending THEN [task EXCEPT ![m.r].full = TRUE]
       ELSE IF m.res = "yes" THEN [task EXCEPT ![m.r].yes = @ \cup {m.from}]
       ELSE [task EXCEPT ![m.r].no = @ \cup {m.from}]
  /\ UNCHANGED <<membership, global, calls, sync, cleaning, history>>

Majority(t) == Cardinality(t.yes) >= (Cardinality(t.members) \div 2) + 1
Fenced(r) == epoch[task[r].at] # task[r].epoch
Owned(r) == [global EXCEPT ![task[r].at][req[r].name] = req[r].pid]

\* With a majority, and under the topology fence, the leader writes its replica.
Commit(r) ==
  LET t == task[r] IN
  /\ r \in Calls /\ t.stage = "voting" /\ t.held /\ ~t.full /\ Majority(t)
  /\ IF ~Fenced(r) /\ (global[t.at][req[r].name] # NoOwner \/ RoomAt(t.at))
       THEN /\ global' = Owned(r)
            /\ written' = written \cup {<<req[r].name, req[r].pid>>}
            /\ task' = [task EXCEPT ![r].stage = "notifying", ![r].left = t.members \ {t.at}]
            /\ UNCHANGED <<net, pend, result, granted>>
       ELSE /\ Ends(r, IF Fenced(r) THEN "refused" ELSE "exhausted")
            /\ UNCHANGED <<global, history>>
  /\ UNCHANGED <<membership, req, sync, cleaning>>

WaitsOn(t) == t.yes \cup t.no = t.members
\* All have voted or the deadline has passed.
Hopeless(t) == TRUE

\* The vote is given up, was drained, or ran out of leases.
GiveUp(r) ==
  LET t == task[r] IN
  /\ r \in Calls /\ t.stage = "voting"
  /\ ~t.held \/ t.full \/ (~Majority(t) /\ Hopeless(t))
  /\ Ends(r, IF t.held /\ t.full THEN "exhausted" ELSE "refused")
  /\ UNCHANGED <<membership, global, req, sync, cleaning, history>>

\* Members are told one by one, in order, until the topology changes.
Notify(r) ==
  LET t == task[r]
      stop == req[r].kind = "register" /\ Fenced(r) IN
  /\ r \in Calls /\ t.stage = "notifying" /\ t.left # {}
  /\ task' = [task EXCEPT ![r].left = IF stop THEN {} ELSE @ \ {Min(@)}]
  /\ net' = IF stop THEN net
            ELSE net \cup Sent({Message(IF req[r].kind = "register" THEN "committed" ELSE "removed",
                                        t.at, Min(t.left), r)})
  /\ UNCHANGED <<membership, global, calls, sync, cleaning, history>>

\* remove_global_if_owner.
Without(n, x, p) ==
  IF global[n][x] = p THEN [global EXCEPT ![n][x] = NoOwner] ELSE global
LeavesCommitted(r) == global
\* What is left of a commit whose topology changed while members were told.
Withdrawn(r) == Without(task[r].at, req[r].name, req[r].pid)

Finish(r) ==
  LET t == task[r] IN
  /\ r \in Calls /\ req[r].kind = "register" /\ t.stage = "notifying" /\ t.left = {}
  /\ IF Fenced(r)
       THEN /\ global' = Withdrawn(r)
            /\ Ends(r, "refused") /\ UNCHANGED history
       ELSE /\ granted' = [granted EXCEPT ![t.at][req[r].name] = req[r].pid]
            /\ Ends(r, "success") /\ UNCHANGED <<global, written>>
  /\ UNCHANGED <<membership, req, sync, cleaning>>

RegisterAlone(r) ==
  LET n == task[r].at
      x == req[r].name
      free == global[n][x] = NoOwner IN
  /\ Queued(r, "register") /\ Alone(r)
  /\ IF free /\ RoomAt(n)
       THEN /\ global' = Owned(r)
            /\ granted' = [granted EXCEPT ![n][x] = req[r].pid]
            /\ written' = written \cup {<<x, req[r].pid>>}
            /\ Ends(r, "success")
       ELSE /\ Ends(r, IF free THEN "exhausted" ELSE "refused")
            /\ UNCHANGED <<global, history>>
  /\ UNCHANGED <<membership, req, sync, cleaning>>

-----------------------------------------------------------------------------
(* The coordinator: removal. *)

\* Only the leader answers; the members are read before the stripe is waited for.
HandleUnregister(n, m) ==
  /\ Takes(n, "unregister", m) /\ Leader(n) = n
  /\ net' = net \ {m}
  /\ task' = [task EXCEPT ![m.r] = Waiting(n, Members(n))]
  /\ UNCHANGED <<membership, global, calls, sync, cleaning, history>>

\* A name goes only while its owner is the one that asked.
StillOwner(n, x, p) == global[n][x] = p

\* coordinate_unregistration.
Unregister(r) ==
  LET n == task[r].at
      x == req[r].name
      p == req[r].pid IN
  /\ Queued(r, "unregister")
  /\ IF StillOwner(n, x, p) \/ (global[n][x] = NoOwner /\ Home(r) = n)
       THEN /\ global' = [global EXCEPT ![n][x] = NoOwner]
            /\ granted' = IF granted[n][x] = p THEN [granted EXCEPT ![n][x] = NoOwner] ELSE granted
            /\ task' = [task EXCEPT ![r].stage = "notifying", ![r].left = task[r].members \ {n}]
            /\ UNCHANGED <<net, pend, result>>
       ELSE /\ Ends(r, "refused")
            /\ UNCHANGED <<global, granted>>
  /\ UNCHANGED <<membership, req, sync, cleaning, written>>

FinishUnregister(r) ==
  /\ r \in Calls /\ req[r].kind = "unregister"
  /\ task[r].stage = "notifying" /\ task[r].left = {}
  /\ Ends(r, "success")
  /\ UNCHANGED <<membership, global, req, sync, cleaning, history>>

-----------------------------------------------------------------------------
(* Followers. *)

\* GlobalRegisterNotify, for an owner that is a member; apply_global.
HandleCommitted(n, m) ==
  LET x == req[m.r].name IN
  /\ Takes(n, "committed", m) /\ m.from = Leader(n) /\ Home(m.r) \in Members(n)
  /\ global[n][x] # NoOwner \/ RoomAt(n)
  /\ net' = net \ {m}
  /\ global' = [global EXCEPT ![n][x] = req[m.r].pid]
  /\ UNCHANGED <<membership, calls, task, sync, cleaning, history>>

\* GlobalUnregisterNotify; remove_global_if_owner.
HandleRemoved(n, m) ==
  /\ Takes(n, "removed", m) /\ m.from = Leader(n)
  /\ net' = net \ {m}
  /\ global' = Without(n, req[m.r].name, req[m.r].pid)
  /\ UNCHANGED <<membership, calls, task, sync, cleaning, history>>

SyncMessage(t, from, to, entries) == [type |-> t, from |-> from, to |-> to, entries |-> entries]

\* registry_sync_worker: synchronize_from_coordinator.
Synchronize(n) ==
  /\ n \in Syncing /\ sync[n] = 0 /\ Leader(n) # n /\ Used(n) < MaxPending
  /\ sync' = [sync EXCEPT ![n] = Leader(n)]
  /\ net' = net \cup Sent({SyncMessage("sync", n, Leader(n), <<>>)})
  /\ UNCHANGED <<membership, global, calls, task, cleaning, history>>

\* handle_sync_request: the leader answers with its replica.
HandleSync(n, m) ==
  /\ Takes(n, "sync", m) /\ Leader(n) = n
  /\ net' = (net \ {m}) \cup Sent({SyncMessage("snapshot", n, m.from, global[n])})
  /\ UNCHANGED <<membership, global, calls, task, sync, cleaning, history>>

Merged(n, entries) == [x \in GlobalName |-> IF entries[x] = NoOwner THEN global[n][x] ELSE entries[x]]
\* replace_global_snapshot.
Replaced(n, entries) == entries

\* RegistrySyncResponse: the snapshot replaces the replica, if it is still waited for.
HandleSnapshot(n, m) ==
  /\ Takes(n, "snapshot", m) /\ sync[n] = m.from /\ m.from = Leader(n)
  /\ net' = net \ {m}
  /\ sync' = [sync EXCEPT ![n] = 0]
  /\ global' = [global EXCEPT ![n] = Replaced(n, m.entries)]
  /\ UNCHANGED <<membership, calls, task, cleaning, history>>

SyncMessagesOf(n) ==
  {m \in net : (m.type = "sync" /\ m.from = n) \/ (m.type = "snapshot" /\ m.to = n)}

SyncTimeout(n) ==
  /\ sync[n] # 0 /\ sync' = [sync EXCEPT ![n] = 0]
  /\ net' = net \ SyncMessagesOf(n)
  /\ UNCHANGED <<membership, global, calls, task, cleaning, history>>

-----------------------------------------------------------------------------
(* An exited process's names. *)

Owns(n, p) == {x \in GlobalName : global[n][x] = p}

\* RegistryProcessRegistration::trigger_cleanup.
Exit(p) ==
  /\ p \notin exited /\ Cardinality(exited) < MaxExits
  /\ exited' = exited \cup {p}
  /\ cleanup' = [cleanup EXCEPT ![p] = IF Owns(HomeOf[p], p) # {} THEN "due" ELSE "none"]
  /\ UNCHANGED <<membership, global, calls, task, sync, work, job, net, history>>

\* unregister_process_registrations, one name after the other.
CleanupStart(p) ==
  /\ cleanup[p] = "due"
  /\ cleanup' = [cleanup EXCEPT ![p] = "busy"]
  /\ work' = [work EXCEPT ![p] = Owns(HomeOf[p], p)]
  /\ UNCHANGED <<membership, global, calls, task, sync, exited, job, net, history>>

Stopped(p) == cleanup' = [cleanup EXCEPT ![p] = "due"] /\ UNCHANGED <<work, exited>>

\* The next name is taken off the coordinator; without a lease the attempt fails.
CleanupCall(p, x) ==
  /\ cleanup[p] = "busy" /\ job[p] = 0 /\ x \in work[p]
  /\ \/ /\ Issue("unregister", x, p, TRUE)
        /\ job' = [job EXCEPT ![p] = Len(req')]
        /\ UNCHANGED <<exited, cleanup, work>>
     \/ /\ Leader(HomeOf[p]) # HomeOf[p] /\ Used(HomeOf[p]) >= MaxPending
        /\ Stopped(p) /\ UNCHANGED job
        /\ UNCHANGED <<membership, global, calls, task, sync, net, history>>

\* A terminal answer takes the name off the list; an error ends the attempt.
CleanupAnswer(p) ==
  /\ job[p] # 0 /\ result[job[p]] # ""
  /\ job' = [job EXCEPT ![p] = 0]
  /\ IF result[job[p]] \in {"success", "refused"}
       THEN /\ work' = [work EXCEPT ![p] = @ \ {req[job[p]].name}]
            /\ UNCHANGED <<exited, cleanup>>
       ELSE Stopped(p)
  /\ UNCHANGED <<membership, global, calls, task, sync, net, history>>

\* f without the entries of the processes ps.
Except(f, ps) == [x \in GlobalName |-> IF f[x] \in ps THEN NoOwner ELSE f[x]]

\* finish_registry_cleanup_attempt: the node forgets what the process still owns.
CleanupEnd(p) ==
  /\ cleanup[p] = "busy" /\ job[p] = 0 /\ work[p] = {}
  /\ cleanup' = [cleanup EXCEPT ![p] = "none"]
  /\ global' = [global EXCEPT ![HomeOf[p]] = Except(@, {p})]
  /\ UNCHANGED <<membership, calls, task, sync, exited, work, job, net, history>>

-----------------------------------------------------------------------------
(* Members. *)

\* The control plane drops a node; it never comes back under the same id.
RemoveNode(n) ==
  /\ n \in cluster /\ Cardinality(Nodes \ cluster) < MaxRemovals
  /\ cluster' = cluster \ {n}
  /\ UNCHANGED <<view, topo, epoch, global, calls, task, sync, cleaning, net, history>>

\* A node that is still a member learns the members.
Refresh(n) ==
  /\ n \in cluster /\ view[n] # cluster
  /\ view' = [view EXCEPT ![n] = cluster]
  /\ UNCHANGED <<cluster, topo, epoch, global, calls, task, sync, cleaning, net, history>>

\* The votes of a coordination are dropped.
Drained(t) == [t EXCEPT !.held = FALSE, !.yes = {}, !.no = {}]

\* reconcile_topology, on the worker that also synchronizes: names of departed
\* owners go, and everything that waits is answered or dropped.
Reconcile(n) ==
  LET gone == topo[n] \ Members(n)
      owners == {p \in GlobalPid : HomeOf[p] \in gone} IN
  /\ sync[n] = 0 /\ topo[n] # Members(n)
  /\ topo' = [topo EXCEPT ![n] = Members(n)]
  /\ epoch' = [epoch EXCEPT ![n] = @ + 1]
  /\ global' = [global EXCEPT ![n] = Except(@, owners)]
  /\ granted' = [granted EXCEPT ![n] = Except(@, owners)]
  /\ LET closed == {r \in Calls : task[r].at = n /\ task[r].held}
         drained == {r \in Calls : pend[r] # 0 /\ Home(r) = n} IN
     /\ task' = [r \in Request |-> IF r \in closed THEN Drained(task[r]) ELSE task[r]]
     /\ pend' = [r \in Request |-> IF r \in drained THEN 0 ELSE pend[r]]
     /\ result' = [r \in Request |-> IF r \in drained THEN "refused" ELSE result[r]]
     /\ net' = {m \in net \ Ballots(closed) : m.type # "decision" \/ m.r \notin drained}
  /\ UNCHANGED <<cluster, view, req, sync, cleaning, written>>

-----------------------------------------------------------------------------
(* The specification. *)

\* A step of the task that coordinates r.
CoordStep(r) ==
  \/ Begin(r) \/ Open(r) \/ Commit(r) \/ GiveUp(r) \/ Notify(r) \/ Finish(r)
  \/ RegisterAlone(r) \/ Unregister(r) \/ FinishUnregister(r)

Handle(n) ==
  \E m \in net :
     \/ HandleDecision(n, m) \/ HandleRequest(n, m) \/ HandlePrepare(n, m)
     \/ HandleVote(n, m) \/ HandleUnregister(n, m) \/ HandleCommitted(n, m)
     \/ HandleRemoved(n, m) \/ HandleSync(n, m) \/ HandleSnapshot(n, m)

CoordNext ==
  \/ \E p \in GlobalPid, x \in GlobalName : RegisterGlobal(p, x) \/ CleanupCall(p, x)
  \/ \E n \in Nodes, x \in GlobalName : RemoveName(n, x)
  \/ \E r \in Request : GiveUpWaiting(r) \/ Cancel(r) \/ CoordStep(r)
  \/ \E r \in Request, n \in Nodes : SendPrepare(r, n)
  \/ \E n \in Nodes : Handle(n) \/ Synchronize(n) \/ SyncTimeout(n)
  \/ \E p \in GlobalPid : Exit(p) \/ CleanupStart(p) \/ CleanupAnswer(p) \/ CleanupEnd(p)
  \/ \E n \in Nodes : RemoveNode(n) \/ Refresh(n) \/ Reconcile(n)

CoordSpec == CoordInit /\ [][CoordNext]_coordVars

\* Runnable tasks make progress, timers fire and the workers' loops turn; of the
\* messages, only a synchronization that is tried again and again gets through.
CoordFairness ==
  /\ \A r \in Request : WF_coordVars(CoordStep(r)) /\ WF_coordVars(GiveUpWaiting(r))
  /\ WF_coordVars(\E n \in Nodes : Synchronize(n))
  /\ SF_coordVars(\E n \in Nodes, m \in net : HandleSync(n, m))
  /\ SF_coordVars(\E n \in Nodes, m \in net : HandleSnapshot(n, m))
FairCoordSpec == CoordSpec /\ CoordFairness

-----------------------------------------------------------------------------
(* Properties. *)

Outcome == {"", "success", "refused", "exhausted", "error"}
Replica == [GlobalName -> GlobalPid \cup {NoOwner}]
Coordination == [at : Nodes \cup {0}, stage : {"none", "queued", "over"} \cup Active,
                 members : SUBSET Nodes, epoch : Nat, held : BOOLEAN, yes : SUBSET Nodes,
                 no : SUBSET Nodes, full : BOOLEAN, left : SUBSET Nodes,
                 res : Outcome \cup {"dropped"}]

\* No replica shows a name for a process before a coordinator has committed it:
\* "Followers never expose a prepared value before the commit notification".
OnlyCommitted ==
  \A n \in Nodes, x \in GlobalName : global[n][x] # NoOwner => <<x, global[n][x]>> \in written

\* What a node granted to a live process while it coordinates stays that process's,
\* until that process's name is removed or its node leaves: no later registration,
\* stale removal, notification or snapshot displaces it.
GrantsKept ==
  \A n \in Nodes, x \in GlobalName :
     Leader(n) = n /\ granted[n][x] \notin exited \cup {NoOwner} => global[n][x] = granted[n][x]

\* r is why coordinator n has x for p: it is telling the members, has succeeded, or its
\* caller went meanwhile.
LeftBy(r, n, x, p) ==
  /\ req[r].kind = "register" /\ task[r].at = n /\ req[r].name = x /\ req[r].pid = p
  /\ (task[r].stage = "notifying" \/ task[r].res \in {"success", "dropped"})

\* A registration the coordinator refused, at the fence or after the commit, leaves
\* no entry at the coordinator unless another request of that process does.
RefusedLeavesNothing ==
  \A x \in GlobalName :
     global[Min(Nodes)][x] # NoOwner =>
       \E r \in Calls : LeftBy(r, Min(Nodes), x, global[Min(Nodes)][x])

\* A replica holds what a coordinator committed, a grant is kept until it is withdrawn,
\* and a refusal leaves nothing.
GrantsSafe == OnlyCommitted /\ GrantsKept /\ RefusedLeavesNothing

\* Every call returns, and every coordination ends and gives its stripe back, even
\* if every message is lost.
CallsReturn ==
  \A r \in Request : []<>(Len(req) >= r => result[r] # "" /\ task[r].stage \notin Active)

\* Once the calls are over, every replica ends up as the coordinator's, whatever
\* was lost, delayed or overtaken: the periodic snapshot repairs stale views.
ReplicasConverge ==
  <>[](\A n \in cluster : global[n] = global[Min(cluster)])

\* Calls end and replicas converge.
NamesRepaired == CallsReturn /\ ReplicasConverge

\* A process that has exited, and that nobody is registering any more, keeps a name at
\* the coordinator only while its node cleans up after it ("The final owner schedules
\* owner-conditional cluster cleanup.").
ExitSchedulesCleanup ==
  \A p \in exited :
    /\ \A r \in Calls : req[r].pid = p => result[r] # ""
    /\ Owns(Min(cluster), p) # {}
    => cleanup[p] # "none"

\* A cleanup takes a name off its list only after a coordinator has dealt with it
\* ("the coordinator already proved that this process no longer owns the name").
CleanupProved ==
  \A p \in GlobalPid : /\ Min(cluster) = Min(Nodes)
                 /\ job[p] # 0 /\ result[job[p]] \in {"success", "refused"}
                 => task[job[p]].stage = "over"

-----------------------------------------------------------------------------
(* The inductive invariant of GrantsSafe. *)

CoordTypes ==
  /\ cluster \subseteq Nodes /\ view \in [Nodes -> SUBSET Nodes] /\ epoch \in [Nodes -> Nat]
  /\ global \in [Nodes -> Replica] /\ granted \in [Nodes -> Replica]
  /\ req \in Seq([kind : {"register", "unregister"}, name : GlobalName, pid : GlobalPid,
                   cleanup : BOOLEAN])
  /\ Len(req) <= MaxRequests
  /\ task \in [Request -> Coordination]
  /\ exited \subseteq GlobalPid /\ cleanup \in [GlobalPid -> {"none", "due", "busy"}]
  /\ written \subseteq GlobalName \X GlobalPid

\* A node that coordinates does so for good: members only leave.
LeadersOK ==
  /\ \A n \in Nodes : cluster \subseteq view[n]
  /\ \A r \in Request : task[r].stage # "none" => task[r].at \in Nodes /\ Leader(task[r].at) = task[r].at
  /\ \A n \in Nodes, x \in GlobalName : granted[n][x] # NoOwner => Leader(n) = n

\* What the coordination of call r may rely on while it holds the stripe of its name:
\* until it commits the name is free, until it is over nobody else is granted it, and
\* what it has written stays unless the fence moves or the owner exits.
HeldOK(r) ==
  LET t == task[r]
      x == req[r].name
      p == req[r].pid IN
  /\ t.stage \in {"begun", "voting"} => req[r].kind = "register" /\ global[t.at][x] = NoOwner
  /\ req[r].kind = "register" /\ t.stage \in Active => granted[t.at][x] \in exited \cup {NoOwner}
  /\ req[r].kind = "register" /\ t.stage = "notifying" =>
       /\ <<x, p>> \in written
       /\ Fenced(r) \/ p \in exited \/ global[t.at][x] = p

\* A coordination tells others, ends with an answer, and reads no epoch of the future.
TaskOK(r) ==
  /\ task[r].at \notin task[r].left
  /\ task[r].res # "" => task[r].stage = "over"
  /\ task[r].stage # "none" => task[r].epoch <= epoch[task[r].at]

\* Coordinations of one stripe of a node exclude each other.
StripesOK ==
  \A r, s \in Calls :
     /\ task[r].stage \in Active /\ task[s].stage \in Active /\ task[r].at = task[s].at
     /\ Stripe[req[r].name] = Stripe[req[s].name]
     => r = s

Asks(m) == m.type \in {"register", "unregister"}

\* Nobody writes to itself; what says that a name has an owner was written by a
\* coordinator; a request is on its way once, and not coordinated yet.
MessageOK(m) ==
  /\ m.from \in Nodes /\ m.to \in Nodes
  /\ m.type \in {"committed", "removed", "sync", "snapshot"} => m.from # m.to
  /\ m.type \notin {"sync", "snapshot"} => m.r \in Calls
  /\ m.type = "committed" => <<req[m.r].name, req[m.r].pid>> \in written
  /\ m.type = "snapshot" =>
       /\ m.entries \in Replica
       /\ \A x \in GlobalName : m.entries[x] # NoOwner => <<x, m.entries[x]>> \in written
  /\ Asks(m) => task[m.r] = NoTask

WireOK ==
  /\ \A m \in net : MessageOK(m)
  /\ \A m, k \in net : Asks(m) /\ Asks(k) /\ m.r = k.r => m = k

CoordInv ==
  /\ CoordTypes /\ LeadersOK /\ StripesOK /\ WireOK
  /\ \A r \in Request : TaskOK(r)
  /\ \A r \in Calls : HeldOK(r)
  /\ \A r \in Request \ Calls : task[r] = NoTask
  /\ \A p \in GlobalPid : cleanup[p] # "none" => p \in exited
  /\ GrantsSafe
\* Only an exited process's cleanup makes calls.
JobsOK == job \in [GlobalPid -> Nat] /\ \A p \in GlobalPid : job[p] # 0 => p \in exited

GrantsInv == CoordInv /\ JobsOK
=============================================================================
