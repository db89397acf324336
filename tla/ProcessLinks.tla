---------------------------- MODULE ProcessLinks ----------------------------
(***************************************************************************)
(* The reciprocal link relations of lunatic processes, at the granularity  *)
(* of the mutexes in crates/lunatic-process/src/state.rs.                  *)
(*                                                                         *)
(* Every process owns a LinkState: a mutex around a terminal flag and a    *)
(* map from peer id to LinkRelation.  link_pair and unlink_peer hold the   *)
(* two mutexes of a pair, taken in address order; terminate holds one      *)
(* mutex at a time: its own to take all its relations, then each peer's to *)
(* remove the reciprocal side, and only then does it deliver LinkDied.     *)
(* A process's calls run on its own task, so it has at most one in flight. *)
(*                                                                         *)
(* A process id doubles as the address of its LinkState.  The reason of a  *)
(* death is left out: nothing here depends on it.                          *)
(***************************************************************************)
EXTENDS Naturals, FiniteSets

CONSTANTS Proc,           \* process ids, ordered as their LinkStates' addresses
          ExitTag,        \* Option<i64> exit tags
          NoTag,          \* exit_tag == None
          LinkCapacity,   \* permits of one process's link_admission semaphore
          MaxToken        \* bound: link tokens ever created

ASSUME ProcAssumption == Proc \subseteq Nat \ {0} /\ IsFiniteSet(Proc)
ASSUME TagAssumption == NoTag \in ExitTag
ASSUME CapacityAssumption == LinkCapacity \in Nat /\ MaxToken \in Nat

VARIABLES
  relations,   \* relations[p][q]: p's LinkRelation to q; token 0 when absent
  terminal,    \* terminal[p]: LinkStateInner::terminal_reason is set
  published,   \* published[p]: the signal sender's death_reason is set
  admission,   \* admission[p]: permits left in p's link_admission semaphore
  holder,      \* holder[p]: the process whose call keeps p's mutex, 0 if none
  op,          \* op[p]: the two-mutex call of p's task that is in flight
  taken,       \* taken[p][q]: relations terminate moved out, not yet processed
  pending,     \* pending[p]: terminate's `notifications`
  notices,     \* LinkDied signals handed to the survivors' senders
  lastToken,   \* the last LinkToken created
  \* What only the properties read:
  made,        \* made[t]: the two processes link token t was created for
  severed,     \* <<p, t>>: an unlink removed p's side of link t
  agreed       \* agreed[p][q]: the tag of p's exit in the last link of p and q

vars == <<relations, terminal, published, admission, holder, op, taken,
          pending, notices, lastToken, made, severed, agreed>>

Token == 0..MaxToken
Relation == [token : Token, tag : ExitTag]
NoRelation == [token |-> 0, tag |-> NoTag]
Op == [kind : {"idle", "link", "read", "unlink"}, peer : Proc \cup {0},
       token : Token, tag : ExitTag, peerTag : ExitTag]
Idle == [kind |-> "idle", peer |-> 0, token |-> 0,
         tag |-> NoTag, peerTag |-> NoTag]
Notice == [to : Proc, from : Proc, token : Token \ {0}, tag : ExitTag]

Init ==
  /\ relations = [p \in Proc |-> [q \in Proc |-> NoRelation]]
  /\ terminal = [p \in Proc |-> FALSE]
  /\ published = [p \in Proc |-> FALSE]
  /\ admission = [p \in Proc |-> LinkCapacity]
  /\ holder = [p \in Proc |-> 0]
  /\ op = [p \in Proc |-> Idle]
  /\ taken = [p \in Proc |-> [q \in Proc |-> NoRelation]]
  /\ pending = [p \in Proc |-> {}]
  /\ notices = {}
  /\ lastToken = 0
  /\ made = [t \in 1..MaxToken |-> {}]
  /\ severed = {}
  /\ agreed = [p \in Proc |-> [q \in Proc |-> NoTag]]

-----------------------------------------------------------------------------
(* The two mutexes of a pair. *)

FirstLockSelf(p, q) == p
\* The mutex that is taken first: the one at the lower address.
FirstLock(p, q) == IF p < q THEN p ELSE q
SecondLock(p, q) == IF FirstLock(p, q) = p THEN q ELSE p

Free(p) == holder[p] = 0

\* The task of p executes guest code and may make a call.
Running(p) == ~published[p] /\ op[p].kind = "idle"

TakeFirstLock(p, q) ==
  /\ Free(FirstLock(p, q))
  /\ holder' = [holder EXCEPT ![FirstLock(p, q)] = p]

\* With both mutexes held the call runs to its end and drops the guards.
SecondLockFree(p) == Free(SecondLock(p, op[p].peer))
ReleaseLocks(p) ==
  /\ holder' = [holder EXCEPT ![FirstLock(p, op[p].peer)] = 0]
  /\ op' = [op EXCEPT ![p] = Idle]

-----------------------------------------------------------------------------
(* ProcessLifecycleHandle::link_pair(left = p, right = q). *)

\* The host call link passes one tag for both sides; a spawn links the parent
\* with no tag of its own and the tag it wants to see when the child exits.
LinkLock(p, q, mine, theirs) ==
  /\ Running(p) /\ p # q
  /\ mine \in {NoTag, theirs}
  /\ lastToken + Cardinality({x \in Proc : op[x].kind = "link"}) < MaxToken
  /\ TakeFirstLock(p, q)
  /\ op' = [op EXCEPT ![p] = [kind |-> "link", peer |-> q, token |-> 0,
                              tag |-> mine, peerTag |-> theirs]]
  /\ UNCHANGED <<relations, terminal, published, admission, taken, pending,
                 notices, lastToken, made, severed, agreed>>

RefusesNothing(p) == FALSE
\* install's check of one side.
Refuses(p) == terminal[p] \/ published[p]

Linked(p, q) == relations[p][q].token # 0

SetLeftTag(rels, p, q, mine, theirs) ==
  [rels EXCEPT ![p][q] = [token |-> rels[p][q].token, tag |-> mine]]
\* A repeated link only replaces the exit tags, on both sides.
SetTags(rels, p, q, mine, theirs) ==
  [rels EXCEPT ![p][q] = [token |-> rels[p][q].token, tag |-> mine],
               ![q][p] = [token |-> rels[q][p].token, tag |-> theirs]]

Retag(p, q) ==
  /\ Linked(p, q) /\ relations[p][q].token = relations[q][p].token
  /\ relations' = SetTags(relations, p, q, op[p].tag, op[p].peerTag)
  /\ agreed' = [agreed EXCEPT ![p][q] = op[p].tag, ![q][p] = op[p].peerTag]
  /\ UNCHANGED <<admission, lastToken, made>>

\* link_admission.try_acquire_owned() succeeds.
HasPermit(p) == admission[p] > 0

InstallPair(p, q) ==
  /\ ~Linked(p, q) /\ ~Linked(q, p)
  /\ HasPermit(p) /\ HasPermit(q)
  /\ lastToken < MaxToken
  /\ lastToken' = lastToken + 1
  /\ made' = [made EXCEPT ![lastToken'] = {p, q}]
  /\ admission' = [admission EXCEPT ![p] = @ - 1, ![q] = @ - 1]
  /\ relations' = [relations EXCEPT
       ![p][q] = [token |-> lastToken', tag |-> op[p].tag],
       ![q][p] = [token |-> lastToken', tag |-> op[p].peerTag]]
  /\ agreed' = [agreed EXCEPT ![p][q] = op[p].tag, ![q][p] = op[p].peerTag]

\* LinkError::InconsistentState: one side without its reciprocal.
Inconsistent(p, q) ==
  /\ relations[p][q].token # relations[q][p].token
  /\ Linked(p, q) \/ Linked(q, p)

\* Terminated, InconsistentState or CapacityExhausted: nothing is retained.
LinkRefused(p, q) ==
  /\ \/ Refuses(p) \/ Refuses(q)
     \/ Inconsistent(p, q)
     \/ ~Linked(p, q) /\ ~Linked(q, p) /\ (~HasPermit(p) \/ ~HasPermit(q))
  /\ UNCHANGED <<relations, agreed, admission, lastToken, made>>

LinkInstall(p) ==
  /\ op[p].kind = "link" /\ SecondLockFree(p)
  /\ LET q == op[p].peer IN
       \/ LinkRefused(p, q)
       \/ ~Refuses(p) /\ ~Refuses(q) /\ Retag(p, q)
       \/ ~Refuses(p) /\ ~Refuses(q) /\ InstallPair(p, q)
  /\ ReleaseLocks(p)
  /\ UNCHANGED <<terminal, published, taken, pending, notices, severed>>

-----------------------------------------------------------------------------
(* ProcessLifecycleHandle::unlink_peer. *)

\* The token is read under p's own mutex, which is then released.
UnlinkRead(p, q) ==
  /\ Running(p) /\ Free(p) /\ Linked(p, q)
  /\ op' = [op EXCEPT ![p] = [Idle EXCEPT !.kind = "read", !.peer = q,
                                          !.token = relations[p][q].token]]
  /\ UNCHANGED <<relations, terminal, published, admission, holder, taken,
                 pending, notices, lastToken, made, severed, agreed>>

UnlinkLock(p) ==
  /\ op[p].kind = "read"
  /\ TakeFirstLock(p, op[p].peer)
  /\ op' = [op EXCEPT ![p] = [Idle EXCEPT !.kind = "unlink", !.peer = op[p].peer,
                                          !.token = op[p].token]]
  /\ UNCHANGED <<relations, terminal, published, admission, taken, pending,
                 notices, lastToken, made, severed, agreed>>

MatchesAny(relation, token) == relation.token # 0
\* is_some_and(|relation| Arc::ptr_eq(&relation.token, &token))
Matches(relation, token) == relation.token = token

OwnSide(p, q, token) ==
  IF Matches(relations[p][q], token) THEN {<<p, q>>} ELSE {}
\* The sides of the pair that still carry the token that was read.
MatchingSides(p, q, token) ==
  {s \in {<<p, q>>, <<q, p>>} : Matches(relations[s[1]][s[2]], token)}

\* Removing a relation drops its permit.
RemoveSides(sides) ==
  /\ relations' = [x \in Proc |-> [y \in Proc |->
       IF <<x, y>> \in sides THEN NoRelation ELSE relations[x][y]]]
  /\ admission' = [x \in Proc |->
       IF \E s \in sides : s[1] = x THEN admission[x] + 1 ELSE admission[x]]

UnlinkRemove(p) ==
  /\ op[p].kind = "unlink" /\ SecondLockFree(p)
  /\ LET q == op[p].peer
         sides == MatchingSides(p, q, op[p].token)
     IN  /\ RemoveSides(sides)
         /\ severed' = severed \cup
              {<<s[1], relations[s[1]][s[2]].token>> : s \in sides}
  /\ ReleaseLocks(p)
  /\ UNCHANGED <<terminal, published, taken, pending, notices, lastToken,
                 made, agreed>>

-----------------------------------------------------------------------------
(* ProcessLifecycleHandle::terminate, one call per process. *)

\* close_with_reason, or terminate itself on the abort path of the task guard.
Publish(p) ==
  /\ Running(p)
  /\ published' = [published EXCEPT ![p] = TRUE]
  /\ UNCHANGED <<relations, terminal, admission, holder, op, taken, pending,
                 notices, lastToken, made, severed, agreed>>

TerminateTake(p) ==
  /\ published[p] /\ ~terminal[p] /\ Free(p)
  /\ terminal' = [terminal EXCEPT ![p] = TRUE]
  /\ taken' = [taken EXCEPT ![p] = relations[p]]
  /\ relations' = [relations EXCEPT ![p] = [q \in Proc |-> NoRelation]]
  /\ UNCHANGED <<published, admission, holder, op, pending, notices,
                 lastToken, made, severed, agreed>>

KeepPermit(p) == admission[p]
\* drop(permit) of the relation that was taken.
DropPermit(p) == admission[p] + 1

OwedAlways(p, q) == TRUE
\* peer_removed: the peer still had its side, so it is owed a notification.
Owed(p, q) == Matches(relations[q][p], taken[p][q].token)

\* One turn of the loop over the relations: the own permit is dropped first,
\* then the peer's side goes if it still carries the token.
TerminatePeer(p, q) ==
  /\ taken[p][q].token # 0 /\ Free(q)
  /\ taken' = [taken EXCEPT ![p][q] = NoRelation]
  /\ IF Matches(relations[q][p], taken[p][q].token)
       THEN /\ relations' = [relations EXCEPT ![q][p] = NoRelation]
            /\ admission' = [admission EXCEPT ![p] = DropPermit(p), ![q] = @ + 1]
       ELSE /\ admission' = [admission EXCEPT ![p] = DropPermit(p)]
            /\ UNCHANGED relations
  /\ pending' = [pending EXCEPT ![p] = @ \cup
       {n \in {[to |-> q, from |-> p, token |-> taken[p][q].token,
                tag |-> taken[p][q].tag]} : Owed(p, q)}]
  /\ UNCHANGED <<terminal, published, holder, op, notices, lastToken, made,
                 severed, agreed>>

AllProcessed(p) == \A q \in Proc : taken[p][q].token = 0

\* deliver_link_death hands LinkDied to the survivor's sender.
Deliver(p, n) ==
  /\ n \in pending[p] /\ AllProcessed(p)
  /\ pending' = [pending EXCEPT ![p] = @ \ {n}]
  /\ notices' = notices \cup {n}
  /\ UNCHANGED <<relations, terminal, published, admission, holder, op, taken,
                 lastToken, made, severed, agreed>>

-----------------------------------------------------------------------------

Next == \E p \in Proc :
          \/ \E q \in Proc, mine, theirs \in ExitTag : LinkLock(p, q, mine, theirs)
          \/ LinkInstall(p)
          \/ \E q \in Proc : UnlinkRead(p, q)
          \/ UnlinkLock(p)
          \/ UnlinkRemove(p)
          \/ Publish(p)
          \/ TerminateTake(p)
          \/ \E q \in Proc : TerminatePeer(p, q)
          \/ \E n \in pending[p] : Deliver(p, n)

\* A call that has started is ordinary synchronous code: it goes on when the
\* mutex it wants is free.  The mutexes are assumed not to starve a waiter for
\* ever, hence SF.  No process is obliged to link, unlink or die.
\* The rest of a call that p's task has begun, terminate included.
TaskStep(p) ==
  \/ LinkInstall(p) \/ UnlinkLock(p) \/ UnlinkRemove(p) \/ TerminateTake(p)
  \/ \E q \in Proc : TerminatePeer(p, q)
  \/ \E n \in pending[p] : Deliver(p, n)
Fairness == \A p \in Proc : SF_vars(TaskStep(p))

Spec == Init /\ [][Next]_vars
FairSpec == Spec /\ Fairness

-----------------------------------------------------------------------------
(* Properties. *)

\* Every variable has its type.
TypeOK ==
  /\ relations \in [Proc -> [Proc -> Relation]]
  /\ terminal \in [Proc -> BOOLEAN]
  /\ published \in [Proc -> BOOLEAN]
  /\ admission \in [Proc -> Nat]
  /\ holder \in [Proc -> Proc \cup {0}]
  /\ op \in [Proc -> Op]
  /\ taken \in [Proc -> [Proc -> Relation]]
  /\ pending \in [Proc -> SUBSET Notice]
  /\ notices \subseteq Notice
  /\ lastToken \in Token
  /\ made \in [1..MaxToken -> SUBSET Proc]
  /\ severed \subseteq Proc \X Token
  /\ agreed \in [Proc -> [Proc -> ExitTag]]

\* No process keeps a relation to a peer that has forgotten it: the reciprocal
\* side carries the same token, in the peer's map or in the hands of the peer's
\* terminate, which is about to remove this side.  (install's
\* InconsistentState can therefore not happen between two live processes.)
NoDanglingLink ==
  \A p, q \in Proc :
    Linked(p, q) => \/ relations[q][p].token = relations[p][q].token
                    \/ taken[q][p].token = relations[p][q].token

\* Every permit of link_admission is either free or held by one relation, also
\* while terminate has moved the relations out of the map.
AdmissionAccounting ==
  \A p \in Proc :
    admission[p] + Cardinality({q \in Proc : Linked(p, q)})
                 + Cardinality({q \in Proc : taken[p][q].token # 0}) = LinkCapacity

Finished(p) == terminal[p] /\ AllProcessed(p) /\ pending[p] = {}

\* When terminate has returned, every peer p was ever linked with has been sent
\* LinkDied for that very link, unless the peer's side had been unlinked before
\* or the peer has died too.
NoMissedDeath ==
  \A p \in Proc, t \in 1..MaxToken :
    (Finished(p) /\ p \in made[t]) =>
      \A q \in made[t] \ {p} :
        \/ terminal[q]
        \/ <<q, t>> \in severed
        \/ \E n \in notices : n.to = q /\ n.from = p /\ n.token = t

\* A process whose side of a link was removed by an unlink is not sent, and
\* will not be sent, the LinkDied of that link.
UnlinkIsFinal ==
  \A n \in notices \cup UNION {pending[p] : p \in Proc} :
    <<n.to, n.token>> \notin severed

\* A LinkDied carries the exit tag of the last successful link of the pair,
\* although the two sides of the relation are stored, and taken, separately.
NoticeCarriesLastTag ==
  \A n \in notices : n.tag = agreed[n.from][n.to]

\* What belongs to a relation stays with it while it is moved between maps: its
\* permit, and the tag its death is reported with.
RelationsExact == AdmissionAccounting /\ NoticeCarriesLastTag

InFlight(p) == op[p].kind # "idle"

\* A relation leaves the map of a live process only because its peer died or
\* because an unlink of one of the two had read this very link: a late unlink
\* never cuts a link made after it was asked for.
CutsWereAsked ==
  \A p, q \in Proc :
    (Linked(p, q) /\ relations'[p][q].token # relations[p][q].token) =>
      \/ terminal'[p] \/ terminal[q]
      \/ \E u \in {p, q} : /\ op[u].kind = "unlink"
                           /\ op[u].token = relations[p][q].token
OnlyUnlinkCutsLiveLinks == [][CutsWereAsked]_vars

\* The relations of a terminated process stay empty: no link is admitted that
\* nobody would ever report.
TerminatedStaysUnlinked ==
  \A p, q \in Proc : terminal[p] => ~Linked(p, q)

\* A process that dies finishes terminate, and every call returns.
EveryCallReturns == \A p \in Proc : []<>(~InFlight(p))
EveryDeathIsReported == \A p \in Proc : []<>(published[p] => Finished(p))
LinkProgress == EveryCallReturns /\ EveryDeathIsReported

-----------------------------------------------------------------------------
(* ProcessLinks implements LinkContract. *)

\* p's side of its link with q, wherever terminate has put it.
Side(p, q) == IF Linked(p, q) THEN relations[p][q].token ELSE taken[p][q].token

Links == {{e[1], e[2]} : e \in
            {e \in Proc \X Proc : Side(e[1], e[2]) # 0
                                  /\ Side(e[1], e[2]) = Side(e[2], e[1])}}

Dead == {p \in Proc : terminal[p]}
OwedPairs == {<<n.to, n.from>> : n \in UNION {pending[p] : p \in Proc}}
NotifiedPairs == {<<n.to, n.from>> : n \in notices}

Contract == INSTANCE LinkContract WITH
  links <- Links, dead <- Dead, owed <- OwedPairs, notified <- NotifiedPairs

\* Whatever the interleaving of the mutex sections of link, unlink and
\* terminate, an observer sees each of them happen at one instant.
ImplementsContract == Contract!CSpec

\* The mutex-level links implement the atomic contract, and a late unlink never
\* cuts a link made after it was asked for.
LinkContractKept == ImplementsContract /\ OnlyUnlinkCutsLiveLinks
=============================================================================
