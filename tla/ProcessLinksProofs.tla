------------------------- MODULE ProcessLinksProofs -------------------------
(***************************************************************************)
(* Proofs about ProcessLinks for any number of processes, tags, permits    *)
(* and tokens.                                                             *)
(*                                                                         *)
(* NoDanglingLink is not inductive: that the reciprocal of a relation is   *)
(* there follows from a step only when one knows that a terminated process *)
(* has no relations and that only a terminated one has moved relations     *)
(* out.  The properties about notices also need that a token belongs to    *)
(* one pair for ever, and that a side removed by an unlink, or whose owner *)
(* is owed a notice, never carries that token again.  The contract of      *)
(* links needs, besides, that nobody is owed two notices of one death.     *)
(*                                                                         *)
(* The second part is about GenProcess, the servers built on these         *)
(* processes: ServersSafe needs that a name has one owner and that a reply *)
(* is reserved for one call and answered once.                             *)
(*                                                                         *)
(* The third part is about Supervisor: RestartsSafe needs that every       *)
(* running process is the process of a child, that what comes after a      *)
(* child about to be started has no process, and that a crash is answered  *)
(* by one restart.                                                         *)
(***************************************************************************)
EXTENDS ProcessLinks, GenProcess, Supervisor, FiniteSetTheorems, TLAPS

\* A call in flight has a peer, and an unlink has read a token.
OpOK ==
  \A p \in Proc : op[p].kind # "idle" =>
    /\ op[p].peer \in Proc /\ op[p].peer # p
    /\ op[p].kind # "link" => op[p].token # 0

\* Nobody is linked with itself.
NoSelfLink ==
  \A p \in Proc : relations[p][p].token = 0 /\ taken[p][p].token = 0

\* Only terminate moves relations out.
OnlyTerminalTakes ==
  \A p, q \in Proc : taken[p][q].token # 0 => terminal[p]

\* The structural part of the inductive invariant.
StructInv == /\ TypeOK /\ OpOK /\ NoSelfLink /\ OnlyTerminalTakes
             /\ TerminatedStaysUnlinked /\ NoDanglingLink

\* A token belongs to one pair for ever.
OwnToken ==
  \A p, q \in Proc :
    /\ Linked(p, q) =>
         /\ relations[p][q].token <= lastToken
         /\ made[relations[p][q].token] = {p, q}
    /\ taken[p][q].token # 0 =>
         /\ taken[p][q].token <= lastToken
         /\ made[taken[p][q].token] = {p, q}

Sent(n) == n \in notices \/ \E p \in Proc : n \in pending[p]

\* The notices of a process name it, and a token that is already in use, which
\* the survivor no longer holds.
NoticeOK ==
  \A n \in Notice : Sent(n) =>
    /\ n.token <= lastToken
    /\ \A y \in Proc : relations[n.to][y].token # n.token
    /\ \A p \in Proc : n \in pending[p] => n.from = p

\* A side that was unlinked never carries the token again.
SeveredOK ==
  \A p, y \in Proc, t \in Token : <<p, t>> \in severed =>
    t # 0 /\ t <= lastToken /\ relations[p][y].token # t

\* A notice, sent or owed, is never about a side that was unlinked.
FinalOK ==
  \A n \in Notice : Sent(n) => <<n.to, n.token>> \notin severed

\* q's side of a link is in place, or q died, or it was unlinked, or it was
\* removed by its dying peer, which then owes q a notice or has sent it.
SideAccounted ==
  \A p, q \in Proc, t \in 1..MaxToken :
    (p # q /\ p \in made[t] /\ q \in made[t]) =>
      \/ relations[q][p].token = t
      \/ terminal[q]
      \/ <<q, t>> \in severed
      \/ \E n \in Notice : /\ n \in pending[p] \/ n \in notices
                           /\ n.to = q /\ n.from = p /\ n.token = t

\* The inductive invariant behind the properties about notices.
HistInv == /\ StructInv /\ OwnToken /\ NoticeOK /\ SeveredOK /\ FinalOK
           /\ SideAccounted

-----------------------------------------------------------------------------

\* Initially nothing is linked.
LEMMA InitStruct == Init => StructInv
<1> SUFFICES ASSUME Init PROVE StructInv
  OBVIOUS
<1> USE DEF Init
<1>1. TypeOK
  BY TagAssumption, CapacityAssumption, ProcAssumption
     DEF TypeOK, Relation, NoRelation, Token, Op, Idle, Notice
<1>2. OpOK
  BY DEF OpOK, Idle
<1>3. NoSelfLink /\ OnlyTerminalTakes /\ TerminatedStaysUnlinked /\ NoDanglingLink
  BY DEF NoSelfLink, OnlyTerminalTakes, TerminatedStaysUnlinked, NoDanglingLink,
         Linked, NoRelation
<1> QED BY <1>1, <1>2, <1>3 DEF StructInv

\* Taking the first mutex, and reading a token, leave the relations alone.
LEMMA LockStruct ==
  ASSUME StructInv, NEW p \in Proc,
         \/ \E q \in Proc, mine, theirs \in ExitTag : LinkLock(p, q, mine, theirs)
         \/ \E q \in Proc : UnlinkRead(p, q)
         \/ UnlinkLock(p)
  PROVE  StructInv'
<1> USE DEF StructInv, NoRelation
<1>1. op' \in [Proc -> Op] /\ holder' \in [Proc -> Proc \cup {0}] /\ OpOK'
  <2>1. CASE \E q \in Proc, mine, theirs \in ExitTag : LinkLock(p, q, mine, theirs)
    BY <2>1, CapacityAssumption
       DEF LinkLock, TakeFirstLock, FirstLock, TypeOK, Op, OpOK, Running, Token
  <2>2. CASE \E q \in Proc : UnlinkRead(p, q)
    <3>1. PICK q \in Proc : UnlinkRead(p, q)
      BY <2>2
    <3>2. q # p
      BY <3>1 DEF UnlinkRead, Linked, NoSelfLink
    <3>3. relations[p][q].token \in Token
      BY DEF TypeOK, Relation
    <3> QED BY <3>1, <3>2, <3>3, TagAssumption
         DEF UnlinkRead, TypeOK, Op, OpOK, Running, Idle, Linked
  <2>3. CASE UnlinkLock(p)
    <3>2. op[p].kind = "read" /\ op[p].peer \in Proc /\ op[p].peer # p /\ op[p].token # 0
      BY <2>3 DEF UnlinkLock, OpOK
    <3>3. op' \in [Proc -> Op]
      BY <2>3, <3>2, TagAssumption DEF UnlinkLock, TypeOK, Op, Idle
    <3>4. op'[p].peer = op[p].peer /\ op'[p].token = op[p].token /\ op'[p].kind = "unlink"
      BY <2>3 DEF UnlinkLock, TypeOK, Op, Idle
    <3>5. \A x \in Proc : x # p => op'[x] = op[x]
      BY <2>3 DEF UnlinkLock, TypeOK
    <3>6. OpOK'
      BY <3>2, <3>4, <3>5 DEF OpOK
    <3>7. holder' \in [Proc -> Proc \cup {0}]
      BY <2>3, <3>2 DEF UnlinkLock, TakeFirstLock, FirstLock, TypeOK
    <3> QED BY <3>3, <3>6, <3>7
  <2> QED BY <2>1, <2>2, <2>3
<1>2. UNCHANGED <<relations, terminal, published, admission, taken, pending,
                  notices, lastToken, made, severed, agreed>>
  BY DEF LinkLock, UnlinkRead, UnlinkLock
<1>3. TypeOK'
  BY <1>1, <1>2 DEF TypeOK
<1> QED
  BY <1>1, <1>2, <1>3 DEF NoSelfLink, OnlyTerminalTakes, TerminatedStaysUnlinked,
                          NoDanglingLink, Linked

\* The last step of a two-mutex call leaves a well-formed call state.
LEMMA ReleaseOK ==
  ASSUME TypeOK, OpOK, NEW p \in Proc, ReleaseLocks(p), op[p].kind # "idle"
  PROVE  op' \in [Proc -> Op] /\ holder' \in [Proc -> Proc \cup {0}] /\ OpOK'
<1>1. FirstLock(p, op[p].peer) \in Proc
  BY DEF OpOK, FirstLock
<1> QED BY <1>1, TagAssumption, CapacityAssumption
     DEF ReleaseLocks, TypeOK, OpOK, Op, Idle, Token

\* What installing a new pair does to the maps: a token never used before, on
\* both sides, between two processes that have not terminated.
LEMMA InstallEffect ==
  ASSUME StructInv, NEW p \in Proc, NEW q \in Proc, p # q, op[p].tag \in ExitTag,
         op[p].peerTag \in ExitTag, ~Refuses(p), ~Refuses(q), InstallPair(p, q)
  PROVE  /\ ~terminal[p] /\ ~terminal[q]
         /\ lastToken' = lastToken + 1 /\ lastToken' \in Token \ {0}
         /\ lastToken' \in 1..MaxToken
         /\ relations' \in [Proc -> [Proc -> Relation]]
         /\ relations'[p][q].token = lastToken' /\ relations'[q][p].token = lastToken'
         /\ \A x, y \in Proc : ~(x = p /\ y = q) /\ ~(x = q /\ y = p) =>
              relations'[x][y] = relations[x][y]
         /\ made' \in [1..MaxToken -> SUBSET Proc]
         /\ made'[lastToken'] = {p, q}
         /\ \A t \in 1..MaxToken : t # lastToken' => made'[t] = made[t]
         /\ relations[p][q].token = 0 /\ relations[q][p].token = 0
<1> USE DEF StructInv
<1>1. ~terminal[p] /\ ~terminal[q]
  BY DEF Refuses
<1>2. lastToken' = lastToken + 1 /\ lastToken' \in Token \ {0} /\ lastToken' \in 1..MaxToken
  BY CapacityAssumption DEF InstallPair, TypeOK, Token
<1>3. /\ relations' \in [Proc -> [Proc -> Relation]]
      /\ relations'[p][q].token = lastToken' /\ relations'[q][p].token = lastToken'
      /\ \A x, y \in Proc : ~(x = p /\ y = q) /\ ~(x = q /\ y = p) =>
           relations'[x][y] = relations[x][y]
  BY <1>2 DEF InstallPair, TypeOK, Relation
<1>4. /\ made' \in [1..MaxToken -> SUBSET Proc]
      /\ made'[lastToken'] = {p, q}
      /\ \A t \in 1..MaxToken : t # lastToken' => made'[t] = made[t]
  BY <1>2 DEF InstallPair, TypeOK
<1>5. relations[p][q].token = 0 /\ relations[q][p].token = 0
  BY DEF InstallPair, Linked
<1> QED BY <1>1, <1>2, <1>3, <1>4, <1>5

\* A repeated link changes no token.
LEMMA RetagEffect ==
  ASSUME StructInv, NEW p \in Proc, NEW q \in Proc, p # q, op[p].tag \in ExitTag,
         op[p].peerTag \in ExitTag, Retag(p, q)
  PROVE  /\ relations' \in [Proc -> [Proc -> Relation]]
         /\ \A x, y \in Proc : relations'[x][y].token = relations[x][y].token
<1> DEFINE rp == [token |-> relations[p][q].token, tag |-> op[p].tag]
           rq == [token |-> relations[q][p].token, tag |-> op[p].peerTag]
<1>1. rp \in Relation /\ rq \in Relation
  BY DEF StructInv, TypeOK, Relation
<1>2. relations' = [relations EXCEPT ![p][q] = rp, ![q][p] = rq]
  BY DEF Retag, SetTags
<1>3. rp.token = relations[p][q].token /\ rq.token = relations[q][p].token
  OBVIOUS
<1> HIDE DEF rp, rq
<1>4. /\ relations' \in [Proc -> [Proc -> Relation]]
      /\ relations'[p][q] = rp /\ relations'[q][p] = rq
      /\ \A x, y \in Proc : ~(x = p /\ y = q) /\ ~(x = q /\ y = p) =>
           relations'[x][y] = relations[x][y]
  BY <1>1, <1>2 DEF StructInv, TypeOK
<1> QED BY <1>3, <1>4

\* link_pair installs or retags both sides, or changes nothing.
LEMMA InstallStruct ==
  ASSUME StructInv, NEW p \in Proc, LinkInstall(p)
  PROVE  StructInv'
<1> USE DEF StructInv
<1> DEFINE q == op[p].peer
<1>1. q \in Proc /\ q # p
  BY DEF LinkInstall, OpOK
<1>2. op' \in [Proc -> Op] /\ holder' \in [Proc -> Proc \cup {0}] /\ OpOK'
  BY ReleaseOK DEF LinkInstall
<1>3. op[p].tag \in ExitTag /\ op[p].peerTag \in ExitTag
  BY DEF TypeOK, Op
<1>4. UNCHANGED <<terminal, published, taken, pending, notices, severed>>
  BY DEF LinkInstall
<1>5. CASE LinkRefused(p, q)
  <2>1. UNCHANGED <<relations, agreed, admission, lastToken, made>>
    BY <1>5 DEF LinkRefused
  <2> QED BY <2>1, <1>2, <1>4 DEF TypeOK, NoSelfLink, OnlyTerminalTakes,
          TerminatedStaysUnlinked, NoDanglingLink, Linked
<1>6. CASE ~Refuses(p) /\ ~Refuses(q) /\ Retag(p, q)
  <2>1. relations' \in [Proc -> [Proc -> Relation]]
    BY <1>1, <1>3, <1>6, RetagEffect
  <2>8. \A x, y \in Proc : relations'[x][y].token = relations[x][y].token
    BY <1>1, <1>3, <1>6, RetagEffect
  <2>2. agreed' \in [Proc -> [Proc -> ExitTag]]
    BY <1>1, <1>3, <1>6 DEF Retag, TypeOK
  <2>3. UNCHANGED <<admission, lastToken, made>>
    BY <1>6 DEF Retag
  <2>4. TypeOK'
    BY <2>1, <2>2, <2>3, <1>2, <1>4 DEF TypeOK
  <2>5. NoSelfLink' /\ OnlyTerminalTakes'
    <3>1. \A x \in Proc : relations'[x][x].token = 0
      BY <2>8 DEF NoSelfLink
    <3>2. taken' = taken /\ terminal' = terminal
      BY <1>4
    <3> QED BY <3>1, <3>2 DEF NoSelfLink, OnlyTerminalTakes
  <2>7. TerminatedStaysUnlinked'
    <3>1. \A x, y \in Proc : terminal[x] => relations[x][y].token = 0
      BY DEF TerminatedStaysUnlinked, Linked
    <3>2. terminal' = terminal
      BY <1>4
    <3>3. \A x, y \in Proc : terminal'[x] => relations'[x][y].token = 0
      BY <2>8, <3>1, <3>2
    <3> QED BY <3>3 DEF TerminatedStaysUnlinked, Linked
  <2>6. NoDanglingLink'
    BY <2>8, <1>4 DEF NoDanglingLink, Linked
  <2> QED BY <2>4, <2>5, <2>6, <2>7, <1>2
<1>7. CASE ~Refuses(p) /\ ~Refuses(q) /\ InstallPair(p, q)
  <2>1. agreed' \in [Proc -> [Proc -> ExitTag]]
    BY <1>1, <1>3, <1>7 DEF InstallPair, TypeOK
  <2>2. admission' \in [Proc -> Nat]
    BY <1>1, <1>7 DEF InstallPair, HasPermit, TypeOK
  <2>0. ~terminal[p] /\ ~terminal[q]
    BY <1>7 DEF Refuses
  <2>3. /\ lastToken' \in Token \ {0}
        /\ relations' \in [Proc -> [Proc -> Relation]]
        /\ relations'[p][q].token = lastToken' /\ relations'[q][p].token = lastToken'
        /\ \A x, y \in Proc : ~(x = p /\ y = q) /\ ~(x = q /\ y = p) =>
             relations'[x][y] = relations[x][y]
        /\ made' \in [1..MaxToken -> SUBSET Proc]
    BY <1>1, <1>3, <1>7, InstallEffect
  <2>4. TypeOK'
    BY <2>1, <2>2, <2>3, <1>2, <1>4 DEF TypeOK
  <2>5. NoSelfLink' /\ OnlyTerminalTakes'
    BY <1>1, <1>4, <2>3 DEF NoSelfLink, OnlyTerminalTakes
  <2>6. TerminatedStaysUnlinked'
    BY <1>1, <1>4, <2>0, <2>3 DEF TerminatedStaysUnlinked, Linked
  <2>7. NoDanglingLink'
    <3> SUFFICES ASSUME NEW x \in Proc, NEW y \in Proc, relations'[x][y].token # 0
                 PROVE  \/ relations'[y][x].token = relations'[x][y].token
                        \/ taken'[y][x].token = relations'[x][y].token
      BY DEF NoDanglingLink, Linked
    <3>1. CASE (x = p /\ y = q) \/ (x = q /\ y = p)
      BY <3>1, <2>3
    <3>2. CASE ~(x = p /\ y = q) /\ ~(x = q /\ y = p)
      <4>1. relations'[x][y] = relations[x][y] /\ relations'[y][x] = relations[y][x]
        BY <3>2, <2>3
      <4> QED BY <1>4, <4>1 DEF NoDanglingLink, Linked
    <3> QED BY <3>1, <3>2
  <2> QED BY <1>2, <2>4, <2>5, <2>6, <2>7
<1> QED BY <1>5, <1>6, <1>7 DEF LinkInstall

\* The side of x towards y is one of the two that the unlink of p removes.
Hit(p, x, y) ==
  /\ (x = p /\ y = op[p].peer) \/ (x = op[p].peer /\ y = p)
  /\ relations[x][y].token = op[p].token

\* unlink_peer removes the sides that carry the token it read, and no other.
LEMMA UnlinkRelations ==
  ASSUME StructInv, NEW p \in Proc, UnlinkRemove(p)
  PROVE  \A x, y \in Proc :
           /\ Hit(p, x, y) => relations'[x][y] = NoRelation
           /\ ~Hit(p, x, y) => relations'[x][y] = relations[x][y]
<1>1. relations' = [x \in Proc |-> [y \in Proc |->
        IF <<x, y>> \in MatchingSides(p, op[p].peer, op[p].token)
          THEN NoRelation ELSE relations[x][y]]]
  BY DEF UnlinkRemove, RemoveSides
<1>2. \A x, y \in Proc :
        <<x, y>> \in MatchingSides(p, op[p].peer, op[p].token) <=> Hit(p, x, y)
  BY DEF MatchingSides, Matches, Hit
<1> QED BY <1>1, <1>2

\* It remembers exactly the sides it removed.
LEMMA UnlinkSevered ==
  ASSUME StructInv, NEW p \in Proc, UnlinkRemove(p)
  PROVE  /\ \A x, y \in Proc : Hit(p, x, y) => <<x, op[p].token>> \in severed'
         /\ severed \subseteq severed'
         /\ \A e \in severed' : e \in severed \/
              \E x, y \in Proc : Hit(p, x, y) /\ e = <<x, op[p].token>>
<1> DEFINE q == op[p].peer
           tok == op[p].token
<1>1. q \in Proc /\ q # p
  BY DEF UnlinkRemove, OpOK, StructInv
<1>2. severed' = severed \cup {<<s[1], relations[s[1]][s[2]].token>> :
                                s \in MatchingSides(p, q, tok)}
  BY DEF UnlinkRemove
<1>3. ASSUME NEW x \in Proc, NEW y \in Proc, Hit(p, x, y)
      PROVE  <<x, tok>> \in severed'
  <2>1. <<x, y>> \in MatchingSides(p, q, tok)
    BY <1>3 DEF MatchingSides, Matches, Hit
  <2> QED BY <2>1, <1>2, <1>3 DEF Hit
<1>4. \A s \in MatchingSides(p, q, tok) :
        /\ s = <<p, q>> \/ s = <<q, p>>
        /\ relations[s[1]][s[2]].token = tok
  BY DEF MatchingSides, Matches
<1>5. ASSUME NEW e \in severed', e \notin severed
      PROVE  \E x, y \in Proc : Hit(p, x, y) /\ e = <<x, tok>>
  <2>1. PICK s \in MatchingSides(p, q, tok) : e = <<s[1], relations[s[1]][s[2]].token>>
    BY <1>2, <1>5
  <2>2. CASE s = <<p, q>>
    BY <2>1, <2>2, <1>1, <1>4 DEF Hit
  <2>3. CASE s = <<q, p>>
    BY <2>1, <2>3, <1>1, <1>4 DEF Hit
  <2> QED BY <1>4, <2>2, <2>3
<1> QED BY <1>2, <1>3, <1>5

\* So it keeps the structural invariant.
LEMMA UnlinkStruct ==
  ASSUME StructInv, NEW p \in Proc, UnlinkRemove(p)
  PROVE  StructInv'
<1> USE DEF StructInv
<1> DEFINE q == op[p].peer
           tok == op[p].token
<1>1. op' \in [Proc -> Op] /\ holder' \in [Proc -> Proc \cup {0}] /\ OpOK'
  BY ReleaseOK DEF UnlinkRemove
<1>2. /\ q \in Proc /\ q # p /\ tok # 0
      /\ NoRelation \in Relation /\ NoRelation.token = 0
      /\ UNCHANGED <<terminal, published, taken, pending, notices, lastToken,
                     made, agreed>>
  BY TagAssumption, CapacityAssumption
     DEF UnlinkRemove, OpOK, NoRelation, Relation, Token
<1>3. \A x, y \in Proc : /\ Hit(p, x, y) => relations'[x][y] = NoRelation
                         /\ ~Hit(p, x, y) => relations'[x][y] = relations[x][y]
  BY UnlinkRelations
<1>4. relations' \in [Proc -> [Proc -> Relation]]
  BY <1>2 DEF UnlinkRemove, RemoveSides, TypeOK
<1>5. admission' \in [Proc -> Nat]
  BY DEF UnlinkRemove, RemoveSides, TypeOK
<1>6. severed' \subseteq Proc \X Token
  <2>1. tok \in Token /\ severed \subseteq Proc \X Token
    BY DEF TypeOK, Op
  <2> QED BY <2>1, UnlinkSevered
<1>7. TypeOK'
  BY <1>1, <1>2, <1>4, <1>5, <1>6 DEF TypeOK
<1>8. NoSelfLink' /\ OnlyTerminalTakes'
  BY <1>2, <1>3 DEF NoSelfLink, OnlyTerminalTakes
<1>9. TerminatedStaysUnlinked'
  BY <1>2, <1>3 DEF TerminatedStaysUnlinked, Linked
<1>10. NoDanglingLink'
  BY <1>2, <1>3 DEF NoDanglingLink, Linked, Hit
<1> QED BY <1>1, <1>7, <1>8, <1>9, <1>10

\* Taking all relations of a process out of its map.
LEMMA TakeStruct ==
  ASSUME StructInv, NEW p \in Proc, TerminateTake(p)
  PROVE  StructInv'
<1> USE DEF StructInv
<1>1. UNCHANGED <<published, admission, holder, op, pending, notices,
                  lastToken, made, severed, agreed>>
  BY DEF TerminateTake
<1>2. NoRelation \in Relation /\ NoRelation.token = 0
  BY TagAssumption, CapacityAssumption DEF NoRelation, Relation, Token
<1>3. /\ taken' \in [Proc -> [Proc -> Relation]]
      /\ relations' \in [Proc -> [Proc -> Relation]]
  BY <1>2 DEF TerminateTake, TypeOK
<1>4. terminal' \in [Proc -> BOOLEAN]
  BY DEF TerminateTake, TypeOK
<1>5. TypeOK' /\ OpOK'
  BY <1>1, <1>3, <1>4 DEF TypeOK, OpOK
<1>6. /\ taken'[p] = relations[p]
      /\ \A y \in Proc : relations'[p][y] = NoRelation
      /\ \A x \in Proc : x # p => relations'[x] = relations[x] /\ taken'[x] = taken[x]
  BY DEF TerminateTake, TypeOK
<1>7. /\ terminal'[p] /\ ~terminal[p]
      /\ \A x \in Proc : x # p => terminal'[x] = terminal[x]
  BY DEF TerminateTake, TypeOK
<1>8. NoSelfLink'
  BY <1>2, <1>6 DEF NoSelfLink
<1>9. OnlyTerminalTakes'
  BY <1>6, <1>7 DEF OnlyTerminalTakes
<1>10. TerminatedStaysUnlinked'
  BY <1>2, <1>6, <1>7 DEF TerminatedStaysUnlinked, Linked
<1>11. \A y \in Proc : taken[p][y].token = 0
  BY <1>7 DEF OnlyTerminalTakes
<1>12. NoDanglingLink'
  BY <1>2, <1>6, <1>11 DEF NoDanglingLink, Linked
<1> QED BY <1>5, <1>8, <1>9, <1>10, <1>12

\* Visiting one peer removes its side together with the taken one.
LEMMA PeerRelations ==
  ASSUME StructInv, NEW p \in Proc, NEW q \in Proc, TerminatePeer(p, q)
  PROVE  /\ relations' \in [Proc -> [Proc -> Relation]]
         /\ \A x, y \in Proc : ~(x = q /\ y = p) => relations'[x][y] = relations[x][y]
         /\ IF relations[q][p].token = taken[p][q].token
              THEN relations'[q][p] = NoRelation
              ELSE relations'[q][p] = relations[q][p]
<1> USE DEF StructInv
<1>1. NoRelation \in Relation
  BY TagAssumption, CapacityAssumption DEF NoRelation, Relation, Token
<1>2. CASE relations[q][p].token = taken[p][q].token
  <2>1. relations' = [relations EXCEPT ![q][p] = NoRelation]
    BY <1>2 DEF TerminatePeer, Matches
  <2> QED BY <1>1, <1>2, <2>1 DEF TypeOK
<1>3. CASE relations[q][p].token # taken[p][q].token
  <2>1. relations' = relations
    BY <1>3 DEF TerminatePeer, Matches
  <2> QED BY <1>3, <2>1 DEF TypeOK
<1> QED BY <1>2, <1>3

\* A process that visits a peer is terminal, and the peer's side, if any,
\* carries the token it has taken.
LEMMA PeerEffect ==
  ASSUME StructInv, NEW p \in Proc, NEW q \in Proc, TerminatePeer(p, q)
  PROVE  /\ p # q /\ terminal[p] /\ relations[p][q].token = 0
         /\ relations[q][p].token # 0 => relations[q][p].token = taken[p][q].token
         /\ relations'[q][p].token = 0
<1> USE DEF StructInv
<1>1. taken[p][q].token # 0
  BY DEF TerminatePeer
<1>2. p # q
  BY <1>1 DEF NoSelfLink
<1>3. terminal[p]
  BY <1>1 DEF OnlyTerminalTakes
<1>4. relations[p][q].token = 0
  BY <1>3 DEF TerminatedStaysUnlinked, Linked
<1>5. relations[q][p].token # 0 => relations[q][p].token = taken[p][q].token
  BY <1>4 DEF NoDanglingLink, Linked
<1>6. NoRelation.token = 0
  BY DEF NoRelation
<1>7. relations'[q][p].token = 0
  BY <1>5, <1>6, PeerRelations
<1> QED BY <1>2, <1>3, <1>4, <1>5, <1>7

\* So it keeps the structural invariant.
LEMMA PeerStruct ==
  ASSUME StructInv, NEW p \in Proc, NEW q \in Proc, TerminatePeer(p, q)
  PROVE  StructInv'
<1> USE DEF StructInv
<1>1. UNCHANGED <<terminal, published, holder, op, notices, lastToken, made,
                  severed, agreed>>
  BY DEF TerminatePeer
<1>2. NoRelation \in Relation /\ NoRelation.token = 0
  BY TagAssumption, CapacityAssumption DEF NoRelation, Relation, Token
<1>3. /\ taken' \in [Proc -> [Proc -> Relation]]
      /\ taken'[p][q] = NoRelation
      /\ \A x, y \in Proc : <<x, y>> # <<p, q>> => taken'[x][y] = taken[x][y]
  BY <1>2 DEF TerminatePeer, TypeOK
<1>4. p # q /\ relations[p][q].token = 0
  BY PeerEffect
<1>5. /\ relations' \in [Proc -> [Proc -> Relation]]
      /\ \A x, y \in Proc : ~(x = q /\ y = p) => relations'[x][y] = relations[x][y]
  BY PeerRelations
<1>6. relations'[q][p].token = 0
  BY PeerEffect
<1>7. admission' \in [Proc -> Nat]
  <2>1. admission[p] + 1 \in Nat /\ admission[q] + 1 \in Nat
    BY DEF TypeOK
  <2>2. CASE Matches(relations[q][p], taken[p][q].token)
    <3>1. admission' = [admission EXCEPT ![p] = admission[p] + 1, ![q] = @ + 1]
      BY <2>2 DEF TerminatePeer, DropPermit
    <3> QED BY <1>4, <2>1, <3>1 DEF TypeOK
  <2>3. CASE ~Matches(relations[q][p], taken[p][q].token)
    <3>1. admission' = [admission EXCEPT ![p] = admission[p] + 1]
      BY <2>3 DEF TerminatePeer, DropPermit
    <3> QED BY <2>1, <3>1 DEF TypeOK
  <2> QED BY <2>2, <2>3
<1>8. pending' \in [Proc -> SUBSET Notice]
  <2>1. taken[p][q] \in Relation /\ taken[p][q].token # 0
    BY DEF TerminatePeer, TypeOK
  <2>2. [to |-> q, from |-> p, token |-> taken[p][q].token,
         tag |-> taken[p][q].tag] \in Notice
    BY <2>1 DEF Notice, Relation
  <2> QED BY <2>2 DEF TerminatePeer, TypeOK
<1>9. TypeOK' /\ OpOK'
  BY <1>1, <1>3, <1>5, <1>7, <1>8 DEF TypeOK, OpOK
<1>10. NoSelfLink'
  BY <1>2, <1>3, <1>4, <1>5 DEF NoSelfLink
<1>11. OnlyTerminalTakes'
  BY <1>1, <1>2, <1>3 DEF OnlyTerminalTakes
<1>12. TerminatedStaysUnlinked'
  BY <1>1, <1>5, <1>6 DEF TerminatedStaysUnlinked, Linked
<1>13. NoDanglingLink'
  <2> SUFFICES ASSUME NEW x \in Proc, NEW y \in Proc, relations'[x][y].token # 0
               PROVE  \/ relations'[y][x].token = relations'[x][y].token
                      \/ taken'[y][x].token = relations'[x][y].token
    BY DEF NoDanglingLink, Linked
  <2>1. ~(x = q /\ y = p)
    BY <1>6
  <2>2. relations'[x][y] = relations[x][y]
    BY <1>5, <2>1
  <2>3. ~(x = p /\ y = q)
    BY <1>4, <2>2
  <2>4. relations'[y][x] = relations[y][x] /\ taken'[y][x] = taken[y][x]
    BY <1>3, <1>5, <2>1, <2>3
  <2> QED BY <2>2, <2>4 DEF NoDanglingLink, Linked
<1> QED BY <1>9, <1>10, <1>11, <1>12, <1>13

\* Publishing a death and delivering a notice touch no relation.
LEMMA QuietStruct ==
  ASSUME StructInv, NEW p \in Proc,
         Publish(p) \/ \E n \in pending[p] : Deliver(p, n)
  PROVE  StructInv'
<1> USE DEF StructInv
<1>1. UNCHANGED <<relations, terminal, admission, holder, op, taken, lastToken,
                  made, severed, agreed>>
  BY DEF Publish, Deliver
<1>2. /\ published' \in [Proc -> BOOLEAN]
      /\ pending' \in [Proc -> SUBSET Notice]
      /\ notices' \subseteq Notice
  <2>1. CASE Publish(p)
    BY <2>1 DEF Publish, TypeOK
  <2>2. CASE \E n \in pending[p] : Deliver(p, n)
    BY <2>2 DEF Deliver, TypeOK
  <2> QED BY <2>1, <2>2
<1>3. TypeOK'
  BY <1>1, <1>2 DEF TypeOK
<1> QED BY <1>1, <1>3 DEF OpOK, NoSelfLink, OnlyTerminalTakes,
      TerminatedStaysUnlinked, NoDanglingLink, Linked

\* Every step keeps the structural invariant.
LEMMA StepStruct == StructInv /\ [Next]_vars => StructInv'
<1> SUFFICES ASSUME StructInv, [Next]_vars PROVE StructInv'
  OBVIOUS
<1>1. CASE UNCHANGED vars
  BY <1>1 DEF StructInv, vars, TypeOK, OpOK, NoSelfLink, OnlyTerminalTakes,
              TerminatedStaysUnlinked, NoDanglingLink, Linked
<1>2. CASE Next
  BY <1>2, LockStruct, InstallStruct, UnlinkStruct, TakeStruct, PeerStruct,
     QuietStruct DEF Next
<1> QED BY <1>1, <1>2
-----------------------------------------------------------------------------
(* Tokens, unlinks and notices. *)

\* Initially there is no history.
LEMMA InitHist == Init => HistInv
<1> SUFFICES ASSUME Init PROVE HistInv
  OBVIOUS
<1>1. StructInv
  BY InitStruct
<1>2. OwnToken
  BY DEF Init, OwnToken, Linked, NoRelation
<1>3. NoticeOK /\ FinalOK
  BY DEF Init, NoticeOK, FinalOK, Sent
<1>4. SeveredOK
  BY DEF Init, SeveredOK
<1>5. SideAccounted
  BY DEF Init, SideAccounted
<1> QED BY <1>1, <1>2, <1>3, <1>4, <1>5 DEF HistInv

\* The tokens, deaths and notices of the two states are the same.
SameHistory ==
  /\ \A x, y \in Proc : relations'[x][y].token = relations[x][y].token
  /\ UNCHANGED <<terminal, taken, pending, notices, lastToken, made, severed>>

\* Steps that only take mutexes, change tags or publish keep the history.
LEMMA SameHist ==
  ASSUME HistInv, StructInv', SameHistory
  PROVE  HistInv'
<1> USE DEF HistInv, SameHistory
<1>1. OwnToken'
  <2> SUFFICES ASSUME NEW x \in Proc, NEW y \in Proc
               PROVE  /\ Linked(x, y)' =>
                           /\ relations'[x][y].token <= lastToken
                           /\ made[relations'[x][y].token] = {x, y}
                      /\ taken[x][y].token # 0 =>
                           /\ taken[x][y].token <= lastToken
                           /\ made[taken[x][y].token] = {x, y}
    BY DEF OwnToken
  <2>1. relations'[x][y].token = relations[x][y].token
    OBVIOUS
  <2> QED BY <2>1 DEF OwnToken, Linked
<1>2. NoticeOK' /\ FinalOK'
  BY DEF NoticeOK, FinalOK, Sent, Notice
<1>3. SeveredOK'
  BY DEF SeveredOK
<1>4. SideAccounted'
  BY DEF SideAccounted
<1> QED BY <1>1, <1>2, <1>3, <1>4

\* Installing a pair uses a token that nothing refers to yet.
LEMMA InstallHist ==
  ASSUME HistInv, StructInv', NEW p \in Proc, LinkInstall(p)
  PROVE  HistInv'
<1> USE DEF HistInv
<1> DEFINE q == op[p].peer
<1>1. q \in Proc /\ q # p /\ op[p].tag \in ExitTag /\ op[p].peerTag \in ExitTag
  BY DEF LinkInstall, OpOK, StructInv, TypeOK, Op
<1>2. UNCHANGED <<terminal, published, taken, pending, notices, severed>>
  BY DEF LinkInstall
<1>3. CASE LinkRefused(p, q)
  BY <1>2, <1>3, SameHist DEF LinkRefused, SameHistory
<1>4. CASE Retag(p, q)
  <2>4. \A x, y \in Proc : relations'[x][y].token = relations[x][y].token
    BY <1>1, <1>4, RetagEffect
  <2>5. UNCHANGED <<admission, lastToken, made>>
    BY <1>4 DEF Retag
  <2> QED BY <1>2, <2>4, <2>5, SameHist DEF SameHistory
<1>5. CASE ~Refuses(p) /\ ~Refuses(q) /\ InstallPair(p, q)
  <2>1. /\ lastToken' = lastToken + 1 /\ lastToken \in Nat /\ lastToken' \in 1..MaxToken
        /\ made'[lastToken'] = {p, q}
        /\ \A t \in 1..MaxToken : t # lastToken' => made'[t] = made[t]
    BY <1>1, <1>5, InstallEffect DEF StructInv, TypeOK, Token
  <2>2. /\ relations'[p][q].token = lastToken' /\ relations'[q][p].token = lastToken'
        /\ \A x, y \in Proc : ~(x = p /\ y = q) /\ ~(x = q /\ y = p) =>
             relations'[x][y] = relations[x][y]
    BY <1>1, <1>5, InstallEffect
  <2>3. relations[p][q].token = 0 /\ relations[q][p].token = 0
    BY <1>5 DEF InstallPair, Linked
  <2>4. \A x, y \in Proc : relations[x][y].token \in Token /\ taken[x][y].token \in Token
    BY DEF StructInv, TypeOK, Relation
  <2>5. OwnToken'
    <3> SUFFICES ASSUME NEW x \in Proc, NEW y \in Proc
                 PROVE /\ relations'[x][y].token # 0 =>
                            /\ relations'[x][y].token <= lastToken'
                            /\ made'[relations'[x][y].token] = {x, y}
                       /\ taken'[x][y].token # 0 =>
                            /\ taken'[x][y].token <= lastToken'
                            /\ made'[taken'[x][y].token] = {x, y}
      BY DEF OwnToken, Linked
    <3>0. ASSUME NEW t \in Token, t # 0, t <= lastToken, made[t] = {x, y}
          PROVE  t <= lastToken' /\ made'[t] = {x, y}
      <4>1. t \in 1..MaxToken /\ t # lastToken' /\ t <= lastToken'
        BY <3>0, <2>1, CapacityAssumption DEF Token
      <4> QED BY <4>1, <3>0, <2>1
    <3>1. taken'[x][y].token # 0 => /\ taken'[x][y].token <= lastToken'
                                    /\ made'[taken'[x][y].token] = {x, y}
      <4>1. taken'[x][y].token = taken[x][y].token
        BY <1>2
      <4>2. taken[x][y].token # 0 => /\ taken[x][y].token <= lastToken
                                     /\ made[taken[x][y].token] = {x, y}
        BY DEF OwnToken
      <4> QED BY <4>1, <4>2, <3>0, <2>4
    <3>2. CASE (x = p /\ y = q) \/ (x = q /\ y = p)
      BY <3>1, <3>2, <2>1, <2>2
    <3>3. CASE ~(x = p /\ y = q) /\ ~(x = q /\ y = p)
      <4>1. relations'[x][y] = relations[x][y]
        BY <3>3, <2>2
      <4>2. relations[x][y].token # 0 => /\ relations[x][y].token <= lastToken
                                         /\ made[relations[x][y].token] = {x, y}
        BY DEF OwnToken, Linked
      <4> QED BY <3>0, <3>1, <4>1, <4>2, <2>4
    <3> QED BY <3>2, <3>3
  <2>6. NoticeOK'
    <3>1. \A x, y \in Proc : relations'[x][y].token = relations[x][y].token
                             \/ relations'[x][y].token = lastToken + 1
      BY <2>1, <2>2
    <3>2. \A n \in Notice : n.to \in Proc /\ n.token \in Nat
      BY CapacityAssumption DEF Notice, Token
    <3> QED BY <1>2, <2>1, <3>1, <3>2 DEF NoticeOK, Sent
  <2>7. FinalOK'
    BY <1>2 DEF FinalOK, Sent
  <2>8. SeveredOK'
    <3>1. \A x, y \in Proc : relations'[x][y].token = relations[x][y].token
                             \/ relations'[x][y].token = lastToken + 1
      BY <2>1, <2>2
    <3> QED BY <1>2, <2>1, <3>1 DEF SeveredOK, Token
  <2>9. SideAccounted'
    <3> SUFFICES ASSUME NEW x \in Proc, NEW y \in Proc, NEW t \in 1..MaxToken,
                        x # y, x \in made'[t], y \in made'[t]
                 PROVE  \/ relations'[y][x].token = t
                        \/ terminal[y] \/ <<y, t>> \in severed
                        \/ \E n \in Notice : /\ n \in pending[x] \/ n \in notices
                                             /\ n.to = y /\ n.from = x /\ n.token = t
      BY <1>2 DEF SideAccounted
    <3>1. CASE t = lastToken'
      BY <3>1, <2>1, <2>2
    <3>2. CASE t # lastToken'
      <4>1. x \in made[t] /\ y \in made[t]
        BY <3>2, <2>1
      <4>2. relations[y][x].token = t => relations'[y][x].token = t
        BY <2>2, <2>3
      <4> QED BY <4>1, <4>2 DEF SideAccounted
    <3> QED BY <3>1, <3>2
  <2> QED BY <2>5, <2>6, <2>7, <2>8, <2>9
<1> QED BY <1>3, <1>4, <1>5 DEF LinkInstall

\* Removing relations, or moving them out, keeps the owners of the tokens.
LEMMA OwnTokenKept ==
  ASSUME OwnToken, UNCHANGED <<made, lastToken>>,
         \A x, y \in Proc :
           /\ relations'[x][y].token = 0
              \/ relations'[x][y].token = relations[x][y].token
           /\ \/ taken'[x][y].token = 0
              \/ taken'[x][y].token = taken[x][y].token
              \/ taken'[x][y].token = relations[x][y].token
  PROVE  OwnToken'
<1> SUFFICES ASSUME NEW x \in Proc, NEW y \in Proc
             PROVE /\ relations'[x][y].token # 0 =>
                        /\ relations'[x][y].token <= lastToken
                        /\ made[relations'[x][y].token] = {x, y}
                   /\ taken'[x][y].token # 0 =>
                        /\ taken'[x][y].token <= lastToken
                        /\ made[taken'[x][y].token] = {x, y}
  BY DEF OwnToken, Linked
<1>1. /\ relations[x][y].token # 0 => /\ relations[x][y].token <= lastToken
                                      /\ made[relations[x][y].token] = {x, y}
      /\ taken[x][y].token # 0 => /\ taken[x][y].token <= lastToken
                                  /\ made[taken[x][y].token] = {x, y}
  BY DEF OwnToken, Linked
<1> QED BY <1>1

\* The sides an unlink removes are remembered as severed.
LEMMA UnlinkHist ==
  ASSUME HistInv, StructInv', NEW p \in Proc, UnlinkRemove(p)
  PROVE  HistInv'
<1> USE DEF HistInv
<1> DEFINE tok == op[p].token
<1>1. tok \in Token /\ tok # 0 /\ NoRelation.token = 0
  BY DEF UnlinkRemove, OpOK, StructInv, TypeOK, Op, NoRelation
<1>2. UNCHANGED <<terminal, taken, pending, notices, lastToken, made>>
  BY DEF UnlinkRemove
<1>3. \A x, y \in Proc : /\ Hit(p, x, y) => relations'[x][y] = NoRelation
                         /\ ~Hit(p, x, y) => relations'[x][y] = relations[x][y]
  BY UnlinkRelations
<1>4. \A x, y \in Proc : relations'[x][y].token = relations[x][y].token
                         \/ relations'[x][y].token = 0
  BY <1>1, <1>3
<1>5. OwnToken'
  BY <1>2, <1>4, OwnTokenKept
<1>6. NoticeOK'
  <2>1. \A n \in Notice : n.to \in Proc /\ n.token # 0
    BY DEF Notice
  <2> QED BY <1>2, <1>4, <2>1 DEF NoticeOK, Sent
<1>7. FinalOK'
  <2> SUFFICES ASSUME NEW n \in Notice, Sent(n), <<n.to, n.token>> \in severed'
               PROVE  FALSE
    BY <1>2 DEF FinalOK, Sent
  <2>1. <<n.to, n.token>> \notin severed
    BY DEF FinalOK
  <2>2. PICK x, y \in Proc : Hit(p, x, y) /\ <<n.to, n.token>> = <<x, tok>>
    BY <2>1, UnlinkSevered
  <2>3. relations[n.to][y].token = n.token
    BY <2>2 DEF Hit
  <2> QED BY <2>2, <2>3 DEF NoticeOK
<1>8. SeveredOK'
  <2> SUFFICES ASSUME NEW x \in Proc, NEW y \in Proc, NEW t \in Token,
                      <<x, t>> \in severed'
               PROVE  t # 0 /\ t <= lastToken' /\ relations'[x][y].token # t
    BY DEF SeveredOK
  <2>1. CASE <<x, t>> \in severed
    BY <2>1, <1>2, <1>4 DEF SeveredOK
  <2>2. CASE <<x, t>> \notin severed
    <3>1. PICK u, v \in Proc : Hit(p, u, v) /\ <<x, t>> = <<u, tok>>
      BY <2>2, UnlinkSevered
    <3>2. x = u /\ t = tok /\ relations[x][v].token = t
      BY <3>1 DEF Hit
    <3>3. t # 0 /\ t <= lastToken /\ made[t] = {x, v}
      <4>1. Linked(x, v) => /\ relations[x][v].token <= lastToken
                            /\ made[relations[x][v].token] = {x, v}
        BY DEF OwnToken
      <4>2. Linked(x, v)
        BY <1>1, <3>2 DEF Linked
      <4> QED BY <1>1, <3>2, <4>1, <4>2
    <3>4. relations'[x][v].token = 0
      BY <1>1, <1>3, <3>1, <3>2
    <3>5. CASE y = v
      BY <3>3, <3>4, <3>5, <1>2
    <3>6. CASE y # v
      <4>1. relations[x][y].token = t => made[t] = {x, y}
        <5>1. Linked(x, y) => made[relations[x][y].token] = {x, y}
          BY DEF OwnToken
        <5> QED BY <3>3, <5>1 DEF Linked
      <4>2. (x # v /\ x # y) \/ relations[x][y].token # t
        BY <4>1, <3>3, <3>2 DEF StructInv, NoSelfLink
      <4>3. relations[x][y].token # t
        BY <4>1, <4>2, <3>3, <3>6
      <4> QED BY <4>3, <3>3, <1>2, <1>4
    <3> QED BY <3>5, <3>6
  <2> QED BY <2>1, <2>2
<1>9. SideAccounted'
  <2> SUFFICES ASSUME NEW x \in Proc, NEW y \in Proc, NEW t \in 1..MaxToken,
                      x # y, x \in made[t], y \in made[t]
               PROVE  \/ relations'[y][x].token = t
                      \/ terminal[y] \/ <<y, t>> \in severed'
                      \/ \E n \in Notice : /\ n \in pending[x] \/ n \in notices
                                           /\ n.to = y /\ n.from = x /\ n.token = t
    BY <1>2 DEF SideAccounted
  <2>1. severed \subseteq severed'
    BY UnlinkSevered
  <2>2. CASE relations[y][x].token = t
    <3>1. CASE Hit(p, y, x)
      <4>1. t = tok
        BY <2>2, <3>1 DEF Hit
      <4> QED BY <3>1, <4>1, UnlinkSevered
    <3>2. CASE ~Hit(p, y, x)
      BY <2>2, <3>2, <1>3
    <3> QED BY <3>1, <3>2
  <2>3. CASE relations[y][x].token # t
    BY <2>1, <2>3 DEF SideAccounted
  <2> QED BY <2>2, <2>3
<1> QED BY <1>5, <1>6, <1>7, <1>8, <1>9

\* terminate moves the relations out and marks the process terminal.
LEMMA TakeHist ==
  ASSUME HistInv, StructInv', NEW p \in Proc, TerminateTake(p)
  PROVE  HistInv'
<1> USE DEF HistInv
<1>1. UNCHANGED <<pending, notices, lastToken, made, severed>>
  BY DEF TerminateTake
<1>2. NoRelation.token = 0
  BY DEF NoRelation
<1>3. /\ taken'[p] = relations[p]
      /\ \A y \in Proc : relations'[p][y] = NoRelation
      /\ \A x \in Proc : x # p => relations'[x] = relations[x] /\ taken'[x] = taken[x]
  BY DEF TerminateTake, StructInv, TypeOK
<1>4. terminal'[p] /\ \A x \in Proc : terminal[x] => terminal'[x]
  BY DEF TerminateTake, StructInv, TypeOK
<1>5. \A x, y \in Proc : relations'[x][y].token = relations[x][y].token
                         \/ relations'[x][y].token = 0
  BY <1>2, <1>3
<1>6. OwnToken'
  <2>1. \A x, y \in Proc : taken'[x][y] = taken[x][y] \/ taken'[x][y] = relations[x][y]
    BY <1>3
  <2> QED BY <1>1, <1>5, <2>1, OwnTokenKept
<1>7. NoticeOK'
  <2>1. \A n \in Notice : n.to \in Proc /\ n.token # 0
    BY DEF Notice
  <2> QED BY <1>1, <1>5, <2>1 DEF NoticeOK, Sent
<1>8. FinalOK'
  BY <1>1 DEF FinalOK, Sent
<1>9. SeveredOK'
  BY <1>1, <1>5 DEF SeveredOK
<1>10. SideAccounted'
  <2> SUFFICES ASSUME NEW x \in Proc, NEW y \in Proc, NEW t \in 1..MaxToken,
                      x # y, x \in made[t], y \in made[t]
               PROVE  \/ relations'[y][x].token = t
                      \/ terminal'[y] \/ <<y, t>> \in severed
                      \/ \E n \in Notice : /\ n \in pending[x] \/ n \in notices
                                           /\ n.to = y /\ n.from = x /\ n.token = t
    BY <1>1 DEF SideAccounted
  <2>1. CASE y = p
    BY <2>1, <1>4
  <2>2. CASE y # p
    <3>1. relations'[y] = relations[y]
      BY <2>2, <1>3
    <3>2. terminal[y] => terminal'[y]
      BY <1>4
    <3> QED BY <3>1, <3>2 DEF SideAccounted
  <2> QED BY <2>1, <2>2
<1> QED BY <1>6, <1>7, <1>8, <1>9, <1>10

\* A peer is owed a notice exactly when its own side was just removed.
LEMMA PeerHist ==
  ASSUME HistInv, StructInv', NEW p \in Proc, NEW q \in Proc, TerminatePeer(p, q)
  PROVE  HistInv'
<1> USE DEF HistInv
<1> DEFINE t0 == taken[p][q].token
           note == [to |-> q, from |-> p, token |-> t0, tag |-> taken[p][q].tag]
<1>1. UNCHANGED <<terminal, notices, lastToken, made, severed>>
  BY DEF TerminatePeer
<1>2. p # q /\ relations'[q][p].token = 0
      /\ (relations[q][p].token # 0 => relations[q][p].token = t0)
  BY PeerEffect
<1>3. \A x, y \in Proc : ~(x = q /\ y = p) => relations'[x][y] = relations[x][y]
  BY PeerRelations
<1>4. t0 # 0 /\ t0 <= lastToken /\ made[t0] = {p, q} /\ taken[p][q] \in Relation
  <2>1. t0 # 0 /\ taken[p][q] \in Relation
    BY DEF TerminatePeer, StructInv, TypeOK
  <2>2. t0 # 0 => t0 <= lastToken /\ made[t0] = {p, q}
    BY DEF OwnToken
  <2> QED BY <2>1, <2>2
<1>5. note \in Notice
  BY <1>4 DEF Notice, Relation
<1>6. note.to = q /\ note.from = p /\ note.token = t0
  OBVIOUS
<1>7. /\ \A x \in Proc : x # p => pending'[x] = pending[x]
      /\ pending[p] \subseteq pending'[p]
      /\ \A n \in pending'[p] : n \in pending[p] \/ (n = note /\ relations[q][p].token = t0)
      /\ relations[q][p].token = t0 => note \in pending'[p]
  BY DEF TerminatePeer, StructInv, TypeOK, Owed, Matches
<1> HIDE DEF note
<1>8. \A x, y \in Proc : relations'[x][y].token = 0
                         \/ relations'[x][y].token = relations[x][y].token
  BY <1>2, <1>3
<1>9. \A n \in Notice : n.to \in Proc /\ n.token # 0
  BY DEF Notice
<1>10. OwnToken'
  <2>1. \A x, y \in Proc : taken'[x][y] = NoRelation \/ taken'[x][y] = taken[x][y]
    BY DEF TerminatePeer, StructInv, TypeOK
  <2>2. NoRelation.token = 0
    BY DEF NoRelation
  <2> QED BY <1>1, <1>8, <2>1, <2>2, OwnTokenKept
<1>11. \A n \in Notice : Sent(n)' => Sent(n) \/ (n = note /\ relations[q][p].token = t0)
  BY <1>1, <1>7 DEF Sent
<1>12. \A y \in Proc : relations'[q][y].token # t0
  <2> SUFFICES ASSUME NEW y \in Proc, relations'[q][y].token = t0 PROVE FALSE
    OBVIOUS
  <2>1. y # p /\ relations[q][y].token = t0
    BY <1>2, <1>3, <1>4
  <2>2. made[t0] = {q, y}
    <3>1. Linked(q, y) => made[relations[q][y].token] = {q, y}
      BY DEF OwnToken
    <3> QED BY <1>4, <2>1, <3>1 DEF Linked
  <2> QED BY <1>2, <1>4, <2>1, <2>2
<1>13. NoticeOK'
  <2> SUFFICES ASSUME NEW n \in Notice, Sent(n)'
               PROVE  /\ n.token <= lastToken
                      /\ \A y \in Proc : relations'[n.to][y].token # n.token
                      /\ \A x \in Proc : n \in pending'[x] => n.from = x
    BY <1>1 DEF NoticeOK
  <2>1. CASE Sent(n)
    <3>1. /\ n.token <= lastToken
          /\ \A y \in Proc : relations[n.to][y].token # n.token
          /\ \A x \in Proc : n \in pending[x] => n.from = x
      BY <2>1 DEF NoticeOK
    <3>2. \A y \in Proc : relations'[n.to][y].token # n.token
      BY <3>1, <1>8, <1>9
    <3>3. \A x \in Proc : n \in pending'[x] => n.from = x
      BY <3>1, <1>6, <1>7
    <3> QED BY <3>1, <3>2, <3>3
  <2>2. CASE ~Sent(n)
    <3>1. n = note
      BY <2>2, <1>11
    <3>2. \A x \in Proc : n \in pending'[x] => x = p
      BY <2>2, <1>7 DEF Sent
    <3> QED BY <3>1, <3>2, <1>4, <1>6, <1>12
  <2> QED BY <2>1, <2>2
<1>14. FinalOK'
  <2> SUFFICES ASSUME NEW n \in Notice, Sent(n)' PROVE <<n.to, n.token>> \notin severed
    BY <1>1 DEF FinalOK
  <2>1. CASE Sent(n)
    BY <2>1 DEF FinalOK
  <2>2. CASE n = note /\ relations[q][p].token = t0
    <3>1. t0 \in Token
      BY <1>4 DEF Relation
    <3>2. <<q, t0>> \notin severed
      BY <2>2, <3>1 DEF SeveredOK
    <3> QED BY <2>2, <3>2, <1>6
  <2> QED BY <2>1, <2>2, <1>11
<1>15. SeveredOK'
  BY <1>1, <1>8 DEF SeveredOK
<1>16. SideAccounted'
  <2> SUFFICES ASSUME NEW x \in Proc, NEW y \in Proc, NEW t \in 1..MaxToken,
                      x # y, x \in made[t], y \in made[t]
               PROVE  \/ relations'[y][x].token = t
                      \/ terminal[y] \/ <<y, t>> \in severed
                      \/ \E n \in Notice : /\ n \in pending'[x] \/ n \in notices
                                           /\ n.to = y /\ n.from = x /\ n.token = t
    BY <1>1 DEF SideAccounted
  <2>1. CASE relations[y][x].token = t
    <3>1. CASE y = q /\ x = p
      <4>1. t = t0
        BY <1>2, <2>1, <3>1
      <4>2. note \in pending'[x] /\ note.to = y /\ note.from = x /\ note.token = t
        BY <1>6, <1>7, <2>1, <3>1, <4>1
      <4> QED BY <1>5, <4>2
    <3>2. CASE ~(y = q /\ x = p)
      BY <2>1, <3>2, <1>3
    <3> QED BY <3>1, <3>2
  <2>2. CASE relations[y][x].token # t
    <3>1. pending[x] \subseteq pending'[x]
      BY <1>7
    <3> QED BY <2>2, <3>1 DEF SideAccounted
  <2> QED BY <2>1, <2>2
<1> QED BY <1>10, <1>13, <1>14, <1>15, <1>16

\* Delivering moves a notice from the owed to the sent ones.
LEMMA DeliverHist ==
  ASSUME HistInv, StructInv', NEW p \in Proc, NEW m \in pending[p], Deliver(p, m)
  PROVE  HistInv'
<1> USE DEF HistInv
<1>1. UNCHANGED <<relations, terminal, taken, lastToken, made, severed>>
  BY DEF Deliver
<1>2. /\ \A x \in Proc : pending'[x] \subseteq pending[x]
      /\ \A x \in Proc : \A n \in pending[x] : n \in pending'[x] \/ n = m
      /\ notices' = notices \cup {m}
  BY DEF Deliver, StructInv, TypeOK
<1>3. \A n \in Notice : Sent(n)' => Sent(n)
  BY <1>2 DEF Sent
<1>4. OwnToken' /\ SeveredOK'
  BY <1>1 DEF OwnToken, SeveredOK, Linked
<1>5. NoticeOK'
  BY <1>1, <1>2, <1>3 DEF NoticeOK
<1>6. FinalOK'
  BY <1>1, <1>3 DEF FinalOK
<1>7. SideAccounted'
  BY <1>1, <1>2 DEF SideAccounted
<1> QED BY <1>4, <1>5, <1>6, <1>7

\* Every step keeps the whole invariant.
LEMMA StepHist == HistInv /\ [Next]_vars => HistInv'
<1> SUFFICES ASSUME HistInv, [Next]_vars PROVE HistInv'
  OBVIOUS
<1>1. StructInv'
  BY StepStruct DEF HistInv
<1>2. CASE SameHistory
  BY <1>1, <1>2, SameHist
<1>3. CASE UNCHANGED vars
  BY <1>2, <1>3 DEF vars, SameHistory
<1>4. ASSUME NEW p \in Proc, NEW q \in Proc, NEW mine \in ExitTag,
             NEW theirs \in ExitTag, LinkLock(p, q, mine, theirs)
      PROVE  HistInv'
  BY <1>2, <1>4 DEF LinkLock, SameHistory
<1>5. ASSUME NEW p \in Proc, LinkInstall(p) PROVE HistInv'
  BY <1>1, <1>5, InstallHist
<1>6. ASSUME NEW p \in Proc, NEW q \in Proc, UnlinkRead(p, q) PROVE HistInv'
  BY <1>2, <1>6 DEF UnlinkRead, SameHistory
<1>7. ASSUME NEW p \in Proc, UnlinkLock(p) PROVE HistInv'
  BY <1>2, <1>7 DEF UnlinkLock, SameHistory
<1>8. ASSUME NEW p \in Proc, UnlinkRemove(p) PROVE HistInv'
  BY <1>1, <1>8, UnlinkHist
<1>9. ASSUME NEW p \in Proc, Publish(p) PROVE HistInv'
  BY <1>2, <1>9 DEF Publish, SameHistory
<1>10. ASSUME NEW p \in Proc, TerminateTake(p) PROVE HistInv'
  BY <1>1, <1>10, TakeHist
<1>11. ASSUME NEW p \in Proc, NEW q \in Proc, TerminatePeer(p, q) PROVE HistInv'
  BY <1>1, <1>11, PeerHist
<1>12. ASSUME NEW p \in Proc, NEW n \in pending[p], Deliver(p, n) PROVE HistInv'
  BY <1>1, <1>12, DeliverHist
<1> QED BY <1>3, <1>4, <1>5, <1>6, <1>7, <1>8, <1>9, <1>10, <1>11, <1>12 DEF Next
-----------------------------------------------------------------------------
(* The theorems. *)

\* Every behaviour keeps the inductive invariant.
THEOREM Invariant == Spec => []HistInv
  BY InitHist, StepHist, PTL DEF Spec

\* The variables always have their types.
THEOREM TypeCorrect == Spec => []TypeOK
<1>1. HistInv => TypeOK
  BY DEF HistInv, StructInv
<1> QED BY <1>1, Invariant, PTL

\* No process, ever, keeps one half of a link.
THEOREM NoDangling == Spec => []NoDanglingLink
<1>1. HistInv => NoDanglingLink
  BY DEF HistInv, StructInv
<1> QED BY <1>1, Invariant, PTL

\* A terminated process has, and gets, no relations.
THEOREM TerminatedUnlinked == Spec => []TerminatedStaysUnlinked
<1>1. HistInv => TerminatedStaysUnlinked
  BY DEF HistInv, StructInv
<1> QED BY <1>1, Invariant, PTL

\* An unlink that removed a side rules out the LinkDied of that link.
THEOREM UnlinkFinal == Spec => []UnlinkIsFinal
<1>1. HistInv => UnlinkIsFinal
  <2> SUFFICES ASSUME HistInv, NEW n \in notices \cup UNION {pending[p] : p \in Proc}
               PROVE  <<n.to, n.token>> \notin severed
    BY DEF UnlinkIsFinal
  <2>1. Sent(n)
    BY DEF Sent
  <2>2. n \in Notice
    BY <2>1 DEF Sent, HistInv, StructInv, TypeOK
  <2> QED BY <2>1, <2>2 DEF HistInv, FinalOK
<1> QED BY <1>1, Invariant, PTL

\* No survivor misses the death of a process it was linked with.
THEOREM NoDeathMissed == Spec => []NoMissedDeath
<1>1. HistInv => NoMissedDeath
  <2> SUFFICES ASSUME HistInv, NEW p \in Proc, NEW t \in 1..MaxToken,
                      Finished(p), p \in made[t], NEW q \in made[t] \ {p}
               PROVE  \/ terminal[q] \/ <<q, t>> \in severed
                      \/ \E n \in notices : n.to = q /\ n.from = p /\ n.token = t
    BY DEF NoMissedDeath
  <2>1. q \in Proc /\ q # p /\ t # 0
    <3>1. made \in [1..MaxToken -> SUBSET Proc]
      BY DEF HistInv, StructInv, TypeOK
    <3> QED BY <3>1, CapacityAssumption
  <2>2. terminal[p] /\ taken[p][q].token = 0 /\ pending[p] = {}
    BY <2>1 DEF Finished, AllProcessed
  <2>3. relations[p][q].token = 0
    BY <2>1, <2>2 DEF HistInv, StructInv, TerminatedStaysUnlinked, Linked
  <2>4. relations[q][p].token # t
    <3>1. relations[q][p].token # 0 => \/ relations[p][q].token = relations[q][p].token
                                       \/ taken[p][q].token = relations[q][p].token
      BY <2>1 DEF HistInv, StructInv, NoDanglingLink, Linked
    <3> QED BY <2>1, <2>2, <2>3, <3>1
  <2> QED BY <2>1, <2>2, <2>4 DEF HistInv, SideAccounted
<1> QED BY <1>1, Invariant, PTL
-----------------------------------------------------------------------------
(* Permits and tags stay with their relation. *)

LinkedTo(p) == {q \in Proc : Linked(p, q)}
TakenBy(p) == {q \in Proc : taken[p][q].token # 0}

\* Sets of peers can be counted.
LEMMA PeersFinite ==
  ASSUME NEW S \in SUBSET Proc
  PROVE  IsFiniteSet(S) /\ Cardinality(S) \in Nat
<1>1. IsFiniteSet(S)
  BY ProcAssumption, FS_Subset
<1> QED BY <1>1, FS_CardinalityType

LEMMA OneMore ==
  ASSUME NEW S \in SUBSET Proc, NEW T, NEW e \in Proc, e \notin S, T = S \cup {e}
  PROVE  Cardinality(T) = Cardinality(S) + 1
BY PeersFinite, FS_AddElement

LEMMA OneLess ==
  ASSUME NEW S \in SUBSET Proc, NEW T, NEW e \in S, T = S \ {e}
  PROVE  Cardinality(T) = Cardinality(S) - 1
BY PeersFinite, FS_RemoveElement

\* The account of one process, in terms of the counts.
Account(p) == admission[p] + Cardinality(LinkedTo(p)) + Cardinality(TakenBy(p))

LEMMA AccountingIsAccounts ==
  AdmissionAccounting <=> \A p \in Proc : Account(p) = LinkCapacity
BY DEF AdmissionAccounting, Account, LinkedTo, TakenBy

\* A step that touches neither tokens nor permits of x leaves its account.
LEMMA SameAccount ==
  ASSUME NEW x \in Proc, admission'[x] = admission[x],
         \A y \in Proc : /\ relations'[x][y].token = relations[x][y].token
                         /\ taken'[x][y].token = taken[x][y].token
  PROVE  Account(x)' = Account(x)
<1>1. LinkedTo(x)' = LinkedTo(x) /\ TakenBy(x)' = TakenBy(x)
  BY DEF LinkedTo, TakenBy, Linked
<1> QED BY <1>1 DEF Account

\* A relation of x to y goes, and its permit comes back.
LEMMA ReturnedLink ==
  ASSUME NEW x \in Proc, NEW y \in Proc, TypeOK, admission'[x] = admission[x] + 1,
         relations[x][y].token # 0, relations'[x][y].token = 0,
         \A z \in Proc : z # y => relations'[x][z].token = relations[x][z].token,
         \A z \in Proc : taken'[x][z].token = taken[x][z].token
  PROVE  Account(x)' = Account(x)
<1>1. TakenBy(x)' = TakenBy(x) /\ LinkedTo(x)' = LinkedTo(x) \ {y} /\ y \in LinkedTo(x)
  BY DEF LinkedTo, TakenBy, Linked
<1>2. LinkedTo(x) \in SUBSET Proc /\ TakenBy(x) \in SUBSET Proc
  BY DEF LinkedTo, TakenBy
<1>3. Cardinality(LinkedTo(x)') = Cardinality(LinkedTo(x)) - 1
  BY <1>1, <1>2, OneLess
<1>4. Cardinality(LinkedTo(x)) \in Nat /\ Cardinality(TakenBy(x)) \in Nat /\ admission[x] \in Nat
  BY <1>2, PeersFinite DEF TypeOK
<1>5. Cardinality(TakenBy(x)') = Cardinality(TakenBy(x))
  BY <1>1
<1> QED BY <1>3, <1>4, <1>5 DEF Account

\* link_pair takes one permit for each side it installs.
LEMMA InstallAccount ==
  ASSUME StructInv, NEW p \in Proc, LinkInstall(p), NEW x \in Proc
  PROVE  Account(x)' = Account(x)
<1> USE DEF StructInv
<1> DEFINE q == op[p].peer
<1>1. q \in Proc /\ q # p /\ taken' = taken /\ op[p].tag \in ExitTag /\ op[p].peerTag \in ExitTag
  BY DEF LinkInstall, OpOK, TypeOK, Op
<1>2. CASE LinkRefused(p, q)
  BY <1>1, <1>2, SameAccount DEF LinkRefused
<1>3. CASE Retag(p, q)
  <2>1. \A y, z \in Proc : relations'[y][z].token = relations[y][z].token
    BY <1>1, <1>3, RetagEffect
  <2>2. admission' = admission
    BY <1>3 DEF Retag
  <2> QED BY <1>1, <2>1, <2>2, SameAccount
<1>4. CASE ~Refuses(p) /\ ~Refuses(q) /\ InstallPair(p, q)
  <2>1. /\ relations[p][q].token = 0 /\ relations[q][p].token = 0
        /\ relations'[p][q].token # 0 /\ relations'[q][p].token # 0
        /\ \A y, z \in Proc : ~(y = p /\ z = q) /\ ~(y = q /\ z = p) =>
             relations'[y][z] = relations[y][z]
    BY <1>1, <1>4, InstallEffect
  <2>2. /\ admission'[p] = admission[p] - 1 /\ admission'[q] = admission[q] - 1
        /\ \A y \in Proc : y # p /\ y # q => admission'[y] = admission[y]
    BY <1>1, <1>4 DEF InstallPair, TypeOK
  <2> HIDE DEF q
  <2>3. ASSUME NEW y \in Proc, NEW z \in Proc, (y = p /\ z = q) \/ (y = q /\ z = p)
        PROVE  Account(y)' = Account(y)
    <3>1. /\ TakenBy(y)' = TakenBy(y) /\ LinkedTo(y)' = LinkedTo(y) \cup {z} /\ z \notin LinkedTo(y)
          /\ LinkedTo(y) \in SUBSET Proc /\ TakenBy(y) \in SUBSET Proc
      BY <1>1, <2>1, <2>3 DEF LinkedTo, TakenBy, Linked
    <3>2. Cardinality(LinkedTo(y)') = Cardinality(LinkedTo(y)) + 1
      BY <3>1, OneMore
    <3>3. /\ Cardinality(LinkedTo(y)) \in Nat /\ Cardinality(TakenBy(y)) \in Nat
          /\ admission[y] \in Nat /\ admission'[y] = admission[y] - 1
      BY <2>2, <2>3, <3>1, PeersFinite DEF TypeOK
    <3>4. Cardinality(TakenBy(y)') = Cardinality(TakenBy(y))
      BY <3>1
    <3> QED BY <3>2, <3>3, <3>4 DEF Account
  <2>4. CASE x # p /\ x # q
    BY <1>1, <2>1, <2>2, <2>4, SameAccount
  <2> QED BY <1>1, <2>3, <2>4
<1> QED BY <1>2, <1>3, <1>4 DEF LinkInstall

\* unlink_peer gives back the permit of each side it removes.
LEMMA UnlinkAccount ==
  ASSUME StructInv, NEW p \in Proc, UnlinkRemove(p), NEW x \in Proc
  PROVE  Account(x)' = Account(x)
<1> USE DEF StructInv
<1> DEFINE q == op[p].peer
           sides == MatchingSides(p, q, op[p].token)
<1>1. q \in Proc /\ q # p /\ op[p].token # 0 /\ taken' = taken /\ NoRelation.token = 0
  BY DEF UnlinkRemove, OpOK, NoRelation
<1>2. \A y, z \in Proc : /\ Hit(p, y, z) => relations'[y][z] = NoRelation
                         /\ ~Hit(p, y, z) => relations'[y][z] = relations[y][z]
  BY UnlinkRelations
<1>3. admission'[x] = IF \E s \in sides : s[1] = x THEN admission[x] + 1 ELSE admission[x]
  BY DEF UnlinkRemove, RemoveSides
<1>4. (\E s \in sides : s[1] = x) <=> \E y \in Proc : Hit(p, x, y)
  <2>1. \A s \in sides : /\ s = <<p, q>> \/ s = <<q, p>>
                         /\ relations[s[1]][s[2]].token = op[p].token
    BY DEF MatchingSides, Matches
  <2>2. \A y \in Proc : Hit(p, x, y) => <<x, y>> \in sides
    BY DEF MatchingSides, Matches, Hit
  <2>3. ASSUME NEW s \in sides, s[1] = x PROVE \E y \in Proc : Hit(p, x, y)
    <3>1. CASE s = <<p, q>>
      BY <1>1, <2>1, <2>3, <3>1 DEF Hit
    <3>2. CASE s = <<q, p>>
      BY <1>1, <2>1, <2>3, <3>2 DEF Hit
    <3> QED BY <2>1, <3>1, <3>2
  <2> HIDE DEF sides
  <2> QED BY <2>2, <2>3
<1> HIDE DEF sides
<1>5. CASE \E y \in Proc : Hit(p, x, y)
  <2>1. PICK y \in Proc : Hit(p, x, y)
    BY <1>5
  <2>2. relations[x][y].token # 0 /\ \A z \in Proc : z # y => ~Hit(p, x, z)
    BY <1>1, <2>1 DEF Hit
  <2>3. admission'[x] = admission[x] + 1
    BY <1>3, <1>4, <1>5
  <2> QED BY <1>1, <1>2, <2>1, <2>2, <2>3, ReturnedLink
<1>6. CASE ~\E y \in Proc : Hit(p, x, y)
  <2>1. admission'[x] = admission[x]
    BY <1>3, <1>4, <1>6
  <2> QED BY <1>1, <1>2, <1>6, <2>1, SameAccount
<1> QED BY <1>5, <1>6

\* terminate moves relations with their permits.
LEMMA TakeAccount ==
  ASSUME StructInv, NEW p \in Proc, TerminateTake(p), NEW x \in Proc
  PROVE  Account(x)' = Account(x)
<1> USE DEF StructInv
<1>1. /\ taken'[p] = relations[p]
      /\ \A y \in Proc : relations'[p][y] = NoRelation
      /\ \A y \in Proc : y # p => relations'[y] = relations[y] /\ taken'[y] = taken[y]
      /\ admission' = admission /\ ~terminal[p] /\ NoRelation.token = 0
  BY DEF TerminateTake, TypeOK, NoRelation
<1>2. CASE x = p
  <2>1. TakenBy(p) = {} /\ LinkedTo(p)' = {} /\ TakenBy(p)' = LinkedTo(p)
    BY <1>1 DEF LinkedTo, TakenBy, Linked, OnlyTerminalTakes
  <2>2. Cardinality({}) = 0 /\ LinkedTo(p) \in SUBSET Proc
    BY FS_EmptySet DEF LinkedTo
  <2>3. Cardinality(LinkedTo(p)) \in Nat /\ admission[p] \in Nat
    BY <2>2, PeersFinite DEF TypeOK
  <2> QED BY <1>1, <1>2, <2>1, <2>2, <2>3 DEF Account
<1>3. CASE x # p
  BY <1>1, <1>3, SameAccount
<1> QED BY <1>2, <1>3

\* Visiting a peer gives back the permit that was taken, and the peer's own
\* when its side goes with it.
LEMMA PeerAccount ==
  ASSUME StructInv, NEW p \in Proc, NEW q \in Proc, TerminatePeer(p, q), NEW x \in Proc
  PROVE  Account(x)' = Account(x)
<1> USE DEF StructInv
<1>1. /\ p # q /\ terminal[p] /\ relations[p][q].token = 0 /\ taken[p][q].token # 0
      /\ relations'[q][p].token = 0
  BY PeerEffect DEF TerminatePeer
<1>2. \A y, z \in Proc : ~(y = q /\ z = p) => relations'[y][z] = relations[y][z]
  BY PeerRelations
<1>3. /\ taken'[p][q].token = 0
      /\ \A y, z \in Proc : ~(y = p /\ z = q) => taken'[y][z] = taken[y][z]
  BY DEF TerminatePeer, TypeOK, NoRelation
<1>4. /\ admission'[p] = admission[p] + 1
      /\ \A y \in Proc : y # p /\ y # q => admission'[y] = admission[y]
      /\ relations[q][p].token = taken[p][q].token => admission'[q] = admission[q] + 1
      /\ relations[q][p].token # taken[p][q].token => admission'[q] = admission[q]
  <2>1. admission \in [Proc -> Nat]
    BY DEF TypeOK
  <2>2. CASE Matches(relations[q][p], taken[p][q].token)
    <3>1. admission' = [admission EXCEPT ![p] = admission[p] + 1, ![q] = @ + 1]
      BY <2>2 DEF TerminatePeer, DropPermit
    <3> QED BY <1>1, <2>1, <2>2, <3>1 DEF Matches
  <2>3. CASE ~Matches(relations[q][p], taken[p][q].token)
    <3>1. admission' = [admission EXCEPT ![p] = admission[p] + 1]
      BY <2>3 DEF TerminatePeer, DropPermit
    <3> QED BY <1>1, <2>1, <2>3, <3>1 DEF Matches
  <2> QED BY <2>2, <2>3
<1>5. CASE x = p
  <2>1. LinkedTo(p)' = LinkedTo(p) /\ TakenBy(p)' = TakenBy(p) \ {q} /\ q \in TakenBy(p)
    BY <1>1, <1>2, <1>3 DEF LinkedTo, TakenBy, Linked
  <2>2. LinkedTo(p) \in SUBSET Proc /\ TakenBy(p) \in SUBSET Proc
    BY DEF LinkedTo, TakenBy
  <2>3. Cardinality(TakenBy(p)') = Cardinality(TakenBy(p)) - 1
    BY <2>1, <2>2, OneLess
  <2>4. Cardinality(LinkedTo(p)) \in Nat /\ Cardinality(TakenBy(p)) \in Nat /\ admission[p] \in Nat
    BY <2>2, PeersFinite DEF TypeOK
  <2>5. Cardinality(LinkedTo(p)') = Cardinality(LinkedTo(p)) /\ admission'[p] = admission[p] + 1
    BY <1>4, <2>1
  <2> QED BY <1>5, <2>3, <2>4, <2>5 DEF Account
<1>6. CASE x = q
  <2>1. CASE relations[q][p].token = taken[p][q].token
    <3>1. relations[q][p].token # 0 /\ admission'[q] = admission[q] + 1
      BY <1>1, <1>4, <2>1
    <3> QED BY <1>1, <1>2, <1>3, <1>6, <3>1, ReturnedLink
  <2>2. CASE relations[q][p].token # taken[p][q].token
    <3>1. relations'[q][p] = relations[q][p] /\ admission'[q] = admission[q]
      BY <1>4, <2>2, PeerRelations
    <3> QED BY <1>1, <1>2, <1>3, <1>6, <3>1, SameAccount
  <2> QED BY <2>1, <2>2
<1>7. CASE x # p /\ x # q
  BY <1>1, <1>2, <1>3, <1>4, <1>7, SameAccount
<1> QED BY <1>5, <1>6, <1>7

\* No step creates or loses a permit.
LEMMA StepAccounting ==
  ASSUME StructInv, AdmissionAccounting, [Next]_vars
  PROVE  AdmissionAccounting'
<1> SUFFICES ASSUME NEW x \in Proc PROVE Account(x)' = Account(x)
  <2>1. \A x \in Proc : Account(x)' = LinkCapacity
    BY AccountingIsAccounts
  <2> QED BY <2>1 DEF AdmissionAccounting, Account, LinkedTo, TakenBy
<1>1. CASE UNCHANGED <<relations, taken, admission>>
  BY <1>1, SameAccount
<1>2. CASE UNCHANGED vars
  BY <1>1, <1>2 DEF vars
<1>3. ASSUME NEW p \in Proc, NEW q \in Proc, NEW mine \in ExitTag, NEW theirs \in ExitTag,
             LinkLock(p, q, mine, theirs)
      PROVE  Account(x)' = Account(x)
  BY <1>1, <1>3 DEF LinkLock
<1>4. ASSUME NEW p \in Proc, NEW q \in Proc, UnlinkRead(p, q) PROVE Account(x)' = Account(x)
  BY <1>1, <1>4 DEF UnlinkRead
<1>5. ASSUME NEW p \in Proc, UnlinkLock(p) \/ Publish(p) PROVE Account(x)' = Account(x)
  BY <1>1, <1>5 DEF UnlinkLock, Publish
<1>6. ASSUME NEW p \in Proc, NEW n \in pending[p], Deliver(p, n) PROVE Account(x)' = Account(x)
  BY <1>1, <1>6 DEF Deliver
<1> QED BY <1>2, <1>3, <1>4, <1>5, <1>6, InstallAccount, UnlinkAccount, TakeAccount,
           PeerAccount DEF Next

\* The tag of a relation, and of a notice, is the one the last link of the pair
\* agreed on.  It cannot change any more once the process has terminated, and
\* only a terminated process has notices.
TagInv ==
  /\ \A p, q \in Proc :
       /\ Linked(p, q) => relations[p][q].tag = agreed[p][q]
       /\ taken[p][q].token # 0 => taken[p][q].tag = agreed[p][q]
  /\ \A n \in Notice : Sent(n) => terminal[n.from] /\ n.tag = agreed[n.from][n.to]

\* terminate visits each peer once, so a dying process owes nobody two notices.
OwedOnce ==
  \A p \in Proc :
    /\ \A n \in pending[p] : terminal[p] /\ taken[p][n.to].token = 0
    /\ \A m, n \in pending[p] : m.to = n.to => m = n

ExactInv == HistInv /\ AdmissionAccounting /\ TagInv /\ OwedOnce

\* What a link does to the tags: it sets both sides, between two processes that
\* have not terminated, to what it agreed on, or leaves everything alone.
LEMMA InstallTags ==
  ASSUME StructInv, NEW p \in Proc, NEW q \in Proc, q = op[p].peer, LinkInstall(p)
  PROVE  \/ UNCHANGED <<relations, agreed>>
         \/ /\ ~terminal[p] /\ ~terminal[q] /\ p # q
            /\ relations'[p][q].tag = agreed'[p][q] /\ relations'[q][p].tag = agreed'[q][p]
            /\ \A x, y \in Proc : ~(x = p /\ y = q) /\ ~(x = q /\ y = p) =>
                 relations'[x][y] = relations[x][y] /\ agreed'[x][y] = agreed[x][y]
<1> USE DEF StructInv
<1>1. q # p
  BY DEF LinkInstall, OpOK
<1>2. relations \in [Proc -> [Proc -> Relation]] /\ agreed \in [Proc -> [Proc -> ExitTag]]
  BY DEF TypeOK
<1>3. CASE LinkRefused(p, q)
  BY <1>3 DEF LinkRefused
<1>4. ASSUME ~Refuses(p), ~Refuses(q), NEW rp, NEW rq, rp.tag = op[p].tag, rq.tag = op[p].peerTag,
             relations' = [relations EXCEPT ![p][q] = rp, ![q][p] = rq],
             agreed' = [agreed EXCEPT ![p][q] = op[p].tag, ![q][p] = op[p].peerTag]
      PROVE  /\ ~terminal[p] /\ ~terminal[q] /\ p # q
             /\ relations'[p][q].tag = agreed'[p][q] /\ relations'[q][p].tag = agreed'[q][p]
             /\ \A x, y \in Proc : ~(x = p /\ y = q) /\ ~(x = q /\ y = p) =>
                  relations'[x][y] = relations[x][y] /\ agreed'[x][y] = agreed[x][y]
  <2>1. ~terminal[p] /\ ~terminal[q]
    BY <1>4 DEF Refuses
  <2>2. /\ relations'[p][q] = rp /\ relations'[q][p] = rq
        /\ \A x, y \in Proc : ~(x = p /\ y = q) /\ ~(x = q /\ y = p) =>
             relations'[x][y] = relations[x][y]
    BY <1>1, <1>2, <1>4
  <2>3. /\ agreed'[p][q] = op[p].tag /\ agreed'[q][p] = op[p].peerTag
        /\ \A x, y \in Proc : ~(x = p /\ y = q) /\ ~(x = q /\ y = p) => agreed'[x][y] = agreed[x][y]
    BY <1>1, <1>2, <1>4
  <2> QED BY <1>1, <1>4, <2>1, <2>2, <2>3
<1>5. CASE ~Refuses(p) /\ ~Refuses(q) /\ Retag(p, q)
  <2> DEFINE rp == [token |-> relations[p][q].token, tag |-> op[p].tag]
             rq == [token |-> relations[q][p].token, tag |-> op[p].peerTag]
  <2>1. relations' = [relations EXCEPT ![p][q] = rp, ![q][p] = rq]
    BY <1>5 DEF Retag, SetTags
  <2>2. agreed' = [agreed EXCEPT ![p][q] = op[p].tag, ![q][p] = op[p].peerTag]
    BY <1>5 DEF Retag
  <2>3. rp.tag = op[p].tag /\ rq.tag = op[p].peerTag
    OBVIOUS
  <2> HIDE DEF rp, rq
  <2> QED BY <1>4, <1>5, <2>1, <2>2, <2>3
<1>6. CASE ~Refuses(p) /\ ~Refuses(q) /\ InstallPair(p, q)
  <2> DEFINE rp == [token |-> lastToken', tag |-> op[p].tag]
             rq == [token |-> lastToken', tag |-> op[p].peerTag]
  <2>1. relations' = [relations EXCEPT ![p][q] = rp, ![q][p] = rq]
    BY <1>6 DEF InstallPair
  <2>2. agreed' = [agreed EXCEPT ![p][q] = op[p].tag, ![q][p] = op[p].peerTag]
    BY <1>6 DEF InstallPair
  <2>3. rp.tag = op[p].tag /\ rq.tag = op[p].peerTag
    OBVIOUS
  <2> HIDE DEF rp, rq
  <2> QED BY <1>4, <1>6, <2>1, <2>2, <2>3
<1> QED BY <1>3, <1>5, <1>6 DEF LinkInstall

LEMMA InstallKeepsTags ==
  ASSUME StructInv, TagInv, NEW p \in Proc, LinkInstall(p)
  PROVE  TagInv'
<1> DEFINE q == op[p].peer
<1>1. q \in Proc /\ UNCHANGED <<terminal, taken, pending, notices>>
  BY DEF LinkInstall, OpOK, StructInv
<1>2. CASE UNCHANGED <<relations, agreed>>
  BY <1>1, <1>2 DEF TagInv, Linked, Sent
<1>3. CASE ~UNCHANGED <<relations, agreed>>
  <2>1. /\ ~terminal[p] /\ ~terminal[q] /\ p # q
        /\ relations'[p][q].tag = agreed'[p][q] /\ relations'[q][p].tag = agreed'[q][p]
        /\ \A x, y \in Proc : ~(x = p /\ y = q) /\ ~(x = q /\ y = p) =>
             relations'[x][y] = relations[x][y] /\ agreed'[x][y] = agreed[x][y]
    BY <1>1, <1>3, InstallTags
  <2> HIDE DEF q
  <2>2. ASSUME NEW x \in Proc, NEW y \in Proc
        PROVE  /\ Linked(x, y)' => relations'[x][y].tag = agreed'[x][y]
               /\ taken'[x][y].token # 0 => taken'[x][y].tag = agreed'[x][y]
    <3>1. CASE (x = p /\ y = q) \/ (x = q /\ y = p)
      <4>1. taken'[x][y].token = 0
        BY <1>1, <2>1, <3>1 DEF StructInv, OnlyTerminalTakes
      <4> QED BY <2>1, <3>1, <4>1
    <3>2. CASE ~(x = p /\ y = q) /\ ~(x = q /\ y = p)
      BY <1>1, <2>1, <3>2 DEF TagInv, Linked
    <3> QED BY <3>1, <3>2
  <2>3. ASSUME NEW n \in Notice, Sent(n)' PROVE terminal'[n.from] /\ n.tag = agreed'[n.from][n.to]
    <3>1. Sent(n)
      BY <1>1, <2>3 DEF Sent
    <3>2. terminal[n.from] /\ n.tag = agreed[n.from][n.to] /\ n.from \in Proc /\ n.to \in Proc
      BY <3>1 DEF TagInv, Notice
    <3>3. agreed'[n.from][n.to] = agreed[n.from][n.to]
      BY <2>1, <3>2
    <3> QED BY <1>1, <3>2, <3>3
  <2> QED BY <2>2, <2>3 DEF TagInv
<1> QED BY <1>2, <1>3

LEMMA UnlinkKeepsTags ==
  ASSUME StructInv, TagInv, NEW p \in Proc, UnlinkRemove(p)
  PROVE  TagInv'
<1>1. UNCHANGED <<terminal, taken, pending, notices, agreed>> /\ NoRelation.token = 0
  BY DEF UnlinkRemove, NoRelation
<1>2. \A x, y \in Proc : relations'[x][y] = NoRelation \/ relations'[x][y] = relations[x][y]
  BY UnlinkRelations
<1> QED BY <1>1, <1>2 DEF TagInv, Linked, Sent

LEMMA TakeKeepsTags ==
  ASSUME StructInv, TagInv, NEW p \in Proc, TerminateTake(p)
  PROVE  TagInv'
<1>1. /\ taken'[p] = relations[p]
      /\ \A y \in Proc : relations'[p][y] = NoRelation
      /\ \A x \in Proc : x # p => relations'[x] = relations[x] /\ taken'[x] = taken[x]
      /\ \A x \in Proc : terminal[x] => terminal'[x]
      /\ NoRelation.token = 0 /\ UNCHANGED <<agreed, pending, notices>>
  BY DEF TerminateTake, StructInv, TypeOK, NoRelation
<1>2. ASSUME NEW x \in Proc, NEW y \in Proc
      PROVE  /\ Linked(x, y)' => relations'[x][y].tag = agreed'[x][y]
             /\ taken'[x][y].token # 0 => taken'[x][y].tag = agreed'[x][y]
  <2>1. CASE x = p
    BY <1>1, <2>1 DEF TagInv, Linked
  <2>2. CASE x # p
    BY <1>1, <2>2 DEF TagInv, Linked
  <2> QED BY <2>1, <2>2
<1>3. ASSUME NEW n \in Notice, Sent(n)' PROVE terminal'[n.from] /\ n.tag = agreed'[n.from][n.to]
  <2>1. Sent(n) /\ n.from \in Proc
    BY <1>1, <1>3 DEF Sent, Notice
  <2> QED BY <1>1, <2>1 DEF TagInv
<1> QED BY <1>2, <1>3 DEF TagInv

\* The notice p owes q when it visits it.
Note(p, q) == [to |-> q, from |-> p, token |-> taken[p][q].token, tag |-> taken[p][q].tag]

\* What visiting a peer adds to the notices.
LEMMA PeerPending ==
  ASSUME StructInv, NEW p \in Proc, NEW q \in Proc, TerminatePeer(p, q)
  PROVE  /\ \A x \in Proc : x # p => pending'[x] = pending[x]
         /\ relations[q][p].token = taken[p][q].token => pending'[p] = pending[p] \cup {Note(p, q)}
         /\ relations[q][p].token # taken[p][q].token => pending'[p] = pending[p]
<1>1. pending \in [Proc -> SUBSET Notice]
  BY DEF StructInv, TypeOK
<1>2. pending' = [pending EXCEPT ![p] = pending[p] \cup {n \in {Note(p, q)} : Owed(p, q)}]
  BY DEF TerminatePeer, Note
<1>3. Owed(p, q) <=> relations[q][p].token = taken[p][q].token
  BY DEF Owed, Matches
<1> QED BY <1>1, <1>2, <1>3

LEMMA PeerKeepsTags ==
  ASSUME StructInv, TagInv, NEW p \in Proc, NEW q \in Proc, TerminatePeer(p, q)
  PROVE  TagInv'
<1> DEFINE note == Note(p, q)
<1>1. UNCHANGED <<terminal, notices, agreed>> /\ NoRelation.token = 0
  BY DEF TerminatePeer, NoRelation
<1>2. \A x, y \in Proc : relations'[x][y] = relations[x][y] \/ relations'[x][y] = NoRelation
  BY PeerRelations
<1>3. \A x, y \in Proc : taken'[x][y] = taken[x][y] \/ taken'[x][y] = NoRelation
  BY DEF TerminatePeer, StructInv, TypeOK
<1>4. \A x \in Proc : \A n \in pending'[x] : n \in pending[x] \/ n = note
  BY PeerPending
<1>5. note.from = p /\ note.to = q /\ note.tag = agreed[p][q] /\ terminal[p]
  <2>1. terminal[p] /\ taken[p][q].token # 0
    BY PeerEffect DEF TerminatePeer
  <2>2. note.from = p /\ note.to = q /\ note.tag = taken[p][q].tag
    BY DEF Note
  <2> QED BY <2>1, <2>2 DEF TagInv
<1> HIDE DEF note
<1>6. ASSUME NEW n \in Notice, Sent(n)' PROVE terminal'[n.from] /\ n.tag = agreed'[n.from][n.to]
  <2>1. Sent(n) \/ n = note
    BY <1>1, <1>4, <1>6 DEF Sent
  <2> QED BY <1>1, <1>5, <2>1 DEF TagInv
<1>7. ASSUME NEW x \in Proc, NEW y \in Proc
      PROVE  /\ Linked(x, y)' => relations'[x][y].tag = agreed'[x][y]
             /\ taken'[x][y].token # 0 => taken'[x][y].tag = agreed'[x][y]
  BY <1>1, <1>2, <1>3 DEF TagInv, Linked
<1> QED BY <1>6, <1>7 DEF TagInv

\* Every step keeps the tags.
LEMMA StepTags ==
  ASSUME StructInv, TagInv, [Next]_vars
  PROVE  TagInv'
<1>1. CASE UNCHANGED <<relations, taken, agreed, terminal, pending, notices>>
  BY <1>1 DEF TagInv, Linked, Sent
<1>2. CASE UNCHANGED vars
  BY <1>1, <1>2 DEF vars
<1>3. ASSUME NEW p \in Proc, NEW q \in Proc, NEW mine \in ExitTag, NEW theirs \in ExitTag,
             LinkLock(p, q, mine, theirs)
      PROVE  TagInv'
  BY <1>1, <1>3 DEF LinkLock
<1>4. ASSUME NEW p \in Proc, NEW q \in Proc, UnlinkRead(p, q) PROVE TagInv'
  BY <1>1, <1>4 DEF UnlinkRead
<1>5. ASSUME NEW p \in Proc, UnlinkLock(p) \/ Publish(p) PROVE TagInv'
  BY <1>1, <1>5 DEF UnlinkLock, Publish
<1>6. ASSUME NEW p \in Proc, NEW n \in pending[p], Deliver(p, n) PROVE TagInv'
  <2>1. UNCHANGED <<relations, taken, agreed, terminal>>
    BY <1>6 DEF Deliver
  <2>2. notices' = notices \cup {n} /\ \A x \in Proc : pending'[x] \subseteq pending[x]
    BY <1>6 DEF Deliver, StructInv, TypeOK
  <2>3. \A m \in Notice : Sent(m)' => Sent(m)
    BY <1>6, <2>2 DEF Sent
  <2> QED BY <2>1, <2>3 DEF TagInv, Linked
<1> QED BY <1>2, <1>3, <1>4, <1>5, <1>6, InstallKeepsTags, UnlinkKeepsTags, TakeKeepsTags,
           PeerKeepsTags DEF Next

\* Nobody is owed two notices of one death.
LEMMA StepOwed ==
  ASSUME StructInv, NoticeOK, OwedOnce, [Next]_vars
  PROVE  OwedOnce'
<1>1. CASE UNCHANGED <<taken, terminal, pending>>
  BY <1>1 DEF OwedOnce
<1>2. CASE UNCHANGED vars
  BY <1>1, <1>2 DEF vars
<1>3. ASSUME NEW p \in Proc, NEW q \in Proc, NEW mine \in ExitTag, NEW theirs \in ExitTag,
             LinkLock(p, q, mine, theirs)
      PROVE  OwedOnce'
  BY <1>1, <1>3 DEF LinkLock
<1>4. ASSUME NEW p \in Proc, NEW q \in Proc, UnlinkRead(p, q) PROVE OwedOnce'
  BY <1>1, <1>4 DEF UnlinkRead
<1>5. ASSUME NEW p \in Proc, LinkInstall(p) \/ UnlinkLock(p) \/ UnlinkRemove(p) \/ Publish(p)
      PROVE  OwedOnce'
  BY <1>1, <1>5 DEF LinkInstall, UnlinkLock, UnlinkRemove, Publish
<1>6. ASSUME NEW p \in Proc, NEW n \in pending[p], Deliver(p, n) PROVE OwedOnce'
  <2>1. UNCHANGED <<taken, terminal>> /\ \A x \in Proc : pending'[x] \subseteq pending[x]
    BY <1>6 DEF Deliver, StructInv, TypeOK
  <2> QED BY <2>1 DEF OwedOnce
<1>7. ASSUME NEW p \in Proc, TerminateTake(p) PROVE OwedOnce'
  <2>1. /\ ~terminal[p] /\ pending' = pending
        /\ \A x \in Proc : x # p => terminal'[x] = terminal[x] /\ taken'[x] = taken[x]
    BY <1>7 DEF TerminateTake, StructInv, TypeOK
  <2>2. pending[p] = {}
    BY <2>1 DEF OwedOnce
  <2> QED BY <2>1, <2>2 DEF OwedOnce
<1>8. ASSUME NEW p \in Proc, NEW q \in Proc, TerminatePeer(p, q) PROVE OwedOnce'
  <2> DEFINE note == Note(p, q)
  <2>1. /\ \A x \in Proc : x # p => pending'[x] = pending[x]
        /\ pending'[p] \subseteq pending[p] \cup {note}
    BY <1>8, PeerPending
  <2>5. note.to = q
    BY DEF Note
  <2>2. /\ terminal' = terminal /\ terminal[p] /\ taken[p][q].token # 0 /\ taken'[p][q].token = 0
        /\ \A x, y \in Proc : ~(x = p /\ y = q) => taken'[x][y] = taken[x][y]
    <3>1. terminal[p] /\ terminal' = terminal /\ taken[p][q].token # 0
      BY <1>8, PeerEffect DEF TerminatePeer
    <3>2. taken' = [taken EXCEPT ![p][q] = NoRelation] /\ taken \in [Proc -> [Proc -> Relation]]
      BY <1>8 DEF TerminatePeer, StructInv, TypeOK
    <3>3. NoRelation.token = 0
      BY DEF NoRelation
    <3> QED BY <3>1, <3>2, <3>3
  <2> HIDE DEF note
  <2>3. ASSUME NEW x \in Proc, NEW n \in pending'[x]
        PROVE  terminal'[x] /\ taken'[x][n.to].token = 0
    <3>1. CASE n = note /\ x = p
      BY <2>2, <2>5, <3>1
    <3>2. CASE n \in pending[x]
      <4>1. n.to \in Proc /\ terminal[x] /\ taken[x][n.to].token = 0
        BY <3>2 DEF OwedOnce, StructInv, TypeOK, Notice
      <4> QED BY <2>2, <4>1
    <3> QED BY <2>1, <2>3, <3>1, <3>2
  <2>4. ASSUME NEW x \in Proc, NEW m \in pending'[x], NEW n \in pending'[x], m.to = n.to
        PROVE  m = n
    <3>1. CASE x # p
      BY <2>1, <2>4, <3>1 DEF OwedOnce
    <3>2. CASE x = p
      <4>1. \A k \in pending[p] : k.to # q
        BY <2>2 DEF OwedOnce
      <4> QED BY <2>1, <2>4, <2>5, <3>2, <4>1 DEF OwedOnce
    <3> QED BY <3>1, <3>2
  <2> QED BY <2>3, <2>4 DEF OwedOnce
<1> QED BY <1>2, <1>3, <1>4, <1>5, <1>6, <1>7, <1>8 DEF Next

LEMMA InitExact == Init => ExactInv
<1> SUFFICES ASSUME Init PROVE ExactInv
  OBVIOUS
<1>1. HistInv
  BY InitHist
<1>2. TagInv /\ OwedOnce
  BY DEF Init, TagInv, OwedOnce, Linked, Sent, NoRelation
<1>3. AdmissionAccounting
  <2> SUFFICES ASSUME NEW p \in Proc PROVE Account(p) = LinkCapacity
    BY AccountingIsAccounts
  <2>1. LinkedTo(p) = {} /\ TakenBy(p) = {} /\ admission[p] = LinkCapacity
    BY DEF Init, LinkedTo, TakenBy, Linked, NoRelation
  <2> QED BY <2>1, FS_EmptySet, CapacityAssumption DEF Account
<1> QED BY <1>1, <1>2, <1>3 DEF ExactInv

LEMMA StepExact == ExactInv /\ [Next]_vars => ExactInv'
BY StepHist, StepAccounting, StepTags, StepOwed DEF ExactInv, HistInv

\* What belongs to a relation stays with it while link, unlink and terminate
\* move it between maps: its permit is free or held by exactly one relation,
\* and its death is reported with the tag of the last link of the pair.
THEOREM RelationsAreExact == Spec => []RelationsExact
<1>1. ExactInv => RelationsExact
  <2> SUFFICES ASSUME ExactInv, NEW n \in notices PROVE n.tag = agreed[n.from][n.to]
    BY DEF ExactInv, RelationsExact, NoticeCarriesLastTag
  <2>1. n \in Notice /\ Sent(n)
    BY DEF ExactInv, HistInv, StructInv, TypeOK, Sent
  <2> QED BY <2>1 DEF ExactInv, TagInv
<1> QED BY <1>1, InitExact, StepExact, PTL DEF Spec

-----------------------------------------------------------------------------
(* What a step may never do. *)

LEMMA StepCuts ==
  ASSUME StructInv, [Next]_vars
  PROVE  [CutsWereAsked]_vars
<1> SUFFICES ASSUME NEW x \in Proc, NEW y \in Proc, Linked(x, y),
                    relations'[x][y].token # relations[x][y].token,
                    ~terminal'[x], ~terminal[y]
             PROVE  \E u \in {x, y} : op[u].kind = "unlink" /\ op[u].token = relations[x][y].token
  BY DEF CutsWereAsked
<1>1. CASE UNCHANGED relations
  BY <1>1
<1>2. CASE UNCHANGED vars
  BY <1>1, <1>2 DEF vars
<1>3. ASSUME NEW p \in Proc, NEW q \in Proc, NEW mine \in ExitTag, NEW theirs \in ExitTag,
             LinkLock(p, q, mine, theirs)
      PROVE  FALSE
  BY <1>3 DEF LinkLock
<1>4. ASSUME NEW p \in Proc, NEW q \in Proc, UnlinkRead(p, q) PROVE FALSE
  BY <1>4 DEF UnlinkRead
<1>5. ASSUME NEW p \in Proc, UnlinkLock(p) \/ Publish(p) PROVE FALSE
  BY <1>5 DEF UnlinkLock, Publish
<1>6. ASSUME NEW p \in Proc, NEW n \in pending[p], Deliver(p, n) PROVE FALSE
  BY <1>6 DEF Deliver
<1>7. ASSUME NEW p \in Proc, LinkInstall(p) PROVE FALSE
  <2> DEFINE q == op[p].peer
  <2>1. q \in Proc /\ q # p /\ op[p].tag \in ExitTag /\ op[p].peerTag \in ExitTag
    BY <1>7 DEF LinkInstall, OpOK, StructInv, TypeOK, Op
  <2>2. CASE LinkRefused(p, q)
    BY <2>2 DEF LinkRefused
  <2>3. CASE Retag(p, q)
    BY <2>1, <2>3, RetagEffect
  <2>4. CASE ~Refuses(p) /\ ~Refuses(q) /\ InstallPair(p, q)
    <3>1. /\ relations[p][q].token = 0 /\ relations[q][p].token = 0
          /\ \A z, w \in Proc : ~(z = p /\ w = q) /\ ~(z = q /\ w = p) =>
               relations'[z][w] = relations[z][w]
      BY <2>1, <2>4, InstallEffect
    <3> QED BY <3>1 DEF Linked
  <2> QED BY <1>7, <2>2, <2>3, <2>4 DEF LinkInstall
<1>8. ASSUME NEW p \in Proc, UnlinkRemove(p)
      PROVE  \E u \in {x, y} : op[u].kind = "unlink" /\ op[u].token = relations[x][y].token
  <2>1. Hit(p, x, y)
    BY <1>8, UnlinkRelations
  <2> QED BY <1>8, <2>1 DEF Hit, UnlinkRemove
<1>9. ASSUME NEW p \in Proc, TerminateTake(p) PROVE FALSE
  <2>1. terminal'[p] /\ \A z \in Proc : z # p => relations'[z] = relations[z]
    BY <1>9 DEF TerminateTake, StructInv, TypeOK
  <2> QED BY <2>1
<1>10. ASSUME NEW p \in Proc, NEW q \in Proc, TerminatePeer(p, q) PROVE FALSE
  <2>1. terminal[p] /\ \A z, w \in Proc : ~(z = q /\ w = p) => relations'[z][w] = relations[z][w]
    BY <1>10, PeerEffect, PeerRelations
  <2> QED BY <2>1
<1> QED BY <1>2, <1>3, <1>4, <1>5, <1>6, <1>7, <1>8, <1>9, <1>10 DEF Next

\* A relation of a live process disappears only with its peer, or by an unlink
\* that had read this very link: the token protects a link made in between.
THEOREM OnlyUnlinkCuts == Spec => OnlyUnlinkCutsLiveLinks
<1>1. HistInv /\ [Next]_vars => [CutsWereAsked]_vars
  BY StepCuts DEF HistInv
<1> QED BY <1>1, InitHist, StepHist, PTL DEF Spec, OnlyUnlinkCutsLiveLinks

-----------------------------------------------------------------------------
(* The contract of links. *)

\* The link of p and q exists: both sides are there and carry one token.
Live(p, q) == Side(p, q) # 0 /\ Side(p, q) = Side(q, p)

LinksArePairs ==
  /\ \A p, q \in Proc : {p, q} \in Links <=> Live(p, q)
  /\ \A l \in Links : \E p, q \in Proc : l = {p, q} /\ Live(p, q)

\* Links are the pairs whose link exists, before and after a step.
LEMMA LinksByPair == LinksArePairs
<1>1. ASSUME NEW l \in Links PROVE \E p, q \in Proc : l = {p, q} /\ Live(p, q)
  <2>1. PICK e \in Proc \X Proc : /\ l = {e[1], e[2]} /\ Side(e[1], e[2]) # 0
                                  /\ Side(e[1], e[2]) = Side(e[2], e[1])
    BY DEF Links
  <2>2. e[1] \in Proc /\ e[2] \in Proc
    OBVIOUS
  <2> QED BY <2>1, <2>2 DEF Live
<1>2. ASSUME NEW p \in Proc, NEW q \in Proc, Live(p, q) PROVE {p, q} \in Links
  <2>1. <<p, q>> \in Proc \X Proc /\ <<p, q>>[1] = p /\ <<p, q>>[2] = q
    OBVIOUS
  <2> QED BY <1>2, <2>1 DEF Live, Links
<1>3. ASSUME NEW p \in Proc, NEW q \in Proc, {p, q} \in Links PROVE Live(p, q)
  <2>1. PICK x, y \in Proc : {p, q} = {x, y} /\ Live(x, y)
    BY <1>1, <1>3
  <2>2. (p = x /\ q = y) \/ (p = y /\ q = x)
    BY <2>1
  <2> QED BY <2>1, <2>2 DEF Live
<1> QED BY <1>1, <1>2, <1>3 DEF LinksArePairs

LEMMA LinksByPairNext == LinksArePairs'
BY LinksByPair, PTL

LEMMA SameLinks ==
  ASSUME \A x, y \in Proc : Live(x, y)' <=> Live(x, y)
  PROVE  Links' = Links
<1>1. ASSUME NEW l \in Links' PROVE l \in Links
  <2>1. PICK x, y \in Proc : l = {x, y} /\ Live(x, y)'
    BY LinksByPairNext DEF LinksArePairs
  <2> QED BY <2>1, LinksByPair DEF LinksArePairs
<1>2. ASSUME NEW l \in Links PROVE l \in Links'
  <2>1. PICK x, y \in Proc : l = {x, y} /\ Live(x, y)
    BY LinksByPair DEF LinksArePairs
  <2> QED BY <2>1, LinksByPairNext DEF LinksArePairs
<1> QED BY <1>1, <1>2

LEMMA MoreLinks ==
  ASSUME NEW p \in Proc, NEW q \in Proc,
         \A x, y \in Proc : Live(x, y)' <=> (Live(x, y) \/ (x = p /\ y = q) \/ (x = q /\ y = p))
  PROVE  Links' = Links \cup {{p, q}}
<1>1. ASSUME NEW l \in Links' PROVE l \in Links \cup {{p, q}}
  <2>1. PICK x, y \in Proc : l = {x, y} /\ Live(x, y)'
    BY LinksByPairNext DEF LinksArePairs
  <2>2. Live(x, y) \/ {x, y} = {p, q}
    BY <2>1
  <2> QED BY <2>1, <2>2, LinksByPair DEF LinksArePairs
<1>2. ASSUME NEW l \in Links PROVE l \in Links'
  <2>1. PICK x, y \in Proc : l = {x, y} /\ Live(x, y)
    BY LinksByPair DEF LinksArePairs
  <2> QED BY <2>1, LinksByPairNext DEF LinksArePairs
<1>3. {p, q} \in Links'
  BY LinksByPairNext DEF LinksArePairs
<1> QED BY <1>1, <1>2, <1>3

LEMMA FewerLinks ==
  ASSUME NEW p \in Proc, NEW q \in Proc,
         \A x, y \in Proc : Live(x, y)' <=> (Live(x, y) /\ ~(x = p /\ y = q) /\ ~(x = q /\ y = p))
  PROVE  Links' = Links \ {{p, q}}
<1>1. ASSUME NEW l \in Links' PROVE l \in Links /\ l # {p, q}
  <2>1. PICK x, y \in Proc : l = {x, y} /\ Live(x, y)'
    BY LinksByPairNext DEF LinksArePairs
  <2>2. Live(x, y) /\ {x, y} # {p, q}
    BY <2>1
  <2> QED BY <2>1, <2>2, LinksByPair DEF LinksArePairs
<1>2. ASSUME NEW l \in Links, l # {p, q} PROVE l \in Links'
  <2>1. PICK x, y \in Proc : l = {x, y} /\ Live(x, y)
    BY LinksByPair DEF LinksArePairs
  <2>2. ~(x = p /\ y = q) /\ ~(x = q /\ y = p)
    BY <1>2, <2>1
  <2> QED BY <2>1, <2>2, LinksByPairNext DEF LinksArePairs
<1> QED BY <1>1, <1>2

\* A relation in a map is one side of a link that exists.
LEMMA LinkedIsLive ==
  ASSUME StructInv, NEW x \in Proc, NEW y \in Proc, Linked(x, y)
  PROVE  Live(x, y) /\ taken[x][y].token = 0 /\ ~terminal[x] /\ x # y
<1> USE DEF StructInv
<1>1. ~terminal[x] /\ x # y
  BY DEF TerminatedStaysUnlinked, NoSelfLink, Linked
<1>2. taken[x][y].token = 0
  BY <1>1 DEF OnlyTerminalTakes
<1>3. Side(x, y) = relations[x][y].token /\ relations[x][y].token # 0
  BY DEF Side, Linked
<1>4. Side(y, x) = relations[x][y].token
  <2>1. CASE relations[y][x].token = relations[x][y].token
    BY <1>3, <2>1 DEF Side, Linked
  <2>2. CASE taken[y][x].token = relations[x][y].token
    <3>1. terminal[y]
      BY <1>3, <2>2 DEF OnlyTerminalTakes
    <3>2. ~Linked(y, x)
      BY <3>1 DEF TerminatedStaysUnlinked
    <3> QED BY <2>2, <3>2 DEF Side
  <2> QED BY <2>1, <2>2 DEF NoDanglingLink
<1> QED BY <1>1, <1>2, <1>3, <1>4 DEF Live

\* What a step that removes one side of a link, or both, does to the links.
LEMMA CutRemovesLink ==
  ASSUME NEW p \in Proc, NEW q \in Proc, Side(p, q)' = 0,
         \A x, y \in Proc : ~(x = p /\ y = q) /\ ~(x = q /\ y = p) => Side(x, y)' = Side(x, y)
  PROVE  Links' = Links \ {{p, q}}
<1>1. ASSUME NEW x \in Proc, NEW y \in Proc
      PROVE  Live(x, y)' <=> (Live(x, y) /\ ~(x = p /\ y = q) /\ ~(x = q /\ y = p))
  <2>1. CASE (x = p /\ y = q) \/ (x = q /\ y = p)
    <3>1. ~Live(x, y)'
      BY <2>1 DEF Live
    <3> QED BY <2>1, <3>1
  <2>2. CASE ~(x = p /\ y = q) /\ ~(x = q /\ y = p)
    <3>1. Side(x, y)' = Side(x, y) /\ Side(y, x)' = Side(y, x)
      BY <2>2
    <3> QED BY <2>2, <3>1 DEF Live
  <2> QED BY <2>1, <2>2
<1> QED BY <1>1, FewerLinks

LEMMA SameSides ==
  ASSUME \A x, y \in Proc : Side(x, y)' = Side(x, y)
  PROVE  Links' = Links
<1>1. \A x, y \in Proc : Live(x, y)' <=> Live(x, y)
  BY DEF Live
<1> QED BY <1>1, SameLinks

\* A step that changes none of the four is a stutter of the contract.
LEMMA ContractStutters ==
  ASSUME Links' = Links, UNCHANGED <<terminal, pending, notices>>
  PROVE  [Contract!CNext]_(Contract!cvars)
<1>1. Dead' = Dead /\ OwedPairs' = OwedPairs /\ NotifiedPairs' = NotifiedPairs
  BY DEF Dead, OwedPairs, NotifiedPairs
<1> QED BY <1>1 DEF Contract!cvars

LEMMA InstallContract ==
  ASSUME StructInv, NEW p \in Proc, LinkInstall(p)
  PROVE  [Contract!CNext]_(Contract!cvars)
<1>0. PICK q \in Proc : q = op[p].peer
  BY DEF LinkInstall, OpOK, StructInv
<1>1. /\ q \in Proc /\ q # p /\ op[p].tag \in ExitTag /\ op[p].peerTag \in ExitTag
      /\ UNCHANGED <<terminal, taken, pending, notices>>
  BY <1>0 DEF LinkInstall, OpOK, StructInv, TypeOK, Op
<1>2. CASE LinkRefused(p, q)
  <2>1. Links' = Links
    BY <1>1, <1>2 DEF LinkRefused, Links, Side, Linked
  <2> QED BY <1>1, <2>1, ContractStutters
<1>3. CASE Retag(p, q)
  <2>1. \A x, y \in Proc : relations'[x][y].token = relations[x][y].token
    BY <1>1, <1>3, RetagEffect
  <2>2. \A x, y \in Proc : Side(x, y)' = Side(x, y)
    BY <1>1, <2>1 DEF Side, Linked
  <2> QED BY <1>1, <2>2, SameSides, ContractStutters
<1>4. CASE ~Refuses(p) /\ ~Refuses(q) /\ InstallPair(p, q)
  <2>1. /\ ~terminal[p] /\ ~terminal[q] /\ lastToken' # 0
        /\ relations[p][q].token = 0 /\ relations[q][p].token = 0
        /\ relations'[p][q].token = lastToken' /\ relations'[q][p].token = lastToken'
        /\ \A x, y \in Proc : ~(x = p /\ y = q) /\ ~(x = q /\ y = p) =>
             relations'[x][y] = relations[x][y]
    BY <1>1, <1>4, InstallEffect
  <2>2. taken[p][q].token = 0 /\ taken[q][p].token = 0
    BY <1>1, <2>1 DEF StructInv, OnlyTerminalTakes
  <2>3. Side(p, q) = 0 /\ Side(p, q)' = lastToken' /\ Side(q, p)' = lastToken'
    <3>1. Side(p, q) = 0
      BY <2>1, <2>2 DEF Side, Linked
    <3>2. Side(p, q)' = lastToken'
      BY <2>1 DEF Side, Linked
    <3>3. Side(q, p)' = lastToken'
      BY <2>1 DEF Side, Linked
    <3> QED BY <3>1, <3>2, <3>3
  <2>4. \A x, y \in Proc : ~(x = p /\ y = q) /\ ~(x = q /\ y = p) => Side(x, y)' = Side(x, y)
    BY <1>1, <2>1 DEF Side, Linked
  <2>5. ASSUME NEW x \in Proc, NEW y \in Proc
        PROVE  Live(x, y)' <=> (Live(x, y) \/ (x = p /\ y = q) \/ (x = q /\ y = p))
    <3>1. CASE (x = p /\ y = q) \/ (x = q /\ y = p)
      <4>1. Live(p, q)' /\ Live(q, p)'
        BY <2>1, <2>3 DEF Live
      <4> QED BY <3>1, <4>1
    <3>2. CASE ~(x = p /\ y = q) /\ ~(x = q /\ y = p)
      <4>1. Side(x, y)' = Side(x, y) /\ Side(y, x)' = Side(y, x)
        BY <2>4, <3>2
      <4> QED BY <3>2, <4>1 DEF Live
    <3> QED BY <3>1, <3>2
  <2>6. Links' = Links \cup {{p, q}}
    BY <1>1, <2>5, MoreLinks
  <2>7. {p, q} \notin Links
    BY <1>1, <2>3, LinksByPair DEF LinksArePairs, Live
  <2>8. {p, q} \cap Dead = {} /\ Dead' = Dead /\ OwedPairs' = OwedPairs /\ NotifiedPairs' = NotifiedPairs
    BY <1>1, <2>1 DEF Dead, OwedPairs, NotifiedPairs
  <2>9. Contract!CLink(p, q)
    BY <1>1, <2>6, <2>7, <2>8 DEF Contract!CLink
  <2> QED BY <1>1, <2>9 DEF Contract!CNext
<1> QED BY <1>0, <1>2, <1>3, <1>4 DEF LinkInstall

LEMMA UnlinkContract ==
  ASSUME StructInv, NEW p \in Proc, UnlinkRemove(p)
  PROVE  [Contract!CNext]_(Contract!cvars)
<1>1. /\ UNCHANGED <<terminal, taken, pending, notices>> /\ op[p].token # 0
      /\ NoRelation.token = 0
  BY DEF UnlinkRemove, OpOK, StructInv, NoRelation
<1>2. \A x, y \in Proc : /\ Hit(p, x, y) => relations'[x][y] = NoRelation
                         /\ ~Hit(p, x, y) => relations'[x][y] = relations[x][y]
  BY UnlinkRelations
<1>3. CASE \A x, y \in Proc : ~Hit(p, x, y)
  <2>1. \A x, y \in Proc : Side(x, y)' = Side(x, y)
    BY <1>1, <1>2, <1>3 DEF Side, Linked
  <2> QED BY <1>1, <2>1, SameSides, ContractStutters
<1>4. CASE \E x, y \in Proc : Hit(p, x, y)
  <2>1. PICK x, y \in Proc : Hit(p, x, y)
    BY <1>4
  <2>2. Linked(x, y)
    BY <1>1, <2>1 DEF Hit, Linked
  <2>3. Live(x, y) /\ taken[x][y].token = 0
    BY <2>2, LinkedIsLive
  <2>4. Side(x, y)' = 0
    BY <1>1, <1>2, <2>1, <2>3 DEF Side, Linked
  <2>5. ASSUME NEW v \in Proc, NEW w \in Proc, ~(v = x /\ w = y) /\ ~(v = y /\ w = x)
        PROVE  Side(v, w)' = Side(v, w)
    <3>1. ~Hit(p, v, w)
      BY <2>1, <2>5 DEF Hit
    <3> QED BY <1>1, <1>2, <3>1 DEF Side, Linked
  <2>6. Links' = Links \ {{x, y}}
    BY <2>4, <2>5, CutRemovesLink
  <2>7. {x, y} \in Links
    BY <2>3, LinksByPair DEF LinksArePairs
  <2>8. Dead' = Dead /\ OwedPairs' = OwedPairs /\ NotifiedPairs' = NotifiedPairs
    BY <1>1 DEF Dead, OwedPairs, NotifiedPairs
  <2>9. Contract!CUnlink(x, y)
    BY <2>6, <2>7, <2>8 DEF Contract!CUnlink
  <2> QED BY <2>9 DEF Contract!CNext
<1> QED BY <1>3, <1>4

LEMMA TakeContract ==
  ASSUME StructInv, NEW p \in Proc, TerminateTake(p)
  PROVE  [Contract!CNext]_(Contract!cvars)
<1>1. /\ taken'[p] = relations[p] /\ NoRelation.token = 0
      /\ \A y \in Proc : relations'[p][y] = NoRelation
      /\ \A x \in Proc : x # p => relations'[x] = relations[x] /\ taken'[x] = taken[x]
      /\ ~terminal[p] /\ UNCHANGED <<pending, notices>>
  BY DEF TerminateTake, StructInv, TypeOK, NoRelation
<1>2. \A y \in Proc : taken[p][y].token = 0
  BY <1>1 DEF StructInv, OnlyTerminalTakes
<1>3. ASSUME NEW x \in Proc, NEW y \in Proc PROVE Side(x, y)' = Side(x, y)
  <2>1. CASE x = p
    BY <1>1, <1>2, <2>1 DEF Side, Linked
  <2>2. CASE x # p
    BY <1>1, <2>2 DEF Side, Linked
  <2> QED BY <2>1, <2>2
<1>4. Links' = Links
  BY <1>3, SameSides
<1>5. p \notin Dead /\ Dead' = Dead \cup {p}
  BY <1>1 DEF Dead, TerminateTake, StructInv, TypeOK
<1>6. OwedPairs' = OwedPairs /\ NotifiedPairs' = NotifiedPairs
  BY <1>1 DEF OwedPairs, NotifiedPairs
<1>7. Contract!CDie(p)
  BY <1>4, <1>5, <1>6 DEF Contract!CDie
<1> QED BY <1>7 DEF Contract!CNext

LEMMA PeerContract ==
  ASSUME StructInv, NEW p \in Proc, NEW q \in Proc, TerminatePeer(p, q)
  PROVE  [Contract!CNext]_(Contract!cvars)
<1> DEFINE t == taken[p][q].token
<1>1. /\ p # q /\ terminal[p] /\ relations[p][q].token = 0 /\ t # 0
      /\ relations[q][p].token # 0 => relations[q][p].token = t
      /\ relations'[q][p].token = 0 /\ UNCHANGED <<terminal, notices>>
  BY PeerEffect DEF TerminatePeer
<1>2. \A x, y \in Proc : ~(x = q /\ y = p) => relations'[x][y] = relations[x][y]
  BY PeerRelations
<1>3. /\ taken'[p][q].token = 0
      /\ \A x, y \in Proc : ~(x = p /\ y = q) => taken'[x][y] = taken[x][y]
  <2>1. taken' = [taken EXCEPT ![p][q] = NoRelation] /\ taken \in [Proc -> [Proc -> Relation]]
    BY DEF TerminatePeer, StructInv, TypeOK
  <2>2. NoRelation.token = 0
    BY DEF NoRelation
  <2> QED BY <2>1, <2>2
<1>4. Side(p, q) = t /\ Side(p, q)' = 0
  BY <1>1, <1>2, <1>3 DEF Side, Linked
<1> HIDE DEF t
<1>5. \A x, y \in Proc : ~(x = p /\ y = q) /\ ~(x = q /\ y = p) => Side(x, y)' = Side(x, y)
  BY <1>2, <1>3 DEF Side, Linked
<1>6. Links' = Links \ {{p, q}}
  BY <1>4, <1>5, CutRemovesLink
<1>7. Dead' = Dead /\ NotifiedPairs' = NotifiedPairs /\ p \in Dead /\ (q \in Dead <=> terminal[q])
  BY <1>1 DEF Dead, NotifiedPairs
<1>8. {p, q} \in Links <=> Side(q, p) = t
  BY <1>1, <1>4, LinksByPair DEF LinksArePairs, Live
<1>9. CASE relations[q][p].token = t
  <2>1. ~terminal[q] /\ Side(q, p) = t
    BY <1>1, <1>9 DEF StructInv, TerminatedStaysUnlinked, Side, Linked
  <2>2. OwedPairs' = OwedPairs \cup {<<q, p>>}
    <3>1. /\ \A x \in Proc : x # p => pending'[x] = pending[x]
          /\ pending'[p] = pending[p] \cup {Note(p, q)}
      BY <1>9, PeerPending DEF t
    <3>2. Note(p, q).to = q /\ Note(p, q).from = p
      BY DEF Note
    <3> DEFINE A == UNION {pending[x] : x \in Proc}
               B == UNION {pending'[x] : x \in Proc}
    <3>3. ASSUME NEW m \in A PROVE m \in B
      <4>1. PICK x \in Proc : m \in pending[x]
        OBVIOUS
      <4>2. m \in pending'[x]
        BY <3>1, <4>1
      <4> QED BY <4>2
    <3>4. Note(p, q) \in B
      BY <3>1
    <3>5. ASSUME NEW m \in B PROVE m \in A \/ m = Note(p, q)
      <4>1. PICK x \in Proc : m \in pending'[x]
        OBVIOUS
      <4>2. m \in pending[x] \/ m = Note(p, q)
        BY <3>1, <4>1
      <4> QED BY <4>1, <4>2
    <3>6. OwedPairs = {<<m.to, m.from>> : m \in A} /\ OwedPairs' = {<<m.to, m.from>> : m \in B}
      BY DEF OwedPairs
    <3> HIDE DEF A, B
    <3> QED BY <3>2, <3>3, <3>4, <3>5, <3>6
  <2>3. Contract!CBreak(p, q)
    BY <1>6, <1>7, <1>8, <2>1, <2>2 DEF Contract!CBreak
  <2> QED BY <2>3 DEF Contract!CNext
<1>10. CASE relations[q][p].token # t
  <2>1. OwedPairs' = OwedPairs
    <3>1. \A x \in Proc : pending'[x] = pending[x]
      BY <1>10, PeerPending DEF t
    <3>2. UNION {pending'[x] : x \in Proc} = UNION {pending[x] : x \in Proc}
      BY <3>1
    <3> QED BY <3>2 DEF OwedPairs
  <2>2. CASE {p, q} \in Links
    <3>1. taken[q][p].token # 0
      BY <1>1, <1>8, <1>10, <2>2 DEF Side, Linked
    <3>2. terminal[q]
      BY <3>1 DEF StructInv, OnlyTerminalTakes
    <3>3. Contract!CBreak(p, q)
      BY <1>6, <1>7, <2>1, <2>2, <3>2 DEF Contract!CBreak
    <3> QED BY <3>3 DEF Contract!CNext
  <2>3. CASE {p, q} \notin Links
    <3>1. Links' = Links
      BY <1>6, <2>3
    <3> QED BY <1>7, <2>1, <3>1 DEF Contract!cvars
  <2> QED BY <2>2, <2>3
<1> QED BY <1>9, <1>10

LEMMA DeliverContract ==
  ASSUME ExactInv, NEW p \in Proc, NEW n \in pending[p], Deliver(p, n)
  PROVE  [Contract!CNext]_(Contract!cvars)
<1>1. /\ UNCHANGED <<relations, taken, terminal>> /\ notices' = notices \cup {n}
      /\ pending'[p] = pending[p] \ {n} /\ \A x \in Proc : x # p => pending'[x] = pending[x]
  BY DEF Deliver, ExactInv, HistInv, StructInv, TypeOK
<1>2. ASSUME NEW x \in Proc, NEW m \in pending[x] PROVE m.from = x /\ m \in Notice
  <2>1. m \in Notice
    BY DEF ExactInv, HistInv, StructInv, TypeOK
  <2> QED BY <2>1 DEF ExactInv, HistInv, NoticeOK, Sent
<1>3. n.from = p /\ n.to \in Proc
  BY <1>2 DEF Notice
<1>4. Links' = Links /\ Dead' = Dead
  BY <1>1 DEF Links, Side, Linked, Dead
<1>5. NotifiedPairs' = NotifiedPairs \cup {<<n.to, n.from>>}
  BY <1>1 DEF NotifiedPairs
<1>6. <<n.to, n.from>> \in OwedPairs
  BY DEF OwedPairs
<1>7. OwedPairs' = OwedPairs \ {<<n.to, n.from>>}
  <2> DEFINE A == UNION {pending[x] : x \in Proc}
             B == UNION {pending'[x] : x \in Proc}
  <2>1. \A m \in B : m \in A
    BY <1>1
  <2>2. ASSUME NEW m \in B PROVE <<m.to, m.from>> # <<n.to, n.from>>
    <3>1. PICK x \in Proc : m \in pending'[x]
      OBVIOUS
    <3>2. m \in pending[x] /\ m.from = x
      BY <1>1, <1>2, <3>1
    <3>3. CASE x = p
      <4>1. m # n
        BY <1>1, <3>1, <3>3
      <4>2. m.to # n.to
        BY <3>2, <3>3, <4>1 DEF ExactInv, OwedOnce
      <4> QED BY <4>2
    <3>4. CASE x # p
      BY <1>3, <3>2, <3>4
    <3> QED BY <3>3, <3>4
  <2>3. ASSUME NEW m \in A, <<m.to, m.from>> # <<n.to, n.from>> PROVE m \in B
    <3>1. PICK x \in Proc : m \in pending[x]
      OBVIOUS
    <3>2. m \in pending'[x]
      BY <1>1, <2>3, <3>1
    <3> QED BY <3>1, <3>2
  <2>4. OwedPairs = {<<m.to, m.from>> : m \in A} /\ OwedPairs' = {<<m.to, m.from>> : m \in B}
    BY DEF OwedPairs
  <2> HIDE DEF A, B
  <2> QED BY <2>1, <2>2, <2>3, <2>4
<1>8. Contract!CNotify(n.to, n.from)
  BY <1>4, <1>5, <1>6, <1>7 DEF Contract!CNotify
<1> QED BY <1>3, <1>8 DEF Contract!CNext

\* Every step of the mutex-level links is one step of the contract, or none.
LEMMA StepContract ==
  ASSUME ExactInv, [Next]_vars
  PROVE  [Contract!CNext]_(Contract!cvars)
<1>0. StructInv
  BY DEF ExactInv, HistInv
<1>1. CASE UNCHANGED <<relations, taken, terminal, pending, notices>>
  <2>1. Links' = Links
    BY <1>1 DEF Links, Side, Linked
  <2> QED BY <1>1, <2>1, ContractStutters
<1>2. CASE UNCHANGED vars
  BY <1>1, <1>2 DEF vars
<1>3. ASSUME NEW p \in Proc, NEW q \in Proc, NEW mine \in ExitTag, NEW theirs \in ExitTag,
             LinkLock(p, q, mine, theirs)
      PROVE  [Contract!CNext]_(Contract!cvars)
  BY <1>1, <1>3 DEF LinkLock
<1>4. ASSUME NEW p \in Proc, NEW q \in Proc, UnlinkRead(p, q)
      PROVE  [Contract!CNext]_(Contract!cvars)
  BY <1>1, <1>4 DEF UnlinkRead
<1>5. ASSUME NEW p \in Proc, UnlinkLock(p) \/ Publish(p)
      PROVE  [Contract!CNext]_(Contract!cvars)
  BY <1>1, <1>5 DEF UnlinkLock, Publish
<1>6. ASSUME NEW p \in Proc, NEW n \in pending[p], Deliver(p, n)
      PROVE  [Contract!CNext]_(Contract!cvars)
  BY <1>6, DeliverContract
<1> QED BY <1>0, <1>2, <1>3, <1>4, <1>5, <1>6, InstallContract, UnlinkContract, TakeContract,
           PeerContract DEF Next

\* Whatever the interleaving of the mutex sections of link_pair, unlink_peer and
\* terminate, an observer sees each happen at one instant: the contract of
\* LinkContract.tla, in which a death owes each survivor one notice.
THEOREM LinksImplementContract == Spec => LinkContractKept
<1>1. Init => Contract!CInit
  <2> SUFFICES ASSUME Init PROVE Contract!CInit
    OBVIOUS
  <2>1. \A p, q \in Proc : Side(p, q) = 0
    BY DEF Init, Side, Linked, NoRelation
  <2>2. Links = {}
    BY <2>1, LinksByPair DEF LinksArePairs, Live
  <2>3. Dead = {} /\ OwedPairs = {} /\ NotifiedPairs = {}
    BY DEF Init, Dead, OwedPairs, NotifiedPairs
  <2> QED BY <2>2, <2>3 DEF Contract!CInit
<1>2. ExactInv /\ [Next]_vars => [Contract!CNext]_(Contract!cvars)
  BY StepContract
<1>3. Spec => ImplementsContract
  BY <1>1, <1>2, InitExact, StepExact, PTL DEF Spec, ImplementsContract, Contract!CSpec
<1> QED BY <1>3, OnlyUnlinkCuts, PTL DEF LinkContractKept
-----------------------------------------------------------------------------
(* The OTP processes: names and reserved replies. *)

LEMMA GenStarts == ASSUME GenInit PROVE GenInv
BY DEF GenInit, GenInv, LeaseOK, Ending, PendingInFlight, ReplyOK

\* What is left alone by a step that changes neither replies nor callers.
LEMMA CallersStay ==
  ASSUME GenInv, UNCHANGED <<awaiting, reply, asked, pc>>, LeaseOK'
  PROVE  GenInv'
BY DEF GenInv, PendingInFlight, ReplyOK

LEMMA GenSpawning ==
  ASSUME GenInv, Spawning PROVE GenInv'
<1>1. ASSUME Spawn PROVE GenInv'
  <2>1. LeaseOK'
    BY <1>1 DEF GenInv, LeaseOK, Ending, Spawn
  <2> QED  BY <2>1, <1>1, CallersStay DEF Spawn, mail, genCalls
<1>2. ASSUME RegisterName PROVE GenInv'
  <2>0. spawner = "spawned" /\ UNCHANGED <<task, exit>> /\ LeaseOK
    BY <1>2 DEF GenInv, RegisterName
  <2>1. CASE name' = TRUE /\ lease' = "spawner" /\ spawner' = "registered"
    <3>1. LeaseOK'
      BY <2>0, <2>1 DEF LeaseOK
    <3> QED  BY <3>1, <1>2, CallersStay DEF RegisterName, genCalls
  <2>2. CASE UNCHANGED <<name, lease>> /\ spawner' = "failed"
    <3>1. LeaseOK'
      BY <2>0, <2>2 DEF LeaseOK
    <3> QED  BY <3>1, <1>2, CallersStay DEF RegisterName, genCalls
  <2> QED  BY <2>1, <2>2, <1>2 DEF RegisterName
<1>3. ASSUME HandOver PROVE GenInv'
  <2>1. LeaseOK'
    BY <1>3 DEF GenInv, LeaseOK, Ending, HandOver
  <2> QED  BY <2>1, <1>3, CallersStay DEF HandOver, genCalls
<1> QED  BY <1>1, <1>2, <1>3 DEF Spawning

\* A reply, an error or nothing for a caller, and its reservation goes.
LEMMA Answered ==
  ASSUME GenInv, NEW c, NEW r \in {"reply", "error"}, Answer(c, r), UNCHANGED <<asked, pc>>, LeaseOK'
  PROVE  GenInv'
<1>1. /\ awaiting' = awaiting \ {c} /\ asked' = asked /\ pc' = pc
      /\ reply' = IF c \in awaiting THEN [reply EXCEPT ![c] = r] ELSE reply
  BY DEF Answer, Send
<1>2. reply' \in [Callers -> {"none", "reply", "error"}]
  BY <1>1 DEF GenInv
<1>3. \A d \in Callers : ReplyOK(d)'
  BY <1>1 DEF GenInv, ReplyOK, PendingInFlight
<1> QED  BY <1>1, <1>2, <1>3 DEF GenInv, PendingInFlight

LEMMA GenTake ==
  ASSUME GenInv, Take PROVE GenInv'
<1> DEFINE what == Head(mailbox)[1]
           c == Head(mailbox)[2]
<1>1. /\ task = "loop" /\ UNCHANGED <<spawner, name, lease, exit, asked, pc>>
      /\ ServerMessage(what, c) \/ EventMessage(what, c) \/ StatemMessage(what)
  BY DEF Take, genCalls
<1>2. LeaseOK'
  BY <1>1 DEF GenInv, LeaseOK, Ending, ServerMessage, EventMessage, StatemMessage, LeaveLoop
<1>3. CASE \E r \in {"reply", "error"} : Answer(c, r)
  BY <1>1, <1>2, <1>3, Answered
<1>4. CASE UNCHANGED <<awaiting, reply>>
  BY <1>1, <1>2, <1>4, CallersStay
<1> QED  BY <1>1, <1>3, <1>4 DEF ServerMessage, EventMessage, StatemMessage

LEMMA GenProcessStep ==
  ASSUME GenInv, Process \/ TakeKill PROVE GenInv'
<1>1. ASSUME ServerInit PROVE GenInv'
  <2>1. LeaseOK'
    BY <1>1 DEF GenInv, LeaseOK, Ending, ServerInit
  <2> QED  BY <2>1, <1>1, CallersStay DEF ServerInit, mail, genCalls
<1>2. ASSUME Report PROVE GenInv'
  <2>1. LeaseOK'
    BY <1>2 DEF GenInv, LeaseOK, Ending, Report
  <2> QED  BY <2>1, <1>2, Answered DEF Report, genCalls
<1>3. ASSUME DropLocals PROVE GenInv'
  <2>1. LeaseOK'
    BY <1>3 DEF GenInv, LeaseOK, Ending, DropLocals
  <2> QED  BY <2>1, <1>3, CallersStay DEF DropLocals, mail, genCalls
<1>4. ASSUME SetExit PROVE GenInv'
  <2>1. LeaseOK'
    BY <1>4 DEF GenInv, LeaseOK, Ending, SetExit
  <2> QED  BY <2>1, <1>4, CallersStay DEF SetExit, mail, genCalls
<1>5. ASSUME DrainPending PROVE GenInv'
  <2>1. LeaseOK'
    BY <1>5 DEF GenInv, LeaseOK, Ending, DrainPending
  <2>2. /\ awaiting' = {} /\ asked' = asked /\ pc' = pc
        /\ reply' = [c \in Callers |-> IF c \in awaiting THEN "error" ELSE reply[c]]
    BY <1>5 DEF DrainPending, genCalls
  <2>3. reply' \in [Callers -> {"none", "reply", "error"}]
    BY <2>2 DEF GenInv
  <2>4. \A c \in Callers : ReplyOK(c)'
    BY <2>2 DEF GenInv, ReplyOK, PendingInFlight
  <2> QED  BY <2>1, <2>2, <2>3, <2>4 DEF GenInv, PendingInFlight
<1>6. ASSUME Teardown PROVE GenInv'
  <2>1. LeaseOK'
    BY <1>6 DEF GenInv, LeaseOK, Ending, Teardown
  <2> QED  BY <2>1, <1>6, CallersStay DEF Teardown, genCalls
<1>7. ASSUME TakeKill PROVE GenInv'
  <2>1. LeaseOK'
    BY <1>7 DEF GenInv, LeaseOK, Ending, TakeKill, LeaveLoop
  <2> QED  BY <2>1, <1>7, CallersStay DEF TakeKill, mail, genCalls
<1> QED  BY <1>1, <1>2, <1>3, <1>4, <1>5, <1>6, <1>7, GenTake DEF Process

LEMMA GenUsers ==
  ASSUME GenInv, NEW h \in Handlers, AddHandler(h) \/ RemoveHandler(h) \/ RunHandler(h) PROVE GenInv'
<1>1. UNCHANGED <<spawner, name, lease, task, status, exit, awaiting, reply, asked, pc>>
  BY DEF AddHandler, RemoveHandler, RunHandler, proc, mail, genCalls
<1>2. LeaseOK'
  BY <1>1 DEF GenInv, LeaseOK
<1> QED  BY <1>1, <1>2, CallersStay

\* A caller moves on; what it must know depends on whether its reservation stays.
LEMMA Moved ==
  ASSUME GenInv, NEW c \in Callers, NEW from, NEW to \in {"reserve", "send", "wait", "done"}, Step(c, from, to),
         awaiting' \subseteq Callers, \A d \in Callers : d # c => (d \in awaiting' <=> d \in awaiting),
         UNCHANGED <<reply, asked, proc>>,
         c \in awaiting' => (to \in {"send", "wait"} /\ asked[c] = "call" /\ reply[c] = "none"),
         to = "reserve" => (asked[c] = "call" /\ reply[c] = "none")
  PROVE  GenInv'
<1>1. pc' = [pc EXCEPT ![c] = to] /\ reply' = reply /\ asked' = asked
  BY DEF Step
<1>2. pc' \in [Callers -> {"idle", "reserve", "send", "wait", "done"}] /\ pc'[c] = to /\ \A d \in Callers : d # c => pc'[d] = pc[d]
  BY <1>1 DEF GenInv
<1>3. \A d \in Callers : ReplyOK(d)'
  BY <1>1, <1>2 DEF GenInv, ReplyOK
<1>4. PendingInFlight'
  BY <1>1, <1>2 DEF GenInv, PendingInFlight
<1>5. LeaseOK'
  BY DEF GenInv, LeaseOK, proc
<1> QED  BY <1>1, <1>2, <1>3, <1>4, <1>5 DEF GenInv

LEMMA GenHandle ==
  ASSUME GenInv, NEW c \in Callers, Handle(c) PROVE GenInv'
<1>0. ReplyOK(c) /\ awaiting \subseteq Callers
  BY DEF GenInv
<1>1. ASSUME EnsureRunning(c) PROVE GenInv'
  <2>1. UNCHANGED <<reply, asked, proc, awaiting>> /\ pc[c] = "idle"
    BY <1>1 DEF EnsureRunning, mail, Step, ReturnFrom
  <2>2. c \notin awaiting /\ reply[c] = "none"
    BY <2>1, <1>0 DEF GenInv, PendingInFlight, ReplyOK
  <2>3. PICK to \in {"reserve", "send", "done"} : Step(c, "idle", to) /\ (to = "reserve" => asked[c] = "call")
    BY <1>1 DEF EnsureRunning, ReturnFrom
  <2> QED  BY <2>1, <2>2, <2>3, <1>0, Moved
<1>2. ASSUME ReserveReply(c) PROVE GenInv'
  <2>1. UNCHANGED <<reply, asked, proc>> /\ pc[c] = "reserve" /\ awaiting' = awaiting \cup {c} /\ Step(c, "reserve", "send")
    BY <1>2 DEF ReserveReply, Step
  <2>2. asked[c] = "call" /\ reply[c] = "none"
    BY <2>1, <1>0 DEF ReplyOK
  <2> QED  BY <2>1, <2>2, <1>0, Moved
<1>3. ASSUME SendMessage(c) PROVE GenInv'
  <2>1. UNCHANGED <<reply, asked, proc>> /\ awaiting' = (IF Open THEN awaiting ELSE awaiting \ {c})
    BY <1>3 DEF SendMessage
  <2>2. PICK to \in {"wait", "done"} : Step(c, "send", to) /\ (to = "done" => asked[c] = "cast" \/ ~Open)
    BY <1>3 DEF SendMessage, ReturnFrom
  <2>3. c \in awaiting => asked[c] = "call" /\ reply[c] = "none"
    BY <1>0 DEF ReplyOK
  <2> QED  BY <2>1, <2>2, <2>3, <1>0, Moved
<1>4. ASSUME RecvReply(c) \/ WaitForExit(c) PROVE GenInv'
  <2>1. UNCHANGED <<reply, asked, proc, awaiting>> /\ Step(c, "wait", "done")
    BY <1>4 DEF RecvReply, WaitForExit, mail, ReturnFrom
  <2>2. c \notin awaiting
    BY <1>4, <1>0 DEF RecvReply, WaitForExit, ReplyOK
  <2> QED  BY <2>1, <2>2, <1>0, Moved
<1>5. ASSUME Timeout(c) PROVE GenInv'
  <2>1. UNCHANGED <<reply, asked, proc>> /\ Step(c, "wait", "done") /\ awaiting' = awaiting \ {c}
    BY <1>5 DEF Timeout, ReturnFrom
  <2> QED  BY <2>1, <1>0, Moved
<1> QED  BY <1>1, <1>2, <1>3, <1>4, <1>5 DEF Handle

\* However spawning, callbacks, kills, deadlines and the end of the process interleave: whoever
\* sees that a named gen_server has ended finds its name free, and a reply is reserved only
\* for a call that is under way.
THEOREM NothingOutlivesAServer == GenSpec => []ServersSafe
<1>1. GenInit => GenInv
  BY GenStarts
<1>2. GenInv /\ [GenNext]_genVars => GenInv'
  <2> SUFFICES ASSUME GenInv, [GenNext]_genVars PROVE GenInv'
    OBVIOUS
  <2>1. CASE UNCHANGED genVars
    <3>1. UNCHANGED <<spawner, name, lease, task, exit, awaiting, reply, asked, pc>>
      BY <2>1 DEF genVars, proc, mail, genCalls
    <3>2. LeaseOK'
      BY <3>1 DEF GenInv, LeaseOK
    <3> QED  BY <3>1, <3>2, CallersStay
  <2> QED  BY <2>1, GenSpawning, GenProcessStep, GenUsers, GenHandle DEF GenNext
<1>3. GenInv => ServersSafe
  BY DEF GenInv, LeaseOK, ServersSafe, NameFreed, Ending
<1> QED  BY <1>1, <1>2, <1>3, PTL DEF GenSpec
-----------------------------------------------------------------------------
(* The supervisor *)

\* The process that is created next is one of the processes, is not registered yet and has
\* a higher number than the process of any child; once it is, the numbers are still those
\* from 1 to the number of processes created.
LEMMA NextProcess ==
  ASSUME ProcessesNumbered, Cardinality(Created) < MaxProcs, NEW s, s # "none",
         state' = [state EXCEPT ![Cardinality(Created) + 1] = s]
  PROVE  LET p == Cardinality(Created) + 1 IN
         /\ p \in Procs /\ state[p] = "none" /\ p # 0
         /\ \A c \in Children : child[c] < p /\ child[c] \in Nat
         /\ Created' = Created \cup {p} /\ Created' = 1..p
         /\ Cardinality(Created)' = p
<1> DEFINE k == Cardinality(Created)
<1> DEFINE p == k + 1
<1>1. IsFiniteSet(Procs) /\ Created \subseteq Procs
  BY FS_Interval, SupervisorAssumption DEF Procs, Created
<1>2. k \in Nat
  BY <1>1, FS_Subset, FS_CardinalityType
<1>3. Created = 1..k
  BY DEF ProcessesNumbered
<1>4. p \in Procs /\ p \notin Created
  BY <1>2, <1>3, SupervisorAssumption DEF Procs
<1>5. state[p] = "none"
  BY <1>4 DEF Created
<1>6. \A c \in Children : child[c] < p /\ child[c] \in Nat
  BY <1>2, <1>3 DEF ProcessesNumbered
<1>7. Created' = Created \cup {p}
  BY <1>4 DEF ProcessesNumbered, Created
<1>8. Created' = 1..p
  BY <1>2, <1>3, <1>7
<1>9. Cardinality(1..p) = p
  BY <1>2, FS_Interval
<1>10. Cardinality(Created)' = p
  BY <1>8, <1>9
<1>11. p # 0
  BY <1>2
<1> QED  BY <1>4, <1>5, <1>6, <1>7, <1>8, <1>10, <1>11

\* A step that creates no process and forgets none leaves the numbering alone.
LEMMA SameProcesses ==
  ASSUME ProcessesNumbered, \A p \in Procs : state'[p] = "none" <=> state[p] = "none"
  PROVE  Created' = Created /\ Cardinality(Created)' = Cardinality(Created)
BY DEF Created

\* The initial states satisfy the invariant.
LEMMA SupervisorStarts == SupervisorInit => SupervisorInv
<1> SUFFICES ASSUME SupervisorInit PROVE SupervisorInv
  OBVIOUS
<1>1. Created = {} /\ Cardinality({}) = 0 /\ 1..0 = {}
  BY FS_EmptySet DEF SupervisorInit, Created
<1>2. ProcessesNumbered
  BY <1>1 DEF SupervisorInit, ProcessesNumbered
<1>3. AliveIsTracked
  BY DEF SupervisorInit, AliveIsTracked, Children
<1>4. OrderKept
  BY DEF SupervisorInit, OrderKept, Children
<1>5. CausesCounted
  BY <1>1 DEF SupervisorInit, CausesCounted
<1> QED  BY <1>2, <1>3, <1>4, <1>5 DEF SupervisorInv

\* A step of the surroundings that leaves the children and the loop alone.
LEMMA QuietStepSafe ==
  ASSUME SupervisorInv, UNCHANGED <<strategy, kids, plan, record>>
  PROVE  SupervisorInv'
<1>1. Created' = Created /\ Ordered' = Ordered
  BY DEF Created, Ordered, kids
<1>2. ProcessesNumbered'
  BY <1>1 DEF SupervisorInv, ProcessesNumbered, kids, plan
<1>3. AliveIsTracked'
  BY DEF SupervisorInv, AliveIsTracked, kids, plan
<1>4. OrderKept'
  BY <1>1 DEF SupervisorInv, OrderKept, kids, plan
<1>5. CausesCounted'
  BY DEF SupervisorInv, CausesCounted, kids, plan, record
<1> QED  BY <1>2, <1>3, <1>4, <1>5 DEF SupervisorInv

\* A child that ends by itself is a crash, which no restart has answered yet.
LEMMA CrashSafe ==
  ASSUME SupervisorInv, NEW p \in Procs, Crash(p)
  PROVE  SupervisorInv'
<1> USE DEF SupervisorInv
<1>1. Created' = Created /\ Cardinality(Created)' = Cardinality(Created)
  BY SameProcesses DEF Crash, ProcessesNumbered
<1>2. state' = [state EXCEPT ![p] = "dead"] /\ state[p] = "alive" /\ p # 0
  BY DEF Crash, Procs
<1>3. ProcessesNumbered'
  BY <1>1, <1>2 DEF Crash, ProcessesNumbered, plan
<1>4. AliveIsTracked'
  BY <1>2 DEF Crash, ProcessesNumbered, AliveIsTracked, plan
<1>5. OrderKept'
  BY DEF Crash, OrderKept, Ordered, plan
<1>6. CausesCounted'
  <2>1. crashes' \subseteq {q \in Procs : state'[q] = "dead"} /\ p \notin causes
    BY <1>2 DEF Crash, ProcessesNumbered, CausesCounted
  <2> QED  BY <1>2, <2>1 DEF Crash, ProcessesNumbered, CausesCounted, plan
<1> QED  BY <1>3, <1>4, <1>5, <1>6

\* The end of a killed process is no crash, and its child was being stopped.
LEMMA DieSafe ==
  ASSUME SupervisorInv, NEW p \in Procs, Die(p)
  PROVE  SupervisorInv'
<1> USE DEF SupervisorInv
<1>1. Created' = Created /\ Cardinality(Created)' = Cardinality(Created)
  BY SameProcesses DEF Die, ProcessesNumbered
<1>2. state' = [state EXCEPT ![p] = "dead"] /\ state[p] = "killed" /\ p # 0
  BY DEF Die, Procs
<1>3. ProcessesNumbered'
  BY <1>1, <1>2 DEF Die, ProcessesNumbered, plan
<1>4. AliveIsTracked'
  BY <1>2 DEF Die, ProcessesNumbered, AliveIsTracked, plan
<1>5. OrderKept'
  BY DEF Die, OrderKept, Ordered, plan
<1>6. CausesCounted'
  <2>1. crashes' \subseteq {q \in Procs : state'[q] = "dead"} /\ p \notin crashes
    BY <1>2 DEF Die, ProcessesNumbered, CausesCounted, record
  <2> QED  BY <1>2, <2>1 DEF Die, ProcessesNumbered, CausesCounted, plan, record
<1> QED  BY <1>3, <1>4, <1>5, <1>6

\* Whatever is left when the process ends: the guard kills it, or nothing was.
LEMMA ExitSafe ==
  ASSUME SupervisorInv, NEW how, Exit(how), UNCHANGED <<strategy, child, deaths, record>>,
         how = "normal" => \A p \in Procs : state[p] # "alive"
  PROVE  SupervisorInv'
<1> USE DEF SupervisorInv
<1>1. /\ state' \in [Procs -> {"none", "alive", "killed", "dead"}]
      /\ \A p \in Procs : (state'[p] = "none" <=> state[p] = "none")
                          /\ (state[p] = "dead" => state'[p] = "dead") /\ state'[p] # "alive"
  BY DEF Exit, KillTracked, ProcessesNumbered, AliveIsTracked
<1>2. Created' = Created /\ Cardinality(Created)' = Cardinality(Created)
  BY <1>1, SameProcesses
<1>4. ProcessesNumbered'
  BY <1>1, <1>2 DEF Exit, ProcessesNumbered
<1>5. AliveIsTracked'
  BY <1>1 DEF Exit, AliveIsTracked
<1>6. OrderKept'
  BY DEF Exit, OrderKept, Ordered
<1>7. CausesCounted'
  BY <1>1 DEF Exit, CausesCounted, record
<1> QED  BY <1>4, <1>5, <1>6, <1>7

\* A child without a process is stopped.
LEMMA StopGoneSafe ==
  ASSUME SupervisorInv, StopGone
  PROVE  SupervisorInv'
<1> USE DEF SupervisorInv
<1>1. PICK c \in Turn : /\ ~Registered(child[c])
                        /\ child' = [child EXCEPT ![c] = 0] /\ remaining' = remaining \ {c}
  BY DEF StopGone
<1>2. c \in remaining /\ c \in Children
  BY DEF Turn, ProcessesNumbered
<1>3. /\ child' \in [Children -> Nat] /\ child'[c] = 0
      /\ \A d \in Children : child'[d] # 0 => d # c /\ child'[d] = child[d]
      /\ \A d \in Children : child[d] = 0 => child'[d] = 0
  BY <1>1, <1>2 DEF ProcessesNumbered
<1>4. \A p \in Procs : state[p] = "alive" => p # child[c]
  BY <1>1, SupervisorAssumption DEF Registered, Procs
<1>5. Created' = Created /\ Ordered' = Ordered
  BY DEF StopGone, Created, Ordered
<1>6. ProcessesNumbered'
  <2>1. \A d, e \in Children : d # e /\ child'[d] # 0 => child'[d] # child'[e]
    BY <1>3 DEF ProcessesNumbered
  <2>2. \A d \in Children : child'[d] # 0 => child'[d] \in Created'
    BY <1>3, <1>5 DEF ProcessesNumbered
  <2>3. Created' = 1..Cardinality(Created') /\ remaining' \subseteq Children
    BY <1>1, <1>5 DEF ProcessesNumbered
  <2> QED  BY <1>3, <2>1, <2>2, <2>3 DEF StopGone, ProcessesNumbered
<1>7. AliveIsTracked'
  <2>1. \A p \in Procs : state[p] = "alive" => loop # "gone" /\ \E d \in Children : child'[d] = p
    BY <1>1, <1>2, <1>4 DEF AliveIsTracked, ProcessesNumbered
  <2>2. loop = "stopping" \/ loop = "rollback" \/ loop = "escalating" \/ loop = "shutdown"
    BY DEF StopGone, Stopping
  <2> QED  BY <1>1, <1>3, <2>1, <2>2 DEF StopGone, AliveIsTracked, ProcessesNumbered
<1>8. OrderKept'
  <2>1. ~(loop \in {"starting", "restarting"})
    BY DEF StopGone, Stopping
  <2> QED  BY <1>3, <1>5, <2>1 DEF StopGone, OrderKept, ProcessesNumbered
<1>9. CausesCounted'
  BY <1>1, <1>3 DEF StopGone, Stopping, CausesCounted, record
<1> QED  BY <1>6, <1>7, <1>8, <1>9

\* Kill is sent to the process of the child whose turn it is, and of no other child.
LEMMA StopKillSafe ==
  ASSUME SupervisorInv, StopKill
  PROVE  SupervisorInv'
<1> USE DEF SupervisorInv
<1>1. PICK c \in Turn : /\ Registered(child[c]) /\ state[child[c]] = "alive"
                        /\ state' = [state EXCEPT ![child[c]] = "killed"]
  BY DEF StopKill
<1>2. c \in remaining /\ c \in Children /\ child[c] \in Procs
  BY <1>1 DEF Turn, ProcessesNumbered, Registered, Created
<1>3. Created' = Created /\ Cardinality(Created)' = Cardinality(Created)
  BY <1>1, <1>2, SameProcesses DEF ProcessesNumbered
<1>4. \A p \in Procs : /\ (state[p] = "dead" => state'[p] = "dead")
                       /\ (state'[p] = "alive" => state[p] = "alive")
                       /\ (p # child[c] => state'[p] = state[p])
  BY <1>1, <1>2 DEF ProcessesNumbered
<1>5. ProcessesNumbered'
  BY <1>1, <1>2, <1>3, <1>4 DEF StopKill, ProcessesNumbered, plan
<1>6. AliveIsTracked'
  BY <1>4 DEF StopKill, AliveIsTracked, plan
<1>7. OrderKept'
  BY DEF StopKill, OrderKept, Ordered, plan
<1>8. CausesCounted'
  <2>1. \A d \in Children : child[d] # 0 /\ d # c => child[d] \in Procs /\ child[d] # child[c]
    BY <1>2 DEF ProcessesNumbered, Created
  <2> QED  BY <1>2, <1>4, <2>1 DEF StopKill, Stopping, CausesCounted, plan, record
<1> QED  BY <1>5, <1>6, <1>7, <1>8

\* The loop turns to a phase whose children have no claims of the invariant on them.
LEMMA StepTo ==
  ASSUME SupervisorInv, UNCHANGED <<strategy, kids, record>>,
         loop' \in {"rollback", "escalating"}, loop # "gone",
         remaining' \subseteq Children, toStart' \subseteq Children, started' \subseteq Children
  PROVE  SupervisorInv'
<1> USE DEF SupervisorInv, kids
<1>1. Created' = Created
  BY DEF Created
<1>2. ProcessesNumbered'
  BY <1>1 DEF ProcessesNumbered
<1>3. AliveIsTracked'
  BY DEF AliveIsTracked
<1>4. OrderKept'
  BY DEF OrderKept, Ordered
<1>5. CausesCounted'
  BY DEF CausesCounted, record
<1> QED  BY <1>2, <1>3, <1>4, <1>5

\* A stop that takes too long.
LEMMA StopTimeoutSafe ==
  ASSUME SupervisorInv, StopTimeout
  PROVE  SupervisorInv'
<1>1. PICK c \in Turn \ Patient :
        \/ /\ loop = "rollback" /\ remaining' = remaining \ {c}
           /\ UNCHANGED <<state, loop, toStart, started, outcome>>
        \/ /\ loop = "stopping" /\ loop' = "escalating" /\ remaining' = Children
           /\ toStart' = {} /\ started' = {} /\ UNCHANGED <<state, outcome>>
        \/ loop \in {"shutdown", "escalating"} /\ Exit("failed")
  BY DEF StopTimeout
<1>2. CASE Exit("failed")
  BY <1>2, ExitSafe DEF StopTimeout, kids
<1>3. CASE ~Exit("failed")
  BY <1>1, <1>3, StepTo DEF StopTimeout, kids, SupervisorInv, ProcessesNumbered
<1> QED  BY <1>2, <1>3

\* The new process is younger than those of all children, and no child after its own has one.
LEMMA StartOkSafe ==
  ASSUME SupervisorInv, StartOk
  PROVE  SupervisorInv'
<1> USE DEF SupervisorInv
<1> DEFINE p == Cardinality(Created) + 1
<1>1. PICK c \in Turn : /\ child' = [child EXCEPT ![c] = p]
                        /\ state' = [state EXCEPT ![p] = "alive"]
                        /\ remaining' = remaining \ {c} /\ started' = started \cup {c}
  BY DEF StartOk
<1>2. /\ p \in Procs /\ state[p] = "none" /\ p # 0
      /\ \A d \in Children : child[d] < p /\ child[d] \in Nat
      /\ Created' = Created \cup {p} /\ Created' = 1..p
      /\ Cardinality(Created)' = p
  BY <1>1, NextProcess DEF StartOk
<1> HIDE DEF p
<1>3. c \in remaining /\ c \in Children /\ c \in Nat /\ child[c] = 0
  BY DEF StartOk, Starting, Turn, ProcessesNumbered, AliveIsTracked, Children
<1>4. p \in Nat
  BY <1>2 DEF Procs
<1>5. /\ child' \in [Children -> Nat] /\ child'[c] = p
      /\ \A d \in Children : d # c => child'[d] = child[d]
  BY <1>1, <1>3, <1>4 DEF ProcessesNumbered
<1>6. /\ state' \in [Procs -> {"none", "alive", "killed", "dead"}] /\ state'[p] = "alive"
      /\ \A q \in Procs : q # p => state'[q] = state[q]
  BY <1>1, <1>2 DEF ProcessesNumbered
<1>7. loop' = loop /\ loop \in {"starting", "restarting"} /\ UNCHANGED <<deaths, toStart, strategy, record>>
  BY DEF StartOk, Starting, record
<1>8. ProcessesNumbered'
  <2>1. child' \in [Children -> Nat] /\ state' \in [Procs -> {"none", "alive", "killed", "dead"}]
    BY <1>5, <1>6
  <2>2. (remaining \subseteq Children /\ toStart \subseteq Children /\ started \subseteq Children)'
    BY <1>1, <1>3, <1>7 DEF ProcessesNumbered
  <2>3. \A d \in Children : child'[d] # 0 => child'[d] \in Created'
    BY <1>2, <1>5 DEF ProcessesNumbered
  <2>4. \A d, e \in Children : d # e /\ child'[d] # 0 => child'[d] # child'[e]
    BY <1>2, <1>5 DEF ProcessesNumbered
  <2>5. \A notice \in deaths' : notice[1] \in Procs /\ state'[notice[1]] = "dead"
    BY <1>2, <1>6, <1>7 DEF ProcessesNumbered
  <2> QED  BY <1>2, <2>1, <2>2, <2>3, <2>4, <2>5 DEF ProcessesNumbered
<1>9. AliveIsTracked'
  <2>1. \A q \in Procs : state'[q] = "alive" => loop' # "gone" /\ \E d \in Children : child'[d] = q
    BY <1>3, <1>5, <1>6, <1>7 DEF AliveIsTracked, Procs
  <2>2. \A d \in remaining' : child'[d] = 0
    BY <1>1, <1>5, <1>7 DEF AliveIsTracked, ProcessesNumbered
  <2> QED  BY <1>7, <2>1, <2>2 DEF AliveIsTracked
<1>10. OrderKept'
  <2> SUFFICES ASSUME Ordered PROVE OrderKept'
    BY <1>7 DEF OrderKept, Ordered
  <2>1. \A d \in Children : c < d => child[d] = 0
    BY <1>3, <1>7 DEF OrderKept, AliveIsTracked
  <2>2. \A d, e \in Children : d < e /\ child'[d] # 0 /\ child'[e] # 0 => child'[d] < child'[e]
    BY <1>2, <1>3, <1>5, <2>1 DEF OrderKept, Children
  <2>3. ASSUME NEW d \in remaining', NEW e \in Children \ remaining', d < e PROVE child'[e] = 0
    <3>1. c <= d /\ d # c /\ d \in Nat /\ e \in Nat
      BY <1>1, <1>7, <2>3 DEF Turn, ProcessesNumbered, Children
    <3>2. e # c /\ e \notin remaining
      BY <1>1, <1>3, <2>3, <3>1
    <3> QED  BY <1>1, <1>5, <1>7, <2>3, <3>2 DEF OrderKept
  <2> QED  BY <1>7, <2>2, <2>3 DEF OrderKept
<1>11. CausesCounted'
  <2>1. p \notin crashes /\ p \notin causes
    BY <1>2 DEF CausesCounted
  <2>2. crashes \subseteq {q \in Procs : state'[q] = "dead"}
    BY <1>2, <1>6 DEF CausesCounted
  <2>3. \A d \in Children : child[d] # 0 => child[d] \in Procs /\ child[d] # p
    BY <1>2 DEF ProcessesNumbered, Created
  <2> QED  BY <1>5, <1>6, <1>7, <2>1, <2>2, <2>3 DEF CausesCounted, record
<1> QED  BY <1>8, <1>9, <1>10, <1>11

\* A start that fails leaves its child without a process, as it was.
LEMMA StartFailsSafe ==
  ASSUME SupervisorInv, StartFails
  PROVE  SupervisorInv'
<1> USE DEF SupervisorInv
<1>1. PICK c \in Turn : child' = [child EXCEPT ![c] = 0]
  BY DEF StartFails
<1>2. c \in Children /\ child[c] = 0
  BY DEF StartFails, Starting, Turn, ProcessesNumbered, AliveIsTracked
<1>3. child' = child
  BY <1>1, <1>2 DEF ProcessesNumbered
<1>4. CASE UNCHANGED state
  BY <1>3, <1>4, StepTo DEF StartFails, Starting, kids, ProcessesNumbered
<1>5. CASE /\ Cardinality(Created) < MaxProcs
           /\ state' = [state EXCEPT ![Cardinality(Created) + 1] = "killed"]
  <2> DEFINE p == Cardinality(Created) + 1
  <2>1. /\ p \in Procs /\ state[p] = "none" /\ p # 0
        /\ Created' = Created \cup {p} /\ Created' = 1..p
        /\ Cardinality(Created)' = p
    BY <1>5, NextProcess
  <2> HIDE DEF p
  <2>2. state' = [state EXCEPT ![p] = "killed"]
    BY <1>5 DEF p
  <2>3. /\ state' \in [Procs -> {"none", "alive", "killed", "dead"}] /\ state'[p] = "killed"
        /\ \A q \in Procs : q # p => state'[q] = state[q]
    BY <2>1, <2>2 DEF ProcessesNumbered
  <2>4. ProcessesNumbered'
    BY <1>3, <2>1, <2>3 DEF StartFails, ProcessesNumbered
  <2>5. AliveIsTracked'
    BY <1>3, <2>1, <2>3 DEF StartFails, Starting, AliveIsTracked
  <2>6. OrderKept'
    BY <1>3 DEF StartFails, OrderKept, Ordered
  <2>7. CausesCounted'
    BY <2>1, <2>3 DEF StartFails, CausesCounted, record
  <2> QED  BY <2>4, <2>5, <2>6, <2>7
<1> QED  BY <1>4, <1>5 DEF StartFails

\* After the stops of a restart nothing that is going to be started has a process; after those of
\* a shutdown no child has one.
LEMMA PhaseDoneSafe ==
  ASSUME SupervisorInv, PhaseDone
  PROVE  SupervisorInv'
<1> USE DEF SupervisorInv
<1>1. CASE loop \in {"starting", "restarting"} /\ loop' = "idle" /\ started' = {}
           /\ UNCHANGED <<state, remaining, toStart, outcome>>
  <2>1. Created' = Created
    BY <1>1 DEF Created
  <2>2. ProcessesNumbered'
    BY <1>1, <2>1 DEF PhaseDone, ProcessesNumbered
  <2>3. AliveIsTracked'
    BY <1>1 DEF PhaseDone, AliveIsTracked
  <2>4. OrderKept'
    BY <1>1 DEF PhaseDone, OrderKept, Ordered
  <2>5. CausesCounted'
    BY <1>1 DEF PhaseDone, CausesCounted, record
  <2> QED  BY <2>2, <2>3, <2>4, <2>5
<1>2. CASE loop = "stopping" /\ loop' = "restarting" /\ remaining' = toStart /\ toStart' = {}
           /\ UNCHANGED <<state, started, outcome>>
  <2>1. Created' = Created
    BY <1>2 DEF Created
  <2>2. ProcessesNumbered'
    BY <1>2, <2>1 DEF PhaseDone, ProcessesNumbered
  <2>3. AliveIsTracked'
    BY <1>2 DEF PhaseDone, AliveIsTracked
  <2>4. OrderKept'
    BY <1>2 DEF PhaseDone, OrderKept, Ordered
  <2>5. CausesCounted'
    BY <1>2 DEF PhaseDone, CausesCounted, record
  <2> QED  BY <2>2, <2>3, <2>4, <2>5
<1>3. CASE loop = "rollback" /\ loop' = "escalating" /\ remaining' = Children /\ toStart' = {}
           /\ UNCHANGED <<state, started, outcome>>
  BY <1>3, StepTo DEF PhaseDone, kids, ProcessesNumbered
<1>4. CASE Exit("failed")
  BY <1>4, ExitSafe DEF PhaseDone
<1>5. CASE loop = "shutdown" /\ Exit("normal")
  <2>1. \A c \in Children : child[c] = 0
    BY <1>5 DEF PhaseDone, AliveIsTracked
  <2>2. \A p \in Procs : state[p] # "alive"
    BY <2>1 DEF AliveIsTracked, Procs
  <2> QED  BY <1>5, <2>2, ExitSafe DEF PhaseDone
<1> QED  BY <1>1, <1>2, <1>3, <1>4, <1>5 DEF PhaseDone

\* The child of a death whose restart or stop begins, and the process that died: it crashed,
\* no restart has answered it, and no other child has it.
LEMMA DeathIsFresh ==
  ASSUME SupervisorInv, Waiting, NEW notice \in deaths, NEW c \in Owner(notice[1])
  PROVE  /\ c \in Children /\ child[c] = notice[1] /\ child[c] # 0
         /\ notice[1] \in crashes /\ notice[1] \notin causes
         /\ \A d \in Children : child[d] = notice[1] => d = c
<1> USE DEF SupervisorInv
<1>1. notice[1] \in Procs /\ notice[1] # 0 /\ state[notice[1]] = "dead"
  BY DEF ProcessesNumbered, Procs
<1>2. c \in Children /\ child[c] = notice[1]
  BY DEF Owner
<1>3. child[c] \notin causes /\ (state[child[c]] = "alive" \/ child[c] \in crashes)
  BY <1>1, <1>2 DEF CausesCounted, Waiting
<1>4. \A d \in Children : child[d] = notice[1] => d = c
  BY <1>1, <1>2 DEF ProcessesNumbered
<1> QED  BY <1>1, <1>2, <1>3, <1>4

\* What a strategy restarts: the failed child and, where the order matters, every child
\* after one of them that has a process.
LEMMA AffectedIs ==
  ASSUME NEW c \in Children
  PROVE  /\ Affected(c) \subseteq Children /\ c \in Affected(c)
         /\ Ordered => \A x \in Affected(c), d \in Children \ Affected(c) : x < d => child[d] = 0
<1>0. c \in Nat /\ c <= N /\ 1 <= c /\ N \in Nat
  BY SupervisorAssumption DEF Children
<1>1. CASE strategy = "OneForAll"
  BY <1>1 DEF Affected
<1>2. CASE strategy = "RestForOne"
  <2>1. Affected(c) = {x \in c..N : x = c \/ child[x] # 0}
    BY <1>2 DEF Affected
  <2> QED  BY <1>0, <2>1 DEF Children
<1>3. CASE strategy # "OneForAll" /\ strategy # "RestForOne"
  BY <1>3 DEF Affected, Ordered
<1> QED  BY <1>1, <1>2, <1>3

\* A restart or a stop begins with the children it has to stop.
LEMMA StoppingBegins ==
  ASSUME SupervisorInv, Waiting, NEW p \in Procs, NEW c \in Children, child[c] = p,
         \A d \in Children : child[d] = p => d = c,
         p \in crashes, p \notin causes,
         loop' = "stopping", c \in remaining', remaining' \subseteq Children,
         toStart' = {} \/ toStart' = remaining', toStart' \subseteq Children,
         Ordered => \A x \in toStart', d \in Children \ toStart' : x < d => child[d] = 0,
         deaths' \subseteq deaths, UNCHANGED <<strategy, child, state, started, crashes>>,
         \/ UNCHANGED <<restarts, causes>>
         \/ restarts' = restarts + 1 /\ causes' = causes \cup {p}
  PROVE  SupervisorInv'
<1> USE DEF SupervisorInv
<1>1. Created' = Created /\ Ordered' = Ordered
  BY DEF Created, Ordered
<1>2. ProcessesNumbered'
  BY <1>1 DEF ProcessesNumbered
<1>3. AliveIsTracked'
  BY DEF AliveIsTracked
<1>4. OrderKept'
  BY <1>1 DEF OrderKept
<1>5. restarts' = Cardinality(causes')
  <2>1. IsFiniteSet(causes)
    <3>1. IsFiniteSet(Procs) /\ causes \subseteq Procs
      BY FS_Interval, SupervisorAssumption DEF Procs, CausesCounted
    <3> QED  BY <3>1, FS_Subset
  <2>2. Cardinality(causes \cup {p}) = Cardinality(causes) + 1
    BY <2>1, FS_AddElement
  <2> QED  BY <2>2 DEF CausesCounted
<1>6. CausesCounted'
  <2>1. \A d \in Children : d \notin remaining' => child[d] # p
    OBVIOUS
  <2> QED  BY <1>5, <2>1 DEF CausesCounted, Waiting
<1> QED  BY <1>2, <1>3, <1>4, <1>6

\* A notice of a death is ignored, or a stop, a restart or an escalation begins.
LEMMA HandleDeathSafe ==
  ASSUME SupervisorInv, HandleDeath
  PROVE  SupervisorInv'
<1>1. PICK notice \in deaths :
        /\ deaths' = deaths \ {notice}
        /\ \/ Owner(notice[1]) = {} /\ UNCHANGED <<history, plan, restarts, causes>>
           \/ \E c \in Owner(notice[1]) :
                \/ /\ loop' = "stopping" /\ remaining' = {c} /\ toStart' = {}
                   /\ UNCHANGED <<history, started, restarts, causes>>
                \/ /\ loop' = "stopping" /\ remaining' = Affected(c) /\ toStart' = Affected(c)
                   /\ restarts' = restarts + 1 /\ causes' = causes \cup {notice[1]}
                   /\ UNCHANGED started
                \/ /\ loop' = "escalating" /\ remaining' = Children
                   /\ UNCHANGED <<toStart, started, restarts, causes>>
  BY DEF HandleDeath
<1>2. UNCHANGED <<strategy, child, state, crashes>> /\ Waiting
  BY DEF HandleDeath
<1>3. CASE UNCHANGED <<plan, restarts, causes>>
  <2> USE DEF SupervisorInv
  <2>1. Created' = Created /\ Ordered' = Ordered
    BY <1>2 DEF Created, Ordered
  <2>2. ProcessesNumbered'
    BY <1>1, <1>2, <1>3, <2>1 DEF ProcessesNumbered, plan
  <2>3. AliveIsTracked' /\ OrderKept'
    BY <1>2, <1>3, <2>1 DEF AliveIsTracked, OrderKept, plan
  <2>4. CausesCounted'
    BY <1>2, <1>3 DEF CausesCounted, plan
  <2> QED  BY <2>2, <2>3, <2>4
<1>4. ASSUME NEW c \in Owner(notice[1]),
             \/ /\ loop' = "stopping" /\ remaining' = {c} /\ toStart' = {}
                /\ UNCHANGED <<history, started, restarts, causes>>
             \/ /\ loop' = "stopping" /\ remaining' = Affected(c) /\ toStart' = Affected(c)
                /\ restarts' = restarts + 1 /\ causes' = causes \cup {notice[1]}
                /\ UNCHANGED started
      PROVE  SupervisorInv'
  <2>1. /\ c \in Children /\ child[c] = notice[1] /\ child[c] # 0
        /\ notice[1] \in crashes /\ notice[1] \notin causes
        /\ \A d \in Children : child[d] = notice[1] => d = c
    BY <1>2, DeathIsFresh
  <2>2. /\ Affected(c) \subseteq Children /\ c \in Affected(c)
        /\ Ordered => \A x \in Affected(c), d \in Children \ Affected(c) : x < d => child[d] = 0
    BY <2>1, AffectedIs
  <2>3. notice[1] \in Procs
    BY DEF SupervisorInv, ProcessesNumbered
  <2>4. /\ loop' = "stopping" /\ c \in remaining' /\ remaining' \subseteq Children
        /\ toStart' = {} \/ toStart' = remaining'
        /\ toStart' \subseteq Children
        /\ Ordered => \A x \in toStart', d \in Children \ toStart' : x < d => child[d] = 0
    BY <1>4, <2>1, <2>2
  <2>5. /\ deaths' \subseteq deaths
        /\ UNCHANGED <<strategy, child, state, started, crashes>>
        /\ \/ UNCHANGED <<restarts, causes>>
           \/ restarts' = restarts + 1 /\ causes' = causes \cup {notice[1]}
    BY <1>1, <1>2, <1>4
  <2> QED  BY <1>2, <2>1, <2>3, <2>4, <2>5, StoppingBegins
<1>5. CASE loop' = "escalating" /\ remaining' = Children /\ UNCHANGED <<toStart, started, restarts, causes>>
  <2> USE DEF SupervisorInv
  <2>1. Created' = Created
    BY <1>2 DEF Created
  <2>2. ProcessesNumbered'
    BY <1>1, <1>2, <1>5, <2>1 DEF ProcessesNumbered
  <2>3. AliveIsTracked' /\ OrderKept'
    BY <1>2, <1>5 DEF AliveIsTracked, OrderKept, Ordered, Waiting
  <2>4. CausesCounted'
    BY <1>2, <1>5 DEF CausesCounted
  <2> QED  BY <2>2, <2>3, <2>4
<1> QED  BY <1>1, <1>3, <1>4, <1>5

\* A shutdown begins with every child to be stopped.
LEMMA HandleShutdownSafe ==
  ASSUME SupervisorInv, HandleShutdown
  PROVE  SupervisorInv'
<1> USE DEF SupervisorInv
<1>1. Created' = Created
  BY DEF HandleShutdown, Created, kids
<1>2. ProcessesNumbered'
  BY <1>1 DEF HandleShutdown, ProcessesNumbered, kids
<1>3. AliveIsTracked'
  BY DEF HandleShutdown, Waiting, AliveIsTracked, kids
<1>4. OrderKept'
  BY DEF HandleShutdown, OrderKept, Ordered, kids
<1>5. CausesCounted'
  BY DEF HandleShutdown, CausesCounted, kids, record
<1> QED  BY <1>2, <1>3, <1>4, <1>5

\* Every step preserves the invariant.
LEMMA SupervisorStep == SupervisorInv /\ [SupervisorNext]_supervisorVars => SupervisorInv'
<1> SUFFICES ASSUME SupervisorInv, [SupervisorNext]_supervisorVars PROVE SupervisorInv'
  OBVIOUS
<1>1. CASE Supervise
  BY <1>1, StopGoneSafe, StopKillSafe, StopTimeoutSafe, StartOkSafe, StartFailsSafe,
     PhaseDoneSafe, HandleDeathSafe, HandleShutdownSafe DEF Supervise
<1>2. CASE SecondPasses \/ RequestShutdown
  BY <1>2, QuietStepSafe DEF SecondPasses, RequestShutdown
<1>3. CASE KillSupervisor
  BY <1>3, ExitSafe DEF KillSupervisor
<1>4. ASSUME NEW p \in Procs, Crash(p) \/ Die(p) PROVE SupervisorInv'
  BY <1>4, CrashSafe, DieSafe
<1>5. CASE UNCHANGED supervisorVars
  BY <1>5, QuietStepSafe DEF supervisorVars
<1> QED  BY <1>1, <1>2, <1>3, <1>4, <1>5 DEF SupervisorNext

\* The invariant gives the properties; a subset of the crashes has no more members than they.
LEMMA SupervisorInvIsSafe == SupervisorInv => RestartsSafe
<1> SUFFICES ASSUME SupervisorInv PROVE RestartsSafe
  OBVIOUS
<1> USE DEF SupervisorInv
<1>1. NoOrphan
  BY DEF AliveIsTracked, NoOrphan
<1>2. DependencyOrder
  BY DEF OrderKept, Ordered, DependencyOrder
<1>3. IsFiniteSet(crashes) /\ causes \subseteq crashes
  <2>1. IsFiniteSet(Procs) /\ crashes \subseteq Procs
    BY FS_Interval, SupervisorAssumption DEF Procs, CausesCounted
  <2> QED  BY <2>1, FS_Subset DEF CausesCounted
<1>4. Cardinality(causes) <= Cardinality(crashes)
  BY <1>3, FS_Subset
<1>5. RestartsHaveCause
  BY <1>4 DEF CausesCounted, RestartsHaveCause
<1> QED  BY <1>1, <1>2, <1>5 DEF RestartsSafe

\* However children crash, refuse to stop or fail to start, and in whatever order the notices of
\* their deaths arrive: a supervisor that ended left no child running, under an ordered strategy
\* no child runs on the process of a dead dependency, and every restart answers a crash of its own.
THEOREM SupervisionIsSafe == SupervisorSpec => []RestartsSafe
<1>1. SupervisorSpec => []SupervisorInv
  BY SupervisorStarts, SupervisorStep, PTL DEF SupervisorSpec
<1> QED  BY <1>1, SupervisorInvIsSafe, PTL
====
