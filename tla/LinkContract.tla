---------------------------- MODULE LinkContract ----------------------------
(***************************************************************************)
(* What links promise, with every operation atomic: the contract that      *)
(* link_processes and unlink_process document ("Atomically installs the    *)
(* reciprocal sides of one link", "Atomically removes ...") and that the   *)
(* mutex-level module ProcessLinks implements.                             *)
(*                                                                         *)
(* A link is an unordered pair.  Only live processes can be linked.  When  *)
(* an endpoint dies the link is broken exactly once, and the survivor, if  *)
(* there is one, is owed one LinkDied.  An unlink before that moment ends  *)
(* the link without any notice.                                            *)
(***************************************************************************)
EXTENDS Naturals

CONSTANT Proc

VARIABLES links,      \* the pairs {p, q} that are linked
          dead,       \* processes that have terminated
          owed,       \* <<q, p>>: q has still to be told that p died
          notified    \* <<q, p>>: q has been told

cvars == <<links, dead, owed, notified>>

CInit == links = {} /\ dead = {} /\ owed = {} /\ notified = {}

CLink(p, q) ==
  /\ p # q /\ {p, q} \cap dead = {} /\ {p, q} \notin links
  /\ links' = links \cup {{p, q}}
  /\ UNCHANGED <<dead, owed, notified>>

CUnlink(p, q) ==
  /\ {p, q} \in links
  /\ links' = links \ {{p, q}}
  /\ UNCHANGED <<dead, owed, notified>>

CDie(p) ==
  /\ p \notin dead
  /\ dead' = dead \cup {p}
  /\ UNCHANGED <<links, owed, notified>>

CBreak(p, q) ==
  /\ {p, q} \in links /\ p \in dead
  /\ links' = links \ {{p, q}}
  /\ owed' = IF q \in dead THEN owed ELSE owed \cup {<<q, p>>}
  /\ UNCHANGED <<dead, notified>>

CNotify(q, p) ==
  /\ <<q, p>> \in owed
  /\ owed' = owed \ {<<q, p>>}
  /\ notified' = notified \cup {<<q, p>>}
  /\ UNCHANGED <<links, dead>>

CNext == \E p, q \in Proc :
  CLink(p, q) \/ CUnlink(p, q) \/ CDie(p) \/ CBreak(p, q) \/ CNotify(q, p)

CSpec == CInit /\ [][CNext]_cvars
=============================================================================
