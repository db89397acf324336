------------------------------ MODULE MCLinks ------------------------------
(***************************************************************************)
(* Linked processes, the OTP processes with their callers, and the audit   *)
(* log that they all write, for TLC.  Three linked processes give every    *)
(* order of the addresses of a caller, its peer and a third that dies; one *)
(* permit each makes the admission fail; two tokens let a late unlink meet *)
(* the link after its own.  The parts share no state: a behaviour is one   *)
(* of one part.                                                            *)
(***************************************************************************)
EXTENDS ProcessLinks, AuditDispatcher, GenProcess

VARIABLE part     \* the part that runs

allVars == <<part, vars, genVars, auditVars>>

ThreeProcesses == 1..3
\* gen_server with a timeout; the others with and without.
MCKinds == {<<"server", TRUE>>, <<"event", FALSE>>, <<"event", TRUE>>, <<"statem", FALSE>>}

\* One part runs; the others stay as they start.
PartInit ==
    /\ part \in {"links", "servers", "audit"}
    /\ Init
    /\ GenInit
    /\ AuditInit
    /\ (part # "servers" => kind = "statem" /\ asked = [c \in Callers |-> "stop"])

PartNext ==
    /\ UNCHANGED part
    /\ \/ part = "links" /\ Next /\ UNCHANGED <<genVars, auditVars>>
       \/ part = "servers" /\ GenNext /\ UNCHANGED <<vars, auditVars>>
       \/ part = "audit" /\ AuditNext /\ UNCHANGED <<vars, genVars>>

\* The part that runs is as fair as its module says.
PartFairness ==
    /\ \A p \in Proc : SF_vars(part = "links" /\ TaskStep(p))
    /\ WF_genVars(part = "servers" /\ Spawning)
    /\ WF_genVars(part = "servers" /\ Process)
    /\ WF_genVars(part = "servers" /\ TakeKill)
    /\ \A h \in Handlers : WF_genVars(part = "servers" /\ RunHandler(h))
    /\ \A c \in Callers : WF_genVars(part = "servers" /\ Handle(c))
    /\ WF_auditVars(part = "audit" /\ Writer)
    /\ \A e \in Emitters : WF_auditVars(part = "audit" /\ Emit(e))
    /\ \A f \in Flushers : WF_auditVars(part = "audit" /\ FlushOn(f))

PartSpec == PartInit /\ [][PartNext]_allVars /\ PartFairness

\* Every operation on the handle of a gen_server (with a timeout), gen_event or gen_statem
\* returns, and every flush of the audit log returns.
OperationsReturn == EveryOperationReturns /\ FlushReturns
============================================================================
