----------------------------- MODULE GenProcess -----------------------------
(***************************************************************************)
(* The process-backed behaviours gen_server, gen_event and gen_statem:     *)
(* spawning with a name, the message loop, the handles that call, cast,    *)
(* stop and kill, and the way a process ends.                              *)
(*                                                                         *)
(* A handle's operation takes its locks one after the other: it looks      *)
(* whether the process runs, reserves its reply, sends, and waits.  The    *)
(* end of a process is as finely cut: its locals are dropped, its task     *)
(* unregisters, closes its mailbox and is joined.  User callbacks return.  *)
(***************************************************************************)
EXTENDS Naturals, FiniteSets, Sequences

CONSTANTS
    Callers,    \* one operation of a handle each
    Kinds,      \* <<behaviour, timed>> : which behaviour, and whether timeout_ms is set
    Handlers    \* handlers a gen_event manager may have

VARIABLES
    kind,       \* "server", "event" or "statem"
    timed,      \* timeout_ms is Some
    spawner,    \* spawn_in: "new", "spawned", "registered", "ok" or "failed"
    name,       \* the local registry holds the name for this process
    lease,      \* who owns the registration: "none", "spawner", "channel" or "process"
    task,       \* the process: "none", "init", "loop", "deliver", "drop", "exit", "drain",
                \* "unregister", "close", "join", "finish" or "over"
    status,     \* status the process ends with
    exit,       \* GenServerShared.exit, "none" before
    mailbox,    \* data messages: <<what, caller>>
    awaiting,   \* callers with a reserved reply
    reply,      \* what arrived for each caller: "none", "reply" or "error"
    killed,     \* Kill was sent
    handlers,   \* handlers of a gen_event manager
    current,    \* the caller whose notification runs
    todo,       \* handlers the current notification has still to run
    machine,    \* state of a gen_statem, and the state it last entered
    asked, pc,  \* operation of each caller and where it is
    answer      \* what it returned

proc == <<spawner, name, lease, task, status, exit>>
mail == <<mailbox, awaiting, reply, killed>>
user == <<current, handlers, todo, machine>>
genCalls == <<asked, pc, answer>>
genVars == <<kind, timed, proc, mail, user, genCalls>>
States == {"red", "green"}

GenInit ==
    /\ \E k \in Kinds : kind = k[1] /\ timed = k[2]
    /\ spawner = "new" /\ name = FALSE /\ lease = "none"
    /\ task = "none" /\ status = "none" /\ exit = "none"
    /\ mailbox = <<>> /\ awaiting = {} /\ killed = FALSE
    /\ reply = [c \in Callers |-> "none"]
    /\ current = (CHOOSE c \in Callers : TRUE) /\ handlers = {} /\ todo = {} /\ machine = [now |-> "red", entered |-> "red"]
    /\ asked \in [Callers -> {"stop", "kill"} \cup (IF kind = "statem" THEN {} ELSE {"call"})
                                           \cup (IF kind = "event" THEN {} ELSE {"cast"})]
    /\ pc = [c \in Callers |-> "idle"] /\ answer = [c \in Callers |-> "none"]

Open == task \notin {"none", "join", "finish", "over"}     \* the mailbox accepts signals
Alive == exit = "none" /\ task \notin {"none", "close", "join", "finish", "over"}

----------------------------------------------------------------------------
(* spawn                                                                   *)

AddHandler(h) ==
    /\ kind = "event" /\ spawner = "new" /\ handlers' = handlers \cup {h}
    /\ UNCHANGED <<kind, timed, proc, mail, current, todo, machine, genCalls>>
RemoveHandler(h) ==
    /\ kind = "event" /\ spawner = "new" /\ handlers' = handlers \ {h}
    /\ UNCHANGED <<kind, timed, proc, mail, current, todo, machine, genCalls>>

\* spawn_native; only a gen_server waits for its name before it runs.
Spawn ==
    /\ spawner = "new" /\ spawner' = IF kind = "server" THEN "spawned" ELSE "ok"
    /\ task' = IF kind = "server" THEN "init" ELSE "loop"
    /\ UNCHANGED <<kind, timed, name, lease, status, exit, mail, user, genCalls>>

\* register_local: the process must still be registered; the name may be taken.
RegisterName ==
    /\ spawner = "spawned"
    /\ \/ Alive /\ name' = TRUE /\ lease' = "spawner" /\ spawner' = "registered"
          /\ UNCHANGED killed
       \/ UNCHANGED <<name, lease>> /\ spawner' = "failed" /\ killed' = TRUE
    /\ UNCHANGED <<kind, timed, task, status, exit, mailbox, awaiting, reply, user, genCalls>>

\* start_sender.send: the process is gone, or it owns the lease once it has received it.
HandOver ==
    /\ spawner = "registered"
    /\ \/ task = "init" /\ lease' = "channel" /\ spawner' = "ok" /\ UNCHANGED <<name, killed>>
       \/ /\ task # "init" /\ lease' = "none" /\ name' = FALSE
          /\ spawner' = "failed" /\ killed' = TRUE
    /\ UNCHANGED <<kind, timed, task, status, exit, mailbox, awaiting, reply, user, genCalls>>

ServerInit ==
    /\ task = "init"
    /\ \/ lease = "channel" /\ lease' = "process" /\ task' = "loop" /\ UNCHANGED status
       \/ spawner = "failed" /\ task' = "drop" /\ status' = "failed" /\ UNCHANGED lease
    /\ UNCHANGED <<kind, timed, spawner, name, exit, mail, user, genCalls>>

----------------------------------------------------------------------------
(* The message loop                                                        *)

Send(c, r) == reply' = IF c \in awaiting THEN [reply EXCEPT ![c] = r] ELSE reply

\* GenServerShared::reply; a caller that gave up has no entry any more.
Answer(c, r) == Send(c, r) /\ awaiting' = awaiting \ {c}

\* apply_transition: the exit and enter callbacks run when the state changes.
ApplyTransition(s) ==
    machine' = [now |-> s, entered |-> IF s # machine.now THEN s ELSE machine.entered]

LeaveLoop(how) == task' = "drop" /\ status' = how

\* A message of a gen_server: a call is answered, a cast may fail, a callback that panics
\* takes the process with it and Stop ends it.
ServerMessage(what, c) ==
    /\ kind = "server" /\ UNCHANGED <<current, todo, machine>>
    /\ \/ what = "call" /\ (\E r \in {"reply", "error"} : Answer(c, r)) /\ UNCHANGED <<task, status>>
       \/ what = "cast" /\ UNCHANGED <<task, status, awaiting, reply>>
       \/ LeaveLoop(IF what = "stop" THEN "normal" ELSE "failed") /\ UNCHANGED <<awaiting, reply>>

\* A message of a gen_event: the delivery to a snapshot of the handlers starts; a handler
\* that panics harms no one else.
EventMessage(what, c) ==
    /\ kind = "event" /\ UNCHANGED <<awaiting, reply, machine>>
    /\ \/ /\ what = "call" /\ task' = "deliver" /\ current' = c /\ todo' = handlers
          /\ UNCHANGED status
       \/ what = "stop" /\ LeaveLoop("normal") /\ UNCHANGED <<current, todo>>

\* A message of a gen_statem: an event, a timeout or Stop.
StatemMessage(what) ==
    /\ kind = "statem" /\ UNCHANGED <<awaiting, reply, current, todo>>
    /\ \/ what = "cast" /\ (\E s \in States : ApplyTransition(s)) /\ UNCHANGED <<task, status>>
       \/ LeaveLoop(IF what = "stop" THEN "normal" ELSE "failed") /\ UNCHANGED machine

\* One message is taken from the mailbox.
Take ==
    /\ task = "loop" /\ mailbox # <<>> /\ mailbox' = Tail(mailbox)
    /\ LET what == Head(mailbox)[1]  c == Head(mailbox)[2] IN
       ServerMessage(what, c) \/ EventMessage(what, c) \/ StatemMessage(what)
    /\ UNCHANGED <<kind, timed, spawner, name, lease, exit, killed, handlers, genCalls>>

\* gen_event: a handler of the snapshot ends, whatever its outcome; the report goes out
\* when all have.
RunHandler(h) ==
    /\ h \in todo /\ todo' = todo \ {h}
    /\ UNCHANGED <<kind, timed, proc, mail, current, handlers, machine, genCalls>>
Report ==
    /\ task = "deliver" /\ todo = {} /\ task' = "loop" /\ Answer(current, "reply")
    /\ UNCHANGED <<kind, timed, spawner, name, lease, status, exit, mailbox, killed, user, genCalls>>

\* Kill: the future is dropped where it awaits.
TakeKill ==
    /\ killed /\ task \in {"init", "loop", "deliver"} /\ LeaveLoop("failed")
    /\ UNCHANGED <<kind, timed, spawner, name, lease, exit, mail, user, genCalls>>

----------------------------------------------------------------------------
(* The end of the process                                                  *)

\* Mutant of DropLocals: the exit guard is dropped before the lease.
DropGuardFirst ==
    /\ task = "drop"
    /\ task' = IF kind = "server" THEN "exit" ELSE "unregister"
    /\ UNCHANGED <<kind, timed, spawner, name, lease, status, exit, mail, user, genCalls>>

\* Locals are dropped in reverse order: the lease of the name, then the exit guard.
DropLocals ==
    /\ task = "drop"
    /\ name' = (name /\ lease = "spawner") /\ lease' = IF lease = "spawner" THEN lease ELSE "none"
    /\ task' = IF kind = "server" THEN "exit" ELSE "unregister"
    /\ UNCHANGED <<kind, timed, spawner, status, exit, mail, user, genCalls>>

\* finish, first by the exit guard of a gen_server and then, for all, by the joining task:
\* the status is set once, and only who sets it drains the pending replies.
SetExit ==
    /\ \/ task = "exit" /\ task' = "drain" /\ exit' = status
       \/ task = "finish" /\ exit = "none" /\ task' = "drain" /\ exit' = status
       \/ task = "finish" /\ exit # "none" /\ task' = "over" /\ UNCHANGED exit
    /\ UNCHANGED <<kind, timed, spawner, name, lease, status, mail, user, genCalls>>

\* Mutant of DrainPending: nobody is told.
DrainNothing ==
    /\ task = "drain"
    /\ task' = IF kind = "server" THEN "unregister" ELSE "over"
    /\ UNCHANGED <<kind, timed, spawner, name, lease, status, exit, mail, user, genCalls>>

DrainPending ==
    /\ task = "drain"
    /\ reply' = [c \in Callers |-> IF c \in awaiting THEN "error" ELSE reply[c]]
    /\ awaiting' = {}
    /\ task' = IF kind = "server" THEN "unregister" ELSE "over"
    /\ UNCHANGED <<kind, timed, spawner, name, lease, status, exit, mailbox, killed, user, genCalls>>

\* The task leaves the environment, then closes its ingress, then is joined.
Teardown ==
    /\ \/ task = "unregister" /\ task' = "close" /\ UNCHANGED mailbox
       \/ task = "close" /\ task' = "join" /\ mailbox' = <<>>
       \/ task = "join" /\ task' = "finish" /\ UNCHANGED mailbox
    /\ UNCHANGED <<kind, timed, spawner, name, lease, status, exit, awaiting, reply, killed, user, genCalls>>

Process == ServerInit \/ Take \/ Report \/ DropLocals \/ SetExit \/ DrainPending \/ Teardown

----------------------------------------------------------------------------
(* Handles                                                                 *)

Step(c, from, to) == pc[c] = from /\ pc' = [pc EXCEPT ![c] = to]
ReturnFrom(c, from, r) == Step(c, from, "done") /\ answer' = [answer EXCEPT ![c] = r]

EnsureRunning(c) ==
    /\ spawner = "ok"
    /\ \/ Alive /\ Step(c, "idle", IF asked[c] = "call" THEN "reserve" ELSE "send")
          /\ UNCHANGED answer
       \/ ~Alive /\ ReturnFrom(c, "idle", "refused")
    /\ UNCHANGED <<kind, timed, proc, mail, user, asked>>

ReserveReply(c) ==
    /\ Step(c, "reserve", "send") /\ awaiting' = awaiting \cup {c}
    /\ UNCHANGED <<kind, timed, proc, mailbox, reply, killed, user, asked, answer>>

\* Process::send: kill goes past the mailbox; a cast is done once it is accepted.
SendMessage(c) ==
    /\ \/ /\ Open /\ asked[c] = "kill" /\ killed' = TRUE /\ Step(c, "send", "wait")
          /\ UNCHANGED <<mailbox, answer>>
       \/ /\ Open /\ asked[c] # "kill" /\ mailbox' = Append(mailbox, <<asked[c], c>>)
          /\ IF asked[c] = "cast" THEN ReturnFrom(c, "send", "ok")
                               ELSE Step(c, "send", "wait") /\ UNCHANGED answer
          /\ UNCHANGED killed
       \/ ~Open /\ ReturnFrom(c, "send", "refused") /\ UNCHANGED <<mailbox, killed>>
    /\ awaiting' = IF Open THEN awaiting ELSE awaiting \ {c}
    /\ UNCHANGED <<kind, timed, proc, reply, user, asked>>

RecvReply(c) ==
    /\ asked[c] = "call" /\ reply[c] # "none" /\ ReturnFrom(c, "wait", reply[c])
    /\ UNCHANGED <<kind, timed, proc, mail, user, asked>>

WaitForExit(c) ==
    /\ asked[c] \in {"stop", "kill"} /\ exit # "none"
    /\ ReturnFrom(c, "wait", IF asked[c] = "kill" \/ exit = "normal" THEN "ok" ELSE "error")
    /\ UNCHANGED <<kind, timed, proc, mail, user, asked>>

\* Mutant of Timeout: the reservation is forgotten.
TimeoutOnly(c) ==
    /\ timed /\ ReturnFrom(c, "wait", "timeout")
    /\ UNCHANGED <<kind, timed, proc, mail, user, asked>>

\* The deadline passes, or the reply that is there was completed after it.
Timeout(c) ==
    /\ timed /\ ReturnFrom(c, "wait", "timeout") /\ awaiting' = awaiting \ {c}
    /\ UNCHANGED <<kind, timed, proc, mailbox, reply, killed, user, asked>>

Handle(c) ==
    \/ EnsureRunning(c) \/ ReserveReply(c) \/ SendMessage(c)
    \/ RecvReply(c) \/ WaitForExit(c) \/ Timeout(c)

Spawning == Spawn \/ RegisterName \/ HandOver
GenNext ==
    \/ Spawning \/ Process \/ TakeKill
    \/ \E h \in Handlers : AddHandler(h) \/ RemoveHandler(h) \/ RunHandler(h)
    \/ \E c \in Callers : Handle(c)

\* Threads run on, callbacks and handlers return, a kill is taken where the process awaits.
GenFairness ==
    /\ WF_genVars(Spawning) /\ WF_genVars(Process) /\ WF_genVars(TakeKill)
    /\ \A h \in Handlers : WF_genVars(RunHandler(h))
    /\ \A c \in Callers : WF_genVars(Handle(c))

GenSpec == GenInit /\ [][GenNext]_genVars /\ GenFairness

----------------------------------------------------------------------------
(* Properties                                                              *)

\* Whoever is told that a named gen_server has ended can register the name again: no
\* handle sees an exit status while the registry still holds the name for the process.
NameFreed == exit # "none" /\ spawner = "ok" => ~name

\* A reserved reply belongs to a call that is under way: replies, refusals, time-outs and
\* the end of the process leave no entry behind.
PendingInFlight == \A c \in awaiting : pc[c] \in {"send", "wait"}

\* Why the first holds: the registration of a name has one owner, the lease, and whoever
\* sees the exit status comes after the task dropped its own.
Ending == {"exit", "drain", "unregister", "close", "join", "finish", "over"}
LeaseOK ==
    /\ lease \in {"none", "spawner", "channel", "process"} /\ name \in BOOLEAN
    /\ spawner = "new" => task = "none"
    /\ spawner = "registered" <=> lease = "spawner"
    /\ name => lease # "none"
    /\ exit # "none" => task \in Ending
    /\ task \in Ending => lease \in {"none", "spawner"}

\* Why the second holds: a reply is reserved once, by a call, and whoever answers it takes
\* the reservation away.
ReplyOK(c) ==
    /\ (c \in awaiting \/ pc[c] = "reserve") => asked[c] = "call"
    /\ reply[c] # "none" => c \notin awaiting /\ pc[c] \notin {"idle", "reserve"}

GenInv ==
    /\ LeaseOK /\ PendingInFlight
    /\ awaiting \subseteq Callers
    /\ reply \in [Callers -> {"none", "reply", "error"}]
    /\ pc \in [Callers -> {"idle", "reserve", "send", "wait", "done"}]
    /\ \A c \in Callers : ReplyOK(c)

\* Neither a name nor a reserved reply outlives what it was for.
ServersSafe == NameFreed /\ PendingInFlight

\* Every operation on a handle returns.
EveryOperationReturns == \A c \in Callers : []<>(pc[c] \in {"idle", "done"})
=============================================================================
