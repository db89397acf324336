---------------------------- MODULE MCResources ----------------------------
(***************************************************************************)
(* What a process takes from its node, for TLC: its place in the           *)
(* environment and the node, network handles, timers, SQLite handles, TLS  *)
(* credentials, and the credentials of the command line.  Three spawners   *)
(* in two environments can fill one environment, or the node alone; the    *)
(* tables are small enough to be full, and handles are sent, lost with     *)
(* their process and carried over a reload. The parts share no state: a    *)
(* behaviour is one of one part.                                           *)
(***************************************************************************)
EXTENDS ProcessAdmission, Timers, CliCredentials

VARIABLES
    part,                 \* the part that runs
    alive, gen, stats, used, held, scratch, mail, call, reload,     \* NetworkHandles
    opened, table, stmt, native, qUsed, refused,     \* SqliteHandles
    lNow, lStore, issued, tls, plain, lUsed, snap, work, known, given     \* TlsCredentials

nVars == <<alive, gen, stats, used, held, scratch, mail, call, reload>>
qVars == <<opened, table, stmt, native, qUsed, refused>>
lVars == <<lNow, lStore, issued, tls, plain, lUsed, snap, work, known, given>>
allVars == <<part, vars, nVars, timersVars, qVars, lVars, cliVars>>

N == INSTANCE NetworkHandles WITH Procs <- {1, 2}, MaxHandles <- 3, MaxFd <- <<2, 1>>,
        MaxNet <- <<2, 1>>, Preopens <- <<1, 0>>, MaxSlots <- 1, Reloading <- {1}
Q == INSTANCE SqliteHandles WITH Conns <- 1..4, Stmts <- 1..3, MaxConns <- 2, MaxStmts <- 2,
        used <- qUsed
L == INSTANCE TlsCredentials WITH Procs <- {1, 2}, MaxIssued <- 4, Capacity <- 2, Ttl <- 1,
        MaxNet <- <<2, 0>>, MaxTime <- 1, now <- lNow, store <- lStore, used <- lUsed

\* One part runs; the others stay as they start.
PartInit ==
    /\ part \in {"admission", "network", "timers", "sqlite", "tls", "cli"}
    /\ Init
    /\ N!Init
    /\ TimersInit
    /\ Q!Init
    /\ L!Init
    /\ CliInit
    /\ (part # "cli" => disk = Missing)
    /\ (part # "admission" => \A p \in Spawner : env[p] = CHOOSE e \in Env : TRUE)

PartNext ==
    /\ UNCHANGED part
    /\ \/ part = "admission" /\ Next /\ UNCHANGED <<nVars, timersVars, qVars, lVars, cliVars>>
       \/ part = "network" /\ N!Next /\ UNCHANGED <<vars, timersVars, qVars, lVars, cliVars>>
       \/ part = "timers" /\ TimersNext /\ UNCHANGED <<vars, nVars, qVars, lVars, cliVars>>
       \/ part = "sqlite" /\ Q!Next /\ UNCHANGED <<vars, nVars, timersVars, lVars, cliVars>>
       \/ part = "tls" /\ L!Next /\ UNCHANGED <<vars, nVars, timersVars, qVars, cliVars>>
       \/ part = "cli" /\ CliNext /\ UNCHANGED <<vars, nVars, timersVars, qVars, lVars>>

PartSpec == PartInit /\ [][PartNext]_allVars

\* The counters of a process are the handles charged to it; its SQLite statements outlive the
\* handle of their connection; TLS credentials and listeners are accounted for over captures
\* and restores that fail half way.
HandlesExact ==
    /\ N!QuotaExact /\ Q!StatementsUsable
    /\ L!CredentialsAccounted /\ L!ListenersAccounted
\* Neither a reload nor a refused send closes a handle.
OnlyOwnerCloses == N!OnlyOwnerCloses
============================================================================
