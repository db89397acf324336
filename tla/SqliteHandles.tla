--------------------------- MODULE SqliteHandles ---------------------------
(***************************************************************************)
(* SQLite connections and statements of one process.  A connection is      *)
(* shared by its table entry and by its statements, and its quota lease is *)
(* released, like the native connection, with the last of them.            *)
(***************************************************************************)
EXTENDS Naturals, FiniteSets

CONSTANTS
    Conns,          \* bound: connections ever opened
    Stmts,          \* bound: statements at once
    MaxConns, MaxStmts

VARIABLES
    opened,     \* connections ever opened
    table,      \* sqlite_connections
    stmt,       \* sqlite_statements: statement -> its connection, or Nothing
    native,     \* native connections that are open
    used,       \* SQLiteResourceStats: [conns, stmts]
    refused     \* history: the last reservation was refused

vars == <<opened, table, stmt, native, used, refused>>

Nothing == 0
Prepared == {s \in Stmts : stmt[s] # Nothing}
Alive(t, st) == t \cup {st[s] : s \in {x \in Stmts : st[x] # Nothing}}

Init ==
    /\ opened = {} /\ table = {} /\ stmt = [s \in Stmts |-> Nothing]
    /\ native = {} /\ used = [conns |-> 0, stmts |-> 0] /\ refused = FALSE

\* The lease comes first; a file that cannot be opened drops it.
Open ==
    /\ Conns \ opened # {}
    /\ IF used.conns < MaxConns
       THEN /\ refused' = FALSE
            /\ \/ LET c == CHOOSE c \in Conns \ opened : \A d \in Conns \ opened : c <= d
                  IN  /\ opened' = opened \cup {c} /\ table' = table \cup {c} /\ native' = native \cup {c}
                      /\ used' = [used EXCEPT !.conns = @ + 1]
               \/ UNCHANGED <<opened, table, native, used>>
       ELSE refused' = TRUE /\ UNCHANGED <<opened, table, native, used>>
    /\ UNCHANGED stmt

\* prepare_statement: a lease, then the connection, then the query.
PrepareStatement(c) ==
    /\ \E s \in Stmts : stmt[s] = Nothing
    /\ IF used.stmts < MaxStmts
       THEN /\ refused' = FALSE
            /\ \/ /\ c \in table
                  /\ LET s == CHOOSE s \in Stmts \ Prepared : \A t \in Stmts \ Prepared : s <= t
                     IN  stmt' = [stmt EXCEPT ![s] = c]
                  /\ used' = [used EXCEPT !.stmts = @ + 1]
               \/ UNCHANGED <<stmt, used>>
       ELSE refused' = TRUE /\ UNCHANGED <<stmt, used>>
    /\ UNCHANGED <<opened, table, native>>

\* Dropping the last reference of a connection closes it and releases its lease.
Drop(t, st) ==
    /\ native' = native \cap Alive(t, st)
    /\ used' = [conns |-> used.conns - Cardinality(native \ Alive(t, st)),
                stmts |-> Cardinality({s \in Stmts : st[s] # Nothing})]

Finalize(s) ==
    /\ stmt[s] # Nothing
    /\ stmt' = [stmt EXCEPT ![s] = Nothing]
    /\ Drop(table, stmt')
    /\ UNCHANGED <<opened, table, refused>>

\* (A mutant: the connection is closed with its table entry.)
CloseAtOnce(c) ==
    /\ c \in table
    /\ table' = table \ {c} /\ native' = native \ {c} /\ used' = [used EXCEPT !.conns = @ - 1]
    /\ UNCHANGED <<opened, stmt, refused>>

Close(c) ==
    /\ c \in table
    /\ table' = table \ {c}
    /\ Drop(table', stmt)
    /\ UNCHANGED <<opened, stmt, refused>>

Next == Open \/ (\E c \in Conns : PrepareStatement(c) \/ Close(c)) \/ (\E s \in Stmts : Finalize(s))

Spec == Init /\ [][Next]_vars

-----------------------------------------------------------------------------
(***************************************************************************)
(* A statement can be stepped until it is finalized, even when the handle  *)
(* of its connection is closed; the counters are the native connections    *)
(* and the statements; and they agree with what a reload compares them to. *)
(***************************************************************************)
StatementsUsable ==
    /\ \A s \in Prepared : stmt[s] \in native
    /\ used.conns = Cardinality(native) /\ used.conns <= MaxConns /\ used.stmts <= MaxStmts
    /\ used.stmts = Cardinality(Prepared) /\ Cardinality(table) <= used.conns
=============================================================================
