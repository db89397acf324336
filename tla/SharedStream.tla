---------------------------- MODULE SharedStream ----------------------------
(***************************************************************************)
(* One TCP or TLS connection (Arc<TcpConnection>, Arc<TlsConnection>) that *)
(* several processes hold clones of.  Each call locks a timeout and one    *)
(* half of the stream, in that order, keeps both while the network answers *)
(* and drops them when it returns, times out or its process is killed.     *)
(***************************************************************************)
EXTENDS Naturals, Sequences

CONSTANTS
    Procs,          \* processes with a handle of the connection
    Kinds,          \* kinds of connection explored
    MaxBytes,       \* bound: bytes the peer sends
    MaxCalls        \* bound: calls

\* The locks of each call, in the order it takes them.
TcpWrite == <<"write_timeout", "writer">>
TcpRead == <<"read_timeout", "reader">>
TcpPeek == <<"peek_timeout", "reader">>
TcpFlush == <<"writer">>
TcpPeerAddr == <<"writer">>
TlsWrite == <<"write_timeout", "writer">>
TlsRead == <<"read_timeout", "reader">>
TlsFlush == <<"writer">>

StreamCalls(kind) ==
    [write |-> IF kind = "tcp" THEN TcpWrite ELSE TlsWrite,
     read |-> IF kind = "tcp" THEN TcpRead ELSE TlsRead,
     flush |-> IF kind = "tcp" THEN TcpFlush ELSE TlsFlush,
     peek |-> TcpPeek, peer_addr |-> TcpPeerAddr,
     set_read |-> <<"read_timeout">>, set_write |-> <<"write_timeout">>, set_peek |-> <<"peek_timeout">>]

TcpOnly == {"peek", "peer_addr", "set_peek"}
Setters == [set_read |-> "read_timeout", set_write |-> "write_timeout", set_peek |-> "peek_timeout"]
LockNames == {"read_timeout", "write_timeout", "peek_timeout", "reader", "writer"}
Nobody == 0

VARIABLES
    kind,       \* "tcp" or "tls"
    limit,      \* the timeouts that are set
    lock,       \* the process that holds each lock, or Nobody
    call,       \* the call each process is in: [op, step], step = locks taken
    arrived,    \* bytes the peer has sent
    taken,      \* bytes that have left the receive buffer
    shown,      \* history: bytes returned to a peek, and to a read
    closed,     \* the peer has closed the connection
    calls       \* calls made so far

vars == <<kind, limit, lock, call, arrived, taken, shown, closed, calls>>

Idle == [op |-> "none", step |-> 0]
Order(p) == StreamCalls(kind)[call[p].op]
Ready(p) == call[p] # Idle /\ call[p].step = Len(Order(p))

Init ==
    /\ kind \in Kinds /\ limit = {} /\ lock = [l \in LockNames |-> Nobody]
    /\ call = [p \in Procs |-> Idle] /\ arrived = 0 /\ taken = 0
    /\ shown = [peek |-> {}, read |-> {}] /\ closed = FALSE /\ calls = 0

Call(p, op) ==
    /\ call[p] = Idle /\ calls < MaxCalls /\ (kind = "tls" => op \notin TcpOnly)
    /\ call' = [call EXCEPT ![p] = [op |-> op, step |-> 0]] /\ calls' = calls + 1
    /\ UNCHANGED <<kind, limit, lock, arrived, taken, shown, closed>>

Acquire(p) ==
    /\ call[p] # Idle /\ call[p].step < Len(Order(p))
    /\ LET l == Order(p)[call[p].step + 1]
       IN  lock[l] = Nobody /\ lock' = [lock EXCEPT ![l] = p]
    /\ call' = [call EXCEPT ![p].step = @ + 1]
    /\ UNCHANGED <<kind, limit, arrived, taken, shown, closed, calls>>

\* The guards of the locks are dropped with the call.
Return(p) ==
    /\ call' = [call EXCEPT ![p] = Idle]
    /\ lock' = [l \in LockNames |-> IF lock[l] = p THEN Nobody ELSE lock[l]]

Consume(what) ==
    /\ taken < arrived \/ closed
    /\ taken' = IF taken < arrived THEN taken + 1 ELSE taken
    /\ shown' = IF taken < arrived THEN [shown EXCEPT ![what] = @ \cup {taken + 1}] ELSE shown

ReadDone(p) ==
    /\ Ready(p) /\ call[p].op = "read"
    /\ Consume("read") /\ Return(p)
    /\ UNCHANGED <<kind, limit, arrived, closed, calls>>

\* With a timeout the buffer is peeked; without one it is read.
PeekDone(p) ==
    /\ Ready(p) /\ call[p].op = "peek"
    /\ IF "peek_timeout" \in limit
       THEN /\ taken < arrived \/ closed
            /\ shown' = IF taken < arrived THEN [shown EXCEPT !.peek = @ \cup {taken + 1}] ELSE shown
            /\ taken' = taken
       ELSE Consume("peek")
    /\ Return(p)
    /\ UNCHANGED <<kind, limit, arrived, closed, calls>>

\* write_vectored and flush are done, or fail: the peer decides when.
WriteDone(p) ==
    /\ Ready(p) /\ call[p].op \in {"write", "flush", "peer_addr"}
    /\ Return(p)
    /\ UNCHANGED <<kind, limit, arrived, taken, shown, closed, calls>>

SetTimeout(p, on) ==
    /\ Ready(p) /\ call[p].op \in DOMAIN Setters
    /\ LET t == Setters[call[p].op] IN limit' = IF on THEN limit \cup {t} ELSE limit \ {t}
    /\ Return(p)
    /\ UNCHANGED <<kind, arrived, taken, shown, closed, calls>>

\* (A mutant: the half of the stream stays locked.)
TimedOutHolding(p) ==
    /\ Ready(p) /\ Head(Order(p)) \in limit /\ Len(Order(p)) = 2
    /\ call' = [call EXCEPT ![p] = Idle] /\ lock' = [lock EXCEPT ![Head(Order(p))] = Nobody]
    /\ UNCHANGED <<kind, limit, arrived, taken, shown, closed, calls>>

\* The value of the timeout is the one the call locked; it covers the transfer only.
TimedOut(p) ==
    /\ Ready(p) /\ Head(Order(p)) \in limit /\ Len(Order(p)) = 2
    /\ Return(p)
    /\ UNCHANGED <<kind, limit, arrived, taken, shown, closed, calls>>

\* The process is killed or reloaded: its call is dropped where it waits.
Cancel(p) ==
    /\ call[p] # Idle
    /\ Return(p)
    /\ UNCHANGED <<kind, limit, arrived, taken, shown, closed, calls>>

\* The peer
Arrive ==
    /\ arrived < MaxBytes /\ ~closed
    /\ arrived' = arrived + 1
    /\ UNCHANGED <<kind, limit, lock, call, taken, shown, closed, calls>>

Close ==
    /\ ~closed /\ closed' = TRUE
    /\ UNCHANGED <<kind, limit, lock, call, arrived, taken, shown, calls>>

Next ==
    \/ \E p \in Procs :
        \/ \E op \in DOMAIN StreamCalls(kind) : Call(p, op)
        \/ Acquire(p) \/ ReadDone(p) \/ PeekDone(p) \/ WriteDone(p)
        \/ \E on \in BOOLEAN : SetTimeout(p, on)
        \/ TimedOut(p) \/ Cancel(p)
    \/ Arrive \/ Close

\* A free lock is given to a waiter (calls are bounded, so no one else can take it for
\* ever); a call whose locks are held and whose transfer can complete is polled again.
Fairness == \A p \in Procs :
    /\ WF_vars(Acquire(p)) /\ WF_vars(\E on \in BOOLEAN : SetTimeout(p, on))
    /\ WF_vars(ReadDone(p) \/ PeekDone(p) \/ WriteDone(p))

Spec == Init /\ [][Next]_vars /\ Fairness

-----------------------------------------------------------------------------
(***************************************************************************)
(* Once the peer has closed the connection every call on it returns, of    *)
(* whatever process: no order of calls leaves one waiting for a lock.      *)
(***************************************************************************)
StreamCallsReturn == \A p \in Procs : []<>(closed => call[p] = Idle)

(***************************************************************************)
(* What the documentation of tcp_peek says: a byte shown by a peek is not  *)
(* removed from the buffer, and will be read.                              *)
(***************************************************************************)
PeekKeepsBytes == \A b \in shown.peek : b <= taken => b \in shown.read
=============================================================================
