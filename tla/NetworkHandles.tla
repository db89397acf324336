--------------------------- MODULE NetworkHandles ---------------------------
(***************************************************************************)
(* Network handles, DNS iterators and WASI descriptors of processes, and   *)
(* the quota each is charged to.  A handle is reserved by a lease before   *)
(* the operation that creates it, sits in a resource table, travels in a   *)
(* message, and is kept by a process over a reload.                        *)
(*                                                                         *)
(* The state of a process (DefaultProcessState) is an object <<p, g>>: a   *)
(* reload builds a second one, exchanges what the two own and drops one.   *)
(* A quota (Arc<ResourceStats>) is an object too, named like the state it  *)
(* was built with.  Handles that are alike are counted, not told apart.    *)
(* Host functions that trap end the process.                               *)
(***************************************************************************)
EXTENDS Naturals, FiniteSets, FiniteSetsExt, Sequences, SequencesExt, Bags

CONSTANTS
    Procs,          \* processes
    MaxHandles,     \* bound: handles that exist at once
    MaxFd, MaxNet,  \* max_file_descriptors, max_network_connections of each process
    Preopens,       \* preopened directories of each process
    MaxSlots,       \* max_message_resources
    Reloading       \* bound: the processes that are reloaded

VARIABLES
    alive,      \* processes
    gen,        \* which of its two state objects each process runs
    stats,      \* the quota of each state: resource_stats
    used,       \* the counters of each quota: [fd, net, dns]
    held,       \* a bag of the handles: [kind, where, who, quota]
    scratch,    \* message_scratch_area of each state: slots of its message, or NoMessage
    mail,       \* mailbox of each process: slots of its one message, or NoMessage
    call,       \* the awaiting host call of each process
    reload      \* "no", or what the replacement's start section did: "fresh", "opened"

vars == <<alive, gen, stats, used, held, scratch, mail, call, reload>>

States == Procs \X {0, 1}
State(p) == <<p, gen[p]>>
Other(p) == <<p, 1 - gen[p]>>
Mailbox(p) == <<p, 2>>
NoMessage == MaxSlots + 1
Zero == [fd |-> 0, net |-> 0, dns |-> 0]
Transferable == {"stream"}              \* TCP and TLS streams, UDP sockets
Network == Transferable \cup {"listener"}

\* What one handle costs: a network handle is also a descriptor.
Cost(kind) == [fd |-> IF kind \in Network \cup {"file"} THEN 1 ELSE 0,
               net |-> IF kind \in Network THEN 1 ELSE 0,
               dns |-> IF kind = "dns" THEN 1 ELSE 0]

\* Handles in this place of this owner: the kinds, and the bag of them.
Held(s, where) == {e \in DOMAIN held : e.where = where /\ e.who = s}
All(es) == [e \in es |-> held[e]]
One(e) == SetToBag({e})
Moved(es, where, s) ==
    LET to(e) == [e EXCEPT !.where = where, !.who = s]
    IN  [f \in {to(e) : e \in es} |-> MapThenSumSet(LAMBDA e : held[e], {e \in es : to(e) = f})]
Room(n) == BagCardinality(held) + n <= MaxHandles

\* What the handles of a bag that are charged to q cost it.
Total(b, q, c) ==
    MapThenSumSet(LAMBDA e : IF e.quota = q THEN b[e] * Cost(e.kind)[c] ELSE 0, DOMAIN b)
InTable(p, c) == Total(All(Held(State(p), "table")), stats[State(p)], c)

-----------------------------------------------------------------------------
(* Quotas *)

\* ResourceStats::reserve for one handle of this kind: all its counters or none.
Fits(u, p, kind) ==
    /\ u.fd + Cost(kind).fd <= MaxFd[p] \/ Cost(kind).fd = 0
    /\ u.net + Cost(kind).net <= MaxNet[p] \/ Cost(kind).net = 0
    /\ u.dns + Cost(kind).dns <= MaxNet[p] \/ Cost(kind).dns = 0

Plus(u, kind) == [c \in DOMAIN u |-> u[c] + Cost(kind)[c]]
Minus(u, kind) == [c \in DOMAIN u |-> u[c] - Cost(kind)[c]]

\* The counters after these handles are dropped with their leases.
Released(b) == [q \in States |-> [c \in DOMAIN Zero |-> used[q][c] - Total(b, q, c)]]

\* build_wasi_with_audit_and_quota: the preopened directories of a new state
PreopenedDirs(p, s, q) ==
    IF Preopens[p] = 0 THEN EmptyBag
    ELSE [e \in {[kind |-> "file", where |-> "table", who |-> s, quota |-> q]} |-> Preopens[p]]
Opened(p) == [Zero EXCEPT !.fd = Preopens[p]]

Init ==
    /\ alive = Procs /\ gen = [p \in Procs |-> 0] /\ stats = [s \in States |-> s]
    /\ held = BagUnion({PreopenedDirs(p, <<p, 0>>, <<p, 0>>) : p \in Procs})
    /\ used = [s \in States |-> IF s[2] = 0 THEN Opened(s[1]) ELSE Zero]
    /\ scratch = [s \in States |-> NoMessage] /\ mail = [p \in Procs |-> NoMessage]
    /\ call = [p \in Procs |-> "none"] /\ reload = [p \in Procs |-> "no"]

Runs(p) == p \in alive /\ call[p] = "none" /\ reload[p] = "no"
MyQuota(p) == stats[State(p)]

-----------------------------------------------------------------------------
(* Host functions that create handles *)

\* The awaiting calls: what a call needs in the table, and the leases it
\* reserves, in order, before it awaits.
TcpBind == [on |-> {}, takes |-> <<"listener">>]
TlsBind == [on |-> {}, takes |-> <<"listener">>]
UdpBind == [on |-> {}, takes |-> <<"stream">>]
TcpConnect == [on |-> {}, takes |-> <<"stream">>]
TlsConnect == [on |-> {}, takes |-> <<"stream">>]
TcpAccept == [on |-> {"listener"}, takes |-> <<"stream", "dns">>]
TlsAccept == [on |-> {"listener"}, takes |-> <<"stream", "dns">>]
TcpPeerAddr == [on |-> {"stream"}, takes |-> <<"dns">>]
UdpReceiveFrom == [on |-> {"stream"}, takes |-> <<"dns">>]
Resolve == [on |-> {}, takes |-> <<"dns">>]
Calls == {TcpBind, TlsBind, UdpBind, TcpConnect, TlsConnect, TcpAccept, TlsAccept,
          TcpPeerAddr, UdpReceiveFrom, Resolve}

InTables(p, kinds) == \E e \in Held(State(p), "table") : e.kind \in kinds
Lease(p, kind, where) == [kind |-> kind, where |-> where, who |-> State(p), quota |-> MyQuota(p)]

\* A full quota is an error for the guest; when only the first of two leases fits
\* it is dropped again.
Begin(p, c) ==
    /\ Runs(p) /\ Room(Len(c.takes)) /\ (c.on # {} => InTables(p, c.on))
    /\ \A i \in DOMAIN c.takes :
        Fits(FoldLeft(Plus, used[MyQuota(p)], SubSeq(c.takes, 1, i - 1)), p, c.takes[i])
    /\ used' = [used EXCEPT ![MyQuota(p)] = FoldLeft(Plus, @, c.takes)]
    /\ held' = held (+) SetToBag({Lease(p, k, "call") : k \in ToSet(c.takes)})
    /\ call' = [call EXCEPT ![p] = "waits"]
    /\ UNCHANGED <<alive, gen, stats, scratch, mail, reload>>

\* The operation succeeded: into_table_reservation, the counters stay.
Succeed(p) ==
    /\ p \in alive /\ call[p] # "none"
    /\ LET leases == Held(State(p), "call")
       IN  held' = (held (-) All(leases)) (+) Moved(leases, "table", State(p))
    /\ call' = [call EXCEPT ![p] = "none"]
    /\ UNCHANGED <<alive, gen, stats, used, scratch, mail, reload>>

\* (A mutant: the lease is forgotten on the way out.)
FailForgetful(p) ==
    /\ p \in alive /\ call[p] # "none"
    /\ held' = held (-) All(Held(State(p), "call")) /\ used' = used
    /\ call' = [call EXCEPT ![p] = "none"]
    /\ UNCHANGED <<alive, gen, stats, scratch, mail, reload>>

\* It failed, or its timeout passed: the leases are dropped.
Fail(p) ==
    /\ p \in alive /\ call[p] # "none"
    /\ LET leases == All(Held(State(p), "call"))
       IN  held' = held (-) leases /\ used' = Released(leases)
    /\ call' = [call EXCEPT ![p] = "none"]
    /\ UNCHANGED <<alive, gen, stats, scratch, mail, reload>>

\* The calls that do not await: an iterator with one address, or a second handle
\* of the same stream, charged on its own.
TcpLocalAddr == [on |-> {"listener"}, takes |-> "dns"]
TlsLocalAddr == [on |-> {"listener"}, takes |-> "dns"]
UdpLocalAddr == [on |-> {"stream"}, takes |-> "dns"]
UdpPeerAddr == [on |-> {"stream"}, takes |-> "dns"]
CloneTcpStream == [on |-> {"stream"}, takes |-> "stream"]
CloneTlsStream == [on |-> {"stream"}, takes |-> "stream"]
CloneUdpSocket == [on |-> {"stream"}, takes |-> "stream"]
SyncCalls == {TcpLocalAddr, TlsLocalAddr, UdpLocalAddr, UdpPeerAddr,
              CloneTcpStream, CloneTlsStream, CloneUdpSocket}

Create(p, kind) ==
    /\ Runs(p) /\ Fits(used[MyQuota(p)], p, kind) /\ Room(1)
    /\ held' = held (+) One(Lease(p, kind, "table"))
    /\ used' = [used EXCEPT ![MyQuota(p)] = Plus(@, kind)]
    /\ UNCHANGED <<alive, gen, stats, scratch, mail, call, reload>>

Derive(p, c) == InTables(p, c.on) /\ Create(p, c.takes)

\* AuditedWasiDir::open_file; path_open does not await.
OpenFile(p) == Preopens[p] > 0 /\ Create(p, "file")

\* drop_tcp_stream and the like, drop_dns_iterator, fd_close
DropHandle(p) ==
    /\ Runs(p)
    /\ \E e \in Held(State(p), "table") : held' = held (-) One(e) /\ used' = Released(One(e))
    /\ UNCHANGED <<alive, gen, stats, scratch, mail, call, reload>>

-----------------------------------------------------------------------------
(* Messages *)

\* create_data replaces the message of the scratch area; what it held is dropped.
CreateData(p) ==
    /\ Runs(p)
    /\ scratch' = [scratch EXCEPT ![State(p)] = 0]
    /\ LET old == All(Held(State(p), "scratch"))
       IN  held' = held (-) old /\ used' = Released(old)
    /\ UNCHANGED <<alive, gen, stats, mail, call, reload>>

\* push_tcp_stream, push_tls_stream, push_udp_socket: out of the table, into the
\* message; the reservation of the table entry becomes a lease of the sender's.
PushStream(p) ==
    /\ Runs(p) /\ scratch[State(p)] < MaxSlots
    /\ \E e \in Held(State(p), "table") :
        /\ e.kind \in Transferable
        /\ held' = (held (-) One(e)) (+) One(Lease(p, e.kind, "scratch"))
    /\ scratch' = [scratch EXCEPT ![State(p)] = @ + 1]
    /\ UNCHANGED <<alive, gen, stats, used, mail, call, reload>>

\* (A mutant: the sender's reservation is never given back.)
TakeStreamKeepingSource(p) ==
    /\ Runs(p)
    /\ \E e \in Held(State(p), "scratch") :
        LET q == MyQuota(p)
        IN  /\ e.quota = q \/ Fits(used[q], p, e.kind)
            /\ used' = IF e.quota = q THEN used ELSE [used EXCEPT ![q] = Plus(@, e.kind)]
            /\ held' = (held (-) One(e)) (+) One(Lease(p, e.kind, "table"))
    /\ UNCHANGED <<alive, gen, stats, scratch, mail, call, reload>>

\* take_tcp_stream and the like: NetworkHandleLease::transfer_to reserves the
\* taker's quota and then releases the sender's.  The slot stays, empty.
TakeStream(p) ==
    /\ Runs(p)
    /\ \E e \in Held(State(p), "scratch") :
        LET q == MyQuota(p)
        IN  /\ e.quota = q \/ Fits(used[q], p, e.kind)
            /\ used' = IF e.quota = q THEN used
                       ELSE [used EXCEPT ![q] = Plus(@, e.kind), ![e.quota] = Minus(@, e.kind)]
            /\ held' = (held (-) One(e)) (+) One(Lease(p, e.kind, "table"))
    /\ UNCHANGED <<alive, gen, stats, scratch, mail, call, reload>>

\* (A mutant: the message is gone even when the destination refused it.)
SendUnrestored(p, r) ==
    /\ Runs(p) /\ scratch[State(p)] # NoMessage
    /\ LET sent == Held(State(p), "scratch")
       IN  IF r \in alive /\ mail[r] = NoMessage
           THEN /\ mail' = [mail EXCEPT ![r] = scratch[State(p)]]
                /\ held' = (held (-) All(sent)) (+) Moved(sent, "mail", Mailbox(r))
                /\ used' = used
           ELSE mail' = mail /\ held' = held (-) All(sent) /\ used' = Released(All(sent))
    /\ scratch' = [scratch EXCEPT ![State(p)] = NoMessage]
    /\ UNCHANGED <<alive, gen, stats, call, reload>>

\* try_send_message: a missing process or a full mailbox returns the message to
\* the scratch area.  A reloading process has the same mailbox.
Send(p, r) ==
    /\ Runs(p) /\ scratch[State(p)] # NoMessage
    /\ r \in alive /\ mail[r] = NoMessage
    /\ mail' = [mail EXCEPT ![r] = scratch[State(p)]]
    /\ LET sent == Held(State(p), "scratch")
       IN  held' = (held (-) All(sent)) (+) Moved(sent, "mail", Mailbox(r))
    /\ scratch' = [scratch EXCEPT ![State(p)] = NoMessage]
    /\ UNCHANGED <<alive, gen, stats, used, call, reload>>

\* receive: the message replaces the one in the scratch area.
Receive(p) ==
    /\ Runs(p) /\ mail[p] # NoMessage
    /\ LET old == All(Held(State(p), "scratch"))
           new == Held(Mailbox(p), "mail")
       IN  /\ used' = Released(old)
           /\ held' = ((held (-) old) (-) All(new)) (+) Moved(new, "scratch", State(p))
    /\ scratch' = [scratch EXCEPT ![State(p)] = mail[p]] /\ mail' = [mail EXCEPT ![p] = NoMessage]
    /\ UNCHANGED <<alive, gen, stats, call, reload>>

-----------------------------------------------------------------------------
(* Reload and death *)

\* The driver drops the guest's call; new_state_for_reload builds a state with a
\* quota of its own and the preopened directories of the same configuration.
PrepareReload(p) ==
    /\ p \in alive \cap Reloading /\ reload[p] = "no" /\ Room(Preopens[p])
    /\ LET gone == All(Held(State(p), "call"))
           fresh == <<p, 1 - MyQuota(p)[2]>>
       IN  /\ held' = (held (-) gone) (+) PreopenedDirs(p, Other(p), fresh)
           /\ used' = [Released(gone) EXCEPT ![fresh] = Opened(p)]
           /\ stats' = [stats EXCEPT ![Other(p)] = fresh]
    /\ scratch' = [scratch EXCEPT ![Other(p)] = NoMessage]
    /\ call' = [call EXCEPT ![p] = "none"] /\ reload' = [reload EXCEPT ![p] = "fresh"]
    /\ UNCHANGED <<alive, gen, mail>>

\* instantiate runs the start section of the new module in the new state.
StartSectionOpens(p) ==
    /\ reload[p] = "fresh" /\ Room(1)
    /\ LET q == stats[Other(p)]
       IN  /\ Fits(used[q], p, "dns")
           /\ used' = [used EXCEPT ![q] = Plus(@, "dns")]
           /\ held' = held (+) One([kind |-> "dns", where |-> "table", who |-> Other(p), quota |-> q])
    /\ reload' = [reload EXCEPT ![p] = "opened"]
    /\ UNCHANGED <<alive, gen, stats, scratch, mail, call>>

\* The counters transfer_runtime_resources_to compares with the tables.
Drifted(p) ==
    \/ used[MyQuota(p)].net < InTable(p, "net")
    \/ used[MyQuota(p)].fd < InTable(p, "net")
    \/ used[MyQuota(p)].dns # InTable(p, "dns")

OnlyPreopens(p) == used[stats[Other(p)]] = Opened(p)

\* What the two states own changes hands, and the old one is dropped with its share.
Swapped(p) ==
    LET mine == {e \in DOMAIN held : e.who = State(p)}
        theirs == {e \in DOMAIN held : e.who = Other(p)}
    IN  ((held (-) All(mine)) (-) All(theirs))
            (+) Moved({e \in mine : e.where = "table"}, "table", Other(p))
            (+) Moved({e \in mine : e.where = "scratch"}, "scratch", Other(p))

\* (A mutant: every table is exchanged but not the quota behind it.)
ExchangeTables(p) ==
    /\ held' = Swapped(p)
    /\ scratch' = [scratch EXCEPT ![Other(p)] = scratch[State(p)], ![State(p)] = NoMessage]
    /\ stats' = stats

\* transfer_runtime_resources_to: tables, descriptors, scratch message and quota
\* change hands together.
Exchange(p) ==
    /\ held' = Swapped(p)
    /\ scratch' = [scratch EXCEPT ![Other(p)] = scratch[State(p)], ![State(p)] = NoMessage]
    /\ stats' = [stats EXCEPT ![Other(p)] = stats[State(p)], ![State(p)] = stats[Other(p)]]

CommitReload(p) ==
    /\ reload[p] # "no" /\ ~Drifted(p) /\ OnlyPreopens(p)
    /\ Exchange(p)
    /\ used' = [used EXCEPT ![stats[Other(p)]] = Zero]
    /\ gen' = [gen EXCEPT ![p] = 1 - @] /\ reload' = [reload EXCEPT ![p] = "no"]
    /\ UNCHANGED <<alive, mail, call>>

\* A check fails, or the module cannot be instantiated: the replacement is
\* dropped and the old instance runs on.
AbandonReload(p) ==
    /\ reload[p] # "no"
    /\ LET gone == All(Held(Other(p), "table"))
       IN  held' = held (-) gone /\ used' = Released(gone)
    /\ reload' = [reload EXCEPT ![p] = "no"]
    /\ UNCHANGED <<alive, gen, stats, scratch, mail, call>>

\* The process ends, by itself, by a trap or killed: its states and its mailbox
\* are dropped, and with them every lease.  What a table entry of a dropped state
\* was charged to is gone as well.
Die(p) ==
    /\ p \in alive
    /\ LET gone == All({e \in DOMAIN held : e.who[1] = p})
       IN  held' = held (-) gone /\ used' = Released(gone)
    /\ alive' = alive \ {p} /\ call' = [call EXCEPT ![p] = "none"]
    /\ reload' = [reload EXCEPT ![p] = "no"]
    /\ scratch' = [s \in States |-> IF s[1] = p THEN NoMessage ELSE scratch[s]]
    /\ mail' = [mail EXCEPT ![p] = NoMessage]
    /\ UNCHANGED <<gen, stats>>

Next == \E p \in Procs :
    \/ \E c \in Calls : Begin(p, c)
    \/ Succeed(p) \/ Fail(p)
    \/ OpenFile(p) \/ (\E c \in SyncCalls : Derive(p, c)) \/ DropHandle(p)
    \/ CreateData(p) \/ PushStream(p) \/ TakeStream(p) \/ Receive(p)
    \/ \E r \in Procs : Send(p, r)
    \/ PrepareReload(p) \/ StartSectionOpens(p) \/ CommitReload(p) \/ AbandonReload(p)
    \/ Die(p)

Spec == Init /\ [][Next]_vars

-----------------------------------------------------------------------------
(***************************************************************************)
(* The counters of a live process's quota are exactly the handles charged  *)
(* to it, wherever they are (in a call, a table, a scratch message, another *)
(* process's mailbox or scratch), over failures, transfers and reloads;    *)
(* every handle in a process's tables is charged to that process; and the  *)
(* limits hold.                                                            *)
(***************************************************************************)
QuotaExact == \A p \in alive :
    /\ \A c \in DOMAIN Zero : used[MyQuota(p)][c] = Total(held, MyQuota(p), c)
    /\ \A e \in Held(State(p), "table") \cup Held(State(p), "call") : e.quota = MyQuota(p)
    /\ used[MyQuota(p)].fd <= MaxFd[p] /\ used[MyQuota(p)].net <= MaxNet[p]

\* Handles a live process, or the process they were sent to, can still reach.
Reachable(p) == Held(State(p), "table") \cup Held(State(p), "scratch") \cup Held(Mailbox(p), "mail")
ReachableOf(ps) == BagCardinality(All(UNION {Reachable(p) : p \in ps}))

(***************************************************************************)
(* A handle that can be reached is closed only by the process that can     *)
(* reach it: dropping it, replacing the message it is in, or dying.  Not by *)
(* a reload, whether it commits or is abandoned, and not by a send that is *)
(* refused.                                                                *)
(***************************************************************************)
OnlyOwnerCloses ==
    [][ReachableOf(alive)' < ReachableOf(alive) =>
        \E p \in Procs : DropHandle(p) \/ CreateData(p) \/ Receive(p) \/ Die(p)]_vars
=============================================================================
