--------------------------- MODULE TlsCredentials ---------------------------
(***************************************************************************)
(* Credentials of TLS listeners (EphemeralTlsCredentialProvider) and the   *)
(* snapshots that name them.  A handle is given out by the host, or by the *)
(* capture of a process's listeners; it is consumed by the guest's         *)
(* tls_bind_with_credential or by the restore of a snapshot.  The provider *)
(* locks one call at a time, so the calls of several threads interleave.   *)
(***************************************************************************)
EXTENDS Naturals, FiniteSets

CONSTANTS
    Procs,          \* processes, each a TlsCredentialScope of its own
    MaxIssued,      \* bound: handles ever issued
    Capacity, Ttl,  \* of the provider
    MaxNet,         \* max_network_connections of each process
    MaxTime         \* bound: the clock

VARIABLES
    now,        \* the clock
    store,      \* credentials: [h, scope, until]
    issued,     \* handles issued so far; a handle is never issued twice
    tls, plain, \* TLS listeners, and TCP listeners with UDP sockets, of each process
    used,       \* its network quota
    snap,       \* its last snapshot: [tls, plain, streams], or None
    work,       \* the call it is in: [op, todo, got]
    known,      \* handles given to a guest, or written to a snapshot
    given       \* history: how often the material of a handle was handed out to its scope

vars == <<now, store, issued, tls, plain, used, snap, work, known, given>>
sockets == <<tls, plain, used>>

Issued == 1..MaxIssued
NotMigratable == 0      \* the snapshot entry of a listener without a local address
None == [tls |-> {}, plain |-> 0, streams |-> TRUE]
Idle == [op |-> "none", todo |-> 0, got |-> {}]
Is(p, op) == work[p].op = op

Init ==
    /\ now = 0 /\ store = {} /\ issued = 0
    /\ tls = [p \in Procs |-> 0] /\ plain = [p \in Procs |-> 0] /\ used = [p \in Procs |-> 0]
    /\ snap = [p \in Procs |-> None] /\ work = [p \in Procs |-> Idle]
    /\ known = {} /\ given = [h \in Issued |-> 0]

-----------------------------------------------------------------------------
(* The provider *)

Live == {c \in store : c.until > now}

\* provision: expired credentials are removed first, also when there is no room.
Provision(p) ==
    IF Cardinality(Live) < Capacity
    THEN /\ issued < MaxIssued /\ issued' = issued + 1
         /\ store' = Live \cup {[h |-> issued + 1, scope |-> p, until |-> now + Ttl]}
    ELSE store' = Live /\ issued' = issued

Provisioned == issued' # issued

\* (A mutant: the credential stays in the provider.)
TakeCopy(p, h) ==
    /\ store' = store
    /\ given' = IF \E c \in Live : c.h = h /\ c.scope = p THEN [given EXCEPT ![h] = @ + 1] ELSE given

\* take: another scope's handle is not touched; an expired one is removed and refused.
Take(p, h) ==
    /\ store' = {c \in store : ~(c.h = h /\ c.scope = p)}
    /\ given' = IF \E c \in Live : c.h = h /\ c.scope = p THEN [given EXCEPT ![h] = @ + 1] ELSE given

Taken == given' # given

\* provision_tls_listener_credential, for the guest
HostProvision(p) ==
    /\ Provision(p)
    /\ known' = IF Provisioned THEN known \cup {issued'} ELSE known
    /\ UNCHANGED <<now, sockets, snap, work, given>>

\* revoke_tls_listener_credential of a handle nobody used: take, and drop
HostRevoke(p, h) ==
    /\ h \in known
    /\ store' = {c \in store : ~(c.h = h /\ c.scope = p)}
    /\ UNCHANGED <<now, issued, sockets, snap, work, known, given>>

-----------------------------------------------------------------------------
(* tls_bind_with_credential: the lease comes first, so that a full quota does
   not cost the credential; a handle that is refused gives the lease back. *)

BindWithCredential(p, h) ==
    /\ work[p] = Idle /\ used[p] < MaxNet[p]
    /\ Take(p, h)
    /\ IF Taken THEN /\ used' = [used EXCEPT ![p] = @ + 1]
                     /\ work' = [work EXCEPT ![p] = [Idle EXCEPT !.op = "bind"]]
       ELSE UNCHANGED <<used, work>>
    /\ UNCHANGED <<now, issued, tls, plain, snap, known>>

BindDone(p, ok) ==
    /\ Is(p, "bind")
    /\ IF ok THEN tls' = [tls EXCEPT ![p] = @ + 1] /\ used' = used
       ELSE used' = [used EXCEPT ![p] = @ - 1] /\ tls' = tls
    /\ work' = [work EXCEPT ![p] = Idle]
    /\ UNCHANGED <<now, store, issued, plain, snap, known, given>>

\* tcp_bind, udp_bind
BindPlain(p) ==
    /\ work[p] = Idle /\ used[p] < MaxNet[p]
    /\ plain' = [plain EXCEPT ![p] = @ + 1] /\ used' = [used EXCEPT ![p] = @ + 1]
    /\ UNCHANGED <<now, store, issued, tls, snap, work, known, given>>

\* The state is dropped; a fresh one of the same process takes its place.
Replace(p) ==
    /\ work[p] = Idle
    /\ tls' = [tls EXCEPT ![p] = 0] /\ plain' = [plain EXCEPT ![p] = 0] /\ used' = [used EXCEPT ![p] = 0]
    /\ UNCHANGED <<now, store, issued, snap, work, known, given>>

-----------------------------------------------------------------------------
(* capture_resource_snapshot *)

Capture(p) ==
    /\ work[p] = Idle /\ used[p] > 0
    /\ work' = [work EXCEPT ![p] = [op |-> "capture", todo |-> tls[p], got |-> {}]]
    /\ UNCHANGED <<now, store, issued, sockets, snap, known, given>>

\* (A mutant: the listeners already captured keep their credentials.)
CaptureNextAbandoned(p) ==
    /\ Is(p, "capture") /\ work[p].todo > 0
    /\ Provision(p)
    /\ work' = [work EXCEPT ![p] =
        IF Provisioned THEN [@ EXCEPT !.todo = @ - 1, !.got = @ \cup {issued'}] ELSE Idle]
    /\ UNCHANGED <<now, sockets, snap, known, given>>

\* One credential for each listener; the first refusal starts the rollback.
CaptureNext(p) ==
    /\ Is(p, "capture") /\ work[p].todo > 0
    /\ Provision(p)
    /\ work' = [work EXCEPT ![p] =
        IF Provisioned THEN [@ EXCEPT !.todo = @ - 1, !.got = @ \cup {issued'}]
        ELSE [@ EXCEPT !.op = "rollback"]]
    /\ UNCHANGED <<now, sockets, snap, known, given>>

\* A listener without a local address is written down as not migratable.
CaptureBroken(p) ==
    /\ Is(p, "capture") /\ work[p].todo > 0
    /\ work' = [work EXCEPT ![p] = [@ EXCEPT !.todo = @ - 1, !.got = @ \cup {NotMigratable}]]
    /\ UNCHANGED <<now, store, issued, sockets, snap, known, given>>

CaptureDone(p, streams) ==
    /\ Is(p, "capture") /\ work[p].todo = 0
    /\ snap' = [snap EXCEPT ![p] = [tls |-> work[p].got, plain |-> plain[p], streams |-> streams]]
    /\ known' = known \cup work[p].got
    /\ work' = [work EXCEPT ![p] = Idle]
    /\ UNCHANGED <<now, store, issued, sockets, given>>

Rollback(p) ==
    /\ Is(p, "rollback")
    /\ IF work[p].got = {} THEN work' = [work EXCEPT ![p] = Idle] /\ store' = store
       ELSE \E h \in work[p].got :
            /\ store' = {c \in store : ~(c.h = h /\ c.scope = p)}
            /\ work' = [work EXCEPT ![p].got = @ \ {h}]
    /\ UNCHANGED <<now, issued, sockets, snap, known, given>>

-----------------------------------------------------------------------------
(* restore_resource_snapshot: every TLS listener is resolved, leased and bound
   before a table changes.  A snapshot can be presented more than once. *)

Restore(p) ==
    /\ work[p] = Idle /\ ~snap[p].streams /\ used[p] = 0
    /\ work' = [work EXCEPT ![p] = [op |-> "restore", todo |-> 0, got |-> snap[p].tls]]
    /\ UNCHANGED <<now, store, issued, sockets, snap, known, given>>

\* The leases and sockets prepared so far are dropped.
GiveUp(p) == /\ used' = [used EXCEPT ![p] = 0]
             /\ work' = [work EXCEPT ![p] = Idle]

\* (A mutant: the leases of the listeners prepared before are lost.)
RestoreNextLeaking(p) ==
    /\ Is(p, "restore")
    /\ \E h \in work[p].got :
        /\ Take(p, h)
        /\ \/ used' = used /\ work' = [work EXCEPT ![p] = Idle]
           \/ /\ Taken /\ used[p] < MaxNet[p]
              /\ used' = [used EXCEPT ![p] = @ + 1]
              /\ work' = [work EXCEPT ![p] = [@ EXCEPT !.todo = @ + 1, !.got = @ \ {h}]]
    /\ UNCHANGED <<now, issued, tls, plain, snap, known>>

RestoreNext(p) ==
    /\ Is(p, "restore")
    /\ \E h \in work[p].got :
        /\ Take(p, h)
        /\ \/ GiveUp(p)     \* the handle is refused, the quota is full or the rebind fails
           \/ /\ Taken /\ used[p] < MaxNet[p]
              /\ used' = [used EXCEPT ![p] = @ + 1]
              /\ work' = [work EXCEPT ![p] = [@ EXCEPT !.todo = @ + 1, !.got = @ \ {h}]]
    /\ UNCHANGED <<now, issued, tls, plain, snap, known>>

\* Plain listeners that cannot be leased or bound are skipped; then the TLS
\* listeners enter the table.
RestoreDone(p, k) ==
    /\ Is(p, "restore") /\ work[p].got = {}
    /\ k <= snap[p].plain /\ used[p] + k <= MaxNet[p]
    /\ tls' = [tls EXCEPT ![p] = work[p].todo] /\ plain' = [plain EXCEPT ![p] = k]
    /\ used' = [used EXCEPT ![p] = @ + k]
    /\ work' = [work EXCEPT ![p] = Idle]
    /\ UNCHANGED <<now, store, issued, snap, known, given>>

Tick == now < MaxTime /\ now' = now + 1 /\ UNCHANGED <<store, issued, sockets, snap, work, known, given>>

Next ==
    \/ \E p \in Procs :
        \/ HostProvision(p) \/ BindPlain(p) \/ Replace(p)
        \/ \E h \in 1..issued : HostRevoke(p, h) \/ BindWithCredential(p, h)
        \/ \E ok \in BOOLEAN : BindDone(p, ok) \/ CaptureDone(p, ok)
        \/ Capture(p) \/ CaptureNext(p) \/ CaptureBroken(p) \/ Rollback(p)
        \/ Restore(p) \/ RestoreNext(p) \/ \E k \in 0..MaxNet[p] : RestoreDone(p, k)
    \/ Tick

Spec == Init /\ [][Next]_vars

-----------------------------------------------------------------------------
(***************************************************************************)
(* A credential opens at most one listener, however snapshots are replayed *)
(* and whoever tries its handle; and the provider keeps no usable          *)
(* credential that nobody can name any more: a capture that is refused     *)
(* half way takes back what it provisioned.                                *)
(***************************************************************************)
CredentialsAccounted ==
    /\ \A h \in Issued : given[h] <= 1
    /\ \A c \in Live : c.h \in known \/ \E p \in Procs : c.h \in work[p].got

(***************************************************************************)
(* The quota of a process is its listeners and the leases of the call it   *)
(* is in: a restore that fails half way leaves nothing charged.            *)
(***************************************************************************)
ListenersAccounted ==
    \A p \in Procs : used[p] = tls[p] + plain[p] +
        (CASE Is(p, "bind") -> 1 [] Is(p, "restore") -> work[p].todo [] OTHER -> 0)
=============================================================================
