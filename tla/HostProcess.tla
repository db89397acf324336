----------------------------- MODULE HostProcess -----------------------------
(***************************************************************************)
(* What a guest can do to processes, configurations and names: the host    *)
(* functions lunatic::process and lunatic::registry, the configuration     *)
(* setters of lunatic::wasi and the spawn of lunatic::distributed.         *)
(*                                                                         *)
(* A configuration is what validate_child_config compares: capabilities,   *)
(* fuel (0 is None, unlimited), numeric ceilings, the preopened            *)
(* directories, and the entries and bytes it retains.                      *)
(* A host function runs without a break between two awaits; a process can  *)
(* die only where one of its own calls awaits, or between calls.           *)
(***************************************************************************)
EXTENDS Naturals, FiniteSets

CONSTANTS
    Names,          \* names of the local registry
    MaxProcs,       \* bound: processes of this environment
    Handles,        \* config handles of a process, max_configs of them
    RegistryCap,    \* MAX_REGISTRY_ENTRIES
    Dirs, Below,    \* directories, and the directories at or below each
    Root,           \* configuration of the first process
    Receiver,       \* DefaultProcessConfig::default() of a receiving node
    Settings,       \* <<field, value>> pairs a guest tries to set
    MaxEdits,       \* bound: configuration changes
    Distributed,    \* the node has a distributed context
    StartCalls      \* start sections of modules call the registry

Procs == 1..MaxProcs
Nobody == 0
Remote == MaxProcs + 1      \* an entry of the local registry for another node
None == [none |-> TRUE]

VARIABLES
    alive,      \* processes registered in the environment
    conf,       \* configuration of each process created so far
    parent,     \* its parent, Nobody for the first
    table,      \* config_resources: handle -> configuration or None
    modules,    \* number of module handles of each process
    localRegistry,   \* the local registry: name -> process, Nobody if absent
    registryLock,       \* the process holding the write lock of the registry across an await
    call,       \* the host call each process is in: [op, name, handle, child]
    edits,      \* configuration changes so far, at most MaxEdits
    named,      \* history: processes get_or_spawn created under a name, while
                \* nobody else has changed the entry
    audit       \* history: the last terminal ProcessSpawn event: [result, ran]

procs == <<alive, conf, parent>>
tables == <<table, modules, edits>>
hostVars == <<procs, tables, localRegistry, registryLock, call, named, audit>>

Idle == [op |-> "none", name |-> "", handle |-> 0, child |-> Nobody]
Created == {p \in Procs : conf[p] # None}

HostInit ==
    /\ alive = {1}
    /\ conf = [p \in Procs |-> IF p = 1 THEN Root ELSE None]
    /\ parent = [p \in Procs |-> Nobody]
    /\ table = [p \in Procs |-> [h \in Handles |-> None]]
    /\ modules = [p \in Procs |-> 0] /\ edits = 0
    /\ localRegistry = [n \in Names |-> Nobody]
    /\ registryLock = Nobody
    /\ call = [p \in Procs |-> Idle]
    /\ named = [n \in Names |-> {}]
    /\ audit = [result |-> "none", ran |-> FALSE]

Running(p) == p \in alive /\ call[p] = Idle

-----------------------------------------------------------------------------
(* Configurations *)

\* The numeric ceilings, by the setters that change them
ResourceCeilings == {"memory", "table", "descriptors", "connections"}
QueueCeilings == {"mailbox", "signals", "message_size"}
HandleCeilings == {"resources", "modules", "configs", "module_bytes"}
RetainedCeilings == {"entries", "bytes"}
SqliteCeilings == {"sqlite_connections", "sqlite_statements"}
Ceilings == ResourceCeilings \cup QueueCeilings \cup HandleCeilings
                \cup RetainedCeilings \cup SqliteCeilings

Capabilities == {"create", "spawn", "compile", "tls"}
Config == [caps : SUBSET Capabilities, fuel : Nat, dirs : SUBSET DOMAIN Below,
           lim : [Ceilings -> Nat], used : [RetainedCeilings -> Nat]]

\* The first process has a configuration, what is below a directory has everything of its
\* own below that directory too, and a setting is of the type of its field.
ASSUME HostConstants ==
    /\ MaxProcs \in Nat /\ MaxProcs >= 1 /\ Root \in Config /\ Dirs \subseteq DOMAIN Below
    /\ \A d, e \in DOMAIN Below : d \in Below[e] => Below[d] \subseteq Below[e]
    /\ Settings \subseteq ({"fuel"} \X Nat) \cup ({"cap"} \X Capabilities) \cup (Ceilings \X Nat)

\* validate_retained_values_against
RetainedFit(c, a) == \A f \in RetainedCeilings : c.used[f] <= a.lim[f]

\* validate_runtime_limits: no queue of size zero, and the retained values fit
RuntimeLimits(c) == (\A f \in QueueCeilings : c.lim[f] > 0) /\ RetainedFit(c, c)

CanDelegatePreopenDir(p, d) == \E e \in p.dirs : d \in Below[e]

\* (A mutant: None compared as zero.)
WithinFuelNoneIsZero(c, p) == p.fuel = 0 \/ c.fuel <= p.fuel

WithinFuel(c, p) == p.fuel = 0 \/ (c.fuel # 0 /\ c.fuel <= p.fuel)

WithinCeilings(c, p) == \A f \in Ceilings : c.lim[f] <= p.lim[f]

\* validate_child_config: c may be given to a child of a process configured by p
ValidChild(c, p) ==
    /\ RuntimeLimits(c) /\ c.caps \subseteq p.caps /\ WithinCeilings(c, p)
    /\ WithinFuel(c, p)
    /\ \A d \in c.dirs : CanDelegatePreopenDir(p, d)

\* validate_distributed_config: fuel is left alone, and no directory travels
ValidRemote(c) ==
    /\ RuntimeLimits(c) /\ c.caps \subseteq Receiver.caps /\ WithinCeilings(c, Receiver)
    /\ c.dirs = {}

NewChildConfig(p) ==
    [p EXCEPT !.caps = {}, !.dirs = {}, !.used = [f \in RetainedCeilings |-> 0]]

CreateConfig(p) ==
    /\ Running(p) /\ "create" \in conf[p].caps
    /\ \E h \in Handles :
        /\ Cardinality({g \in Handles : table[p][g] # None}) < conf[p].lim["configs"]
        /\ table[p][h] = None /\ \A g \in Handles : g < h => table[p][g] # None
        /\ table' = [table EXCEPT ![p][h] = NewChildConfig(conf[p])]
    /\ UNCHANGED <<procs, edits, modules, localRegistry, registryLock, call, named, audit>>

DropConfig(p) ==
    /\ Running(p)
    /\ \E h \in Handles : table[p][h] # None /\ table' = [table EXCEPT ![p][h] = None]
    /\ UNCHANGED <<procs, edits, modules, localRegistry, registryLock, call, named, audit>>

\* A candidate the parent may not grant leaves the table as it was.
MutateChildConfig(p, h, candidate) ==
    /\ edits < MaxEdits /\ edits' = edits + 1
    /\ ValidChild(candidate, conf[p])
    /\ table' = [table EXCEPT ![p][h] = candidate]
    /\ UNCHANGED <<procs, modules, localRegistry, registryLock, call, named, audit>>

SetCeiling(c, f, v) == [c EXCEPT !.lim[f] = v]

SetMaxFuel(c, v) == [c EXCEPT !.fuel = v]

SetCapability(c, cap) ==
    [c EXCEPT !.caps = IF cap \in c.caps THEN c.caps \ {cap} ELSE c.caps \cup {cap}]

ConfigSet(p) ==
    /\ Running(p)
    /\ \E h \in Handles, s \in Settings :
        /\ table[p][h] # None
        /\ MutateChildConfig(p, h,
             CASE s[1] = "fuel" -> SetMaxFuel(table[p][h], s[2])
               [] s[1] = "cap" -> SetCapability(table[p][h], s[2])
               [] OTHER -> SetCeiling(table[p][h], s[1], s[2]))

Grown(used, size) == [entries |-> used.entries + 1, bytes |-> used.bytes + size]

\* add_environment_variable and add_command_line_argument
AddEntry(p) ==
    /\ Running(p)
    /\ \E h \in Handles, size \in 1..2 :
        /\ table[p][h] # None
        /\ MutateChildConfig(p, h, [table[p][h] EXCEPT !.used = Grown(@, size)])

PreopenDir(p) ==
    /\ Running(p)
    /\ \E h \in Handles, d \in Dirs :
        /\ table[p][h] # None
        /\ MutateChildConfig(p, h,
             [table[p][h] EXCEPT !.dirs = @ \cup {d}, !.used = Grown(@, 1)])

CompileModule(p) ==
    /\ Running(p) /\ "compile" \in conf[p].caps /\ modules[p] < conf[p].lim["modules"]
    /\ modules' = [modules EXCEPT ![p] = @ + 1]
    /\ UNCHANGED <<procs, table, edits, localRegistry, registryLock, call, named, audit>>

DropModule(p) ==
    /\ Running(p) /\ modules[p] > 0
    /\ modules' = [modules EXCEPT ![p] = @ - 1]
    /\ UNCHANGED <<procs, table, edits, localRegistry, registryLock, call, named, audit>>

-----------------------------------------------------------------------------
(* Spawning *)

Chosen(p, h) == IF h = 0 THEN conf[p] ELSE table[p][h]

\* The configuration is validated when it is delegated and again by new_state.
MaySpawn(p, h) ==
    /\ "spawn" \in conf[p].caps
    /\ Chosen(p, h) # None /\ ValidChild(Chosen(p, h), conf[p])

Log(result, ran) == audit' = [result |-> result, ran |-> ran]

\* spawn_wasm up to the instantiation: the slot is taken and published first.
Begin(p, h, op, name) ==
    /\ \E n \in Procs \ Created :
        /\ \A k \in Procs \ Created : n <= k
        /\ alive' = alive \cup {n}
        /\ conf' = [conf EXCEPT ![n] = Chosen(p, h)]
        /\ parent' = [parent EXCEPT ![n] = p]
        /\ call' = [call EXCEPT ![n] = [Idle EXCEPT !.op = "init"],
                                ![p] = [Idle EXCEPT !.op = op, !.name = name, !.child = n]]
    /\ UNCHANGED tables

Spawn(p, h) ==
    /\ Running(p) /\ MaySpawn(p, h)
    /\ Begin(p, h, "spawn", "")
    /\ UNCHANGED <<localRegistry, registryLock, named, audit>>

\* A start section that uses the registry waits for its lock.
StartSection(n) ==
    /\ StartCalls /\ ~Distributed
    /\ n \in alive /\ call[n].op = "init"
    /\ call' = [call EXCEPT ![n].op = "initlock"]
    /\ UNCHANGED <<procs, tables, localRegistry, registryLock, named, audit>>

StartSectionCall(n) ==
    /\ call[n].op = "initlock" /\ registryLock = Nobody
    /\ call' = [call EXCEPT ![n].op = "initdone"]
    /\ UNCHANGED <<procs, tables, localRegistry, registryLock, named, audit>>

Initialising(n) == n \in alive /\ call[n].op \in {"init", "initdone"}

\* The task starts; its parent has the result and meets no further await.
Instantiated(n) ==
    /\ Initialising(n)
    /\ call' = [call EXCEPT ![n] = Idle, ![parent[n]].op =
                    IF @ = "named" THEN "namedback" ELSE "spawnback"]
    /\ UNCHANGED <<procs, tables, localRegistry, registryLock, named, audit>>


InstantiateFails(n) ==
    /\ Initialising(n)
    /\ alive' = alive \ {n}
    /\ registryLock' = IF registryLock = parent[n] THEN Nobody ELSE registryLock
    /\ call' = [call EXCEPT ![n] = Idle, ![parent[n]] = Idle]
    /\ Log("Failed", FALSE)
    /\ UNCHANGED <<conf, parent, tables, localRegistry, named>>

SpawnReturns(p) ==
    /\ call[p].op = "spawnback"
    /\ call' = [call EXCEPT ![p] = Idle]
    /\ Log("Succeeded", TRUE)
    /\ UNCHANGED <<procs, tables, localRegistry, registryLock, named>>

\* distributed::spawn: the child lives on the other node, not in this environment.
RemoteSpawn(p, h) ==
    /\ Distributed /\ Running(p) /\ MaySpawn(p, h) /\ ValidRemote(Chosen(p, h))
    /\ \E n \in Procs \ Created :
        /\ \A k \in Procs \ Created : n <= k
        /\ conf' = [conf EXCEPT ![n] = Chosen(p, h)]
        /\ parent' = [parent EXCEPT ![n] = p]
    /\ UNCHANGED <<alive, tables, localRegistry, registryLock, call, named, audit>>

-----------------------------------------------------------------------------
(* get_or_spawn *)

GetOrSpawn(p, name, h) ==
    /\ Running(p)
    /\ call' = [call EXCEPT ![p] = [Idle EXCEPT !.op = "lock", !.name = name, !.handle = h]]
    /\ UNCHANGED <<procs, tables, localRegistry, registryLock, named, audit>>

Dead(q) == q \in Procs \ alive

Swept(r) == [n \in Names |-> IF Dead(r[n]) THEN Nobody ELSE r[n]]

\* ensure_registry_insert_capacity
Room(r, name) == r[name] # Nobody \/ Cardinality({n \in Names : r[n] # Nobody}) < RegistryCap

\* The registry a lookup of name leaves: its own stale entry is removed, the
\* others only when there is no room.
Tidied(name) ==
    LET r == IF Dead(localRegistry[name]) THEN [localRegistry EXCEPT ![name] = Nobody] ELSE localRegistry
    IN IF Room(r, name) THEN r ELSE Swept(r)

Found(p) ==
    LET q == localRegistry[call[p].name]
    IN /\ call[p].op = "lock" /\ registryLock = Nobody
       /\ q # Nobody /\ ~Dead(q)
       /\ call' = [call EXCEPT ![p] = Idle]
       /\ Log("Succeeded", TRUE)
       /\ UNCHANGED <<procs, tables, localRegistry, registryLock, named>>

\* (A mutant: the write lock is given up before the child is spawned.)
SpawnNamedUnlocked(p) ==
    LET name == call[p].name
    IN /\ call[p].op = "lock" /\ registryLock = Nobody
       /\ localRegistry[name] = Nobody \/ Dead(localRegistry[name])
       /\ localRegistry' = Tidied(name)
       /\ \/ /\ Room(Tidied(name), name) /\ MaySpawn(p, call[p].handle)
             /\ Begin(p, call[p].handle, "named", name)
             /\ UNCHANGED <<registryLock, audit, named>>
          \/ /\ call' = [call EXCEPT ![p] = Idle]
             /\ Log("Denied", FALSE)
             /\ UNCHANGED <<procs, tables, registryLock, named>>

SpawnNamed(p) ==
    LET name == call[p].name
    IN /\ call[p].op = "lock" /\ registryLock = Nobody
       /\ localRegistry[name] = Nobody \/ Dead(localRegistry[name])
       /\ localRegistry' = Tidied(name)
       /\ named' = [n \in Names |-> IF localRegistry'[n] = Nobody THEN named[n] \cap alive ELSE named[n]]
       /\ \/ /\ Room(Tidied(name), name) /\ MaySpawn(p, call[p].handle)
             /\ Begin(p, call[p].handle, "named", name)
             /\ registryLock' = p /\ UNCHANGED audit
          \/ /\ call' = [call EXCEPT ![p] = Idle]    \* no room, denied, or the process limit
             /\ Log("Denied", FALSE)
             /\ UNCHANGED <<procs, tables, registryLock>>

NamedReturns(p) ==
    LET name == call[p].name IN
    /\ call[p].op = "namedback"
    /\ localRegistry' = [localRegistry EXCEPT ![name] = call[p].child]
    /\ named' = [named EXCEPT ![name] = @ \cup {call[p].child}]
    /\ registryLock' = Nobody
    /\ call' = [call EXCEPT ![p] = Idle]
    /\ Log("Succeeded", TRUE)
    /\ UNCHANGED <<procs, tables>>

-----------------------------------------------------------------------------
(* The registry functions of a node without a distributed context *)

LocalPut(p, name, q) ==
    /\ ~Distributed /\ Running(p) /\ registryLock = Nobody /\ Room(localRegistry, name)
    /\ localRegistry' = [localRegistry EXCEPT ![name] = q]
    /\ named' = [named EXCEPT ![name] = {}]
    /\ UNCHANGED <<procs, tables, registryLock, call, audit>>

LocalRemove(p, name) ==
    /\ ~Distributed /\ Running(p) /\ registryLock = Nobody /\ localRegistry[name] # Nobody
    /\ localRegistry' = [localRegistry EXCEPT ![name] = Nobody]
    /\ named' = [named EXCEPT ![name] = {}]
    /\ UNCHANGED <<procs, tables, registryLock, call, audit>>

-----------------------------------------------------------------------------
(* Deaths: a dropped call releases what it holds, its provisional child too *)

Gone(p, killed) ==
    /\ alive' = alive \ killed
    /\ table' = [table EXCEPT ![p] = [h \in Handles |-> None]]
    /\ modules' = [modules EXCEPT ![p] = 0]
    /\ call' = [q \in Procs |-> IF q \in killed THEN Idle ELSE call[q]]
    /\ registryLock' = IF registryLock = p THEN Nobody ELSE registryLock
    /\ UNCHANGED <<conf, parent, edits, localRegistry, named>>

Exit(p) == Running(p) /\ Gone(p, {p}) /\ UNCHANGED audit

\* (A mutant: a kill that can strike after the child's task was started.)
KilledAnywhere(p) ==
    /\ p \in alive /\ call[p].op \notin {"none", "init", "initlock", "initdone"}
    /\ Gone(p, {p, call[p].child} \ {q \in Procs : call[p].op \in {"spawnback", "namedback"} /\ q # p})
    /\ Log("Cancelled", call[p].op \in {"spawnback", "namedback"})

\* PendingAudit::drop reports the fallback set by mark_async.
KilledInCall(p) ==
    /\ p \in alive /\ call[p].op \in {"lock", "spawn", "named"}
    /\ Gone(p, {p, call[p].child})
    /\ Log("Cancelled", FALSE)

-----------------------------------------------------------------------------
Step(p) ==
    \/ CreateConfig(p) \/ DropConfig(p) \/ ConfigSet(p) \/ AddEntry(p) \/ PreopenDir(p)
    \/ CompileModule(p) \/ DropModule(p)
    \/ \E h \in Handles \cup {0} : Spawn(p, h) \/ RemoteSpawn(p, h)
    \/ \E n \in Names, h \in Handles \cup {0} : GetOrSpawn(p, n, h)
    \/ \E n \in Names : LocalRemove(p, n) \/ \E q \in Procs \cup {Remote} : LocalPut(p, n, q)
    \/ Exit(p) \/ KilledInCall(p)

Progress(p) ==
    \/ StartSectionCall(p) \/ Instantiated(p) \/ SpawnReturns(p)
    \/ Found(p) \/ SpawnNamed(p) \/ NamedReturns(p)

HostNext == \E p \in Procs : Step(p) \/ Progress(p) \/ StartSection(p) \/ InstantiateFails(p)

\* A call that can go on does: the runtime polls every woken task.  The lock
\* is held across an await only for one of the MaxProcs spawns.
HostFairness == \A p \in Procs : WF_hostVars(Progress(p))

HostSpec == HostInit /\ [][HostNext]_hostVars /\ HostFairness

-----------------------------------------------------------------------------
Places(c) == UNION {Below[d] : d \in c.dirs}
\* The processes p descends from: what every set has in it that has the parents of p and of
\* its own members.
Ancestors(p) ==
    {a \in Procs : \A line \in SUBSET Procs :
        (\A q \in line \cup {p} : parent[q] \in line \cup {Nobody}) => a \in line}

NoMoreThan(c, a) ==
    /\ c.caps \subseteq a.caps /\ Places(c) \subseteq Places(a)
    /\ (\A f \in Ceilings : c.lim[f] <= a.lim[f]) /\ RetainedFit(c, a)
    /\ (c.fuel = 0) => (a.fuel = 0)
    /\ (a.fuel # 0) => (c.fuel <= a.fuel)

\* No process, here or on another node, ever has more than any of its
\* ancestors: not a capability, a directory, a ceiling or unlimited fuel,
\* however the configurations in between were created, changed and delegated.
Attenuation ==
    \A p \in Created : \A a \in Ancestors(p) : NoMoreThan(conf[p], conf[a])

\* get_or_spawn is atomic: while nobody else changes the entry of a name, at
\* most one live process was created under it, whoever raced to create it and
\* whatever was killed or swept in between.
OneProcessPerName == \A n \in DOMAIN named : Cardinality(named[n] \cap alive) <= 1

\* The audit trail of spawns tells the truth: Succeeded means a process is
\* there for the caller, and a cancelled, failed or denied call left none.
AuditTrue == (audit.result = "Succeeded") <=> audit.ran

\* A name has one process, and what is reported of each spawn happened.
SpawnsSafe == OneProcessPerName /\ AuditTrue

\* p is in no spawn or lookup, or was killed.
Returned(p) == p \in alive => call[p].op \notin {"lock", "named", "spawn"}

\* Every spawn and every lookup returns, unless its process is killed.
EveryLookupReturns == \A p \in Procs : []<>Returned(p)

-----------------------------------------------------------------------------
(* Why nobody has more than an ancestor: what was delegated is never changed. *)

CallRecords == [op : {"none", "init", "initlock", "initdone", "lock", "spawn", "spawnback", "named", "namedback"},
                name : Names \cup {""}, handle : Handles \cup {0}, child : Procs \cup {Nobody}]

HostTypeOK ==
    /\ alive \subseteq Procs /\ conf \in [Procs -> Config \cup {None}] /\ parent \in [Procs -> Procs \cup {Nobody}]
    /\ table \in [Procs -> [Handles -> Config \cup {None}]]
    /\ call \in [Procs -> CallRecords]

\* Who lives or is in a call was created.
ActorsExist == alive \subseteq Created /\ \A p \in Procs : call[p].op # "none" => p \in Created

Delegated == \A p \in Created :
    parent[p] # Nobody => parent[p] \in Created /\ NoMoreThan(conf[p], conf[parent[p]])

HostInv == HostTypeOK /\ ActorsExist /\ Delegated

(* Why a name has one process: whoever creates it holds the lock, and found no entry. *)

NamesTyped ==
    /\ localRegistry \in [Names -> Procs \cup {Nobody, Remote}]
    /\ named \in [Names -> SUBSET Created]
    /\ \A p \in Procs : call[p].op \in {"lock", "named", "namedback"} => call[p].name \in Names

Naming(p) == call[p].op \in {"named", "namedback"}

LockHeld == \A p \in Procs : Naming(p) =>
    registryLock = p /\ call[p].child \in Created /\ localRegistry[call[p].name] = Nobody

EntryIsCurrent == \A n \in Names : named[n] \cap alive \subseteq {localRegistry[n]}

NamesInv == NamesTyped /\ LockHeld /\ EntryIsCurrent
=============================================================================
