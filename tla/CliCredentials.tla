--------------------------- MODULE CliCredentials ---------------------------
(***************************************************************************)
(* The login of the command line: the global configuration file, which     *)
(* names a credential, and the credential store of the operating system,   *)
(* which holds it.  The two cannot be changed together, so login, logout   *)
(* and the migration of the old plaintext file each go through a tombstone *)
(* (pending_credential_deletion) or a deterministic reference.             *)
(*                                                                         *)
(* Commands of several processes take turns by a lock file; a process can  *)
(* be killed between any two steps, and the machine can lose power.  Every *)
(* call of the store can fail, also after it took effect, or be lost.      *)
(***************************************************************************)
EXTENDS Naturals, FiniteSets

CONSTANTS
    Procs,          \* processes of the command line
    MaxRefs,        \* bound: references; 1 is the one of a legacy file
    MaxSecrets      \* bound: credentials obtained from the provider

ASSUME CliAssumption == "nobody" \notin Procs /\ MaxRefs \in Nat \ {0}

Refs == 1..MaxRefs
LegacyRef == 1      \* CredentialReference::for_legacy_migration
No == 0
Nobody == "nobody"

VARIABLES
    disk,       \* the file: [kind, provider, pending], by references
    safe,       \* what is left of it when power is lost
    store,      \* the credential of each reference, No if it has none
    lock,       \* the process that holds the lock file
    cmd,        \* the command of each process: [op, pc, ref, secret, first, prev]
    fresh,      \* references and secrets made so far: [refs, secrets]
    torn        \* history: a power loss undid a write that had been reported

cliVars == <<disk, safe, store, lock, cmd, fresh, torn>>

Missing == [kind |-> "none", provider |-> No, pending |-> No]
Current(provider, pending) == [kind |-> "current", provider |-> provider, pending |-> pending]
Legacy(provider) == [kind |-> "legacy", provider |-> provider, pending |-> No]
Idle == [op |-> "none", pc |-> "none", ref |-> No, secret |-> No, first |-> FALSE, prev |-> No]

CliInit ==
    /\ disk \in {Missing, Legacy(No), Legacy(LegacyRef)} /\ safe = disk
    /\ store = [r \in Refs |-> No] /\ lock = Nobody
    /\ cmd = [p \in Procs |-> Idle] /\ fresh = [refs |-> 1, secrets |-> 0] /\ torn = FALSE

At(p, pc) == cmd[p].pc = pc
Continue(p, pc) == cmd' = [cmd EXCEPT ![p].pc = pc] /\ UNCHANGED lock

\* The command returns, with or without an error, and drops the lock.
Return(p) == cmd' = [cmd EXCEPT ![p] = Idle] /\ lock' = Nobody

ContinueOrReturn(p, pc) == IF pc = "return" THEN Return(p) ELSE Continue(p, pc)

\* The file is loaded: "login" goes on with it under the lock; the lock is
\* dropped before anything is asked of the provider.
Loaded(p) ==
    CASE cmd[p].op = "login" -> Continue(p, "load")
      [] cmd[p].op = "start" ->
            /\ cmd' = [cmd EXCEPT ![p] = [Idle EXCEPT !.op = "start", !.pc = "request", !.ref = disk'.provider]]
            /\ lock' = Nobody
      [] OTHER -> Return(p)

-----------------------------------------------------------------------------
(* The file and the store *)

\* write_private_toml: written, failed before the rename, or renamed but not
\* known to be durable.
WriteConfig(p, new, ok, failed) ==
    \/ disk' = new /\ safe' = new /\ IF ok = "loaded" THEN Loaded(p) ELSE ContinueOrReturn(p, ok)
    \/ UNCHANGED <<disk, safe>> /\ ContinueOrReturn(p, failed)
    \/ disk' = new /\ UNCHANGED safe /\ Return(p)

\* The store after a put or a delete that answered Failed, or lied.
PutMaybe(r, v) == store' \in {store, [store EXCEPT ![r] = v]}

\* delete_credential_verified
DeleteVerified(p, r, ok, failed) ==
    \/ store' = [store EXCEPT ![r] = No] /\ ContinueOrReturn(p, ok)
    \/ PutMaybe(r, No) /\ ContinueOrReturn(p, failed)

-----------------------------------------------------------------------------
(* Commands *)

\* "open" is every command that needs a session, "start" is login::start.
Command(p, op) ==
    /\ cmd[p] = Idle
    /\ cmd' = [cmd EXCEPT ![p] = [Idle EXCEPT !.op = op, !.pc = "acquire"]]
    /\ UNCHANGED <<disk, safe, store, lock, fresh, torn>>

Acquire(p) ==
    /\ At(p, "acquire") /\ lock = Nobody
    /\ lock' = p /\ cmd' = [cmd EXCEPT ![p].pc = "load"]
    /\ UNCHANGED <<disk, safe, store, fresh, torn>>

\* A file that names both is refused (validate_current_global_config).
Invalid == disk.provider # No /\ disk.pending # No

\* No file, or an old one without a provider: the current form is written.
WriteDefault(p) ==
    /\ At(p, "load") /\ cmd[p].op # "logout"
    /\ disk \in {Missing, Legacy(No)}
    /\ WriteConfig(p, Current(No, No), "loaded", "return")
    /\ UNCHANGED <<store, fresh, torn>>

\* A current file: the command goes on with it.
LoadCurrent(p) ==
    /\ At(p, "load") /\ cmd[p].op \in {"open", "start"} /\ disk.kind = "current"
    /\ UNCHANGED <<disk, safe, store, fresh, torn>>
    /\ IF Invalid THEN Return(p) ELSE Loaded(p)

\* There is nothing to log out of; or login meets a tombstone, a provider that
\* is not the one asked for, or one whose credential is gone.
RefuseCommand(p) ==
    /\ At(p, "load")
    /\ \/ cmd[p].op = "logout" /\ (disk \in {Missing, Legacy(No)} \/ disk = Current(No, No) \/ Invalid)
       \/ cmd[p].op = "login" /\ disk.kind = "current" /\ (disk.pending # No \/ disk.provider # No)
    /\ Return(p)
    /\ UNCHANGED <<disk, safe, store, fresh, torn>>

\* is_authenticated with the provider read before, or the request of a new
\* login: a session that is still good, or any error, ends the command.
Request(p) ==
    /\ At(p, "request")
    /\ \/ (cmd[p].ref # No => store[cmd[p].ref] # No) /\ cmd' = [cmd EXCEPT ![p].pc = "poll"]
       \/ cmd' = [cmd EXCEPT ![p] = Idle]
    /\ UNCHANGED <<disk, safe, store, lock, fresh, torn>>

\* check_auth_status asks until it has cookies (or an error); with them the
\* lock is taken again and the file read again, which others may have changed.
Poll(p) ==
    /\ At(p, "poll")
    /\ cmd' \in {[cmd EXCEPT ![p] = c] : c \in {Idle, [Idle EXCEPT !.op = "login", !.pc = "acquire"]}}
    /\ UNCHANGED <<disk, safe, store, lock, fresh, torn>>

\* The old file: its credential is put into the store under its reference.
Migrate(p) ==
    /\ At(p, "load") /\ cmd[p].op # "logout" /\ disk = Legacy(LegacyRef)
    /\ fresh.secrets < MaxSecrets /\ fresh' = [fresh EXCEPT !.secrets = @ + 1]
    /\ cmd' = [cmd EXCEPT ![p] = [@ EXCEPT !.pc = "put", !.ref = LegacyRef,
                                           !.secret = fresh'.secrets, !.prev = No, !.first = FALSE]]
    /\ UNCHANGED <<disk, safe, store, lock, torn>>

\* A provider is configured: its reference is kept, its credential must be there.
Refresh(p) ==
    /\ At(p, "load") /\ cmd[p].op = "login" /\ disk.kind = "current" /\ ~Invalid
    /\ disk.provider # No /\ store[disk.provider] # No
    /\ fresh.secrets < MaxSecrets /\ fresh' = [fresh EXCEPT !.secrets = @ + 1]
    /\ cmd' = [cmd EXCEPT ![p] = [@ EXCEPT !.pc = "put", !.ref = disk.provider,
                                           !.secret = fresh'.secrets, !.prev = store[disk.provider]]]
    /\ UNCHANGED <<disk, safe, store, lock, torn>>

NewLogin(p) ==
    [cmd[p] EXCEPT !.ref = fresh.refs + 1, !.secret = fresh.secrets + 1, !.first = TRUE]

CanLogin(p) ==
    /\ At(p, "load") /\ cmd[p].op = "login" /\ disk = Current(No, No)
    /\ fresh.secrets < MaxSecrets /\ fresh.refs < MaxRefs
    /\ fresh' = [refs |-> fresh.refs + 1, secrets |-> fresh.secrets + 1]

\* (A mutant: the credential is stored before the file mentions it.)
StageUnwritten(p) ==
    /\ CanLogin(p)
    /\ cmd' = [cmd EXCEPT ![p] = [NewLogin(p) EXCEPT !.pc = "put"]]
    /\ UNCHANGED <<disk, safe, store, lock, torn>>

\* A first login writes the tombstone of its reference before anything else.
Stage(p) ==
    /\ CanLogin(p)
    /\ \/ /\ disk' = Current(No, fresh'.refs) /\ safe' = disk' /\ UNCHANGED lock
          /\ cmd' = [cmd EXCEPT ![p] = [NewLogin(p) EXCEPT !.pc = "put"]]
       \/ UNCHANGED <<disk, safe>> /\ Return(p)
       \/ disk' = Current(No, fresh'.refs) /\ UNCHANGED safe /\ Return(p)
    /\ UNCHANGED <<store, torn>>

-----------------------------------------------------------------------------
(* Login and migration, once the file names the reference *)

\* Unavailable, Invalid and TooLarge store nothing; after Failed nobody knows.
Put(p) ==
    /\ At(p, "put")
    /\ \/ PutMaybe(cmd[p].ref, cmd[p].secret) /\ Continue(p, "verify")
       \/ PutMaybe(cmd[p].ref, cmd[p].secret) /\ Continue(p, "rollback")
       \/ store' = store /\ ContinueOrReturn(p, IF cmd[p].first THEN "clear" ELSE "return")
    /\ UNCHANGED <<disk, safe, fresh, torn>>

\* verify_credential: the credential read back is the one written.
Verify(p) ==
    /\ At(p, "verify")
    /\ \/ /\ store[cmd[p].ref] = cmd[p].secret
          /\ ContinueOrReturn(p, IF cmd[p].prev # No THEN "return" ELSE "commit")
       \/ Continue(p, "rollback")
    /\ UNCHANGED <<disk, safe, store, fresh, torn>>

\* rollback_credential: the previous credential is put back, or none is left.
RollBackCredential(p) ==
    /\ At(p, "rollback")
    /\ LET next == IF cmd[p].first THEN "clear" ELSE "return"
       IN  IF cmd[p].prev # No
           THEN PutMaybe(cmd[p].ref, cmd[p].prev) /\ Return(p)
           ELSE DeleteVerified(p, cmd[p].ref, next, "return")
    /\ UNCHANGED <<disk, safe, fresh, torn>>

\* clear_staged_login_tombstone
Clear(p) ==
    /\ At(p, "clear")
    /\ WriteConfig(p, Current(No, No), "return", "return")
    /\ UNCHANGED <<store, fresh, torn>>

\* The provider replaces the tombstone, or the plaintext.  A write that failed
\* leaves a login to its tombstone; a migration takes the credential back.
Commit(p) ==
    /\ At(p, "commit")
    /\ WriteConfig(p, Current(cmd[p].ref, No),
                   IF cmd[p].first THEN "return" ELSE "loaded",
                   IF cmd[p].first THEN "return" ELSE "rollback")
    /\ UNCHANGED <<store, fresh, torn>>

-----------------------------------------------------------------------------
(* Logout: remove_local_credential_with_writer *)

\* A tombstone that is there already is worked off at once.
Resume(p) ==
    /\ At(p, "load") /\ cmd[p].op = "logout" /\ disk.pending # No /\ ~Invalid
    /\ cmd' = [cmd EXCEPT ![p] = [@ EXCEPT !.pc = "delete", !.ref = disk.pending]]
    /\ UNCHANGED <<disk, safe, store, lock, fresh, torn>>

\* (A mutant: the credential is deleted first.)
TombstoneUnwritten(p) ==
    /\ At(p, "load") /\ cmd[p].op = "logout" /\ disk.provider # No /\ ~Invalid
    /\ cmd' = [cmd EXCEPT ![p] = [@ EXCEPT !.pc = "delete", !.ref = disk.provider]]
    /\ UNCHANGED <<disk, safe, store, lock, fresh, torn>>

\* The provider, or the plaintext, makes way for a tombstone.
Tombstone(p) ==
    /\ At(p, "load") /\ cmd[p].op = "logout" /\ disk.provider # No /\ ~Invalid
    /\ \/ /\ disk' = Current(No, disk.provider) /\ safe' = disk' /\ UNCHANGED lock
          /\ cmd' = [cmd EXCEPT ![p] = [@ EXCEPT !.pc = "delete", !.ref = disk.provider]]
       \/ UNCHANGED <<disk, safe>> /\ Return(p)
       \/ disk' = Current(No, disk.provider) /\ UNCHANGED safe /\ Return(p)
    /\ UNCHANGED <<store, fresh, torn>>

Delete(p) ==
    /\ At(p, "delete")
    /\ DeleteVerified(p, cmd[p].ref, "clear", "return")
    /\ UNCHANGED <<disk, safe, fresh, torn>>

-----------------------------------------------------------------------------
(* Faults *)

\* The process is killed: the lock file is unlocked.
Kill(p) ==
    /\ cmd[p] # Idle
    /\ cmd' = [cmd EXCEPT ![p] = Idle] /\ lock' = IF lock = p THEN Nobody ELSE lock
    /\ UNCHANGED <<disk, safe, store, fresh, torn>>

PowerLoss ==
    /\ disk # safe
    /\ disk' = safe /\ torn' = TRUE
    /\ cmd' = [p \in Procs |-> Idle] /\ lock' = Nobody
    /\ UNCHANGED <<safe, store, fresh>>

CliNext ==
    \/ \E p \in Procs :
        \/ \E op \in {"open", "start", "logout"} : Command(p, op)
        \/ Acquire(p) \/ WriteDefault(p) \/ LoadCurrent(p) \/ RefuseCommand(p) \/ Request(p) \/ Poll(p)
        \/ Migrate(p) \/ Refresh(p) \/ Stage(p)
        \/ Put(p) \/ Verify(p) \/ RollBackCredential(p) \/ Clear(p) \/ Commit(p)
        \/ Resume(p) \/ Tombstone(p) \/ Delete(p)
        \/ Kill(p)
    \/ PowerLoss

CliSpec == CliInit /\ [][CliNext]_cliVars

-----------------------------------------------------------------------------
Names(config) == {config.provider, config.pending}

(***************************************************************************)
(* No credential is ever lost in the store: whatever failed, was killed or *)
(* lost its power, the file (and what a power loss would leave of it)      *)
(* names every credential there is, so that a logout can delete it.        *)
(***************************************************************************)
SecretsNamed == \A r \in Refs : store[r] # No => r \in Names(disk) \cap Names(safe)

(***************************************************************************)
(* A file that names a provider can be used: its credential is in the      *)
(* store.  Only a power loss that undid a logout's first write may break   *)
(* this (the next logout repairs it).                                      *)
(***************************************************************************)
ProviderHasSecret == (disk.kind = "current" /\ disk.provider # No /\ ~torn) => store[disk.provider] # No

\* Every credential is named by the file, and a provider that the file names has its
\* credential, whatever step of a login, a logout or a migration (config.rs) failed.
CredentialsSafe == SecretsNamed /\ ProviderHasSecret

-----------------------------------------------------------------------------
(* Why: what the file says at each place of a command *)

Configs ==
    {Missing, Legacy(No), Legacy(LegacyRef)} \cup {Current(r, No) : r \in Refs \cup {No}} \cup {Current(No, r) : r \in Refs}
Commands ==
    [op : {"none", "open", "start", "login", "logout"},
     pc : {"none", "acquire", "load", "request", "poll", "put", "verify", "rollback", "clear", "commit", "delete"},
     ref : Refs \cup {No}, secret : Nat, first : BOOLEAN, prev : Nat]

FilesOK ==
    /\ disk \in Configs /\ safe \in Configs /\ store \in [Refs -> Nat] /\ torn \in BOOLEAN
    /\ disk.kind = "legacy" => safe = disk
    /\ SecretsNamed /\ ProviderHasSecret

Holding == {"load", "put", "verify", "rollback", "clear", "commit", "delete"}

\* What the file says of a reference that is being stored: the tombstone of a first login, the
\* plaintext of a migration, or the provider whose credential is refreshed
BeingStored(c) ==
    /\ c.ref \in Refs \cap Names(safe) /\ c.secret # No
    /\ \/ c.first /\ c.prev = No /\ disk = Current(No, c.ref)
       \/ ~c.first /\ c.prev = No /\ disk = Legacy(c.ref)
       \/ ~c.first /\ c.prev # No /\ disk = Current(c.ref, No) /\ store[c.ref] # No

\* c is the command of the process that holds the lock.
InsideOK(c) ==
    /\ c.pc \in {"put", "verify", "rollback", "commit"} => BeingStored(c)
    /\ (c.pc = "put" /\ c.first) => store[c.ref] = No
    /\ c.pc = "commit" => (store[c.ref] # No /\ c.prev = No)
    /\ c.pc \in {"delete", "clear"} => (c.ref \in Refs /\ disk = Current(No, c.ref))
    /\ c.pc = "clear" => store[c.ref] = No

CommandOK(p) ==
    /\ lock = p <=> cmd[p].pc \in Holding
    /\ cmd[p].pc \in {"acquire", "load"} => (~cmd[p].first /\ cmd[p].prev = No)
    /\ InsideOK(cmd[p])

FreshOK == fresh \in [refs : Nat \ {0}, secrets : Nat] /\ fresh.refs <= MaxRefs

CliInv ==
    /\ FilesOK /\ FreshOK
    /\ cmd \in [Procs -> Commands] /\ \A p \in Procs : CommandOK(p)
=============================================================================
