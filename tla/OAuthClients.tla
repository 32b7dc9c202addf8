---------------------------- MODULE OAuthClients ----------------------------
(***************************************************************************)
(* The registry of OAuth clients and its file: HandleRegister of           *)
(* internal/gateway/oauth.go and internal/gateway/oauth_clients.go.        *)
(*                                                                         *)
(* A registration changes the registry in memory, writes all of it to a    *)
(* temporary file, moves the file to a backup, moves the temporary file    *)
(* into its place and removes the backup, holding OAuthProvider.mu; when a *)
(* step fails it takes the client back.  The process may be killed between *)
(* any two steps.  A file is a set of clients: the temporary file is synced *)
(* before it is moved, so none is read half written.                       *)
(***************************************************************************)
EXTENDS Integers, FiniteSets

CONSTANTS
    Clients,      \* client ids, as HandleRegister draws them
    MaxClients,   \* maxClients
    Errors,       \* file operations that may fail
    NoClient

ASSUME ClientsAssumption ==
    /\ IsFiniteSet(Clients)
    /\ MaxClients \in Nat \ {0}
    /\ Errors \subseteq {"write", "stat", "rename", "remove"}
    /\ NoClient \notin Clients

\* No such file: a value that is no set of clients.
Absent == {NoClient}

VARIABLES
    up,           \* the Gateway runs
    clients,      \* OAuthProvider.clients
    saving,       \* the client whose registration holds mu
    step,         \* how far writeOAuthClientsAtomic is
    hadPrimary,   \* its local variable
    tmp,          \* the temporary file
    primary,      \* the file at clientsFile
    backup,       \* the file at clientsFile.bak
    replying,     \* registered, the reply not written yet
    acked,        \* clients that were told 201
    refused       \* clients that were told 500 or 503

files == <<tmp, primary, backup>>
replies == <<replying, acked, refused>>
clientVars == <<up, clients, saving, step, hadPrimary, files, replies>>

Files == (SUBSET Clients) \cup {Absent}

ClientsTypeOK ==
    /\ up \in BOOLEAN
    /\ clients \subseteq Clients
    /\ saving \in Clients \cup {NoClient}
    /\ step \in {"idle", "write", "stat", "move", "install", "clean"}
    /\ hadPrimary \in BOOLEAN
    /\ tmp \in Files /\ primary \in Files /\ backup \in Files
    /\ replying \subseteq Clients /\ acked \subseteq Clients /\ refused \subseteq Clients

ClientsInit ==
    /\ up = TRUE /\ clients = {}
    /\ saving = NoClient /\ step = "idle" /\ hadPrimary = FALSE
    /\ tmp = Absent /\ primary = Absent /\ backup = Absent
    /\ replying = {} /\ acked = {} /\ refused = {}

\* OAuthProvider.mu can be taken.
Unlocked == up /\ saving = NoClient

Fails(operation) == operation \in Errors

----------------------------------------------------------------------------
(* HandleRegister and writeOAuthClientsAtomic. *)

New(c) == c \notin clients \cup replying \cup acked \cup refused

\* Variant of Register that lets one client too many in.
RegisterOneMore(c) ==
    /\ Unlocked
    /\ New(c)
    /\ Cardinality(clients) <= MaxClients
    /\ clients' = clients \cup {c}
    /\ saving' = c /\ step' = "write"
    /\ UNCHANGED <<up, hadPrimary, files, replies>>

Register(c) ==
    /\ Unlocked
    /\ New(c)
    /\ Cardinality(clients) < MaxClients
    /\ clients' = clients \cup {c}
    /\ saving' = c /\ step' = "write"
    /\ UNCHANGED <<up, hadPrimary, files, replies>>

RegistryFull(c) ==
    /\ Unlocked
    /\ New(c)
    /\ Cardinality(clients) >= MaxClients
    /\ refused' = refused \cup {c}
    /\ UNCHANGED <<up, clients, saving, step, hadPrimary, files, replying, acked>>

\* Variant of TakeBack that leaves the client in memory.
KeepUnsaved ==
    /\ refused' = refused \cup {saving}
    /\ saving' = NoClient /\ step' = "idle"
    /\ tmp' = Absent
    /\ UNCHANGED <<up, clients, replying, acked>>

\* saveClientsLocked returns an error, having removed the temporary file.
TakeBack ==
    /\ clients' = clients \ {saving}
    /\ refused' = refused \cup {saving}
    /\ saving' = NoClient /\ step' = "idle"
    /\ tmp' = Absent
    /\ UNCHANGED <<up, replying, acked>>

Continue(next) == step' = next /\ UNCHANGED <<up, clients, saving, replies>>

WriteTemp ==
    /\ step = "write"
    /\ \/ Continue("stat") /\ tmp' = clients
       \/ Fails("write") /\ TakeBack
    /\ UNCHANGED <<hadPrimary, primary, backup>>

\* Whether there is a file decides on the backup; an old backup is removed first,
\* and if that fails it is overwritten.
StatPrimary ==
    /\ step = "stat"
    /\ hadPrimary' = (primary # Absent)
    /\ \/ primary # Absent /\ Continue("move") /\ (backup' = Absent \/ (Fails("remove") /\ UNCHANGED backup))
       \/ primary = Absent /\ Continue("install") /\ UNCHANGED backup
    /\ UNCHANGED <<tmp, primary>>

StatFails ==
    /\ step = "stat"
    /\ Fails("stat") /\ TakeBack
    /\ UNCHANGED <<hadPrimary, primary, backup>>

MoveToBackup ==
    /\ step = "move"
    /\ \/ Continue("install") /\ backup' = primary /\ primary' = Absent /\ UNCHANGED tmp
       \/ Fails("rename") /\ TakeBack /\ UNCHANGED <<primary, backup>>
    /\ UNCHANGED hadPrimary

\* Variant of Restore that discards the backup of a failed installation.
Discard == backup' = Absent /\ UNCHANGED primary

\* The backup moves back, if there was a file and the move succeeds.
Restore ==
    \/ hadPrimary /\ primary' = backup /\ backup' = Absent
    \/ ~hadPrimary /\ UNCHANGED <<primary, backup>>
    \/ Fails("rename") /\ UNCHANGED <<primary, backup>>

Install ==
    /\ step = "install"
    /\ \/ Continue("clean") /\ primary' = tmp /\ tmp' = Absent /\ UNCHANGED backup
       \/ Fails("rename") /\ TakeBack /\ Restore
    /\ UNCHANGED hadPrimary

RemoveBackup ==
    /\ step = "clean"
    /\ backup' = Absent \/ (Fails("remove") /\ UNCHANGED backup)
    /\ replying' = replying \cup {saving}
    /\ saving' = NoClient /\ step' = "idle"
    /\ UNCHANGED <<up, clients, hadPrimary, tmp, primary, acked, refused>>

Reply(c) ==
    /\ c \in replying
    /\ replying' = replying \ {c}
    /\ acked' = acked \cup {c}
    /\ UNCHANGED <<up, clients, saving, step, hadPrimary, files, refused>>

----------------------------------------------------------------------------
(* The process is killed and started again. *)

Crash ==
    /\ up
    /\ up' = FALSE
    /\ clients' = {} /\ saving' = NoClient /\ step' = "idle" /\ replying' = {}
    /\ UNCHANGED <<hadPrimary, files, acked, refused>>

\* Variant of Loaded that knows no backup.
LoadedPrimary(file, bak) == IF file = Absent THEN {} ELSE file

\* readOAuthClientsState: the file, else the backup, else nothing.
Loaded(file, bak) ==
    CASE file # Absent -> file
      [] file = Absent /\ bak # Absent -> bak
      [] OTHER -> {}

Loadable == Loaded(primary, backup)

\* NewPersistentOAuthProvider; loadClients refuses a file with too many clients.
Restart ==
    /\ ~up
    /\ Cardinality(Loadable) <= MaxClients
    /\ up' = TRUE
    /\ clients' = Loadable
    /\ UNCHANGED <<saving, step, hadPrimary, files, replies>>

----------------------------------------------------------------------------
SaveStep == WriteTemp \/ StatPrimary \/ StatFails \/ MoveToBackup \/ Install \/ RemoveBackup

ClientsNext ==
    \/ \E c \in Clients : Register(c) \/ RegistryFull(c) \/ Reply(c)
    \/ SaveStep

ClientsSpec == ClientsInit /\ [][ClientsNext \/ Crash \/ Restart]_clientVars

----------------------------------------------------------------------------
(* Properties. *)

\* A client that was told of its registration is loaded by every later start, also
\* when the process dies, or an operation fails, in the middle of a later save.
AcknowledgedSurvive == acked \subseteq Loadable

\* A client that was told its registration failed is never loaded again: no failed
\* save leaves it in a file, or in memory for the next save to write.
RefusedStayOut == refused \cap (Loadable \cup clients) = {}

\* Whenever the lock is free, memory and what a restart would load are the same.
MemoryMatchesFile == Unlocked => clients = Loadable
============================================================================
