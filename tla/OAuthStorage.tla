---------------------------- MODULE OAuthStorage ---------------------------
(***************************************************************************)
(* The clients file of OAuthClients on a disk that can lose power.  The    *)
(* code syncs the temporary file before it moves it but never the          *)
(* directory, so the moves and removals of a save become durable later, in *)
(* the order they were made: a power failure brings back the directory as  *)
(* it was after any operation since the last time it was written back.     *)
(***************************************************************************)
EXTENDS OAuthClients

VARIABLES
    journal,   \* what a power failure may leave: pairs of the file and its backup
    settled    \* what a start would load from the directory last written back

storageVars == <<clientVars, journal, settled>>

Directory == <<primary, backup>>

StorageTypeOK ==
    /\ ClientsTypeOK
    /\ journal \subseteq Files \X Files
    /\ settled \subseteq Clients

StorageInit ==
    /\ ClientsInit
    /\ journal = {Directory} /\ settled = {}

\* Variant of OnDisk for a temporary file that is moved without a sync.
OnDiskUnsynced(file) == {file, Absent}

\* What is on the disk under a name that was moved there: the content was synced
\* before, so all of it.
OnDisk(file) == {file}

\* A step of the Gateway, killed processes and restarts included.
RunStep ==
    /\ ClientsNext \/ Crash \/ Restart
    /\ journal' = journal \cup (OnDisk(primary') \X OnDisk(backup'))
    /\ UNCHANGED settled

\* The operating system writes the directory back.
WriteBack ==
    /\ journal' = {Directory}
    /\ settled' = Loadable
    /\ UNCHANGED clientVars

PowerFailure ==
    /\ \E d \in journal : primary' = d[1] /\ backup' = d[2]
    /\ up' = FALSE
    /\ clients' = {} /\ saving' = NoClient /\ step' = "idle" /\ replying' = {}
    /\ tmp' = Absent
    /\ journal' = {Directory'}
    /\ settled' = Loadable'
    /\ UNCHANGED <<hadPrimary, acked, refused>>

StorageNext == RunStep \/ WriteBack \/ PowerFailure

StorageSpec == StorageInit /\ [][StorageNext]_storageVars

----------------------------------------------------------------------------
(* Properties. *)

\* A power failure costs recent registrations at most: whatever it leaves of the
\* moves and removals of any number of saves, every client that was there when the
\* directory was last written back is loaded, and none that was taken back.
OnlyRecentLost ==
    \A d \in journal : settled \subseteq Loaded(d[1], d[2]) /\ Loaded(d[1], d[2]) \subseteq Loadable

\* The Gateway can always start again: no kill, failed save or power failure leaves
\* a file with more clients than loadClients accepts, though the limit is checked on
\* the registry in memory and not on the file.
EveryStartSucceeds == \A d \in journal : Cardinality(Loaded(d[1], d[2])) <= MaxClients

Store == INSTANCE ClientStore WITH
    Capacity <- MaxClients, known <- Loadable, told <- acked, denied <- refused

\* The clients file keeps the promises of ClientStore through failed operations,
\* kills, restarts and power failures: a client is told of its registration once it
\* is stored, or of the failure if it never will be.
ImplementsStore == Store!Spec
============================================================================
