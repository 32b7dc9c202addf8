---------------------------- MODULE OAuthProofs ----------------------------
(***************************************************************************)
(* What OAuthClients, OAuthStorage and OAuthProvider promise, for any      *)
(* number of clients, codes and redirect URIs and whatever file operations *)
(* fail.                                                                   *)
(*                                                                         *)
(* The registry comes first, on its own.  The provider's behaviours are    *)
(* behaviours of the registry (Layered), so its invariants carry over; the *)
(* codes and tokens then rest on one fact more, that no step takes a       *)
(* client out of what a restart would load.  A power failure does, so the  *)
(* disk rests on RegistryCore, which is Registry without that promise.     *)
(***************************************************************************)
EXTENDS OAuthProvider, OAuthStorage, FiniteSetTheorems, TLAPS

\* What a save has done so far, step by step: until the new file is in place a
\* restart loads the registry without the client being saved, and from then on
\* with it.
SaveProgress ==
    /\ saving = NoClient <=> step = "idle"
    /\ step # "idle" =>
        /\ up
        /\ saving \in clients
        /\ saving \notin replying \cup acked \cup refused
    /\ step \in {"write", "stat", "move", "install"} => Loadable = clients \ {saving}
    /\ step \in {"stat", "move", "install"} => tmp = clients
    /\ step = "move" => primary # Absent /\ hadPrimary
    /\ step = "install" => primary = Absent /\ (hadPrimary => backup # Absent)
    /\ step = "clean" => primary = clients

\* What holds of the registry whatever it has lost.
RegistryCore ==
    /\ ClientsTypeOK
    /\ SaveProgress
    /\ ~up => clients = {} /\ replying = {}
    /\ MemoryMatchesFile
    /\ replying \subseteq Loadable
    /\ refused \cap Loadable = {}
    /\ refused \cap clients = {}

\* The inductive invariant of the registry.
Registry == RegistryCore /\ acked \subseteq Loadable

\* What a restart would load changes when the new file is installed, and in no other
\* step.
Grows ==
    \/ Loadable' = Loadable
    \/ /\ step = "install" /\ step' = "clean"
       /\ Loadable' = Loadable \cup {saving} /\ Loadable' = clients
       /\ UNCHANGED <<clients, acked, refused>>

RegistryStep == ClientsNext \/ Crash \/ Restart

\* No content of a file is mistaken for a missing one.
LEMMA AbsentIsNoContent == \A S \in SUBSET Clients : S # Absent
  BY ClientsAssumption DEF ClientsAssumption, Absent

\* What a file may be.
LEMMA FileContents ==
    /\ Absent \in Files
    /\ \A S \in SUBSET Clients : S \in Files
    /\ \A f \in Files : f # Absent => f \subseteq Clients
  <1>1. Absent \in Files
    BY DEF Files
  <1>2. \A S \in SUBSET Clients : S \in Files
    BY DEF Files
  <1>3. ASSUME NEW f \in Files, f # Absent
        PROVE  f \subseteq Clients
    <2>1. f \in SUBSET Clients
      BY <1>3 DEF Files
    <2> QED BY <2>1
  <1> QED BY <1>1, <1>2, <1>3

\* readOAuthClientsState loads the file, or else the backup, or nothing.
LEMMA LoadableCases ==
    /\ primary # Absent => Loadable = primary
    /\ primary = Absent /\ backup # Absent => Loadable = backup
    /\ primary = Absent /\ backup = Absent => Loadable = {}
  BY DEF Loadable, Loaded

LEMMA RegistryInit == ClientsInit => Registry
  BY LoadableCases, FileContents DEF ClientsInit, Registry, RegistryCore, ClientsTypeOK, SaveProgress,
     MemoryMatchesFile, Unlocked

LEMMA LoadableCasesNext ==
    /\ primary' # Absent => Loadable' = primary'
    /\ primary' = Absent /\ backup' # Absent => Loadable' = backup'
    /\ primary' = Absent /\ backup' = Absent => Loadable' = {}
  BY DEF Loadable, Loaded, Absent

\* A step that leaves both files alone leaves what a restart would load.
LEMMA SameFiles == UNCHANGED <<primary, backup>> => Loadable' = Loadable
  BY DEF Loadable, Loaded, Absent

\* A save that fails with the files still without the client ends well.
LEMMA TakeBackKeeps ==
    ASSUME RegistryCore, TakeBack, step \in {"write", "stat", "move", "install"},
           Loadable' = Loadable, primary' \in Files, backup' \in Files, hadPrimary' = hadPrimary
    PROVE  RegistryCore' /\ Grows
  <1>1. saving \in Clients /\ saving # NoClient /\ up /\ Loadable = clients \ {saving}
    BY ClientsAssumption DEF RegistryCore, SaveProgress, ClientsTypeOK, ClientsAssumption
  <1>2. ClientsTypeOK'
    BY <1>1, FileContents DEF RegistryCore, ClientsTypeOK, TakeBack
  <1>3. SaveProgress'
    BY <1>1 DEF TakeBack, SaveProgress
  <1>4. MemoryMatchesFile'
    BY <1>1 DEF TakeBack, MemoryMatchesFile
  <1>5. (refused \cap Loadable = {} /\ refused \cap clients = {})'
    BY <1>1 DEF TakeBack, RegistryCore
  <1> QED BY <1>1, <1>2, <1>3, <1>4, <1>5 DEF TakeBack, RegistryCore, Grows

LEMMA CorePreserved ==
    ASSUME RegistryCore, [RegistryStep]_clientVars
    PROVE  RegistryCore' /\ Grows
  <1> USE ClientsAssumption
  <1>1. CASE UNCHANGED clientVars
    BY <1>1, SameFiles DEF clientVars, files, replies, RegistryCore, ClientsTypeOK, SaveProgress,
       MemoryMatchesFile, Unlocked, Absent, Grows
  <1>2. ASSUME NEW c \in Clients, Register(c)
        PROVE  RegistryCore' /\ Grows
    <2>1. Loadable' = Loadable
      BY <1>2, SameFiles DEF Register, files
    <2>2. saving = NoClient /\ step = "idle" /\ up /\ clients = Loadable
      BY <1>2 DEF Register, Unlocked, RegistryCore, SaveProgress, MemoryMatchesFile
    <2>3. c # NoClient /\ c \notin clients \cup replying \cup acked \cup refused
      BY <1>2 DEF Register, New, ClientsAssumption
    <2>4. ClientsTypeOK'
      BY <1>2, FileContents DEF Register, RegistryCore, ClientsTypeOK, files, replies
    <2>5. SaveProgress'
      BY <1>2, <2>1, <2>2, <2>3 DEF Register, SaveProgress, files, replies
    <2>6. MemoryMatchesFile'
      BY <1>2, <2>3 DEF Register, MemoryMatchesFile, Unlocked
    <2> QED BY <1>2, <2>1, <2>2, <2>3, <2>4, <2>5, <2>6 DEF Register, RegistryCore, replies, Grows
  <1>3. ASSUME NEW c \in Clients, RegistryFull(c)
        PROVE  RegistryCore' /\ Grows
    <2>1. Loadable' = Loadable
      BY <1>3, SameFiles DEF RegistryFull, files
    <2>2. saving = NoClient /\ step = "idle" /\ up /\ clients = Loadable
      BY <1>3 DEF RegistryFull, Unlocked, RegistryCore, SaveProgress, MemoryMatchesFile
    <2>3. c \notin clients
      BY <1>3 DEF RegistryFull, New
    <2>4. ClientsTypeOK'
      BY <1>3, FileContents DEF RegistryFull, RegistryCore, ClientsTypeOK, files
    <2>5. SaveProgress' /\ MemoryMatchesFile'
      BY <1>3, <2>1, <2>2 DEF RegistryFull, SaveProgress, MemoryMatchesFile, Unlocked, files
    <2> QED BY <1>3, <2>1, <2>2, <2>3, <2>4, <2>5 DEF RegistryFull, RegistryCore, Grows
  <1>4. ASSUME NEW c \in Clients, Reply(c)
        PROVE  RegistryCore' /\ Grows
    <2>1. Loadable' = Loadable
      BY <1>4, SameFiles DEF Reply, files
    <2>2. ClientsTypeOK'
      BY <1>4, FileContents DEF Reply, RegistryCore, ClientsTypeOK, files
    <2>3. SaveProgress' /\ MemoryMatchesFile'
      BY <1>4, <2>1 DEF Reply, RegistryCore, SaveProgress, MemoryMatchesFile, Unlocked, files, Absent
    <2> QED BY <1>4, <2>1, <2>2, <2>3 DEF Reply, RegistryCore, Grows
  <1>5. CASE WriteTemp
    <2>1. Loadable' = Loadable
      BY <1>5, SameFiles DEF WriteTemp
    <2>2. CASE TakeBack
      BY <1>5, <2>1, <2>2, TakeBackKeeps DEF WriteTemp, RegistryCore, ClientsTypeOK
    <2>3. CASE Continue("stat") /\ tmp' = clients
      <3>1. ClientsTypeOK'
        BY <1>5, <2>3, FileContents DEF WriteTemp, Continue, RegistryCore, ClientsTypeOK, replies
      <3>2. SaveProgress' /\ MemoryMatchesFile'
        BY <1>5, <2>1, <2>3 DEF WriteTemp, Continue, RegistryCore, SaveProgress, MemoryMatchesFile,
           Unlocked, replies
      <3> QED BY <1>5, <2>1, <2>3, <3>1, <3>2 DEF WriteTemp, Continue, RegistryCore, replies, Grows
    <2> QED BY <1>5, <2>2, <2>3 DEF WriteTemp
  <1>6. CASE StatFails
    <2>1. Loadable' = Loadable
      BY <1>6, SameFiles DEF StatFails
    <2> QED BY <1>6, <2>1, TakeBackKeeps DEF StatFails, RegistryCore, ClientsTypeOK
  <1>7. CASE StatPrimary
    <2>1. Loadable' = Loadable
      BY <1>7, LoadableCases, LoadableCasesNext DEF StatPrimary, Absent
    <2>2. ClientsTypeOK'
      BY <1>7, FileContents DEF StatPrimary, Continue, RegistryCore, ClientsTypeOK, replies
    <2>3. SaveProgress' /\ MemoryMatchesFile'
      BY <1>7, <2>1 DEF StatPrimary, Continue, RegistryCore, SaveProgress, MemoryMatchesFile, Unlocked,
         replies, Absent
    <2> QED BY <1>7, <2>1, <2>2, <2>3 DEF StatPrimary, Continue, RegistryCore, replies, Grows
  <1>8. CASE MoveToBackup
    <2>1. primary # Absent
      BY <1>8 DEF MoveToBackup, RegistryCore, SaveProgress
    <2>2. Loadable' = Loadable
      BY <1>8, <2>1, LoadableCases, LoadableCasesNext DEF MoveToBackup, Absent
    <2>3. CASE TakeBack /\ UNCHANGED <<primary, backup>>
      BY <1>8, <2>2, <2>3, TakeBackKeeps DEF MoveToBackup, RegistryCore, ClientsTypeOK
    <2>4. CASE Continue("install") /\ backup' = primary /\ primary' = Absent /\ UNCHANGED tmp
      <3>1. ClientsTypeOK'
        BY <1>8, <2>4, FileContents DEF MoveToBackup, Continue, RegistryCore, ClientsTypeOK, replies
      <3>2. SaveProgress' /\ MemoryMatchesFile'
        BY <1>8, <2>1, <2>2, <2>4 DEF MoveToBackup, Continue, RegistryCore, SaveProgress,
           MemoryMatchesFile, Unlocked, replies, Absent
      <3> QED BY <1>8, <2>2, <2>4, <3>1, <3>2 DEF MoveToBackup, Continue, RegistryCore, replies, Grows
    <2> QED BY <1>8, <2>3, <2>4 DEF MoveToBackup
  <1>9. CASE Install
    <2>1. /\ saving \in Clients /\ saving \in clients /\ up
          /\ primary = Absent /\ (hadPrimary => backup # Absent)
          /\ Loadable = clients \ {saving} /\ tmp = clients /\ clients # Absent
      BY <1>9, AbsentIsNoContent DEF Install, RegistryCore, SaveProgress, ClientsTypeOK,
         ClientsAssumption
    <2>2. CASE TakeBack /\ Restore
      <3>1. Loadable' = Loadable
        BY <2>1, <2>2, LoadableCases, LoadableCasesNext DEF Restore, Absent
      <3>2. primary' \in Files /\ backup' \in Files
        BY <2>2, FileContents DEF Restore, RegistryCore, ClientsTypeOK
      <3> QED BY <1>9, <2>2, <3>1, <3>2, TakeBackKeeps DEF Install
    <2>3. CASE Continue("clean") /\ primary' = tmp /\ tmp' = Absent /\ UNCHANGED backup
      <3>1. Loadable' = clients
        BY <2>1, <2>3, LoadableCasesNext DEF Absent
      <3>2. ClientsTypeOK'
        BY <1>9, <2>3, FileContents DEF Install, Continue, RegistryCore, ClientsTypeOK, replies
      <3>3. SaveProgress' /\ MemoryMatchesFile'
        BY <1>9, <2>1, <2>3 DEF Install, Continue, RegistryCore, SaveProgress, MemoryMatchesFile,
           Unlocked, replies
      <3> QED BY <1>9, <2>1, <2>3, <3>1, <3>2, <3>3 DEF Install, Continue, RegistryCore, replies, Grows
    <2> QED BY <1>9, <2>2, <2>3 DEF Install
  <1>10. CASE RemoveBackup
    <2>1. /\ saving \in clients /\ saving \in Clients /\ saving \notin acked \cup refused /\ up
          /\ primary = clients /\ clients # Absent
      BY <1>10, AbsentIsNoContent DEF RemoveBackup, RegistryCore, SaveProgress, ClientsTypeOK
    <2>2. Loadable = clients /\ Loadable' = clients
      BY <1>10, <2>1, LoadableCases, LoadableCasesNext DEF RemoveBackup, Absent
    <2>3. ClientsTypeOK'
      BY <1>10, <2>1, FileContents DEF RemoveBackup, RegistryCore, ClientsTypeOK
    <2>4. SaveProgress' /\ MemoryMatchesFile'
      BY <1>10, <2>1, <2>2 DEF RemoveBackup, SaveProgress, MemoryMatchesFile, Unlocked
    <2> QED BY <1>10, <2>1, <2>2, <2>3, <2>4 DEF RemoveBackup, RegistryCore, Grows
  <1>11. CASE Crash
    <2>1. Loadable' = Loadable
      BY <1>11, SameFiles DEF Crash, files
    <2>2. ClientsTypeOK'
      BY <1>11, FileContents DEF Crash, RegistryCore, ClientsTypeOK, files
    <2>3. SaveProgress' /\ MemoryMatchesFile'
      BY <1>11 DEF Crash, SaveProgress, MemoryMatchesFile, Unlocked
    <2> QED BY <1>11, <2>1, <2>2, <2>3 DEF Crash, RegistryCore, Grows
  <1>12. CASE Restart
    <2>1. Loadable' = Loadable
      BY <1>12, SameFiles DEF Restart, files
    <2>2. Loadable \subseteq Clients
      BY LoadableCases, FileContents DEF RegistryCore, ClientsTypeOK
    <2>3. saving = NoClient /\ step = "idle"
      BY <1>12 DEF Restart, RegistryCore, SaveProgress
    <2>4. ClientsTypeOK'
      BY <1>12, <2>2, FileContents DEF Restart, RegistryCore, ClientsTypeOK, files, replies
    <2>5. SaveProgress' /\ MemoryMatchesFile'
      BY <1>12, <2>1, <2>3 DEF Restart, SaveProgress, MemoryMatchesFile, Unlocked
    <2> QED BY <1>12, <2>1, <2>4, <2>5 DEF Restart, RegistryCore, replies, Grows
  <1> QED
    BY <1>1, <1>2, <1>3, <1>4, <1>5, <1>7, <1>8, <1>9, <1>10, <1>11, <1>12, <1>6
    DEF RegistryStep, ClientsNext, SaveStep

LEMMA RegistryPreserved ==
    ASSUME Registry, [RegistryStep]_clientVars
    PROVE  Registry' /\ Loadable \subseteq Loadable'
  <1>1. RegistryCore' /\ Loadable \subseteq Loadable'
    BY CorePreserved DEF Registry, Grows
  <1>2. acked' \subseteq Loadable
    BY DEF Registry, RegistryCore, RegistryStep, ClientsNext, clientVars, replies, Register, RegistryFull,
       Reply, SaveStep, WriteTemp, StatPrimary, StatFails, MoveToBackup, Install, RemoveBackup,
       Continue, TakeBack, Crash, Restart
  <1> QED BY <1>1, <1>2 DEF Registry

\* The registry keeps its promises, whatever operations fail and whenever the
\* process is killed: what clients were told of is on disk, what they were refused
\* is not, and memory agrees with the disk whenever the lock is free.
THEOREM RegistryCorrect ==
    ClientsSpec => [](AcknowledgedSurvive /\ RefusedStayOut /\ MemoryMatchesFile)
  <1>1. ClientsInit => Registry
    BY RegistryInit
  <1>2. Registry /\ [RegistryStep]_clientVars => Registry'
    BY RegistryPreserved
  <1>3. Registry => AcknowledgedSurvive /\ RefusedStayOut /\ MemoryMatchesFile
    BY DEF Registry, RegistryCore, AcknowledgedSurvive, RefusedStayOut
  <1> QED BY <1>1, <1>2, <1>3, PTL DEF ClientsSpec, RegistryStep

----------------------------------------------------------------------------
(* The disk. *)

Fits == Cardinality(clients) <= MaxClients /\ Cardinality(Loadable) <= MaxClients

\* The inductive invariant of the storage.
Stored ==
    /\ RegistryCore
    /\ Fits
    /\ journal \subseteq Files \X Files
    /\ settled \subseteq Loadable
    /\ OnlyRecentLost

\* A set of clients is finite, and a part of it no larger.
LEMMA ClientsFinite ==
    ASSUME NEW S \in SUBSET Clients, NEW T \in SUBSET S
    PROVE  /\ IsFiniteSet(S) /\ Cardinality(S) \in Nat
           /\ Cardinality(T) \in Nat /\ Cardinality(T) <= Cardinality(S)
  <1>1. IsFiniteSet(S)
    BY ClientsAssumption, FS_Subset DEF ClientsAssumption
  <1>2. IsFiniteSet(T) /\ Cardinality(T) <= Cardinality(S)
    BY <1>1, FS_Subset
  <1> QED BY <1>1, <1>2, FS_CardinalityType

LEMMA LoadableClients == RegistryCore => Loadable \subseteq Clients /\ clients \subseteq Clients
  BY LoadableCases, FileContents DEF RegistryCore, ClientsTypeOK

\* The registry is full at MaxClients, and what is saved is the registry.
LEMMA FitsPreserved ==
    ASSUME RegistryCore, Fits, [RegistryStep]_clientVars
    PROVE  Fits'
  <1>1. Loadable \in SUBSET Clients /\ clients \in SUBSET Clients
    BY LoadableClients
  <1>2. Cardinality(clients') <= MaxClients
    <2>1. ASSUME NEW c \in Clients, Register(c)
          PROVE  Cardinality(clients') <= MaxClients
      <3>1. IsFiniteSet(clients) /\ Cardinality(clients) \in Nat
        BY <1>1, ClientsFinite
      <3>2. \/ Cardinality(clients \cup {c}) = Cardinality(clients)
            \/ Cardinality(clients \cup {c}) = Cardinality(clients) + 1
        BY <3>1, FS_AddElement
      <3> QED
        BY <2>1, <3>1, <3>2, ClientsAssumption DEF Register, ClientsAssumption
    <2>2. CASE Restart
      BY <2>2 DEF Restart
    <2>3. CASE clients' \subseteq clients
      <3>1. Cardinality(clients') <= Cardinality(clients) /\ Cardinality(clients') \in Nat
            /\ Cardinality(clients) \in Nat
        BY <1>1, <2>3, ClientsFinite
      <3> QED BY <3>1, ClientsAssumption DEF Fits, ClientsAssumption
    <2>4. \/ \E c \in Clients : Register(c)
          \/ Restart
          \/ clients' \subseteq clients
      BY DEF RegistryStep, ClientsNext, clientVars, RegistryFull, Reply, SaveStep, WriteTemp,
         StatPrimary, StatFails, MoveToBackup, Install, RemoveBackup, Continue, TakeBack, Crash
    <2> QED BY <2>1, <2>2, <2>3, <2>4
  <1>3. Loadable' = Loadable \/ Loadable' = clients
    BY CorePreserved DEF Grows
  <1> QED BY <1>2, <1>3 DEF Fits

\* What a power failure may leave is loaded like any file.
LEMMA LoadedNow == Loaded(primary, backup) = Loadable
  BY DEF Loadable

LEMMA RunStepStored ==
    ASSUME Stored, RunStep
    PROVE  Stored'
  <1>1. [RegistryStep]_clientVars
    BY DEF RunStep, RegistryStep
  <1>2. RegistryCore' /\ Fits' /\ Loadable \subseteq Loadable'
    BY <1>1, CorePreserved, FitsPreserved DEF Stored, Grows
  <1>3. journal' = journal \cup {<<primary', backup'>>} /\ settled' = settled
    BY DEF RunStep, OnDisk
  <1>4. (journal \subseteq Files \X Files)'
    BY <1>2, <1>3 DEF Stored, RegistryCore, ClientsTypeOK
  <1>5. OnlyRecentLost'
    <2> SUFFICES ASSUME NEW d \in journal'
                 PROVE  settled \subseteq Loaded(d[1], d[2]) /\ Loaded(d[1], d[2]) \subseteq Loadable'
      BY <1>3 DEF OnlyRecentLost, Loaded, Absent
    <2>1. CASE d \in journal
      BY <1>2, <2>1 DEF Stored, OnlyRecentLost
    <2>2. CASE d = <<primary', backup'>>
      <3>1. Loaded(d[1], d[2]) = Loadable'
        BY <2>2 DEF Loadable, Loaded, Absent
      <3> QED BY <1>2, <3>1 DEF Stored
    <2> QED BY <1>3, <2>1, <2>2
  <1> QED BY <1>2, <1>3, <1>4, <1>5 DEF Stored

LEMMA WriteBackStored ==
    ASSUME Stored, WriteBack
    PROVE  Stored'
  <1>1. RegistryCore' /\ Fits' /\ Loadable' = Loadable
    BY CorePreserved, FitsPreserved, SameFiles DEF Stored, WriteBack, clientVars, files
  <1>2. journal' = {<<primary, backup>>} /\ settled' = Loadable
    BY DEF WriteBack, Directory
  <1>3. OnlyRecentLost'
    BY <1>1, <1>2, LoadedNow DEF OnlyRecentLost, Loaded, Absent
  <1> QED BY <1>1, <1>2, <1>3 DEF Stored, RegistryCore, ClientsTypeOK

\* A power failure takes settled clients from nobody and gives nobody back.
LEMMA PowerFailureLoses ==
    ASSUME Stored, PowerFailure
    PROVE  /\ settled \subseteq Loadable' /\ Loadable' \subseteq Loadable
           /\ primary' \in Files /\ backup' \in Files
  <1>1. PICK d \in journal : primary' = d[1] /\ backup' = d[2]
    BY DEF PowerFailure
  <1>2. Loaded(d[1], d[2]) = Loadable'
    BY <1>1 DEF Loadable, Loaded, Absent
  <1> QED BY <1>1, <1>2 DEF Stored, OnlyRecentLost

LEMMA PowerFailureStored ==
    ASSUME Stored, PowerFailure
    PROVE  Stored'
  <1>1. /\ up' = FALSE /\ clients' = {} /\ saving' = NoClient /\ step' = "idle" /\ replying' = {}
        /\ tmp' = Absent /\ UNCHANGED <<hadPrimary, acked, refused>>
        /\ journal' = {<<primary', backup'>>} /\ settled' = Loadable'
    BY DEF PowerFailure, Directory
  <1>2. RegistryCore'
    <2>1. ClientsTypeOK'
      BY <1>1, PowerFailureLoses, FileContents DEF Stored, RegistryCore, ClientsTypeOK
    <2>2. SaveProgress' /\ MemoryMatchesFile'
      BY <1>1 DEF SaveProgress, MemoryMatchesFile, Unlocked
    <2> QED BY <1>1, <2>1, <2>2, PowerFailureLoses DEF Stored, RegistryCore
  <1>3. Fits'
    <2>1. Loadable \in SUBSET Clients /\ Loadable' \in SUBSET Loadable
      BY LoadableClients, PowerFailureLoses DEF Stored
    <2>2. Cardinality(Loadable') <= Cardinality(Loadable)
          /\ Cardinality(Loadable') \in Nat /\ Cardinality(Loadable) \in Nat
      BY <2>1, ClientsFinite
    <2>3. Cardinality(clients') = 0
      BY <1>1, FS_EmptySet
    <2> QED BY <2>2, <2>3, ClientsAssumption DEF Stored, Fits, ClientsAssumption
  <1>4. OnlyRecentLost'
    BY <1>1 DEF OnlyRecentLost, Loadable, Loaded, Absent
  <1> QED BY <1>1, <1>2, <1>3, <1>4, PowerFailureLoses DEF Stored

LEMMA StoredInit == StorageInit => Stored
  <1> SUFFICES ASSUME StorageInit PROVE Stored
    OBVIOUS
  <1>1. RegistryCore /\ Loadable = {}
    BY RegistryInit, LoadableCases DEF StorageInit, ClientsInit, Registry
  <1>2. Fits
    BY <1>1, FS_EmptySet, ClientsAssumption
    DEF Fits, StorageInit, ClientsInit, ClientsAssumption
  <1>3. OnlyRecentLost
    BY <1>1, LoadedNow DEF StorageInit, Directory, OnlyRecentLost
  <1> QED
    BY <1>1, <1>2, <1>3 DEF Stored, StorageInit, Directory, RegistryCore, ClientsTypeOK

LEMMA StoredPreserved ==
    ASSUME Stored, [StorageNext]_storageVars
    PROVE  Stored'
  <1>1. CASE UNCHANGED storageVars
    <2>1. RegistryCore' /\ Fits' /\ Loadable' = Loadable
      BY <1>1, CorePreserved, FitsPreserved, SameFiles DEF Stored, storageVars, clientVars, files
    <2>2. OnlyRecentLost'
      BY <1>1, <2>1 DEF Stored, OnlyRecentLost, storageVars, Loaded, Absent
    <2> QED BY <1>1, <2>1, <2>2 DEF Stored, storageVars, Files, Absent
  <1> QED
    BY <1>1, RunStepStored, WriteBackStored, PowerFailureStored DEF StorageNext

LEMMA StorageInvariant == StorageSpec => []Stored
  BY StoredInit, StoredPreserved, PTL DEF StorageSpec

\* Every variable keeps its type on a disk that loses power.
THEOREM StorageTypeCorrect == StorageSpec => []StorageTypeOK
  <1>1. Stored => StorageTypeOK
    BY LoadableClients DEF Stored, RegistryCore, StorageTypeOK
  <1> QED BY <1>1, StorageInvariant, PTL

\* For any number of clients and whatever fails: a power failure brings back a
\* registry between the one last written back and the current one.
THEOREM RecentLossOnly == StorageSpec => []OnlyRecentLost
  <1>1. Stored => OnlyRecentLost
    BY DEF Stored
  <1> QED BY <1>1, StorageInvariant, PTL

\* Whatever a power failure leaves, loadClients accepts it.
THEOREM StartsSucceed == StorageSpec => []EveryStartSucceeds
  <1>1. ASSUME Stored PROVE EveryStartSucceeds
    <2> SUFFICES ASSUME NEW d \in journal
                 PROVE  Cardinality(Loaded(d[1], d[2])) <= MaxClients
      BY DEF EveryStartSucceeds
    <2>1. Loadable \in SUBSET Clients /\ Loaded(d[1], d[2]) \in SUBSET Loadable
      BY <1>1, LoadableClients DEF Stored, OnlyRecentLost
    <2> DEFINE left == Loaded(d[1], d[2])
    <2> HIDE DEF left
    <2>2. /\ Cardinality(left) <= Cardinality(Loadable)
          /\ Cardinality(left) \in Nat /\ Cardinality(Loadable) \in Nat
      BY <2>1, ClientsFinite DEF left
    <2>3. Cardinality(left) <= MaxClients
      BY <1>1, <2>2, ClientsAssumption DEF Stored, Fits, ClientsAssumption
    <2> QED BY <2>3 DEF left
  <1> QED BY <1>1, StorageInvariant, PTL

\* A step of the Gateway admits, confirms or denies one client at most.
LEMMA RunStepRefines ==
    ASSUME Stored, RunStep
    PROVE  [Store!Next]_Store!storeVars
  <1>1. RegistryStep /\ settled' = settled /\ [RegistryStep]_clientVars
    BY DEF RunStep, RegistryStep
  <1>2. Grows
    BY <1>1, CorePreserved DEF Stored
  <1>3. ASSUME step # "idle", Loadable = clients \ {saving}
        PROVE  saving \in Clients /\ saving \in clients /\ Store!Unheard(saving)
    BY <1>3, ClientsAssumption
    DEF Stored, RegistryCore, SaveProgress, ClientsTypeOK, ClientsAssumption, Store!Unheard
  <1>4. CASE Loadable' # Loadable
    <2>1. /\ step = "install" /\ Loadable' = Loadable \cup {saving} /\ Loadable' = clients
          /\ UNCHANGED <<acked, refused>>
      BY <1>2, <1>4 DEF Grows
    <2>2. Loadable = clients \ {saving} /\ clients \in SUBSET Clients
      BY <2>1 DEF Stored, RegistryCore, SaveProgress, ClientsTypeOK
    <2>3. saving \in Clients /\ saving \in clients /\ Store!Unheard(saving)
      BY <1>3, <2>1, <2>2
    <2>4. Cardinality(Loadable) < MaxClients
      <3>1. IsFiniteSet(clients) /\ Cardinality(clients) \in Nat
        BY <2>2, ClientsFinite
      <3>2. Cardinality(clients \ {saving}) = Cardinality(clients) - 1
        BY <2>3, <3>1, FS_RemoveElement
      <3> QED
        BY <2>2, <3>1, <3>2, ClientsAssumption DEF Stored, Fits, ClientsAssumption
    <2>5. Store!Cardinality(Loadable) = Cardinality(Loadable)
      BY DEF Store!Cardinality, Cardinality
    <2>6. Store!Admit(saving)
      BY <1>1, <2>1, <2>3, <2>4, <2>5 DEF Store!Admit
    <2> QED BY <2>3, <2>6 DEF Store!Next
  <1>5. CASE Loadable' = Loadable
    <2>1. ASSUME NEW c \in Clients, RegistryFull(c)
          PROVE  Store!Deny(c)
      <3>1. c \notin clients \cup acked \cup refused /\ clients = Loadable
        BY <2>1 DEF RegistryFull, New, Stored, RegistryCore, MemoryMatchesFile
      <3> QED BY <1>1, <1>5, <2>1, <3>1 DEF RegistryFull, Store!Deny, Store!Unheard
    <2>2. ASSUME NEW c \in Clients, Reply(c)
          PROVE  Store!Confirm(c)
      BY <1>1, <1>5, <2>2 DEF Reply, Stored, RegistryCore, Store!Confirm
    <2>3. ASSUME TakeBack, step \in {"write", "stat", "move", "install"}
          PROVE  saving \in Clients /\ Store!Deny(saving)
      <3>1. Loadable = clients \ {saving}
        BY <2>3 DEF Stored, RegistryCore, SaveProgress
      <3> QED BY <1>1, <1>3, <1>5, <2>3, <3>1 DEF TakeBack, Store!Deny
    <2>4. CASE UNCHANGED <<acked, refused>>
      BY <1>1, <1>5, <2>4 DEF Store!storeVars
    <2>5. \/ \E c \in Clients : RegistryFull(c) \/ Reply(c)
          \/ TakeBack /\ step \in {"write", "stat", "move", "install"}
          \/ UNCHANGED <<acked, refused>>
      BY <1>1 DEF RegistryStep, ClientsNext, Register, SaveStep, WriteTemp, StatPrimary, StatFails,
         MoveToBackup, Install, RemoveBackup, Continue, replies, Crash, Restart
    <2> QED BY <2>1, <2>2, <2>3, <2>4, <2>5 DEF Store!Next
  <1> QED BY <1>4, <1>5

\* The clients file with its moves, failures, kills and power failures implements
\* the store that admits, confirms, denies, settles and loses.
THEOREM StorageImplementsStore == StorageSpec => ImplementsStore
  <1>1. StorageInit => Store!Init
    BY LoadableCases DEF StorageInit, ClientsInit, Store!Init
  <1>2. ASSUME Stored, [StorageNext]_storageVars
        PROVE  [Store!Next]_Store!storeVars
    <2>1. CASE RunStep
      BY <1>2, <2>1, RunStepRefines
    <2>2. CASE WriteBack
      <3>1. Store!Settle
        BY <2>2, SameFiles DEF WriteBack, clientVars, files, replies, Store!Settle
      <3> QED BY <3>1 DEF Store!Next
    <2>3. CASE PowerFailure
      <3>1. Store!Lose
        BY <1>2, <2>3, PowerFailureLoses DEF PowerFailure, Store!Lose
      <3> QED BY <3>1 DEF Store!Next
    <2>4. CASE UNCHANGED storageVars
      BY <2>4, SameFiles DEF storageVars, clientVars, files, replies, Store!storeVars
    <2> QED BY <1>2, <2>1, <2>2, <2>3, <2>4 DEF StorageNext
  <1> QED
    BY <1>1, <1>2, StorageInvariant, PTL DEF StorageSpec, ImplementsStore, Store!Spec

----------------------------------------------------------------------------
(* Codes and tokens. *)

\* Every step of the provider is one of the registry, or leaves it alone.
LEMMA StepOfRegistry == [Next]_vars => [RegistryStep]_clientVars
  BY DEF Next, vars, RegistryStep, Validate, Issue, Exchange, Wait, CrashAll

\* The provider's behaviours are behaviours of the registry.
THEOREM Layered == Spec => ClientsSpec
  <1>1. Init => ClientsInit
    BY DEF Init
  <1> QED BY <1>1, StepOfRegistry, PTL DEF Spec, ClientsSpec, RegistryStep

\* The parts of the type invariant that the codes rest on.
GrantTypes ==
    /\ now \in 0..MaxTime
    /\ approving \subseteq Bindings
    /\ codes \subseteq issued
    /\ issued \subseteq Entries
    /\ uses \in [Codes -> Nat]

\* One code, one entry; one that is spent or lost has left the table; one that is
\* fresh has not.
CodeBook ==
    /\ \A e, f \in issued : e.code = f.code => e = f
    /\ \A e \in codes : uses[e.code] = 0 /\ e.code \notin voided
    /\ \A code \in Codes : uses[code] # 0 => \E e \in issued : e.code = code
    /\ \A code \in voided : \E e \in issued : e.code = code

\* Approvals and codes are for clients that every later start will know.
DurableGrants ==
    /\ \A b \in approving : b.client \in Loadable
    /\ \A e \in issued : e.to.client \in Loadable

Grants ==
    /\ GrantTypes
    /\ CodeBook
    /\ DurableGrants
    /\ SpentOnce
    /\ TokensAreGranted
    /\ TokensOfDurableClients
    /\ FreshCodesStand

LEMMA GrantsInit == Init => Grants
  BY ProviderAssumption, SMT
  DEF ProviderAssumption, Init, Grants, GrantTypes, CodeBook, DurableGrants, SpentOnce,
      TokensAreGranted, TokensOfDurableClients, FreshCodesStand

\* What a restart would load only grows, so clients stay durable.
LEMMA StayDurable ==
    ASSUME DurableGrants, TokensOfDurableClients, Loadable \subseteq Loadable',
           approving' \subseteq approving, issued' = issued, tokens' = tokens
    PROVE  DurableGrants' /\ TokensOfDurableClients'
  BY DEF DurableGrants, TokensOfDurableClients

LEMMA GrantsPreserved ==
    ASSUME Registry, Grants, [Next]_vars
    PROVE  Grants'
  <1> USE ProviderAssumption DEF ProviderAssumption
  <1>0. Loadable \subseteq Loadable'
    BY StepOfRegistry, RegistryPreserved
  <1>1. ASSUME UNCHANGED <<now, grants>>
        PROVE  Grants'
    <2>1. DurableGrants' /\ TokensOfDurableClients'
      BY <1>0, <1>1, StayDurable DEF grants, Grants
    <2> QED
      BY <1>1, <2>1 DEF grants, Grants, GrantTypes, CodeBook, SpentOnce, TokensAreGranted,
         FreshCodesStand
  <1>2. ASSUME NEW b \in Bindings, Validate(b)
        PROVE  Grants'
    <2>1. b.client \in Loadable
      BY <1>2 DEF Validate, Valid, Registry, RegistryCore, MemoryMatchesFile
    <2>2. DurableGrants' /\ TokensOfDurableClients'
      BY <1>0, <1>2, <2>1 DEF Validate, Grants, DurableGrants, TokensOfDurableClients
    <2> QED
      BY <1>2, <2>2 DEF Validate, Grants, GrantTypes, CodeBook, SpentOnce, TokensAreGranted,
         FreshCodesStand
  <1>3. ASSUME NEW b \in Bindings, NEW code \in Codes, Issue(b, code)
        PROVE  Grants'
    <2> DEFINE entry == [code |-> code, to |-> b, at |-> now]
    <2>1. /\ entry \in Entries /\ entry.code = code /\ entry.to = b /\ entry.at = now
          /\ b.client \in Loadable
      BY <1>3 DEF Issue, Grants, GrantTypes, Entries, DurableGrants
    <2>2. uses[code] = 0 /\ code \notin voided /\ \A e \in issued : e.code # code
      BY <1>3 DEF Issue, Grants, CodeBook
    <2>3. /\ codes' \subseteq issued' /\ issued' \subseteq issued \cup {entry} /\ issued \subseteq issued'
          /\ codes' \subseteq codes \cup {entry}
          /\ issued' # issued => entry \in codes'
          /\ Pruned \subseteq codes'
          /\ approving' \subseteq approving
          /\ UNCHANGED <<now, voided, uses, tokens>>
      BY <1>3 DEF Issue, Pruned, Grants, GrantTypes
    <2> HIDE DEF entry
    <2>4. GrantTypes'
      BY <2>1, <2>3 DEF Grants, GrantTypes
    <2>5. CodeBook'
      BY <2>1, <2>2, <2>3 DEF Grants, CodeBook
    <2>6. DurableGrants' /\ TokensOfDurableClients'
      BY <1>0, <2>1, <2>3 DEF Grants, DurableGrants, TokensOfDurableClients
    <2>7. SpentOnce' /\ TokensAreGranted'
      BY <2>3 DEF Grants, SpentOnce, TokensAreGranted
    <2>8. FreshCodesStand'
      <3> SUFFICES ASSUME NEW e \in issued', uses[e.code] = 0, e.code \notin voided,
                          now <= e.at + TTL
                   PROVE  e \in codes'
        BY <2>3 DEF FreshCodesStand
      <3>1. CASE e \in issued
        <4>1. e \in codes /\ ~Expired(e)
          BY <3>1 DEF Grants, FreshCodesStand, GrantTypes, Entries, Expired
        <4> QED BY <2>3, <4>1 DEF Pruned
      <3>2. CASE e \notin issued
        BY <2>3, <3>2
      <3> QED BY <3>1, <3>2
    <2> QED BY <2>4, <2>5, <2>6, <2>7, <2>8 DEF Grants
  <1>4. ASSUME NEW b \in Bindings, NEW code \in Codes, Exchange(code, b)
        PROVE  Grants'
    <2>1. \A e \in codes : ~Expired(e) <=> e \in Pruned
      BY DEF Pruned
    <2>2. \A e \in issued : now <= e.at + TTL => ~Expired(e)
      BY DEF Grants, GrantTypes, Entries, Expired
    <2>3. CASE codes' = Pruned /\ UNCHANGED <<uses, tokens>>
      <3>1. UNCHANGED <<now, approving, issued, voided, uses, tokens>> /\ codes' \subseteq codes
        BY <1>4, <2>3 DEF Exchange, Pruned
      <3>2. DurableGrants' /\ TokensOfDurableClients'
        BY <1>0, <3>1, StayDurable DEF Grants
      <3>3. FreshCodesStand'
        BY <2>1, <2>2, <2>3, <3>1 DEF Grants, FreshCodesStand
      <3> QED
        BY <3>1, <3>2, <3>3 DEF Grants, GrantTypes, CodeBook, SpentOnce, TokensAreGranted
    <2>4. ASSUME NEW e \in Pruned, e.code = code, e.to = b,
                 codes' = Pruned \ {e},
                 uses' = [uses EXCEPT ![code] = @ + 1],
                 tokens' = tokens \cup {[code |-> code, by |-> b, at |-> now]}
          PROVE  Grants'
      <3>1. UNCHANGED <<now, approving, issued, voided>> /\ e \in codes /\ e \in issued /\ ~Expired(e)
        BY <1>4 DEF Exchange, Pruned, Grants, GrantTypes
      <3>2. uses[code] = 0 /\ uses'[code] = 1 /\ \A other \in Codes \ {code} : uses'[other] = uses[other]
        BY <2>4, <3>1 DEF Grants, CodeBook, GrantTypes
      <3>3. codes' \subseteq codes /\ \A f \in codes' : f.code # code /\ f.code \in Codes
        BY <2>4, <3>1 DEF Pruned, Grants, CodeBook, GrantTypes, Entries
      <3>4. GrantTypes'
        BY <2>4, <3>1, <3>3 DEF Grants, GrantTypes
      <3>5. CodeBook'
        BY <2>4, <3>1, <3>2, <3>3 DEF Grants, CodeBook
      <3>6. SpentOnce'
        BY <3>2 DEF Grants, SpentOnce
      <3>7. now <= e.at + TTL
        BY <3>1 DEF Grants, GrantTypes, Entries, Expired
      <3>8. TokensAreGranted'
        BY <2>4, <3>1, <3>7 DEF Grants, TokensAreGranted
      <3>9. DurableGrants' /\ TokensOfDurableClients'
        BY <1>0, <2>4, <3>1 DEF Grants, DurableGrants, TokensOfDurableClients
      <3>10. FreshCodesStand'
        <4> SUFFICES ASSUME NEW f \in issued, uses'[f.code] = 0, f.code \notin voided,
                            now <= f.at + TTL
                     PROVE  f \in codes'
          BY <3>1 DEF FreshCodesStand
        <4>1. f.code \in Codes /\ f.code # code
          BY <3>2 DEF Grants, GrantTypes, Entries
        <4>2. f \in codes /\ f \in Pruned
          BY <2>1, <2>2, <3>2, <4>1 DEF Grants, FreshCodesStand
        <4> QED BY <2>4, <4>1, <4>2
      <3> QED BY <3>4, <3>5, <3>6, <3>8, <3>9, <3>10 DEF Grants
    <2> QED BY <1>4, <2>3, <2>4 DEF Exchange, Matching, Granted, NotGranted, Token
  <1>5. CASE Wait
    <2>1. UNCHANGED grants /\ now' = now + 1 /\ now < MaxTime
      BY <1>5 DEF Wait
    <2>2. DurableGrants' /\ TokensOfDurableClients'
      BY <1>0, <2>1, StayDurable DEF grants, Grants
    <2>3. FreshCodesStand'
      BY <2>1 DEF grants, Grants, GrantTypes, Entries, FreshCodesStand
    <2> QED
      BY <2>1, <2>2, <2>3 DEF grants, Grants, GrantTypes, CodeBook, SpentOnce, TokensAreGranted
  <1>6. CASE CrashAll
    <2>1. /\ approving' = {} /\ codes' = {} /\ voided' = voided \cup {e.code : e \in codes}
          /\ UNCHANGED <<now, issued, uses, tokens>>
      BY <1>6 DEF CrashAll
    <2>2. DurableGrants' /\ TokensOfDurableClients'
      BY <1>0, <2>1, StayDurable DEF Grants
    <2>3. CodeBook'
      BY <2>1 DEF Grants, CodeBook, GrantTypes
    <2>4. FreshCodesStand'
      BY <2>1 DEF Grants, FreshCodesStand
    <2> QED
      BY <2>1, <2>2, <2>3, <2>4 DEF Grants, GrantTypes, SpentOnce, TokensAreGranted
  <1> QED
    BY <1>1, <1>2, <1>3, <1>4, <1>5, <1>6 DEF Next, vars

\* For any number of clients and codes: no code is exchanged twice, a token is what
\* was approved and in time, its client survives every restart, and a fresh code
\* can still be exchanged.
THEOREM GrantsCorrect ==
    Spec => [](SpentOnce /\ TokensAreGranted /\ TokensOfDurableClients /\ FreshCodesStand)
  <1>1. Init => Registry /\ Grants
    BY RegistryInit, GrantsInit DEF Init
  <1>2. Registry /\ Grants /\ [Next]_vars => (Registry /\ Grants)'
    BY StepOfRegistry, RegistryPreserved, GrantsPreserved
  <1>3. Grants => SpentOnce /\ TokensAreGranted /\ TokensOfDurableClients /\ FreshCodesStand
    BY DEF Grants
  <1> QED BY <1>1, <1>2, <1>3, PTL DEF Spec

\* A client that was told of its registration is there after every restart, in the
\* composition with the codes as well.
THEOREM RegistrationsSurvive == Spec => []AcknowledgedSurvive
  BY Layered, RegistryCorrect, PTL

\* The rest of the provider's types, and the table that never exceeds maxCodes.
GrantsTyped ==
    /\ voided \subseteq Codes
    /\ tokens \subseteq [code : Codes, by : Bindings, at : 0..MaxTime]
    /\ turnedAway \in BOOLEAN
    /\ IsFiniteSet(codes) /\ Cardinality(codes) <= MaxCodes

\* Pruning does not add codes.
LEMMA PrunedFits ==
    ASSUME GrantsTyped, NEW S \in SUBSET codes
    PROVE  IsFiniteSet(S) /\ Cardinality(S) \in Nat /\ Cardinality(S) <= MaxCodes
  <1>1. IsFiniteSet(S) /\ Cardinality(S) <= Cardinality(codes)
    BY FS_Subset DEF GrantsTyped
  <1>2. Cardinality(S) \in Nat /\ Cardinality(codes) \in Nat
    BY <1>1, FS_CardinalityType DEF GrantsTyped
  <1> QED BY <1>1, <1>2, ProviderAssumption DEF GrantsTyped, ProviderAssumption

LEMMA GrantsTypedPreserved ==
    ASSUME Grants, GrantsTyped, [Next]_vars
    PROVE  GrantsTyped'
  <1>1. CASE UNCHANGED grants
    BY <1>1 DEF grants, GrantsTyped
  <1>2. ASSUME NEW b \in Bindings, Validate(b)
        PROVE  GrantsTyped'
    BY <1>2 DEF Validate, GrantsTyped
  <1>3. ASSUME NEW b \in Bindings, NEW code \in Codes, Issue(b, code)
        PROVE  GrantsTyped'
    <2> DEFINE entry == [code |-> code, to |-> b, at |-> now]
    <2>1. IsFiniteSet(Pruned) /\ Cardinality(Pruned) \in Nat /\ Cardinality(Pruned) <= MaxCodes
      BY PrunedFits DEF Pruned
    <2>2. Room => /\ IsFiniteSet(Pruned \cup {entry})
                  /\ Cardinality(Pruned \cup {entry}) <= MaxCodes
      <3> SUFFICES ASSUME Room
                   PROVE  /\ IsFiniteSet(Pruned \cup {entry})
                          /\ Cardinality(Pruned \cup {entry}) <= MaxCodes
        OBVIOUS
      <3>1. /\ IsFiniteSet(Pruned \cup {entry})
            /\ \/ Cardinality(Pruned \cup {entry}) = Cardinality(Pruned)
               \/ Cardinality(Pruned \cup {entry}) = Cardinality(Pruned) + 1
        BY <2>1, FS_AddElement
      <3>2. Cardinality(Pruned) < MaxCodes
        BY DEF Room
      <3> QED BY <2>1, <3>1, <3>2, ProviderAssumption DEF ProviderAssumption
    <2>3. UNCHANGED <<voided, tokens>> /\ turnedAway' \in BOOLEAN
      BY <1>3 DEF Issue, GrantsTyped
    <2>4. (Room /\ codes' = Pruned \cup {entry}) \/ codes' = Pruned
      BY <1>3 DEF Issue
    <2> HIDE DEF entry
    <2> QED BY <2>1, <2>2, <2>3, <2>4 DEF GrantsTyped
  <1>4. ASSUME NEW b \in Bindings, NEW code \in Codes, Exchange(code, b)
        PROVE  GrantsTyped'
    <2>1. codes' \in SUBSET codes /\ UNCHANGED <<voided, turnedAway>>
      BY <1>4 DEF Exchange, Matching, NotGranted, Pruned
    <2>2. [code |-> code, by |-> b, at |-> now] \in [code : Codes, by : Bindings, at : 0..MaxTime]
      BY DEF Grants, GrantTypes
    <2>3. tokens' \subseteq [code : Codes, by : Bindings, at : 0..MaxTime]
      BY <1>4, <2>2 DEF Exchange, Granted, NotGranted, Token, GrantsTyped
    <2> QED BY <2>1, <2>3, PrunedFits DEF GrantsTyped
  <1>5. CASE CrashAll
    <2>1. {e.code : e \in codes} \subseteq Codes
      BY DEF Grants, GrantTypes, Entries
    <2>2. IsFiniteSet({}) /\ Cardinality({}) <= MaxCodes
      BY PrunedFits
    <2> QED BY <1>5, <2>1, <2>2 DEF CrashAll, GrantsTyped
  <1>6. CASE Wait
    BY <1>1, <1>6 DEF Wait
  <1> QED
    BY <1>1, <1>2, <1>3, <1>4, <1>5, <1>6 DEF Next, vars

LEMMA ProviderInvariant == Spec => [](Registry /\ Grants /\ GrantsTyped)
  <1>1. Init => GrantsTyped
    <2>1. IsFiniteSet({}) /\ Cardinality({}) = 0
      BY FS_EmptySet
    <2>2. 0 <= MaxCodes
      BY ProviderAssumption DEF ProviderAssumption
    <2> QED BY <2>1, <2>2 DEF Init, GrantsTyped
  <1>2. Init => Registry /\ Grants
    BY RegistryInit, GrantsInit DEF Init
  <1>3. Registry /\ Grants /\ GrantsTyped /\ [Next]_vars => (Registry /\ Grants /\ GrantsTyped)'
    BY StepOfRegistry, RegistryPreserved, GrantsPreserved, GrantsTypedPreserved
  <1> QED BY <1>1, <1>2, <1>3, PTL DEF Spec

\* Every variable keeps its type, and the table of codes never holds more than
\* maxCodes, whatever is issued, pruned and exchanged (issueAuthorizationCode).
THEOREM TypeCorrect == Spec => []TypeOK
  <1>1. Registry /\ Grants /\ GrantsTyped => TypeOK
    BY DEF Registry, RegistryCore, Grants, GrantTypes, GrantsTyped, TypeOK
  <1> QED BY <1>1, ProviderInvariant, PTL

\* A request is turned away only when maxCodes codes could still be exchanged: after
\* pruning the table holds exactly those (pruneCodesLocked, issueAuthorizationCode).
THEOREM TurnedAwayCorrect == Spec => TurnedAwayOnlyWhenFull
  <1> DEFINE Usable == {e \in issued : uses[e.code] = 0 /\ e.code \notin voided /\ now <= e.at + TTL}
  <1>1. ASSUME Grants PROVE Usable = Pruned
    <2>1. \A e \in issued : now <= e.at + TTL <=> ~Expired(e)
      BY <1>1, ProviderAssumption DEF Grants, GrantTypes, Entries, Expired, ProviderAssumption
    <2>2. \A e \in codes : e \in issued /\ uses[e.code] = 0 /\ e.code \notin voided
      BY <1>1 DEF Grants, GrantTypes, CodeBook
    <2>3. \A e \in Usable : e \in codes
      BY <1>1 DEF Grants, FreshCodesStand
    <2> QED BY <2>1, <2>2, <2>3 DEF Pruned
  <1>2. ASSUME Grants, GrantsTyped, [Next]_vars, ~turnedAway, turnedAway'
        PROVE  Cardinality(Usable) >= MaxCodes
    <2>1. PICK b \in Bindings, code \in Codes : Issue(b, code)
      BY <1>2 DEF Next, vars, grants, Validate, Exchange, Wait, CrashAll
    <2>2. ~Room
      BY <1>2, <2>1 DEF Issue
    <2>3. Cardinality(Pruned) \in Nat
      BY <1>2, PrunedFits DEF Pruned
    <2>4. Cardinality(Pruned) >= MaxCodes
      BY <2>2, <2>3, ProviderAssumption DEF Room, ProviderAssumption
    <2>5. Usable = Pruned
      BY <1>1, <1>2
    <2> HIDE DEF Usable
    <2> QED BY <2>4, <2>5
  <1>3. Registry /\ Grants /\ GrantsTyped /\ [Next]_vars =>
            [~turnedAway /\ turnedAway' => Cardinality(Usable) >= MaxCodes]_vars
    BY <1>2
  <1> QED BY <1>3, ProviderInvariant, PTL DEF Spec, TurnedAwayOnlyWhenFull
============================================================================
