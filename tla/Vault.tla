------------------------------- MODULE Vault ---------------------------------
(***************************************************************************)
(* The secrets plugin for one caller: the decrypted vault cached in        *)
(* memory behind a lock, the encrypted file that every mutation rewrites   *)
(* (temporary file, fsync, rename, fsync of the directory), tasks that run *)
(* concurrently, failing file operations, a process that dies, a machine   *)
(* that loses power, and a restart under another master key. Callers have  *)
(* a file and a cache entry each and meet nowhere.                         *)
(*                                                                         *)
(* The cipher is abstracted to what its users see: what was encrypted      *)
(* under a key is read under that key only, anything else is an error.     *)
(***************************************************************************)
EXTENDS Naturals, FiniteSets, FiniteSetsExt

CONSTANTS
  VaultTasks,        \* the tasks of the concurrent handler
  SecretNames,
  SecretValues,
  Gone,              \* no secret under this name
  Broken,            \* bytes that no key decrypts
  KeyTexts,          \* the values the master key variable may have
  NoMasterKey,             \* the variable does not hold a key
  VaultRequests,     \* the requests callers send
  MaxVaultRequests,  \* bound: requests
  MaxVaultFaults,    \* bound: file operations that fail
  MaxVaultCrashes    \* bound: crashes

ASSUME VaultAssumption ==
  /\ IsFiniteSet(VaultTasks)
  /\ Gone \notin SecretValues
  /\ {MaxVaultRequests, MaxVaultFaults, MaxVaultCrashes} \subseteq Nat

VARIABLES
  vaultTask,     \* what each task is doing
  vaultCached,   \* the vault of the registry, 0: none
  vaultObjs,     \* the secrets of each vault in memory
  vaultKey,      \* the master key of this process
  inode,         \* the content of each file, with what a power loss leaves
  vaultFile,     \* the file behind {caller}.vault, 0: none
  vaultTmp,      \* the file behind {caller}.vault.tmp, 0: none
  vaultDisk,     \* the file behind {caller}.vault after a power loss
  maySee,        \* history: per name, what a reader may find
  vaultRaced,    \* history: two vaults of the caller were in use
  vaultSpent     \* requests, faults and crashes so far

vaultVars == <<vaultTask, vaultCached, vaultObjs, vaultKey, inode, vaultFile,
               vaultTmp, vaultDisk, maySee, vaultRaced, vaultSpent>>

vaultMem == <<vaultCached, vaultObjs, vaultKey, vaultRaced>>
vaultFs == <<inode, vaultFile, vaultTmp, vaultDisk>>

Secrets == [SecretNames -> SecretValues \cup {Gone}]
NoSecrets == [n \in SecretNames |-> Gone]

\* One vault may be referred to by each task and one by the registry; one file
\* is open in each task, and three have a name.
VaultIds == 1..(Cardinality(VaultTasks) + 1)
Inodes == 1..(Cardinality(VaultTasks) + 4)

Encrypted(k, s) == [key |-> k, secrets |-> s]

\* The variable holds 32 bytes as 64 hex digits or as 44 base64 characters, or
\* the process panics at its start.
ParseMasterKey(text) ==
  IF text.chars \in {44, 64} /\ text.bytes = 32 THEN text.key ELSE NoMasterKey

StartKeys == {ParseMasterKey(text) : text \in KeyTexts} \ {NoMasterKey}

\* What fails to decrypt is told from what some key has encrypted.
ASSUME CipherAssumption == Broken \notin [key : StartKeys, secrets : Secrets]

\* The request of a caller. A name of SecretNames is not empty, of at most
\* max_name_bytes and of the allowed characters; a value of SecretValues has at
\* most max_value_bytes; the id of the caller makes a file name.
SecretRequest(op, n, v) == [action |-> op, caller |-> TRUE, name |-> n, value |-> v]

SecretActions == {"secret_set", "secret_get", "secret_delete", "secret_list"}

Served(r) == r.action \in SecretActions
ValidName(r) == r.action = "secret_list" \/ r.name \in SecretNames
ValidValue(r) == r.action = "secret_set" => r.value \in SecretValues
SanitizeCallerId(r) == r.caller

IdleTask == [pc |-> "idle"]

TaskAt(t, pc) == vaultTask[t].pc = pc
GoTo(t, pc) == vaultTask' = [vaultTask EXCEPT ![t].pc = pc]
Replied(t) == vaultTask' = [vaultTask EXCEPT ![t] = IdleTask]

Holds(t, o) == vaultTask[t].pc \in {"create", "write", "sync", "rename", "finish"}
                 /\ vaultTask[t].obj = o
Uses(t, o) == vaultTask[t].pc \notin {"idle", "lookup", "load", "insert"}
                 /\ vaultTask[t].obj = o

VaultFault == /\ vaultSpent.faults < MaxVaultFaults
              /\ vaultSpent' = [vaultSpent EXCEPT !.faults = @ + 1]

VaultInit ==
  /\ vaultTask = [t \in VaultTasks |-> IdleTask]
  /\ vaultCached = 0
  /\ vaultObjs = [o \in VaultIds |-> NoSecrets]
  /\ vaultKey \in StartKeys
  /\ inode = [i \in Inodes |-> [data |-> Broken, synced |-> FALSE]]
  /\ vaultFile = 0 /\ vaultTmp = 0 /\ vaultDisk = 0
  /\ maySee = [n \in SecretNames |-> {Gone}]
  /\ vaultRaced = FALSE
  /\ vaultSpent = [requests |-> 0, faults |-> 0, crashes |-> 0]

-----------------------------------------------------------------------------
(* A request comes in: refused by its validation, or looked up.            *)

VaultAccept(t) ==
  /\ TaskAt(t, "idle")
  /\ vaultSpent.requests < MaxVaultRequests
  /\ vaultSpent' = [vaultSpent EXCEPT !.requests = @ + 1]
  /\ \E r \in VaultRequests :
       vaultTask' = IF Served(r) /\ ValidName(r) /\ ValidValue(r) /\ SanitizeCallerId(r)
                      THEN [vaultTask EXCEPT ![t] =
                              [pc |-> "lookup", req |-> r, obj |-> 0,
                               loaded |-> NoSecrets, fd |-> 0]]
                      ELSE vaultTask
  /\ UNCHANGED <<vaultMem, vaultFs, maySee>>

\* The fast path of get_vault: the registry is locked for this step only.
Lookup(t) ==
  /\ TaskAt(t, "lookup")
  /\ vaultTask' = [vaultTask EXCEPT ![t].obj = vaultCached,
                     ![t].pc = IF vaultCached = 0 THEN "load" ELSE "locked"]
  /\ UNCHANGED <<vaultMem, vaultFs, maySee, vaultSpent>>

\* Mutant: a file that can not be decrypted is taken for an empty vault.
Decrypted_Resets(i) ==
  {IF i # 0 /\ inode[i].data # Broken /\ inode[i].data.key = vaultKey
     THEN inode[i].data.secrets ELSE NoSecrets}

\* A vault that exists is decrypted or the request fails; only a missing file
\* is an empty vault.
Decrypted(i) ==
  IF i = 0 THEN {NoSecrets}
  ELSE IF inode[i].data # Broken /\ inode[i].data.key = vaultKey THEN {inode[i].data.secrets}
  ELSE {}

Load(t) ==
  /\ TaskAt(t, "load")
  /\ \/ \E s \in Decrypted(vaultFile) :
          vaultTask' = [vaultTask EXCEPT ![t].pc = "insert", ![t].loaded = s]
     \/ Decrypted(vaultFile) = {} /\ Replied(t)
  /\ UNCHANGED <<vaultMem, vaultFs, maySee, vaultSpent>>

\* The second lock of the registry replaces whatever another task has put
\* there. That does harm when the replaced vault is still in use or knows
\* something that the loaded one does not.
Stale(t) == /\ vaultCached # 0
            /\ \/ \E u \in VaultTasks : Uses(u, vaultCached)
               \/ vaultObjs[vaultCached] # vaultTask[t].loaded

Register(t) ==
  LET free == {o \in VaultIds : \A u \in VaultTasks : ~Uses(u, o)}
      o == Min(free)
  IN  /\ vaultObjs' = [vaultObjs EXCEPT ![o] = vaultTask[t].loaded]
      /\ vaultCached' = o
      /\ vaultTask' = [vaultTask EXCEPT ![t].pc = "locked", ![t].obj = o,
                                        ![t].loaded = NoSecrets]

Insert(t) ==
  /\ TaskAt(t, "insert")
  /\ Register(t)
  /\ vaultRaced' = (vaultRaced \/ Stale(t))
  /\ UNCHANGED <<vaultKey, vaultFs, maySee, vaultSpent>>

-----------------------------------------------------------------------------
(* Under the lock of the vault: the change in memory, then the file.       *)

\* A set, and a delete that removes something, change the memory first; a get,
\* a list and a delete of nothing are answered at once.
After(r) == IF r.action = "secret_set" THEN r.value ELSE Gone
Persists(t) == LET r == vaultTask[t].req
               IN  \/ r.action = "secret_set"
                   \/ r.action = "secret_delete" /\ vaultObjs[vaultTask[t].obj][r.name] # Gone

Change(t) ==
  /\ TaskAt(t, "locked")
  /\ \A u \in VaultTasks : ~Holds(u, vaultTask[t].obj)
  /\ IF Persists(t)
       THEN LET r == vaultTask[t].req
            IN  /\ vaultObjs' = [vaultObjs EXCEPT ![vaultTask[t].obj][r.name] = After(r)]
                /\ maySee' = [maySee EXCEPT ![r.name] = @ \cup {After(r)}]
                /\ GoTo(t, "create")
       ELSE Replied(t) /\ UNCHANGED <<vaultObjs, maySee>>
  /\ UNCHANGED <<vaultCached, vaultKey, vaultRaced, vaultFs, vaultSpent>>

\* Opening the temporary file truncates the one an earlier attempt has left.
OpenTmp(t) ==
  LET free == {i \in Inodes : i \notin {vaultFile, vaultTmp, vaultDisk}
                                /\ \A u \in VaultTasks : TaskAt(u, "idle") \/ vaultTask[u].fd # i}
      i == IF vaultTmp # 0 THEN vaultTmp ELSE Min(free)
  IN  /\ vaultTmp' = i
      /\ inode' = [inode EXCEPT ![i] = [data |-> Broken, synced |-> FALSE]]
      /\ vaultTask' = [vaultTask EXCEPT ![t].pc = "write", ![t].fd = i]

CreateTmp(t) ==
  /\ TaskAt(t, "create")
  /\ OpenTmp(t)
  /\ UNCHANGED <<vaultMem, vaultFile, vaultDisk, maySee, vaultSpent>>

\* Two tasks with different vaults write one file: the longer text keeps a tail.
WriteTmp(t) ==
  /\ TaskAt(t, "write")
  /\ LET i == vaultTask[t].fd
         whole == Encrypted(vaultKey, vaultObjs[vaultTask[t].obj])
     IN  \E d \in IF inode[i].data = Broken THEN {whole} ELSE {whole, Broken} :
           inode' = [inode EXCEPT ![i] = [data |-> d, synced |-> FALSE]]
  /\ GoTo(t, "sync")
  /\ UNCHANGED <<vaultMem, vaultFile, vaultTmp, vaultDisk, maySee, vaultSpent>>

\* Mutant: the file is renamed without having been synced.
SyncTmp_Skips(t) ==
  /\ TaskAt(t, "sync")
  /\ GoTo(t, "rename")
  /\ UNCHANGED <<vaultMem, vaultFs, maySee, vaultSpent>>

SyncTmp(t) ==
  /\ TaskAt(t, "sync")
  /\ inode' = [inode EXCEPT ![vaultTask[t].fd].synced = TRUE]
  /\ GoTo(t, "rename")
  /\ UNCHANGED <<vaultMem, vaultFile, vaultTmp, vaultDisk, maySee, vaultSpent>>

\* The rename goes by name: it fails when another task has renamed the file.
RenameTmp(t) ==
  /\ TaskAt(t, "rename")
  /\ IF vaultTmp = 0
       THEN Replied(t) /\ UNCHANGED <<vaultFile, vaultTmp>>
       ELSE vaultFile' = vaultTmp /\ vaultTmp' = 0 /\ GoTo(t, "finish")
  /\ UNCHANGED <<vaultMem, inode, vaultDisk, maySee, vaultSpent>>

\* The directory is synced and the request acknowledged: from here on a reader
\* finds what was set.
Acknowledge(t) ==
  /\ TaskAt(t, "finish")
  /\ vaultDisk' = vaultFile
  /\ LET r == vaultTask[t].req IN maySee' = [maySee EXCEPT ![r.name] = {After(r)}]
  /\ Replied(t)
  /\ UNCHANGED <<vaultMem, inode, vaultFile, vaultTmp, vaultSpent>>

\* A failed sync of the directory is ignored: the request is acknowledged, and
\* a power loss may still bring the old file back.
AcknowledgeUnsynced(t) ==
  /\ TaskAt(t, "finish")
  /\ VaultFault
  /\ Replied(t)
  /\ UNCHANGED <<vaultMem, vaultFs, maySee>>

\* Creation, write, fsync or rename fails: an error is answered, the memory
\* keeps the change, the temporary file stays.
PersistFails(t) ==
  /\ vaultTask[t].pc \in {"create", "write", "sync", "rename"}
  /\ VaultFault
  /\ Replied(t)
  /\ UNCHANGED <<vaultMem, vaultFs, maySee>>

-----------------------------------------------------------------------------
(* The process dies, or the machine does, and starts again with some key.  *)

VaultCrash ==
  /\ vaultSpent.crashes < MaxVaultCrashes
  /\ vaultSpent' = [vaultSpent EXCEPT !.crashes = @ + 1]
  /\ vaultTask' = [t \in VaultTasks |-> IdleTask]
  /\ vaultCached' = 0
  /\ vaultObjs' = [o \in VaultIds |-> NoSecrets]
  /\ vaultKey' \in StartKeys
  /\ UNCHANGED <<maySee, vaultRaced>>

VaultDies == VaultCrash /\ UNCHANGED vaultFs

\* What was not synced is lost or torn, a rename without a sync of the
\* directory may be undone.
PowerLoss ==
  /\ VaultCrash
  /\ inode' = [i \in Inodes |-> IF inode[i].synced THEN inode[i]
                                  ELSE [data |-> Broken, synced |-> TRUE]]
  /\ vaultFile' \in {vaultFile, vaultDisk}
  /\ vaultDisk' = vaultFile'
  /\ vaultTmp' = IF vaultTmp = vaultFile' THEN 0 ELSE vaultTmp

VaultNext ==
  \/ \E t \in VaultTasks :
       \/ VaultAccept(t) \/ Lookup(t) \/ Load(t) \/ Insert(t)
       \/ Change(t) \/ CreateTmp(t) \/ WriteTmp(t) \/ SyncTmp(t) \/ RenameTmp(t)
       \/ Acknowledge(t) \/ AcknowledgeUnsynced(t) \/ PersistFails(t)
  \/ VaultDies
  \/ PowerLoss

VaultSpec == VaultInit /\ [][VaultNext]_vaultVars

-----------------------------------------------------------------------------
(* Unless two vaults of the caller were in use at once (the race that      *)
(* get_vault leaves open), a reader finds under every name what was last   *)
(* acknowledged, or what an unacknowledged request tried to leave there:   *)
(* in memory, in the file, and in the file that a power loss would leave,  *)
(* which is always readable. It fails when a step of atomic_write is left  *)
(* out or moved, or when a file that can not be decrypted counts as empty. *)
Found(i) ==
  IF i = 0 THEN \A n \in SecretNames : Gone \in maySee[n]
  ELSE /\ inode[i].synced /\ inode[i].data # Broken
       /\ \A n \in SecretNames : inode[i].data.secrets[n] \in maySee[n]

VaultKeepsPromises ==
  ~vaultRaced =>
    /\ vaultCached # 0 => \A n \in SecretNames : vaultObjs[vaultCached][n] \in maySee[n]
    /\ Found(vaultFile)
    /\ Found(vaultDisk)

=============================================================================
