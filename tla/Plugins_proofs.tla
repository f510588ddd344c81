--------------------------- MODULE Plugins_proofs ----------------------------
(***************************************************************************)
(* Theorems about `secrets`, `sound`, `notes` and `notify`, for every      *)
(* value of their constants. Each section has the inductive invariant of   *)
(* its plugin, a lemma per action or group of actions, and the theorem.    *)
(* The lemmas about numbers and sequences are those of Speech_proofs.      *)
(***************************************************************************)
EXTENDS Speech_proofs, Vault, Notify, Sound, Notes

-----------------------------------------------------------------------------
(* Vault: as long as a caller never had two vaults in use, they keep what     *)
(* they promise                                                              *)

HolderPCs == {"create", "write", "sync", "rename", "finish"}
UserPCs == {"locked"} \cup HolderPCs

VaultContents == [key : StartKeys, secrets : Secrets]
VaultFiles == [data : {Broken} \cup VaultContents, synced : BOOLEAN]

\* A request that passed the validation.
ValidSecret(r) ==
  /\ Served(r)
  /\ r.action # "secret_list" => r.name \in SecretNames
  /\ r.action = "secret_set" => r.value \in SecretValues

VaultTyped ==
  /\ vaultCached \in VaultIds \cup {0}
  /\ vaultObjs \in [VaultIds -> Secrets]
  /\ vaultKey \in StartKeys
  /\ inode \in [Inodes -> VaultFiles]
  /\ vaultFile \in Inodes \cup {0}
  /\ vaultTmp \in Inodes \cup {0}
  /\ vaultDisk \in Inodes \cup {0}
  /\ maySee \in [SecretNames -> SUBSET (SecretValues \cup {Gone})]

ShapedTask(x) ==
  x = [pc |-> x.pc, req |-> x.req, obj |-> x.obj, loaded |-> x.loaded, fd |-> x.fd]

TaskTyped(x) ==
  x.pc # "idle" =>
    /\ ShapedTask(x)
    /\ x.pc \in {"lookup", "load", "insert"} \cup UserPCs
    /\ ValidSecret(x.req)
    /\ x.loaded \in Secrets

\* The file in the hands of a task that persists `secrets`.
FileInHand(x, secrets) ==
  /\ x.pc \notin {"idle", "write", "sync", "rename", "finish"} => x.fd = 0
  /\ x.pc \in {"write", "sync", "rename"} => x.fd = vaultTmp /\ vaultTmp # 0
  /\ x.pc = "write" => inode[vaultTmp].data = Broken
  /\ x.pc \in {"sync", "rename"} => inode[vaultTmp].data = Encrypted(vaultKey, secrets)
  /\ x.pc = "rename" => inode[vaultTmp].synced
  /\ x.pc = "finish" => vaultFile # 0 /\ inode[vaultFile].data.secrets = secrets

\* A task uses the cached vault or none, and between the change and the
\* acknowledgement the vault holds the change.
UserOk(x) ==
  /\ TaskTyped(x)
  /\ x.pc \in UserPCs => x.obj = vaultCached /\ vaultCached # 0
  /\ x.pc = "insert" /\ vaultCached = 0 =>
       \A n \in SecretNames : x.loaded[n] \in maySee[n]
  /\ x.pc \in HolderPCs =>
       /\ x.req.action \in {"secret_set", "secret_delete"}
       /\ vaultObjs[vaultCached][x.req.name] = After(x.req)
  /\ FileInHand(x, vaultObjs[vaultCached])

OneHolder ==
  \A t, u \in VaultTasks :
    vaultTask[t].pc \in HolderPCs /\ vaultTask[u].pc \in HolderPCs => t = u

VaultKept ==
  /\ vaultCached # 0 => \A n \in SecretNames : vaultObjs[vaultCached][n] \in maySee[n]
  /\ Found(vaultFile)
  /\ Found(vaultDisk)

OneVault ==
  /\ VaultTyped
  /\ vaultTask = [t \in VaultTasks |-> vaultTask[t]]
  /\ \A t \in VaultTasks : UserOk(vaultTask[t])
  /\ OneHolder
  /\ vaultTmp # 0 => vaultTmp \notin {vaultFile, vaultDisk}
  /\ VaultKept

VaultInv == ~vaultRaced => OneVault

LEMMA VaultConstants ==
  /\ Cardinality(VaultTasks) \in Nat
  /\ VaultIds \subseteq Nat \ {0} /\ 1 \in VaultIds
  /\ Inodes \subseteq Nat \ {0} /\ {1, 2, 3} \subseteq Inodes
  /\ NoSecrets \in Secrets
<1>1. Cardinality(VaultTasks) \in Nat
  BY VaultAssumption, FS_CardinalityType
<1> QED
  BY <1>1 DEF VaultIds, Inodes, NoSecrets, Secrets

\* One task acts, the others look on.
LEMMA OneActs ==
  ASSUME OneVault, NEW t \in VaultTasks, NEW y,
         vaultTask' = [vaultTask EXCEPT ![t] = y],
         VaultTyped', UserOk(y)',
         \A u \in VaultTasks \ {t} : \A x : x = vaultTask[u] => UserOk(x)',
         y.pc \in HolderPCs =>
           \/ vaultTask[t].pc \in HolderPCs
           \/ \A u \in VaultTasks : vaultTask[u].pc \notin HolderPCs,
         vaultTmp' # 0 => vaultTmp' \notin {vaultFile', vaultDisk'},
         VaultKept'
  PROVE  OneVault'
<1>1. vaultTask'[t] = y /\ \A u \in VaultTasks \ {t} : vaultTask'[u] = vaultTask[u]
  BY DEF OneVault
<1>2. vaultTask' = [u \in VaultTasks |-> vaultTask'[u]]
  BY DEF OneVault
<1>3. ASSUME NEW u \in VaultTasks PROVE UserOk(vaultTask[u])'
  <2>1. \A x : x = vaultTask'[u] => UserOk(x)'
    BY <1>1
  <2> QED
    BY <2>1 DEF UserOk, FileInHand
<1>4. OneHolder'
  BY <1>1 DEF OneVault, OneHolder
<1> QED
  BY <1>2, <1>3, <1>4 DEF OneVault

\* A task that holds nothing is not disturbed while the cached vault stays.
LEMMA Bystander ==
  ASSUME NEW x, UserOk(x), x.pc \notin HolderPCs, vaultCached # 0,
         UNCHANGED vaultCached
  PROVE  UserOk(x)'
  BY DEF UserOk, TaskTyped, ShapedTask, FileInHand, HolderPCs, UserPCs

\* A step that changes nothing but the task.
LEMMA QuietTask ==
  ASSUME OneVault, NEW t \in VaultTasks, NEW y,
         vaultTask' = [vaultTask EXCEPT ![t] = y], UserOk(y),
         y.pc \in HolderPCs => vaultTask[t].pc \in HolderPCs,
         UNCHANGED <<vaultCached, vaultObjs, vaultKey, inode, vaultFile, vaultTmp,
                     vaultDisk, maySee>>
  PROVE  OneVault'
<1>1. \A x : UserOk(x)' <=> UserOk(x)
  BY DEF UserOk, FileInHand
<1>2. \A u \in VaultTasks : UserOk(vaultTask[u])
  BY DEF OneVault
<1>3. VaultTyped' /\ VaultKept'
  BY DEF OneVault, VaultTyped, VaultKept, Found
<1>4. vaultTmp' # 0 => vaultTmp' \notin {vaultFile', vaultDisk'}
  BY DEF OneVault
<1> QED
  BY <1>1, <1>2, <1>3, <1>4, OneActs

LEMMA IdleIsOk == UserOk(IdleTask)
  BY DEF UserOk, IdleTask, TaskTyped, FileInHand, UserPCs, HolderPCs

LEMMA TaskReplied ==
  ASSUME OneVault, NEW t \in VaultTasks, Replied(t),
         UNCHANGED <<vaultCached, vaultObjs, vaultKey, inode, vaultFile, vaultTmp,
                     vaultDisk, maySee>>
  PROVE  OneVault'
<1>1. IdleTask.pc \notin HolderPCs
  BY DEF IdleTask, HolderPCs
<1> QED
  BY <1>1, IdleIsOk, QuietTask DEF Replied

LEMMA AcceptKeeps ==
  ASSUME OneVault, NEW t \in VaultTasks, VaultAccept(t)
  PROVE  OneVault'
<1>1. UNCHANGED <<vaultCached, vaultObjs, vaultKey, inode, vaultFile, vaultTmp,
                  vaultDisk, maySee>>
  BY DEF VaultAccept, vaultMem, vaultFs
<1>2. PICK r \in VaultRequests :
        vaultTask' = IF Served(r) /\ ValidName(r) /\ ValidValue(r) /\ SanitizeCallerId(r)
                       THEN [vaultTask EXCEPT ![t] =
                               [pc |-> "lookup", req |-> r, obj |-> 0,
                                loaded |-> NoSecrets, fd |-> 0]]
                       ELSE vaultTask
  BY DEF VaultAccept
<1>3. CASE vaultTask' = vaultTask
  <2>1. vaultTask' = [vaultTask EXCEPT ![t] = vaultTask[t]]
    BY <1>3 DEF OneVault
  <2> QED
    BY <1>1, <2>1, QuietTask DEF OneVault
<1> DEFINE y == [pc |-> "lookup", req |-> r, obj |-> 0, loaded |-> NoSecrets, fd |-> 0]
<1>4. CASE /\ Served(r) /\ ValidName(r) /\ ValidValue(r)
           /\ vaultTask' = [vaultTask EXCEPT ![t] = y]
  <2>1. ValidSecret(r)
    BY <1>4 DEF ValidSecret, ValidName, ValidValue
  <2>2. UserOk(y) /\ y.pc \notin HolderPCs
    BY <2>1, VaultConstants DEF UserOk, TaskTyped, ShapedTask, FileInHand, HolderPCs, UserPCs
  <2> QED
    BY <1>1, <1>4, <2>2, QuietTask
<1> QED
  BY <1>2, <1>3, <1>4

\* What a task becomes when its pc and more of its fields change.
LEMMA GoesTo ==
  ASSUME OneVault, NEW t \in VaultTasks, vaultTask[t].pc # "idle", NEW p, GoTo(t, p)
  PROVE  vaultTask' = [vaultTask EXCEPT ![t] =
           [pc |-> p, req |-> vaultTask[t].req, obj |-> vaultTask[t].obj,
            loaded |-> vaultTask[t].loaded, fd |-> vaultTask[t].fd]]
<1> DEFINE x == vaultTask[t]
           a == [x EXCEPT !.pc = p]
<1>1. a = [pc |-> p, req |-> x.req, obj |-> x.obj, loaded |-> x.loaded, fd |-> x.fd]
  BY DEF OneVault, UserOk, TaskTyped, ShapedTask
<1>2. vaultTask' = [vaultTask EXCEPT ![t] = a]
  BY DEF GoTo
<1> QED
  BY <1>1, <1>2

LEMMA TaskFinds ==
  ASSUME OneVault, NEW t \in VaultTasks, vaultTask[t].pc # "idle", NEW p, NEW o,
         vaultTask' = [vaultTask EXCEPT ![t].obj = o, ![t].pc = p]
  PROVE  vaultTask' = [vaultTask EXCEPT ![t] =
           [pc |-> p, req |-> vaultTask[t].req, obj |-> o,
            loaded |-> vaultTask[t].loaded, fd |-> vaultTask[t].fd]]
<1> DEFINE x == vaultTask[t]
           a == [x EXCEPT !.obj = o]
<1>1. a = [pc |-> x.pc, req |-> x.req, obj |-> o, loaded |-> x.loaded, fd |-> x.fd]
  BY DEF OneVault, UserOk, TaskTyped, ShapedTask
<1>2. vaultTask' = [vaultTask EXCEPT ![t] = [a EXCEPT !.pc = p]]
  BY DEF OneVault
<1> HIDE DEF a
<1>3. [a EXCEPT !.pc = p] =
        [pc |-> p, req |-> x.req, obj |-> o, loaded |-> x.loaded, fd |-> x.fd]
  BY <1>1
<1> QED
  BY <1>2, <1>3

LEMMA TaskLoads ==
  ASSUME OneVault, NEW t \in VaultTasks, vaultTask[t].pc # "idle", NEW p, NEW s,
         vaultTask' = [vaultTask EXCEPT ![t].pc = p, ![t].loaded = s]
  PROVE  vaultTask' = [vaultTask EXCEPT ![t] =
           [pc |-> p, req |-> vaultTask[t].req, obj |-> vaultTask[t].obj,
            loaded |-> s, fd |-> vaultTask[t].fd]]
<1> DEFINE x == vaultTask[t]
           a == [x EXCEPT !.pc = p]
<1>1. a = [pc |-> p, req |-> x.req, obj |-> x.obj, loaded |-> x.loaded, fd |-> x.fd]
  BY DEF OneVault, UserOk, TaskTyped, ShapedTask
<1>2. vaultTask' = [vaultTask EXCEPT ![t] = [a EXCEPT !.loaded = s]]
  BY DEF OneVault
<1> HIDE DEF a
<1>3. [a EXCEPT !.loaded = s] =
        [pc |-> p, req |-> x.req, obj |-> x.obj, loaded |-> s, fd |-> x.fd]
  BY <1>1
<1> QED
  BY <1>2, <1>3

LEMMA TaskOpens ==
  ASSUME OneVault, NEW t \in VaultTasks, vaultTask[t].pc # "idle", NEW i,
         vaultTask' = [vaultTask EXCEPT ![t].pc = "write", ![t].fd = i]
  PROVE  vaultTask' = [vaultTask EXCEPT ![t] =
           [pc |-> "write", req |-> vaultTask[t].req, obj |-> vaultTask[t].obj,
            loaded |-> vaultTask[t].loaded, fd |-> i]]
<1> DEFINE x == vaultTask[t]
           a == [x EXCEPT !.pc = "write"]
<1>1. a = [pc |-> "write", req |-> x.req, obj |-> x.obj, loaded |-> x.loaded, fd |-> x.fd]
  BY DEF OneVault, UserOk, TaskTyped, ShapedTask
<1>2. vaultTask' = [vaultTask EXCEPT ![t] = [a EXCEPT !.fd = i]]
  BY DEF OneVault
<1> HIDE DEF a
<1>3. [a EXCEPT !.fd = i] =
        [pc |-> "write", req |-> x.req, obj |-> x.obj, loaded |-> x.loaded, fd |-> i]
  BY <1>1
<1> QED
  BY <1>2, <1>3

LEMMA TaskRegisters ==
  ASSUME OneVault, NEW t \in VaultTasks, vaultTask[t].pc # "idle", NEW o,
         vaultTask' = [vaultTask EXCEPT ![t].pc = "locked", ![t].obj = o,
                                        ![t].loaded = NoSecrets]
  PROVE  vaultTask' = [vaultTask EXCEPT ![t] =
           [pc |-> "locked", req |-> vaultTask[t].req, obj |-> o, loaded |-> NoSecrets,
            fd |-> vaultTask[t].fd]]
<1> DEFINE x == vaultTask[t]
           a == [x EXCEPT !.pc = "locked"]
           b == [a EXCEPT !.obj = o]
<1>1. a = [pc |-> "locked", req |-> x.req, obj |-> x.obj, loaded |-> x.loaded, fd |-> x.fd]
  BY DEF OneVault, UserOk, TaskTyped, ShapedTask
<1>2. vaultTask' = [vaultTask EXCEPT ![t] = [b EXCEPT !.loaded = NoSecrets]]
  BY DEF OneVault
<1> HIDE DEF a
<1>3. b = [pc |-> "locked", req |-> x.req, obj |-> o, loaded |-> x.loaded, fd |-> x.fd]
  BY <1>1
<1> HIDE DEF b
<1>4. [b EXCEPT !.loaded = NoSecrets] =
        [pc |-> "locked", req |-> x.req, obj |-> o, loaded |-> NoSecrets, fd |-> x.fd]
  BY <1>3
<1> QED
  BY <1>2, <1>4

LEMMA LookupKeeps ==
  ASSUME OneVault, NEW t \in VaultTasks, Lookup(t)
  PROVE  OneVault'
<1> DEFINE x == vaultTask[t]
           p == IF vaultCached = 0 THEN "load" ELSE "locked"
           y == [pc |-> p, req |-> x.req, obj |-> vaultCached, loaded |-> x.loaded,
                 fd |-> x.fd]
<1>1. x.pc = "lookup" /\ UserOk(x)
  BY DEF Lookup, TaskAt, OneVault
<1>2. vaultTask' = [vaultTask EXCEPT ![t] = y]
  <2>1. vaultTask' = [vaultTask EXCEPT ![t].obj = vaultCached, ![t].pc = p]
    BY DEF Lookup
  <2> HIDE DEF p
  <2> QED
    BY <1>1, <2>1, TaskFinds
<1>3. UserOk(y) /\ y.pc \notin HolderPCs
  BY <1>1 DEF UserOk, TaskTyped, ShapedTask, FileInHand, HolderPCs, UserPCs
<1> HIDE DEF y
<1> QED
  BY <1>2, <1>3, QuietTask DEF Lookup, vaultMem, vaultFs

\* What a file that was found decrypts to is what a reader may find.
LEMMA LoadKeeps ==
  ASSUME OneVault, NEW t \in VaultTasks, Load(t)
  PROVE  OneVault'
<1> DEFINE x == vaultTask[t]
<1>1. /\ x.pc = "load" /\ UserOk(x) /\ VaultTyped /\ Found(vaultFile)
      /\ UNCHANGED <<vaultCached, vaultObjs, vaultKey, inode, vaultFile, vaultTmp,
                     vaultDisk, maySee>>
  BY DEF Load, TaskAt, OneVault, VaultKept, vaultMem, vaultFs
<1>2. CASE Replied(t)
  BY <1>1, <1>2, TaskReplied
<1>3. ASSUME NEW s \in Decrypted(vaultFile),
             vaultTask' = [vaultTask EXCEPT ![t].pc = "insert", ![t].loaded = s]
      PROVE  OneVault'
  <2>1. s \in Secrets /\ \A n \in SecretNames : s[n] \in maySee[n]
    <3>1. CASE vaultFile = 0
      BY <1>1, <1>3, <3>1, VaultConstants DEF Decrypted, Found, NoSecrets
    <3>2. CASE vaultFile # 0
      <4>1. inode[vaultFile] \in VaultFiles /\ inode[vaultFile].data # Broken
            /\ s = inode[vaultFile].data.secrets
        BY <1>1, <1>3, <3>2 DEF Decrypted, VaultTyped
      <4>2. s \in Secrets
        BY <4>1 DEF VaultFiles, VaultContents
      <4> QED
        BY <1>1, <3>2, <4>1, <4>2 DEF Found
    <3> QED
      BY <3>1, <3>2
  <2> DEFINE y == [pc |-> "insert", req |-> x.req, obj |-> x.obj, loaded |-> s, fd |-> x.fd]
  <2>2. vaultTask' = [vaultTask EXCEPT ![t] = y]
    BY <1>1, <1>3, TaskLoads
  <2>3. UserOk(y) /\ y.pc \notin HolderPCs
    BY <1>1, <2>1 DEF UserOk, TaskTyped, ShapedTask, FileInHand, HolderPCs, UserPCs
  <2> HIDE DEF y
  <2> QED
    BY <1>1, <2>2, <2>3, QuietTask
<1> QED
  BY <1>2, <1>3 DEF Load

\* A vault is registered where there was none, or in the place of one that
\* nobody uses and that holds the same secrets.
LEMMA InsertKeeps ==
  ASSUME OneVault, NEW t \in VaultTasks, Insert(t), ~Stale(t)
  PROVE  OneVault'
<1> DEFINE free == {o \in VaultIds : \A u \in VaultTasks : ~Uses(u, o)}
<1>0. PICK x, o : x = vaultTask[t] /\ o = Min(free)
  OBVIOUS
<1>y. PICK y : y = [pc |-> "locked", req |-> x.req, obj |-> o, loaded |-> NoSecrets,
                    fd |-> x.fd]
  OBVIOUS
<1>1. /\ x.pc = "insert" /\ UserOk(x) /\ VaultTyped /\ VaultKept
      /\ UNCHANGED <<vaultKey, inode, vaultFile, vaultTmp, vaultDisk, maySee>>
      /\ \A u \in VaultTasks : UserOk(vaultTask[u])
  BY <1>0 DEF Insert, TaskAt, OneVault, vaultFs
<1>2. /\ vaultObjs' = [vaultObjs EXCEPT ![o] = x.loaded]
      /\ vaultCached' = o
      /\ vaultTask' = [vaultTask EXCEPT ![t].pc = "locked", ![t].obj = o,
                                        ![t].loaded = NoSecrets]
  BY <1>0 DEF Insert, Register
<1>3. \A u \in VaultTasks : vaultTask[u].pc \notin UserPCs
  <2> SUFFICES ASSUME NEW u \in VaultTasks, vaultTask[u].pc \in UserPCs PROVE FALSE
    OBVIOUS
  <2>1. vaultTask[u].obj = vaultCached /\ vaultCached # 0
    BY <1>1 DEF UserOk
  <2>2. Uses(u, vaultCached)
    BY <2>1 DEF Uses, UserPCs, HolderPCs
  <2> QED
    BY <2>1, <2>2 DEF Stale
<1>4. \A u \in VaultTasks : \A v : ~Uses(u, v)
  BY <1>1, <1>3 DEF Uses, UserOk, TaskTyped
<1>5. o \in VaultIds /\ o # 0
  <2>1. 1 \in free /\ free \subseteq Nat /\ free \subseteq VaultIds
    BY <1>4, VaultConstants
  <2>2. o \in free
    <3> HIDE DEF free
    <3>1. Min(free) \in free
      BY <2>1, MinIsElement
    <3> QED
      BY <1>0, <3>1
  <2> QED
    BY <1>0, <2>1, <2>2, VaultConstants
<1> HIDE DEF free
<1>6. vaultTask' = [vaultTask EXCEPT ![t] = y]
  <2>1. vaultTask' = [vaultTask EXCEPT ![t].pc = "locked", ![t].obj = o,
                                       ![t].loaded = NoSecrets]
    BY <1>2
  <2>2. vaultTask[t].pc # "idle"
    BY <1>0, <1>1
  <2>3. vaultTask' = [vaultTask EXCEPT ![t] =
          [pc |-> "locked", req |-> vaultTask[t].req, obj |-> o, loaded |-> NoSecrets,
           fd |-> vaultTask[t].fd]]
    BY <2>1, <2>2, TaskRegisters
  <2> QED
    BY <1>0, <1>y, <2>3
<1>7. x.loaded \in Secrets /\ \A n \in SecretNames : x.loaded[n] \in maySee[n]
  BY <1>0, <1>1 DEF UserOk, TaskTyped, VaultKept, Stale
<1>8. vaultObjs'[o] = x.loaded /\ vaultObjs' \in [VaultIds -> Secrets]
  BY <1>1, <1>2, <1>5, <1>7 DEF VaultTyped
<1>9. VaultTyped'
  BY <1>1, <1>2, <1>5, <1>8 DEF VaultTyped
<1>10. UserOk(y)' /\ y.pc \notin HolderPCs
  <2>1. /\ y.pc = "locked" /\ y.req = x.req /\ y.obj = o /\ y.loaded = NoSecrets
        /\ y.fd = x.fd /\ ShapedTask(y)
    BY <1>y DEF ShapedTask
  <2>2. x.fd = 0 /\ ValidSecret(x.req)
    BY <1>1 DEF UserOk, TaskTyped, FileInHand
  <2>3. TaskTyped(y)
    BY <2>1, <2>2, VaultConstants DEF TaskTyped, UserPCs
  <2>4. FileInHand(y, vaultObjs[vaultCached])'
    BY <2>1, <2>2 DEF FileInHand
  <2> QED
    BY <1>2, <1>5, <2>1, <2>3, <2>4 DEF UserOk, HolderPCs
<1>11. ASSUME NEW u \in VaultTasks \ {t}, NEW z, z = vaultTask[u]
       PROVE  UserOk(z)'
  BY <1>1, <1>2, <1>3, <1>5, <1>11
  DEF UserOk, TaskTyped, ShapedTask, FileInHand, HolderPCs, UserPCs
<1>12. VaultKept'
  BY <1>1, <1>2, <1>7, <1>8 DEF VaultKept, Found
<1>13. vaultTmp' # 0 => vaultTmp' \notin {vaultFile', vaultDisk'}
  BY <1>1 DEF OneVault
<1> QED
  BY <1>6, <1>9, <1>10, <1>11, <1>12, <1>13, OneActs

\* Who sees more finds what it found.
LEMMA FoundStays ==
  ASSUME NEW i, Found(i),
         UNCHANGED inode, \A n \in SecretNames : maySee[n] \subseteq maySee'[n]
  PROVE  Found(i)'
  BY DEF Found

LEMMA AfterIsSecret ==
  ASSUME NEW r, ValidSecret(r), r.action \in {"secret_set", "secret_delete"}
  PROVE  r.name \in SecretNames /\ After(r) \in SecretValues \cup {Gone}
  BY DEF ValidSecret, After


LEMMA ChangeKeeps ==
  ASSUME OneVault, NEW t \in VaultTasks, Change(t)
  PROVE  OneVault'
<1>0. PICK x : x = vaultTask[t]
  OBVIOUS
<1>1. /\ x.pc = "locked" /\ UserOk(x) /\ VaultTyped /\ VaultKept
      /\ x.obj = vaultCached /\ vaultCached # 0 /\ ValidSecret(x.req)
      /\ UNCHANGED <<vaultCached, vaultKey, inode, vaultFile, vaultTmp, vaultDisk>>
      /\ \A u \in VaultTasks : UserOk(vaultTask[u])
  BY <1>0 DEF Change, TaskAt, OneVault, UserOk, UserPCs, TaskTyped, vaultFs
<1>2. \A u \in VaultTasks : vaultTask[u].pc \notin HolderPCs
  <2> SUFFICES ASSUME NEW u \in VaultTasks, vaultTask[u].pc \in HolderPCs PROVE FALSE
    OBVIOUS
  <2>1. vaultTask[u].obj = vaultCached
    BY <1>1 DEF UserOk, UserPCs
  <2>2. Holds(u, vaultTask[t].obj)
    BY <1>0, <1>1, <2>1 DEF Holds, HolderPCs
  <2> QED
    BY <2>2 DEF Change
<1>3. CASE ~Persists(t)
  BY <1>1, <1>3, TaskReplied DEF Change
<1>4. CASE Persists(t)
  <2>0. PICK r, y : /\ r = x.req
                    /\ y = [pc |-> "create", req |-> r, obj |-> x.obj,
                            loaded |-> x.loaded, fd |-> x.fd]
    OBVIOUS
  <2>1. /\ vaultObjs' = [vaultObjs EXCEPT ![vaultCached][r.name] = After(r)]
        /\ maySee' = [maySee EXCEPT ![r.name] = @ \cup {After(r)}]
        /\ GoTo(t, "create")
    BY <1>0, <1>1, <1>4, <2>0 DEF Change
  <2>2. r.action \in {"secret_set", "secret_delete"}
    BY <1>0, <1>4, <2>0 DEF Persists
  <2>3. r.name \in SecretNames /\ After(r) \in SecretValues \cup {Gone}
    BY <1>1, <2>0, <2>2, AfterIsSecret
  <2>4. vaultTask' = [vaultTask EXCEPT ![t] = y]
    BY <1>0, <1>1, <2>0, <2>1, GoesTo
  <2>5. vaultCached \in VaultIds /\ vaultObjs[vaultCached] \in Secrets
    BY <1>1 DEF VaultTyped
  <2>6. /\ vaultObjs'[vaultCached] = [vaultObjs[vaultCached] EXCEPT ![r.name] = After(r)]
        /\ vaultObjs'[vaultCached] \in Secrets
        /\ vaultObjs' \in [VaultIds -> Secrets]
    BY <1>1, <2>1, <2>3, <2>5 DEF VaultTyped, Secrets
  <2>7. /\ maySee' \in [SecretNames -> SUBSET (SecretValues \cup {Gone})]
        /\ \A n \in SecretNames : maySee[n] \subseteq maySee'[n]
        /\ After(r) \in maySee'[r.name]
    BY <1>1, <2>1, <2>3 DEF VaultTyped
  <2>8. VaultTyped'
    BY <1>1, <2>6, <2>7 DEF VaultTyped
  <2>9. VaultKept'
    <3>1. \A n \in SecretNames : vaultObjs'[vaultCached][n] \in maySee'[n]
      <4> SUFFICES ASSUME NEW n \in SecretNames
                   PROVE  vaultObjs'[vaultCached][n] \in maySee'[n]
        OBVIOUS
      <4>1. CASE n = r.name
        BY <2>3, <2>5, <2>6, <2>7, <4>1 DEF Secrets
      <4>2. CASE n # r.name
        BY <1>1, <2>3, <2>5, <2>6, <2>7, <4>2 DEF Secrets, VaultKept
      <4> QED
        BY <4>1, <4>2
    <3>2. Found(vaultFile)' /\ Found(vaultDisk)'
      <4>1. \A i : Found(i) => Found(i)'
        BY <1>1, <2>7, FoundStays
      <4> QED
        BY <1>1, <4>1 DEF VaultKept, Found
    <3> QED
      BY <1>1, <3>1, <3>2 DEF VaultKept
  <2>10. UserOk(y)'
    <3>1. /\ y.pc = "create" /\ y.req = r /\ y.obj = vaultCached /\ y.loaded = x.loaded
          /\ y.fd = x.fd /\ ShapedTask(y)
      BY <1>1, <2>0 DEF ShapedTask
    <3>2. TaskTyped(y) /\ x.fd = 0
      BY <1>1, <2>0, <3>1 DEF UserOk, TaskTyped, UserPCs, HolderPCs, FileInHand
    <3>3. FileInHand(y, vaultObjs[vaultCached])'
      BY <3>1, <3>2 DEF FileInHand
    <3>4. vaultObjs'[vaultCached][r.name] = After(r)
      BY <2>3, <2>5, <2>6 DEF Secrets
    <3> QED
      BY <1>1, <2>2, <3>1, <3>2, <3>3, <3>4 DEF UserOk, HolderPCs, UserPCs
  <2>11. \A u \in VaultTasks \ {t} : \A z : z = vaultTask[u] => UserOk(z)'
    BY <1>1, <1>2, Bystander
  <2>12. vaultTmp' # 0 => vaultTmp' \notin {vaultFile', vaultDisk'}
    BY <1>1 DEF OneVault
  <2> QED
    BY <1>2, <2>4, <2>8, <2>9, <2>10, <2>11, <2>12, OneActs
<1> QED
  BY <1>3, <1>4

\* The task that holds the vault acts: no other one depends on what it changes.
LEMMA HolderActs ==
  ASSUME OneVault, NEW t \in VaultTasks, vaultTask[t].pc \in HolderPCs, NEW y,
         vaultTask' = [vaultTask EXCEPT ![t] = y], UNCHANGED vaultCached,
         VaultTyped', UserOk(y)',
         vaultTmp' # 0 => vaultTmp' \notin {vaultFile', vaultDisk'},
         VaultKept'
  PROVE  OneVault'
<1>1. vaultCached # 0
  BY DEF OneVault, UserOk, UserPCs
<1>2. \A u \in VaultTasks \ {t} : vaultTask[u].pc \notin HolderPCs /\ UserOk(vaultTask[u])
  BY DEF OneVault, OneHolder
<1>3. \A u \in VaultTasks \ {t} : \A z : z = vaultTask[u] => UserOk(z)'
  BY <1>1, <1>2, Bystander
<1> QED
  BY <1>3, OneActs

\* A file that the task has in hand is not yet one that a reader finds.
LEMMA FoundElsewhere ==
  ASSUME NEW i, Found(i), NEW j, i # j, NEW d,
         VaultTyped, inode' = [inode EXCEPT ![j] = d], i \in Inodes \cup {0},
         UNCHANGED maySee
  PROVE  Found(i)'
  BY DEF Found, VaultTyped

LEMMA CreateTmpKeeps ==
  ASSUME OneVault, NEW t \in VaultTasks, CreateTmp(t)
  PROVE  OneVault'
<1> DEFINE free == {i \in Inodes : i \notin {vaultFile, vaultTmp, vaultDisk}
                      /\ \A u \in VaultTasks : TaskAt(u, "idle") \/ vaultTask[u].fd # i}
<1>0. PICK x, i : x = vaultTask[t] /\ i = IF vaultTmp # 0 THEN vaultTmp ELSE Min(free)
  OBVIOUS
<1>y. PICK y : y = [pc |-> "write", req |-> x.req, obj |-> x.obj,
                    loaded |-> x.loaded, fd |-> i]
  OBVIOUS
<1>1. /\ x.pc = "create" /\ UserOk(x) /\ VaultTyped /\ VaultKept
      /\ UNCHANGED <<vaultCached, vaultObjs, vaultKey, vaultFile, vaultDisk, maySee>>
      /\ \A u \in VaultTasks : UserOk(vaultTask[u])
  BY <1>0 DEF CreateTmp, TaskAt, OneVault, vaultMem
<1>2. /\ vaultTmp' = i
      /\ inode' = [inode EXCEPT ![i] = [data |-> Broken, synced |-> FALSE]]
      /\ vaultTask' = [vaultTask EXCEPT ![t].pc = "write", ![t].fd = i]
  BY <1>0 DEF CreateTmp, OpenTmp
<1>3. \A u \in VaultTasks : TaskAt(u, "idle") \/ vaultTask[u].fd = 0
  <2> SUFFICES ASSUME NEW u \in VaultTasks, ~TaskAt(u, "idle") PROVE vaultTask[u].fd = 0
    OBVIOUS
  <2>1. u = t \/ vaultTask[u].pc \notin HolderPCs
    BY <1>0, <1>1 DEF OneVault, OneHolder, HolderPCs
  <2>2. vaultTask[u].pc \notin {"idle", "write", "sync", "rename", "finish"}
    BY <1>0, <1>1, <2>1 DEF TaskAt, HolderPCs
  <2> QED
    BY <1>1, <2>2 DEF UserOk, FileInHand
<1>4. i \in Inodes /\ i # 0 /\ i \notin {vaultFile, vaultDisk}
  <2>1. CASE vaultTmp # 0
    BY <1>0, <1>1, <2>1, VaultConstants DEF VaultTyped, OneVault
  <2>2. CASE vaultTmp = 0
    <3>1. free \subseteq Nat /\ free # {}
      <4>1. PICK j \in {1, 2, 3} : j \notin {vaultFile, vaultTmp, vaultDisk}
        BY <2>2
      <4>2. j \in Inodes /\ j # 0
        BY VaultConstants
      <4>3. j \in free
        BY <1>3, <4>1, <4>2
      <4> QED
        BY <4>3, VaultConstants
    <3>2. Min(free) \in free
      <4> HIDE DEF free
      <4> QED
        BY <3>1, MinIsElement
    <3> QED
      BY <1>0, <2>2, <3>2, VaultConstants
  <2> QED
    BY <2>1, <2>2
<1> HIDE DEF free
<1>5. vaultTask' = [vaultTask EXCEPT ![t] = y]
  <2>1. vaultTask' = [vaultTask EXCEPT ![t] =
          [pc |-> "write", req |-> vaultTask[t].req, obj |-> vaultTask[t].obj,
           loaded |-> vaultTask[t].loaded, fd |-> i]]
    <3>1. vaultTask' = [vaultTask EXCEPT ![t].pc = "write", ![t].fd = i]
      BY <1>2
    <3>2. vaultTask[t].pc # "idle"
      BY <1>0, <1>1
    <3> QED
      BY <3>1, <3>2, TaskOpens
  <2> QED
    BY <1>0, <1>y, <2>1
<1>6. /\ inode'[i] = [data |-> Broken, synced |-> FALSE]
      /\ inode' \in [Inodes -> VaultFiles]
  BY <1>1, <1>2, <1>4 DEF VaultTyped, VaultFiles
<1>7. VaultTyped'
  BY <1>1, <1>2, <1>4, <1>6 DEF VaultTyped
<1>8. UserOk(y)'
  <2>1. /\ y.pc = "write" /\ y.req = x.req /\ y.obj = x.obj /\ y.loaded = x.loaded
        /\ y.fd = i /\ ShapedTask(y)
    BY <1>y DEF ShapedTask
  <2>2. TaskTyped(y)
    BY <1>1, <2>1 DEF UserOk, TaskTyped, UserPCs, HolderPCs
  <2>3. FileInHand(y, vaultObjs[vaultCached])'
    BY <1>2, <1>4, <1>6, <2>1 DEF FileInHand
  <2> QED
    BY <1>1, <2>1, <2>2, <2>3 DEF UserOk, HolderPCs, UserPCs
<1>9. VaultKept'
  <2>1. Found(vaultFile) /\ Found(vaultDisk)
        /\ vaultFile \in Inodes \cup {0} /\ vaultDisk \in Inodes \cup {0}
    BY <1>1 DEF VaultKept, VaultTyped
  <2>2. \A j : j \in {vaultFile, vaultDisk} => Found(j)'
    BY <1>1, <1>2, <1>4, <2>1, FoundElsewhere
  <2> QED
    BY <1>1, <2>2 DEF VaultKept
<1> QED
  BY <1>0, <1>1, <1>2, <1>4, <1>5, <1>7, <1>8, <1>9, HolderActs DEF HolderPCs

LEMMA WriteTmpKeeps ==
  ASSUME OneVault, NEW t \in VaultTasks, WriteTmp(t)
  PROVE  OneVault'
<1>0. PICK x, i, whole : /\ x = vaultTask[t] /\ i = vaultTask[t].fd
                         /\ whole = Encrypted(vaultKey, vaultObjs[vaultTask[t].obj])
  OBVIOUS
<1>y. PICK y : y = [pc |-> "sync", req |-> x.req, obj |-> x.obj,
                    loaded |-> x.loaded, fd |-> x.fd]
  OBVIOUS
<1>1. /\ x.pc = "write" /\ UserOk(x) /\ VaultTyped /\ VaultKept
      /\ x.obj = vaultCached /\ vaultCached \in VaultIds
      /\ i = vaultTmp /\ i # 0 /\ i \in Inodes /\ i \notin {vaultFile, vaultDisk}
      /\ inode[i].data = Broken
      /\ UNCHANGED <<vaultCached, vaultObjs, vaultKey, vaultFile, vaultTmp, vaultDisk, maySee>>
  BY <1>0 DEF WriteTmp, TaskAt, OneVault, vaultMem, UserOk, UserPCs, HolderPCs,
              FileInHand, VaultTyped
<1>2. inode' = [inode EXCEPT ![i] = [data |-> whole, synced |-> FALSE]]
  BY <1>0, <1>1 DEF WriteTmp
<1>3. whole \in VaultContents /\ whole = Encrypted(vaultKey, vaultObjs[vaultCached])
  BY <1>0, <1>1 DEF VaultTyped, VaultContents, Encrypted
<1>4. vaultTask' = [vaultTask EXCEPT ![t] = y]
  BY <1>0, <1>1, <1>y, GoesTo DEF WriteTmp
<1>5. /\ inode'[i] = [data |-> whole, synced |-> FALSE]
      /\ inode' \in [Inodes -> VaultFiles]
  BY <1>1, <1>2, <1>3 DEF VaultTyped, VaultFiles
<1>6. VaultTyped'
  BY <1>1, <1>5 DEF VaultTyped
<1>7. UserOk(y)'
  <2>1. /\ y.pc = "sync" /\ y.req = x.req /\ y.obj = x.obj /\ y.loaded = x.loaded
        /\ y.fd = i /\ ShapedTask(y)
    BY <1>0, <1>y DEF ShapedTask
  <2>2. TaskTyped(y)
    BY <1>1, <2>1 DEF UserOk, TaskTyped, UserPCs, HolderPCs
  <2>3. FileInHand(y, vaultObjs[vaultCached])'
    BY <1>1, <1>3, <1>5, <2>1 DEF FileInHand
  <2> QED
    BY <1>1, <2>1, <2>2, <2>3 DEF UserOk, HolderPCs, UserPCs
<1>8. VaultKept'
  <2>1. Found(vaultFile) /\ Found(vaultDisk)
        /\ vaultFile \in Inodes \cup {0} /\ vaultDisk \in Inodes \cup {0}
    BY <1>1 DEF VaultKept, VaultTyped
  <2>2. \A j : j \in {vaultFile, vaultDisk} => Found(j)'
    BY <1>1, <1>2, <2>1, FoundElsewhere
  <2> QED
    BY <1>1, <2>2 DEF VaultKept
<1> QED
  BY <1>0, <1>1, <1>4, <1>6, <1>7, <1>8, HolderActs DEF HolderPCs

LEMMA SyncTmpKeeps ==
  ASSUME OneVault, NEW t \in VaultTasks, SyncTmp(t)
  PROVE  OneVault'
<1>0. PICK x, i, d : /\ x = vaultTask[t] /\ i = vaultTask[t].fd
                     /\ d = [inode[i] EXCEPT !.synced = TRUE]
  OBVIOUS
<1>y. PICK y : y = [pc |-> "rename", req |-> x.req, obj |-> x.obj,
                    loaded |-> x.loaded, fd |-> x.fd]
  OBVIOUS
<1>1. /\ x.pc = "sync" /\ UserOk(x) /\ VaultTyped /\ VaultKept
      /\ x.obj = vaultCached /\ vaultCached # 0
      /\ i = vaultTmp /\ i # 0 /\ i \in Inodes /\ i \notin {vaultFile, vaultDisk}
      /\ inode[i].data = Encrypted(vaultKey, vaultObjs[vaultCached])
      /\ UNCHANGED <<vaultCached, vaultObjs, vaultKey, vaultFile, vaultTmp, vaultDisk, maySee>>
  BY <1>0 DEF SyncTmp, TaskAt, OneVault, vaultMem, UserOk, UserPCs, HolderPCs,
              FileInHand, VaultTyped
<1>2. d = [data |-> inode[i].data, synced |-> TRUE] /\ d \in VaultFiles
  BY <1>0, <1>1 DEF VaultTyped, VaultFiles
<1>3. inode' = [inode EXCEPT ![i] = d]
  BY <1>0 DEF SyncTmp
<1>4. vaultTask' = [vaultTask EXCEPT ![t] = y]
  BY <1>0, <1>1, <1>y, GoesTo DEF SyncTmp
<1>5. inode'[i] = d /\ inode' \in [Inodes -> VaultFiles]
  BY <1>1, <1>2, <1>3 DEF VaultTyped
<1>6. VaultTyped'
  BY <1>1, <1>5 DEF VaultTyped
<1>7. UserOk(y)'
  <2>1. /\ y.pc = "rename" /\ y.req = x.req /\ y.obj = x.obj /\ y.loaded = x.loaded
        /\ y.fd = i /\ ShapedTask(y)
    BY <1>0, <1>y DEF ShapedTask
  <2>2. TaskTyped(y)
    BY <1>1, <2>1 DEF UserOk, TaskTyped, UserPCs, HolderPCs
  <2>3. FileInHand(y, vaultObjs[vaultCached])'
    BY <1>1, <1>2, <1>5, <2>1 DEF FileInHand
  <2> QED
    BY <1>1, <2>1, <2>2, <2>3 DEF UserOk, HolderPCs, UserPCs
<1>8. VaultKept'
  <2>1. Found(vaultFile) /\ Found(vaultDisk)
        /\ vaultFile \in Inodes \cup {0} /\ vaultDisk \in Inodes \cup {0}
    BY <1>1 DEF VaultKept, VaultTyped
  <2>2. \A j : j \in {vaultFile, vaultDisk} => Found(j)'
    BY <1>1, <1>3, <2>1, FoundElsewhere
  <2> QED
    BY <1>1, <2>2 DEF VaultKept
<1> QED
  BY <1>0, <1>1, <1>4, <1>6, <1>7, <1>8, HolderActs DEF HolderPCs

LEMMA RenameTmpKeeps ==
  ASSUME OneVault, NEW t \in VaultTasks, RenameTmp(t)
  PROVE  OneVault'
<1>0. PICK x : x = vaultTask[t]
  OBVIOUS
<1>y. PICK y : y = [pc |-> "finish", req |-> x.req, obj |-> x.obj,
                    loaded |-> x.loaded, fd |-> x.fd]
  OBVIOUS
<1>1. /\ x.pc = "rename" /\ UserOk(x) /\ VaultTyped /\ VaultKept
      /\ x.obj = vaultCached /\ vaultCached # 0 /\ vaultCached \in VaultIds
      /\ vaultTmp # 0 /\ vaultTmp \in Inodes
      /\ inode[vaultTmp].data = Encrypted(vaultKey, vaultObjs[vaultCached])
      /\ inode[vaultTmp].synced
      /\ UNCHANGED <<vaultCached, vaultObjs, vaultKey, inode, vaultDisk, maySee>>
  BY <1>0 DEF RenameTmp, TaskAt, OneVault, vaultMem, UserOk, UserPCs, HolderPCs,
              FileInHand, VaultTyped
<1>2. vaultFile' = vaultTmp /\ vaultTmp' = 0 /\ GoTo(t, "finish")
  BY <1>1 DEF RenameTmp
<1>3. vaultTask' = [vaultTask EXCEPT ![t] = y]
  BY <1>0, <1>1, <1>2, <1>y, GoesTo
<1>4. /\ inode[vaultTmp].data # Broken
      /\ inode[vaultTmp].data.secrets = vaultObjs[vaultCached]
  BY <1>1, CipherAssumption DEF Encrypted, VaultTyped
<1>5. VaultTyped'
  BY <1>1, <1>2 DEF VaultTyped
<1>6. UserOk(y)'
  <2>1. /\ y.pc = "finish" /\ y.req = x.req /\ y.obj = x.obj /\ y.loaded = x.loaded
        /\ ShapedTask(y)
    BY <1>0, <1>y DEF ShapedTask
  <2>2. TaskTyped(y)
    BY <1>1, <2>1 DEF UserOk, TaskTyped, UserPCs, HolderPCs
  <2>3. FileInHand(y, vaultObjs[vaultCached])'
    BY <1>1, <1>2, <1>4, <2>1 DEF FileInHand
  <2> QED
    BY <1>1, <2>1, <2>2, <2>3 DEF UserOk, HolderPCs, UserPCs
<1>7. VaultKept'
  BY <1>1, <1>2, <1>4 DEF VaultKept, Found
<1> QED
  BY <1>0, <1>1, <1>2, <1>3, <1>5, <1>6, <1>7, HolderActs DEF HolderPCs

\* The file holds what the vault holds: the acknowledged change among it.
LEMMA AcknowledgeKeeps ==
  ASSUME OneVault, NEW t \in VaultTasks, Acknowledge(t)
  PROVE  OneVault'
<1>0. PICK x, r : x = vaultTask[t] /\ r = vaultTask[t].req
  OBVIOUS
<1>1. /\ x.pc = "finish" /\ UserOk(x) /\ VaultTyped /\ VaultKept
      /\ vaultCached # 0 /\ vaultCached \in VaultIds /\ ValidSecret(r)
      /\ r.action \in {"secret_set", "secret_delete"}
      /\ vaultObjs[vaultCached][r.name] = After(r)
      /\ vaultFile # 0 /\ inode[vaultFile].data.secrets = vaultObjs[vaultCached]
      /\ UNCHANGED <<vaultCached, vaultObjs, vaultKey, inode, vaultFile, vaultTmp>>
      /\ vaultTmp # 0 => vaultTmp # vaultFile
  BY <1>0 DEF Acknowledge, TaskAt, OneVault, vaultMem, UserOk, UserPCs, HolderPCs,
              FileInHand, VaultTyped, TaskTyped
<1>2. vaultDisk' = vaultFile /\ maySee' = [maySee EXCEPT ![r.name] = {After(r)}]
  BY <1>0 DEF Acknowledge
<1>3. r.name \in SecretNames /\ After(r) \in SecretValues \cup {Gone}
  BY <1>1, AfterIsSecret
<1>4. VaultTyped'
  BY <1>1, <1>2, <1>3 DEF VaultTyped
<1>5. VaultKept'
  <2>1. \A n \in SecretNames : vaultObjs[vaultCached][n] \in maySee'[n]
    BY <1>1, <1>2, <1>3 DEF VaultKept, VaultTyped
  <2> QED
    BY <1>1, <1>2, <2>1 DEF VaultKept, Found
<1>6. UserOk(IdleTask)'
  BY DEF UserOk, IdleTask, TaskTyped, FileInHand, UserPCs, HolderPCs
<1>7. vaultTask' = [vaultTask EXCEPT ![t] = IdleTask]
  BY DEF Acknowledge, Replied
<1> QED
  BY <1>0, <1>1, <1>2, <1>4, <1>5, <1>6, <1>7, HolderActs DEF HolderPCs

\* What was synced is there after a crash of either kind.
LEMMA CrashKeeps ==
  ASSUME OneVault, VaultDies \/ PowerLoss
  PROVE  OneVault'
<1>1. /\ VaultTyped /\ VaultKept
      /\ vaultTask' = [t \in VaultTasks |-> IdleTask] /\ vaultCached' = 0
      /\ vaultObjs' = [o \in VaultIds |-> NoSecrets] /\ vaultKey' \in StartKeys
      /\ UNCHANGED maySee
  BY DEF VaultDies, PowerLoss, VaultCrash, OneVault
<1>2. /\ vaultFile' \in {vaultFile, vaultDisk} /\ vaultDisk' \in {vaultFile, vaultDisk}
      /\ vaultTmp' \in {0, vaultTmp}
      /\ vaultTmp' # 0 => vaultTmp' \notin {vaultFile', vaultDisk'}
  BY DEF VaultDies, PowerLoss, OneVault, vaultFs
<1>3. /\ inode' \in [Inodes -> VaultFiles]
      /\ \A i \in Inodes : inode[i].synced => inode'[i] = inode[i]
  <2>1. inode \in [Inodes -> VaultFiles]
    BY <1>1 DEF VaultTyped
  <2>2. CASE inode' = inode
    BY <2>1, <2>2
  <2>3. CASE inode' = [i \in Inodes |-> IF inode[i].synced THEN inode[i]
                                        ELSE [data |-> Broken, synced |-> TRUE]]
    <3>1. [data |-> Broken, synced |-> TRUE] \in VaultFiles
      BY DEF VaultFiles
    <3> QED
      BY <2>1, <2>3, <3>1
  <2> QED
    BY <2>2, <2>3 DEF VaultDies, PowerLoss, vaultFs
<1>4. VaultTyped'
  BY <1>1, <1>2, <1>3, VaultConstants DEF VaultTyped
<1>5. \A i \in {vaultFile, vaultDisk} : Found(i)'
  BY <1>1, <1>3 DEF VaultKept, VaultTyped, Found
<1>6. VaultKept'
  <2>1. vaultCached' = 0
    BY <1>1
  <2>2. \A i : i \in {vaultFile, vaultDisk} => Found(i)'
    BY <1>5
  <2>3. Found(vaultFile)' /\ Found(vaultDisk)'
    BY <1>2, <2>2 DEF Found
  <2> QED
    BY <2>1, <2>3 DEF VaultKept
<1>7. /\ vaultTask' = [t \in VaultTasks |-> vaultTask'[t]]
      /\ \A t \in VaultTasks : vaultTask'[t] = IdleTask
  BY <1>1
<1>8. \A t \in VaultTasks : UserOk(vaultTask[t])'
  BY <1>7 DEF UserOk, IdleTask, TaskTyped, FileInHand, UserPCs, HolderPCs
<1>9. OneHolder'
  BY <1>7 DEF OneHolder, IdleTask, HolderPCs
<1> QED
  BY <1>2, <1>4, <1>6, <1>7, <1>8, <1>9 DEF OneVault

LEMMA StartsKept == VaultInit => VaultInv
<1> SUFFICES ASSUME VaultInit PROVE OneVault
  BY DEF VaultInv
<1>1. VaultTyped
  BY VaultConstants DEF VaultInit, VaultTyped, VaultFiles
<1>2. \A t \in VaultTasks : UserOk(vaultTask[t])
  BY IdleIsOk DEF VaultInit
<1>3. OneHolder
  BY DEF VaultInit, OneHolder, IdleTask, HolderPCs
<1>4. VaultKept
  BY DEF VaultInit, VaultKept, Found
<1> QED
  BY <1>1, <1>2, <1>3, <1>4 DEF OneVault, VaultInit

LEMMA TaskStepKeeps ==
  ASSUME OneVault, ~vaultRaced', NEW t \in VaultTasks,
         \/ VaultAccept(t) \/ Lookup(t) \/ Load(t) \/ Insert(t)
         \/ Change(t) \/ CreateTmp(t) \/ WriteTmp(t) \/ SyncTmp(t) \/ RenameTmp(t)
         \/ Acknowledge(t) \/ AcknowledgeUnsynced(t) \/ PersistFails(t)
  PROVE  OneVault'
<1>1. CASE VaultAccept(t)
  BY <1>1, AcceptKeeps
<1>2. CASE Lookup(t)
  BY <1>2, LookupKeeps
<1>3. CASE Load(t)
  BY <1>3, LoadKeeps
<1>4. CASE Insert(t)
  BY <1>4, InsertKeeps DEF Insert
<1>5. CASE Change(t)
  BY <1>5, ChangeKeeps
<1>6. CASE CreateTmp(t)
  BY <1>6, CreateTmpKeeps
<1>7. CASE WriteTmp(t)
  BY <1>7, WriteTmpKeeps
<1>8. CASE SyncTmp(t)
  BY <1>8, SyncTmpKeeps
<1>9. CASE RenameTmp(t)
  BY <1>9, RenameTmpKeeps
<1>10. CASE Acknowledge(t)
  BY <1>10, AcknowledgeKeeps
<1>11. CASE AcknowledgeUnsynced(t) \/ PersistFails(t)
  BY <1>11, TaskReplied DEF AcknowledgeUnsynced, PersistFails, vaultMem, vaultFs
<1> QED
  BY <1>1, <1>2, <1>3, <1>4, <1>5, <1>6, <1>7, <1>8, <1>9, <1>10, <1>11

\* Once raced, always raced: what holds before the race was never lost.
LEMMA VaultStep ==
  ASSUME VaultInv, [VaultNext]_vaultVars
  PROVE  VaultInv'
<1>1. vaultRaced => vaultRaced'
  BY DEF VaultNext, vaultVars, vaultMem, VaultAccept, Lookup, Load, Insert, Change,
         CreateTmp, WriteTmp, SyncTmp, RenameTmp, Acknowledge, AcknowledgeUnsynced,
         PersistFails, VaultDies, PowerLoss, VaultCrash
<1> SUFFICES ASSUME ~vaultRaced' PROVE OneVault'
  BY DEF VaultInv
<1>2. OneVault
  BY <1>1 DEF VaultInv
<1>3. CASE VaultDies \/ PowerLoss
  BY <1>2, <1>3, CrashKeeps
<1>4. CASE UNCHANGED vaultVars
  BY <1>2, <1>4 DEF vaultVars, OneVault, VaultTyped, UserOk, TaskTyped, ShapedTask,
                    FileInHand, OneHolder, VaultKept, Found, ValidSecret, Served
<1>5. CASE \E t \in VaultTasks :
             \/ VaultAccept(t) \/ Lookup(t) \/ Load(t) \/ Insert(t)
             \/ Change(t) \/ CreateTmp(t) \/ WriteTmp(t) \/ SyncTmp(t) \/ RenameTmp(t)
             \/ Acknowledge(t) \/ AcknowledgeUnsynced(t) \/ PersistFails(t)
  BY <1>2, <1>5, TaskStepKeeps
<1> QED
  BY <1>3, <1>4, <1>5 DEF VaultNext

\* As long as a caller never had two vaults in use, what was acknowledged is in
\* memory, in the file, and in the file that a power loss would leave: the
\* promise of atomic_write, for any number of tasks, names, values, keys,
\* failing file operations and crashes.
THEOREM SecretsAreKept == VaultSpec => []VaultKeepsPromises
<1>1. VaultInv => VaultKeepsPromises
  BY DEF VaultInv, OneVault, VaultKept, VaultKeepsPromises
<1> QED
  BY StartsKept, VaultStep, <1>1, PTL DEF VaultSpec

-----------------------------------------------------------------------------
(* Sound: the speakers and the temporary files have one owner               *)

Started == soundStep.pc = "started"

\* The audio of clip c is in its file.
HoldsFile(name, key) == name # Unset => [name |-> name, clip |-> key, whole |-> TRUE] \in tempFiles

SoundInv ==
  /\ soundStep.pc \in {"idle", "started"}
  /\ soundSpent \in [plays : Int, faults : Int, crashes : Int]
  /\ \A c, d \in clips : c = d
  /\ \A p \in playing : \/ \E c \in clips : c.key = p
                        \/ p \in orphans
                        \/ Started /\ p = soundSpent.plays
  /\ \A f \in tempFiles :
       f.whole => /\ f.name # Unset
                  /\ \/ \E c \in clips : c.file = f.name
                     \/ f.name \in abandoned
                     \/ Started /\ f.name = soundStep.file
  /\ ~sameName => IF Started THEN HoldsFile(soundStep.file, soundSpent.plays)
                             ELSE \A c \in clips : HoldsFile(c.file, c.key)

\* A file that reaping leaves belongs to a clip that is alive, or was abandoned;
\* and while the one clip is alive reaping leaves every file.
LEMMA ReapKeeps ==
  ASSUME SoundInv, soundStep.pc = "idle"
  PROVE  /\ Alive \subseteq clips /\ Reaped \subseteq tempFiles
         /\ \A f \in Reaped : f.whole => f.name # Unset
                              /\ ((\E c \in Alive : c.file = f.name) \/ f.name \in abandoned)
         /\ Alive # {} => Reaped = tempFiles
         /\ \A p \in playing : (\E c \in Alive : c.key = p) \/ p \in orphans
<1>1. Alive \subseteq clips /\ Reaped \subseteq tempFiles
  BY DEF Alive, Reaped
<1>2. \A f \in Reaped : f.whole => f.name # Unset
                        /\ ((\E c \in Alive : c.file = f.name) \/ f.name \in abandoned)
  BY <1>1 DEF Reaped, SoundInv, Started
<1>3. Alive # {} => Reaped = tempFiles
  <2> SUFFICES ASSUME Alive # {} PROVE Reaped = tempFiles
    OBVIOUS
  <2>1. clips \ Alive = {}
    BY <1>1 DEF SoundInv
  <2> QED
    BY <2>1 DEF Reaped
<1>4. \A p \in playing : (\E c \in Alive : c.key = p) \/ p \in orphans
  BY DEF Alive, SoundInv, Started
<1> QED
  BY <1>1, <1>2, <1>3, <1>4

LEMMA PlayClipKeeps ==
  ASSUME SoundInv, NEW r, PlayClip(r)
  PROVE  SoundInv'
<1> DEFINE name == IF ValidPlay(r) /\ r.data # Unset THEN <<soundMillis, r.format>> ELSE Unset
           written == IF name = Unset THEN Reaped
                      ELSE Others(name) \cup {TempFile(name, TRUE)}
<1>1. /\ soundStep.pc = "idle" /\ ~Started
      /\ soundSpent' = [soundSpent EXCEPT !.plays = @ + 1]
      /\ UNCHANGED <<nextClip, soundMillis, abandoned, orphans>>
      /\ sameName' = (sameName \/ (name # Unset /\ SourceFits(r)
                                       /\ \E f \in Reaped : f.name = name))
  BY DEF PlayClip, Started
<1>2. /\ soundSpent' \in [plays : Int, faults : Int, crashes : Int]
      /\ soundSpent'.plays = soundSpent.plays + 1 /\ NewKey = soundSpent.plays + 1
  BY <1>1 DEF SoundInv, NewKey
<1>3. \/ ~ValidPlay(r) /\ UNCHANGED <<soundStep, clips, playing, tempFiles>>
      \/ /\ ValidPlay(r) /\ ~SourceFits(r)
         /\ clips' = Alive /\ tempFiles' = Reaped /\ UNCHANGED <<soundStep, playing>>
      \/ /\ SourceFits(r)
         /\ clips' = Alive /\ tempFiles' = Others(name)
         /\ UNCHANGED <<soundStep, playing>>
      \/ /\ SourceFits(r)
         /\ clips' = Alive /\ tempFiles' = written
         /\ playing' = playing \cup {NewKey} /\ soundStep' = [pc |-> "started", file |-> name]
  BY DEF PlayClip
<1>4. /\ Alive \subseteq clips /\ Reaped \subseteq tempFiles
      /\ \A f \in Reaped : f.whole => f.name # Unset
                           /\ ((\E c \in Alive : c.file = f.name) \/ f.name \in abandoned)
      /\ Alive # {} => Reaped = tempFiles
      /\ \A p \in playing : (\E c \in Alive : c.key = p) \/ p \in orphans
      /\ \A c, d \in Alive : c = d
  BY <1>1, ReapKeeps DEF SoundInv
<1>5. ~sameName => \A c \in Alive : HoldsFile(c.file, c.key)
  BY <1>1, <1>4 DEF SoundInv
<1> HIDE DEF name
<1>6. CASE ~ValidPlay(r) /\ UNCHANGED <<soundStep, clips, playing, tempFiles>>
  BY <1>1, <1>2, <1>6 DEF SoundInv, Started, HoldsFile
<1>7. ASSUME clips' = Alive, tempFiles' \subseteq Reaped, soundStep' = soundStep, playing' = playing,
             ~sameName' => ~sameName /\ \A f \in Reaped : f.name # Unset /\ f \notin tempFiles' => FALSE
      PROVE  SoundInv'
  <2>1. ~sameName' => \A c \in clips' : HoldsFile(c.file, c.key)'
    BY <1>4, <1>5, <1>7 DEF HoldsFile
  <2> QED
    BY <1>1, <1>2, <1>4, <1>7, <2>1 DEF SoundInv, Started
<1>8. CASE /\ ValidPlay(r) /\ ~SourceFits(r)
           /\ clips' = Alive /\ tempFiles' = Reaped /\ UNCHANGED <<soundStep, playing>>
  BY <1>1, <1>7, <1>8
<1>9. CASE /\ SourceFits(r)
           /\ clips' = Alive /\ tempFiles' = Others(name)
           /\ UNCHANGED <<soundStep, playing>>
  <2>1. tempFiles' = {f \in Reaped : f.name # name}
    BY <1>9 DEF Others
  <2>2. ~sameName' => ~sameName /\ \A f \in Reaped : f.name # Unset /\ f \notin tempFiles' => FALSE
    BY <1>1, <1>9, <2>1
  <2> QED
    BY <1>7, <1>9, <2>1, <2>2
<1>10. CASE /\ SourceFits(r)
            /\ clips' = Alive /\ tempFiles' = written
            /\ playing' = playing \cup {NewKey} /\ soundStep' = [pc |-> "started", file |-> name]
  <2>1. soundStep'.pc = "started" /\ soundStep'.file = name /\ Started'
    BY <1>10 DEF Started
  <2>2. \A f \in tempFiles' : f \in Reaped \/ (name # Unset /\ f.name = name)
    BY <1>10 DEF Others, TempFile
  <2>3. name # Unset => [name |-> name, clip |-> soundSpent'.plays, whole |-> TRUE] \in tempFiles'
    BY <1>2, <1>10 DEF TempFile
  <2>4. \A f \in tempFiles' : f.whole => f.name # Unset /\ ((\E c \in Alive : c.file = f.name)
                                     \/ f.name \in abandoned \/ f.name = name)
    BY <1>4, <2>2
  <2>5. \A p \in playing' : (\E c \in Alive : c.key = p) \/ p \in orphans \/ p = soundSpent'.plays
    BY <1>2, <1>4, <1>10
  <2> QED
    BY <1>1, <1>2, <1>4, <1>10, <2>1, <2>3, <2>4, <2>5 DEF SoundInv, HoldsFile
<1> QED
  BY <1>3, <1>6, <1>8, <1>9, <1>10

LEMMA PlayFailsKeeps ==
  ASSUME SoundInv, NEW r, PlayFails(r)
  PROVE  SoundInv'
<1> DEFINE name == IF r.data # Unset THEN <<soundMillis, r.format>> ELSE Unset
<1>1. /\ soundStep.pc = "idle" /\ ~Started /\ ~Started'
      /\ soundSpent' = [soundSpent EXCEPT !.plays = @ + 1, !.faults = @ + 1]
      /\ clips' = Alive /\ tempFiles' = Others(name)
      /\ sameName' = (sameName \/ \E f \in Reaped : f.name = name)
      /\ UNCHANGED <<soundStep, nextClip, playing, soundMillis, abandoned, orphans>>
  BY DEF PlayFails, Started
<1> HIDE DEF name
<1>2. soundSpent' \in [plays : Int, faults : Int, crashes : Int]
  <2> DEFINE s1 == [soundSpent EXCEPT !.plays = soundSpent.plays + 1]
  <2>1. s1 \in [plays : Int, faults : Int, crashes : Int] /\ s1.faults = soundSpent.faults
    BY DEF SoundInv
  <2>2. soundSpent' = [s1 EXCEPT !.faults = soundSpent.faults + 1]
    BY <1>1
  <2> HIDE DEF s1
  <2>3. soundSpent.faults + 1 \in Int
    BY DEF SoundInv
  <2> QED
    BY <2>1, <2>2, <2>3
<1>3. ~sameName' => ~sameName /\ tempFiles' = Reaped
  BY <1>1 DEF Others
<1>4. ~sameName' => \A c \in clips' : HoldsFile(c.file, c.key)'
  BY <1>1, <1>3, ReapKeeps DEF HoldsFile, SoundInv
<1>5. \A f \in tempFiles' : f \in Reaped
  BY <1>1 DEF Others
<1> QED
  BY <1>1, <1>2, <1>4, <1>5, ReapKeeps DEF SoundInv

LEMMA WriteFailsKeeps ==
  ASSUME SoundInv, NEW r, WriteFails(r)
  PROVE  SoundInv'
<1> DEFINE name == <<soundMillis, r.format>>
           part == TempFile(name, FALSE)
<1>1. /\ soundStep.pc = "idle" /\ ~Started /\ ~Started'
      /\ soundSpent' = [soundSpent EXCEPT !.plays = @ + 1, !.faults = @ + 1]
      /\ clips' = Alive /\ tempFiles' \in {Reaped, Others(name) \cup {part}}
      /\ sameName' = (sameName \/ \E f \in Reaped : f.name = name)
      /\ UNCHANGED <<soundStep, nextClip, playing, soundMillis, abandoned, orphans>>
  BY DEF WriteFails, Started
<1>2. ~part.whole
  BY DEF TempFile
<1> HIDE DEF name, part
<1>3. soundSpent' \in [plays : Int, faults : Int, crashes : Int]
  <2> DEFINE s1 == [soundSpent EXCEPT !.plays = soundSpent.plays + 1]
  <2>1. s1 \in [plays : Int, faults : Int, crashes : Int] /\ s1.faults = soundSpent.faults
    BY DEF SoundInv
  <2>2. soundSpent' = [s1 EXCEPT !.faults = soundSpent.faults + 1]
    BY <1>1
  <2> HIDE DEF s1
  <2>3. soundSpent.faults + 1 \in Int
    BY DEF SoundInv
  <2> QED
    BY <2>1, <2>2, <2>3
<1>4. ~sameName' => ~sameName /\ Reaped \subseteq tempFiles'
  BY <1>1 DEF Others
<1>5. ~sameName' => \A c \in clips' : HoldsFile(c.file, c.key)'
  BY <1>1, <1>4, ReapKeeps DEF HoldsFile, SoundInv
<1>6. \A f \in tempFiles' : f \in Reaped \/ f = part
  BY <1>1 DEF Others
<1> QED
  BY <1>1, <1>2, <1>3, <1>5, <1>6, ReapKeeps DEF SoundInv

LEMMA StopKeeps ==
  ASSUME SoundInv, NEW r, StopOrStatus(r)
  PROVE  SoundInv'
<1>1. PICK S : S = Stopped(r)
  OBVIOUS
<1>2. /\ soundStep.pc = "idle" /\ ~Started /\ ~Started'
      /\ clips' = Alive \ S /\ tempFiles' = Reaped /\ playing' = Killed(S)
      /\ abandoned' = abandoned \cup FilesOf(S)
      /\ UNCHANGED <<soundStep, nextClip, soundMillis, orphans, sameName, soundSpent>>
  BY <1>1 DEF StopOrStatus, Started
<1>3. ~sameName' => \A c \in clips' : HoldsFile(c.file, c.key)'
  BY <1>2, ReapKeeps DEF HoldsFile, SoundInv
<1>4. \A p \in playing' : (\E c \in clips' : c.key = p) \/ p \in orphans
  BY <1>2, ReapKeeps DEF Killed
<1>5. \A f \in tempFiles' : f.whole => f.name # Unset /\ ((\E c \in clips' : c.file = f.name) \/ f.name \in abandoned')
  BY <1>2, ReapKeeps DEF FilesOf
<1> QED
  BY <1>2, <1>3, <1>4, <1>5, ReapKeeps DEF SoundInv

LEMMA TakeKeeps ==
  ASSUME SoundInv, TakeSpeakers
  PROVE  SoundInv'
<1>1. PICK c : c = [id |-> nextClip + 1, key |-> soundSpent.plays, file |-> soundStep.file]
  OBVIOUS
<1>2. /\ c.key = soundSpent.plays /\ c.file = soundStep.file /\ Started /\ ~Started'
      /\ clips' = {c} /\ playing' = Killed(clips) /\ soundStep'.pc = "idle"
      /\ abandoned' = abandoned \cup FilesOf(clips)
      /\ UNCHANGED <<tempFiles, soundMillis, orphans, sameName, soundSpent>>
  BY <1>1 DEF TakeSpeakers, Started
<1>3. \A p \in playing' : p = c.key \/ p \in orphans
  BY <1>2 DEF SoundInv, Killed
<1>4. \A f \in tempFiles' : f.whole => f.name # Unset /\ (c.file = f.name \/ f.name \in abandoned')
  BY <1>2 DEF SoundInv, FilesOf
<1>5. ~sameName' => HoldsFile(c.file, c.key)'
  BY <1>2 DEF SoundInv, HoldsFile
<1> QED
  BY <1>2, <1>3, <1>4, <1>5 DEF SoundInv

\* sound/src/handler.rs, between two requests: at most one player runs that sound_stop
\* would not end, no file that was written in full is left but those of killed clips,
\* and the clip that plays still has all of its file. For any requests, players,
\* failing writes, failing players and restarts.
THEOREM SpeakersAreOwned == SoundSpec => []SpeakersHaveOneOwner
<1>1. SoundInit => SoundInv
  BY DEF SoundInit, SoundInv, Started
<1>2. SoundInv /\ [SoundNext]_soundVars => SoundInv'
  <2> SUFFICES ASSUME SoundInv, [SoundNext]_soundVars PROVE SoundInv'
    OBVIOUS
  <2>1. ASSUME NEW k \in playing, PlayerEnds(k) PROVE SoundInv'
    BY <2>1 DEF PlayerEnds, SoundInv, Started, HoldsFile
  <2>2. CASE SoundTick \/ UNCHANGED soundVars
    BY <2>2 DEF SoundTick, soundVars, SoundInv, Started, HoldsFile
  <2>3. ASSUME NEW left, left \subseteq playing, SoundRestarts(left) PROVE SoundInv'
    <3>1. soundSpent' \in [plays : Int, faults : Int, crashes : Int]
      BY <2>3 DEF SoundRestarts, SoundInv
    <3>2. soundStep'.pc = "idle" /\ clips' = {} /\ playing' = left /\ left \subseteq orphans'
      BY <2>3 DEF SoundRestarts
    <3>3. \A f \in tempFiles' : f.whole => f.name # Unset /\ f.name \in abandoned'
      BY <2>3 DEF SoundRestarts, SoundInv
    <3> QED
      BY <3>1, <3>2, <3>3 DEF SoundInv, Started
  <2>4. CASE SoundShutdown \/ SoundDies
    BY <2>3, <2>4 DEF SoundShutdown, SoundDies, Killed
  <2> QED
    BY <2>1, <2>2, <2>4, PlayClipKeeps, WriteFailsKeeps, PlayFailsKeeps, StopKeeps, TakeKeeps
       DEF SoundNext
<1>3. SoundInv => SpeakersHaveOneOwner
  <2> SUFFICES ASSUME SoundInv, soundStep.pc = "idle"
               PROVE  /\ Cardinality(clips) <= 1
                      /\ playing \subseteq {c.key : c \in clips} \cup orphans
                      /\ {f.name : f \in {g \in tempFiles : g.whole}} \subseteq FilesOf(clips) \cup abandoned
                      /\ ~sameName => \A c \in clips : HoldsFile(c.file, c.key)
    BY DEF SpeakersHaveOneOwner, HoldsFile
  <2>1. Cardinality(clips) <= 1
    <3>1. CASE clips = {}
      BY <3>1, FS_EmptySet
    <3>2. CASE clips # {}
      <4>1. PICK c \in clips : TRUE
        BY <3>2
      <4>2. clips = {c}
        BY <4>1 DEF SoundInv
      <4>3. Cardinality({c}) = 1
        BY FS_Singleton, Zenon
      <4> QED
        BY <4>2, <4>3
    <3> QED
      BY <3>1, <3>2
  <2> QED
    BY <2>1 DEF SoundInv, Started, FilesOf
<1> QED
  BY <1>1, <1>2, <1>3, PTL DEF SoundSpec

-----------------------------------------------------------------------------
(* Notes: what callers and subscribers are told is true                     *)

NoteFields == {"title", "body", "tags"}
NoteTaskFields == {"pc", "request", "params", "note", "id", "expects", "result", "say"}
NoteOps == {"db_incr", "db_get", "db_keys", "db_batch_get", "db_set", "db_delete"}
NoteWrites == {"db_set", "db_delete"}

\* Note i is one of the stored notes or its creation has been carried out.
NoteSettled(i) ==
  /\ i \in DOMAIN noteDocs
  /\ i \in DOMAIN NotesStored \/ \E q \in noteOwner[i] : q \in noteChanged

\* Note i has been deleted, and is still gone unless something raced.
NoteGone(i) == NoteSettled(i) /\ (i \notin noteRaced => noteDocs[i] = Absent)

\* Note i was given to the create request q.
NoteGiven(i, q) == i \in DOMAIN noteDocs /\ noteOwner[i] = {q}

\* A request has been given no id.
NoIdYet(q) == \A i \in DOMAIN noteDocs : q \notin noteOwner[i]

MayBeStored(note) == DOMAIN note = NoteFields /\ ~BlankNote(note.title, note.body)

\* A call that has not been carried out, of request q.
NoteCallOK(q, op) ==
  /\ q \in 1..noteSpent.requests /\ q \notin noteChanged
  /\ op.kind \in NoteOps
  /\ op.kind = "db_incr" => NoIdYet(q)
  /\ op.kind = "db_set" =>
       /\ MayBeStored(op.note)
       /\ IF op.read = Absent THEN NoteGiven(op.id, q) ELSE NoteSettled(op.id)

\* The answer a to the call a task x waits for.
NoteAnswerTrue(x, a) ==
  a.ok =>
    /\ a.data[1] \notin NoteWrites => x.request \notin noteChanged
    /\ a.data[1] = "db_incr" => NoteGiven(a.data[2], x.request)
    /\ a.data[1] = "db_get" /\ a.data[2] # Absent => MayBeStored(a.data[2]) /\ NoteSettled(x.id)
    /\ a.data[1] \in NoteWrites /\ a.data[2] => x.request \in noteChanged
    /\ a.data[1] = "db_delete" /\ a.data[2] => NoteGone(x.id)

NoteMessageTrue(m) ==
  /\ m.did # "nothing" => m.ok /\ m.request \in noteChanged
  /\ m.did = "note_create" => NoteGiven(m.id, m.request)
  /\ m.did = "note_delete" => NoteGone(m.id)

\* The reply an event comes after.
ReplyOf(m) == [m EXCEPT !.event = FALSE]

NoteSaid == noteSent \cup {noteOut[i] : i \in 1..Len(noteOut)}

\* What a task has still to say.
SayTrue(say) ==
  /\ IsSequence(say) /\ Len(say) \in {1, 2}
  /\ NoteMessageTrue(say[1])
  /\ Len(say) = 1 /\ say[1].event => ReplyOf(say[1]) \in NoteSaid
  /\ Len(say) = 2 => NoteMessageTrue(say[2]) /\ ~say[1].event /\ say[1] = ReplyOf(say[2])

\* The calls each action makes, and what they are about.
Expected == [note_create |-> {"db_incr", "db_set"}, note_get |-> {"db_get"},
             note_update |-> {"db_get", "db_set"}, note_delete |-> {"db_delete"},
             note_list |-> {"db_keys", "db_batch_get"}]

FirstOK(x) ==
  /\ ValidNoteRequest(x.params) /\ x.request \notin noteChanged /\ NoIdYet(x.request)
  /\ x.params.action \in {"note_get", "note_update", "note_delete"} => x.id = x.params.id

WaitOK(x) ==
  /\ ValidNoteRequest(x.params) /\ x.expects \in Expected[x.params.action]
  /\ x.params.action = "note_create" /\ x.expects = "db_set" => NoteGiven(x.id, x.request)
  /\ x.result # Absent => NoteAnswerTrue(x, x.result)

NoteTaskOK(x) ==
  x.pc # "idle" =>
    /\ DOMAIN x = NoteTaskFields
    /\ x.pc \in {"first", "refuse", "wait", "reply"}
    /\ x.request \in 1..noteSpent.requests /\ x.params \in NoteRequests
    /\ x.pc = "first" => FirstOK(x)
    /\ x.pc = "wait" => WaitOK(x)
    /\ x.pc = "reply" => SayTrue(x.say)

\* A call and the task that waits for it.
NoteMatches(x, op) ==
  /\ op.kind = x.expects
  /\ op.kind \in {"db_get", "db_set", "db_delete"} => op.id = x.id

NoteTyped ==
  /\ DOMAIN noteTask = NoteTasks
  /\ IsSequence(noteRpc) /\ IsSequence(noteOut)
  /\ noteSeq \in Nat
  /\ DOMAIN noteSpent = {"requests", "faults", "crashes"}
  /\ noteSpent.requests \in Nat /\ noteSpent.requests <= MaxNoteRequests
  /\ noteChanged \subseteq 1..noteSpent.requests
  /\ DOMAIN noteDocs = 1..(MaxNoteRequests + Len(NotesStored))
  /\ DOMAIN noteOwner = DOMAIN noteDocs
  /\ \A c \in noteFlight : DOMAIN c = {"n", "request", "op"} /\ c.n \in Nat /\ c.n <= noteSeq
  /\ \A a \in noteAnswers : a.n \in Nat /\ a.n <= noteSeq
  /\ DOMAIN notePending \subseteq 1..noteSeq

\* The tasks serve different requests.
RequestsApart ==
  \A t, u \in NoteTasks : (/\ noteTask[t].pc # "idle" /\ noteTask[u].pc # "idle"
                           /\ noteTask[t].request = noteTask[u].request) => t = u

\* One call at a time per request, and the loop's numbers name them.
OneCallEach ==
  /\ \A i, j \in 1..Len(noteRpc) : noteRpc[i].request = noteRpc[j].request => i = j
  /\ \A c, d \in noteFlight : c.request = d.request => c = d
  /\ \A i \in 1..Len(noteRpc) :
       /\ \A c \in noteFlight : noteRpc[i].request # c.request
       /\ \A n \in DOMAIN notePending : noteRpc[i].request # notePending[n].request
  /\ \A m, n \in DOMAIN notePending : notePending[m].request = notePending[n].request => m = n
  /\ \A c \in noteFlight, n \in DOMAIN notePending :
       c.n = n <=> c.request = notePending[n].request
  /\ \A a \in noteAnswers, c \in noteFlight : a.n \in DOMAIN notePending => a.n # c.n
  /\ \A n \in DOMAIN notePending : notePending[n].request \in 1..noteSpent.requests

CallsTrue ==
  /\ \A i \in 1..Len(noteRpc) : NoteCallOK(noteRpc[i].request, noteRpc[i].op)
  /\ \A c \in noteFlight : NoteCallOK(c.request, c.op)

\* A task between two calls has none under way.
Uncalled(x) == x.pc \in {"first", "refuse"} \/ (x.pc = "wait" /\ x.result # Absent)
NoCalls(x) ==
  Uncalled(x) => /\ \A i \in 1..Len(noteRpc) : noteRpc[i].request # x.request
                 /\ \A c \in noteFlight : c.request # x.request
                 /\ \A n \in DOMAIN notePending : notePending[n].request # x.request

\* The call of a task that waits is the one it waits for, and so is its answer.
InWait(x) == x.pc = "wait" /\ x.result = Absent
CallMatches(x) ==
  InWait(x) =>
    /\ \A i \in 1..Len(noteRpc) : noteRpc[i].request = x.request => NoteMatches(x, noteRpc[i].op)
    /\ \A c \in noteFlight : c.request = x.request => NoteMatches(x, c.op)
    /\ \A a \in noteAnswers :
         a.n \in DOMAIN notePending /\ notePending[a.n].request = x.request => NoteAnswerTrue(x, a)

TaskInv(x) == NoteTaskOK(x) /\ NoCalls(x) /\ CallMatches(x)
TasksTrue == \A t \in NoteTasks : TaskInv(noteTask[t])

MessagesTrue ==
  /\ \A m \in noteSent : NoteMessageTrue(m) /\ (m.event => ReplyOf(m) \in noteSent)
  /\ \A i \in 1..Len(noteOut) :
       /\ NoteMessageTrue(noteOut[i])
       /\ noteOut[i].event => \/ ReplyOf(noteOut[i]) \in noteSent
                              \/ \E j \in 1..i-1 : noteOut[j] = ReplyOf(noteOut[i])

\* Ids are given in their order, once each.
Owners == UNION {noteOwner[i] : i \in DOMAIN noteDocs}
IdsGiven ==
  /\ noteCounter \in Nat /\ noteCounter >= Len(NotesStored)
  /\ \A i \in DOMAIN noteDocs :
       noteOwner[i] # {} => i > Len(NotesStored) /\ i <= noteCounter
  /\ Owners \subseteq 1..noteSpent.requests
  /\ Cardinality(Owners) = noteCounter - Len(NotesStored)

DocsTrue ==
  \A i \in DOMAIN noteDocs : noteDocs[i] # Absent => MayBeStored(noteDocs[i]) /\ NoteSettled(i)

NoteInv ==
  /\ NoteTyped /\ RequestsApart /\ OneCallEach /\ CallsTrue
  /\ TasksTrue /\ MessagesTrue /\ IdsGiven /\ DocsTrue

-----------------------------------------------------------------------------
\* What a step leaves true of the past.
NoteTruthsKept ==
  /\ DOMAIN noteDocs' = DOMAIN noteDocs /\ noteChanged \subseteq noteChanged'
  /\ \A i \in DOMAIN noteDocs : noteOwner[i] # {} => noteOwner'[i] = noteOwner[i]
  /\ \A i : NoteGone(i) => NoteGone(i)'
  /\ noteSpent.requests \in Nat /\ noteSpent'.requests \in Nat
  /\ noteSpent.requests <= noteSpent'.requests
  /\ NoteSaid \subseteq NoteSaid'

\* The step carries out no call of request q.
NoteQuiet(q) == (q \in noteChanged' => q \in noteChanged) /\ (NoIdYet(q) => NoIdYet(q)')

LEMMA DatabaseSame ==
  ASSUME NoteTyped, UNCHANGED noteDatabase, noteSpent'.requests \in Nat,
         noteSpent.requests <= noteSpent'.requests, NoteSaid \subseteq NoteSaid'
  PROVE  NoteTruthsKept /\ \A q : NoteQuiet(q)
BY DEF NoteTyped, noteDatabase, NoteTruthsKept, NoteQuiet, NoIdYet, NoteGone, NoteSettled

LEMMA PastStays ==
  ASSUME NoteTruthsKept
  PROVE  /\ \A i : NoteSettled(i) => NoteSettled(i)'
         /\ \A i, q : NoteGiven(i, q) => NoteGiven(i, q)'
         /\ \A m : NoteMessageTrue(m) => NoteMessageTrue(m)'
         /\ \A s : SayTrue(s) => SayTrue(s)'
<1>1. ASSUME NEW i, NoteSettled(i) PROVE NoteSettled(i)'
  BY <1>1 DEF NoteTruthsKept, NoteSettled
<1>2. ASSUME NEW i, NEW q, NoteGiven(i, q) PROVE NoteGiven(i, q)'
  BY <1>2 DEF NoteTruthsKept, NoteGiven
<1>3. ASSUME NEW m, NoteMessageTrue(m) PROVE NoteMessageTrue(m)'
  <2>1. m.request \in noteChanged => m.request \in noteChanged'
    BY DEF NoteTruthsKept
  <2>2. NoteGone(m.id) => NoteGone(m.id)'
    BY DEF NoteTruthsKept
  <2> QED
    BY <1>2, <1>3, <2>1, <2>2 DEF NoteMessageTrue
<1>4. ASSUME NEW s, SayTrue(s) PROVE SayTrue(s)'
  <2>1. ReplyOf(s[1]) \in NoteSaid => ReplyOf(s[1]) \in NoteSaid'
    BY DEF NoteTruthsKept
  <2>2. /\ NoteMessageTrue(s[1]) => NoteMessageTrue(s[1])'
        /\ NoteMessageTrue(s[2]) => NoteMessageTrue(s[2])'
    BY <1>3
  <2> QED
    BY <1>4, <2>1, <2>2 DEF SayTrue, ReplyOf, IsSequence
<1> QED
  BY <1>1, <1>2, <1>3, <1>4

LEMMA CallStays ==
  ASSUME NoteTruthsKept, NEW q, NEW op, NoteQuiet(q), NoteCallOK(q, op)
  PROVE  NoteCallOK(q, op)'
<1>1. q \in 1..noteSpent'.requests /\ q \notin noteChanged'
  BY DEF NoteTruthsKept, NoteQuiet, NoteCallOK
<1>2. /\ NoteSettled(op.id) => NoteSettled(op.id)'
      /\ NoteGiven(op.id, q) => NoteGiven(op.id, q)'
      /\ NoIdYet(q) => NoIdYet(q)'
  BY PastStays DEF NoteQuiet
<1> QED
  BY <1>1, <1>2 DEF NoteCallOK, MayBeStored

LEMMA AnswerStays ==
  ASSUME NoteTruthsKept, NEW x, NEW a, NoteQuiet(x.request), NoteAnswerTrue(x, a)
  PROVE  NoteAnswerTrue(x, a)'
<1>1. /\ NoteSettled(x.id) => NoteSettled(x.id)'
      /\ NoteGiven(a.data[2], x.request) => NoteGiven(a.data[2], x.request)'
      /\ NoteGone(x.id) => NoteGone(x.id)'
      /\ x.request \in noteChanged <=> x.request \in noteChanged'
  BY PastStays DEF NoteTruthsKept, NoteQuiet
<1> QED
  BY <1>1 DEF NoteAnswerTrue, MayBeStored

LEMMA TaskStays ==
  ASSUME NoteTruthsKept, NEW x, Uncalled(x) => NoteQuiet(x.request), NoteTaskOK(x)
  PROVE  NoteTaskOK(x)'
<1>1. CASE x.pc = "idle"
  BY <1>1 DEF NoteTaskOK
<1>2. CASE x.pc # "idle"
  <2>1. /\ DOMAIN x = NoteTaskFields
        /\ x.pc \in {"first", "refuse", "wait", "reply"}
        /\ x.request \in 1..noteSpent'.requests /\ x.params \in NoteRequests
    BY <1>2 DEF NoteTaskOK, NoteTruthsKept
  <2>2. FirstOK(x) /\ x.pc = "first" => FirstOK(x)'
    BY DEF FirstOK, NoteQuiet, Uncalled
  <2>3. ASSUME WaitOK(x), x.pc = "wait" PROVE WaitOK(x)'
    <3>1. ASSUME x.result # Absent PROVE NoteAnswerTrue(x, x.result)'
      <4>1. NoteQuiet(x.request)
        BY <2>3, <3>1 DEF Uncalled
      <4>2. PICK a : a = x.result
        OBVIOUS
      <4> QED
        BY <2>3, <3>1, <4>1, <4>2, AnswerStays DEF WaitOK
    <3> QED
      BY <2>3, <3>1, PastStays DEF WaitOK
  <2>4. x.pc = "reply" => SayTrue(x.say)'
    BY <1>2, PastStays DEF NoteTaskOK
  <2> QED
    BY <1>2, <2>1, <2>2, <2>3, <2>4 DEF NoteTaskOK
<1> QED
  BY <1>1, <1>2

\* The step changes task t alone.
NoteTaskSet(t, y) == noteTask' = [noteTask EXCEPT ![t] = y]

LEMMA SetNoteTask ==
  ASSUME NoteTyped, NEW t \in NoteTasks, NEW y, NoteTaskSet(t, y)
  PROVE  /\ DOMAIN noteTask' = NoteTasks /\ noteTask'[t] = y
         /\ \A u \in NoteTasks : u # t => noteTask'[u] = noteTask[u]
BY DEF NoteTyped, NoteTaskSet

\* One task changes, and neither calls nor documents do.
LEMMA TaskMoves ==
  ASSUME NoteInv, NEW t \in NoteTasks, NEW y, NoteTaskSet(t, y),
         UNCHANGED <<noteRpc, noteSeq, notePending, noteFlight, noteAnswers>>,
         UNCHANGED noteDatabase,
         DOMAIN noteSpent' = {"requests", "faults", "crashes"}, noteSpent'.requests \in Nat,
         noteSpent.requests <= noteSpent'.requests, noteSpent'.requests <= MaxNoteRequests,
         IsSequence(noteOut'), NoteSaid \subseteq NoteSaid', MessagesTrue', TaskInv(y)',
         y.pc # "idle" => \/ noteTask[t].pc # "idle" /\ y.request = noteTask[t].request
                          \/ y.request \notin 1..noteSpent.requests
  PROVE  NoteInv'
<1>1. /\ DOMAIN noteTask' = NoteTasks /\ noteTask'[t] = y
      /\ \A u \in NoteTasks : u # t => noteTask'[u] = noteTask[u]
  BY SetNoteTask DEF NoteInv
<1>2. NoteTruthsKept /\ \A q : NoteQuiet(q)
  BY DatabaseSame DEF NoteInv
<1>3. NoteTyped'
  BY <1>1 DEF NoteInv, NoteTyped, noteDatabase
<1>4. RequestsApart'
  <2>1. \A u \in NoteTasks : noteTask[u].pc # "idle" => noteTask[u].request \in 1..noteSpent.requests
    BY DEF NoteInv, TasksTrue, TaskInv, NoteTaskOK
  <2> SUFFICES ASSUME NEW u \in NoteTasks, NEW v \in NoteTasks, noteTask'[u].pc # "idle",
                      noteTask'[v].pc # "idle", noteTask'[u].request = noteTask'[v].request
               PROVE  u = v
    BY DEF RequestsApart
  <2> QED
    BY <1>1, <2>1 DEF NoteInv, RequestsApart
<1>5. OneCallEach'
  BY DEF NoteInv, OneCallEach, NoteTyped
<1>6. CallsTrue'
  BY <1>2, CallStays DEF NoteInv, CallsTrue
<1>7. ASSUME NEW u \in NoteTasks, u # t, NEW x, x = noteTask[u]
      PROVE  TaskInv(x)'
  <2>1. TaskInv(x)
    BY <1>7 DEF NoteInv, TasksTrue
  <2>2. NoteTaskOK(x)'
    BY <1>2, <2>1, TaskStays DEF TaskInv
  <2>3. \A a : NoteAnswerTrue(x, a) => NoteAnswerTrue(x, a)'
    BY <1>2, AnswerStays
  <2>4. NoCalls(x)'
    BY <2>1 DEF TaskInv, NoCalls, Uncalled
  <2>5. CallMatches(x)'
    BY <2>1, <2>3 DEF TaskInv, CallMatches, InWait, NoteMatches
  <2> QED
    BY <2>2, <2>4, <2>5 DEF TaskInv
<1>8. TasksTrue'
  <2> SUFFICES ASSUME NEW u \in NoteTasks, NEW x, x = noteTask'[u] PROVE TaskInv(x)'
    BY DEF TasksTrue
  <2> QED
    BY <1>1, <1>7
<1>9. IdsGiven' /\ DocsTrue'
  BY DEF NoteInv, IdsGiven, Owners, DocsTrue, noteDatabase, NoteSettled, MayBeStored, NoteTyped
<1> QED
  BY <1>3, <1>4, <1>5, <1>6, <1>8, <1>9 DEF NoteInv

LEMMA SaidSame ==
  ASSUME NoteInv, UNCHANGED <<noteOut, noteSent, noteDatabase>>, noteSpent'.requests \in Nat,
         noteSpent.requests <= noteSpent'.requests
  PROVE  NoteSaid \subseteq NoteSaid' /\ MessagesTrue' /\ IsSequence(noteOut')
<1>1. NoteSaid \subseteq NoteSaid'
  BY DEF NoteSaid
<1>2. \A m : NoteMessageTrue(m) => NoteMessageTrue(m)'
  BY <1>1, DatabaseSame, PastStays DEF NoteInv
<1> QED
  BY <1>1, <1>2 DEF NoteInv, MessagesTrue, ReplyOf, NoteTyped

\* The task takes a request.
LEMMA NoteAcceptKeeps ==
  ASSUME NoteInv, NEW t \in NoteTasks, NEW r \in NoteRequests, NoteAccept(t, r)
  PROVE  NoteInv'
<1>1. PICK y : y = [pc |-> IF ValidNoteRequest(r) THEN "first" ELSE "refuse",
        request |-> noteSpent'.requests, params |-> r, note |-> Absent,
        id |-> IF "id" \in DOMAIN r THEN r.id ELSE Absent, expects |-> Absent,
        result |-> Absent, say |-> <<>>]
  OBVIOUS
<1>2. /\ NoteTaskSet(t, y)
      /\ noteSpent' = [noteSpent EXCEPT !.requests = @ + 1]
      /\ noteSpent.requests < MaxNoteRequests
      /\ UNCHANGED <<noteRpc, noteSeq, notePending, noteOut, noteFlight, noteAnswers, noteSent>>
      /\ UNCHANGED noteDatabase
  BY <1>1 DEF NoteAccept, noteWire, NoteTaskSet
<1>3. /\ DOMAIN noteSpent' = {"requests", "faults", "crashes"}
      /\ noteSpent'.requests = noteSpent.requests + 1 /\ noteSpent.requests \in Nat
  BY <1>2 DEF NoteInv, NoteTyped
<1>4. noteSpent'.requests <= MaxNoteRequests
  BY <1>2, <1>3, NotesAssumption
<1>5. NoteSaid \subseteq NoteSaid' /\ MessagesTrue' /\ IsSequence(noteOut')
  BY <1>2, <1>3, SaidSame
<1>6. /\ y.pc \in {"first", "refuse"}
      /\ y.pc = "first" => ValidNoteRequest(r)
      /\ y.request = noteSpent.requests + 1 /\ y.params = r /\ DOMAIN y = NoteTaskFields
      /\ "id" \in DOMAIN r => y.id = r.id
  BY <1>1, <1>3 DEF NoteTaskFields
<1>7. y.request \notin 1..noteSpent.requests /\ y.request \in 1..noteSpent'.requests
  BY <1>3, <1>6
<1>8. NoteTaskOK(y)'
  <2>1. y.request \notin noteChanged' /\ NoIdYet(y.request)'
    BY <1>2, <1>7 DEF NoteInv, NoteTyped, IdsGiven, Owners, NoIdYet, noteDatabase
  <2>2. r.action \in {"note_get", "note_update", "note_delete"} => y.id = r.id
    BY <1>6, NotesAssumption
  <2>3. y.pc = "first" => FirstOK(y)'
    BY <1>6, <2>1, <2>2 DEF FirstOK
  <2> QED
    BY <1>6, <1>7, <2>3 DEF NoteTaskOK
<1>9. NoCalls(y)'
  <2>1. /\ \A i \in 1..Len(noteRpc) : noteRpc[i].request # y.request
        /\ \A c \in noteFlight : c.request # y.request
        /\ \A n \in DOMAIN notePending : notePending[n].request # y.request
    BY <1>7 DEF NoteInv, CallsTrue, NoteCallOK, OneCallEach
  <2> QED
    BY <1>2, <2>1 DEF NoCalls
<1>10. TaskInv(y)'
  BY <1>6, <1>8, <1>9 DEF TaskInv, CallMatches, InWait
<1> QED
  BY <1>2, <1>3, <1>4, <1>5, <1>7, <1>10, TaskMoves

LEMMA ReplyRecord ==
  ASSUME NEW yes, NEW no, NEW request, NEW id, NEW ok, NEW did
  PROVE  [[event |-> yes, request |-> request, id |-> id, ok |-> ok, did |-> did]
            EXCEPT !.event = no]
         = [event |-> no, request |-> request, id |-> id, ok |-> ok, did |-> did]
OBVIOUS

\* The task knows what to say.
LEMMA NoteReplyKeeps ==
  ASSUME NoteInv, NEW t \in NoteTasks, NEW ok, NEW changed \in BOOLEAN,
         noteTask[t].pc # "idle", NoteReply(t, noteTask[t], ok, changed),
         UNCHANGED <<noteRpc, noteSeq, notePending, noteOut>>, UNCHANGED noteWire,
         UNCHANGED noteDatabase, noteSpent'.requests = noteSpent.requests,
         DOMAIN noteSpent' = {"requests", "faults", "crashes"},
         changed => /\ ok /\ noteTask[t].request \in noteChanged
                    /\ noteTask[t].params.action = "note_create"
                         => NoteGiven(noteTask[t].id, noteTask[t].request)
                    /\ noteTask[t].params.action = "note_delete" => NoteGone(noteTask[t].id)
  PROVE  NoteInv'
<1>1. PICK x : x = noteTask[t]
  OBVIOUS
<1>2. PICK say : say = Saying(x, ok, changed)
  OBVIOUS
<1>3. PICK y : y = [x EXCEPT !.pc = "reply", !.say = say]
  OBVIOUS
<1>4. NoteTaskSet(t, y)
  BY <1>1, <1>2, <1>3 DEF NoteReply, NoteTaskSet
<1>5. /\ DOMAIN x = NoteTaskFields /\ x.request \in 1..noteSpent.requests
      /\ x.params \in NoteRequests
  BY <1>1 DEF NoteInv, TasksTrue, TaskInv, NoteTaskOK
<1>6. /\ DOMAIN y = NoteTaskFields /\ y.pc = "reply" /\ y.say = say
      /\ y.request = x.request /\ y.params = x.params
  BY <1>3, <1>5 DEF NoteTaskFields
<1>7. SayTrue(say)
  <2>0. PICK did : did = IF changed THEN x.params.action ELSE "nothing"
    OBVIOUS
  <2>1. PICK r : r = [event |-> FALSE, request |-> x.request, id |-> x.id, ok |-> ok, did |-> did]
    OBVIOUS
  <2>2. PICK e : e = [event |-> TRUE, request |-> x.request, id |-> x.id, ok |-> ok, did |-> did]
    OBVIOUS
  <2>3. say = IF changed THEN <<r, e>> ELSE <<r>>
    BY <1>2, <2>0, <2>1, <2>2 DEF Saying
  <2>4. r = ReplyOf(e) /\ ~r.event
    <3>1. PICK yes : yes = TRUE
      OBVIOUS
    <3>2. PICK no : no = FALSE
      OBVIOUS
    <3>3. /\ e = [event |-> yes, request |-> x.request, id |-> x.id, ok |-> ok, did |-> did]
          /\ r = [event |-> no, request |-> x.request, id |-> x.id, ok |-> ok, did |-> did]
      BY <2>1, <2>2, <3>1, <3>2
    <3>4. ReplyOf(e) = [e EXCEPT !.event = no]
      BY <3>2 DEF ReplyOf
    <3>5. [e EXCEPT !.event = no] = r
      BY <3>3, ReplyRecord
    <3>6. ~r.event
      BY <2>1
    <3> QED
      BY <3>4, <3>5, <3>6
  <2>5. NoteMessageTrue(r) /\ NoteMessageTrue(e)
    BY <1>1, <2>0, <2>1, <2>2 DEF NoteMessageTrue
  <2>6. CASE changed
    <3>1. say = <<r, e>> /\ <<r, e>> \in Seq({r, e}) /\ Len(<<r, e>>) = 2
      BY <2>3, <2>6
    <3>2. say[1] = r /\ say[2] = e /\ IsSequence(say)
      BY <3>1 DEF IsSequence
    <3> QED
      BY <2>4, <2>5, <3>1, <3>2 DEF SayTrue
  <2>7. CASE ~changed
    <3>1. say = <<r>> /\ <<r>> \in Seq({r}) /\ Len(<<r>>) = 1
      BY <2>3, <2>7
    <3>2. say[1] = r /\ IsSequence(say)
      BY <3>1 DEF IsSequence
    <3> QED
      BY <2>4, <2>5, <3>1, <3>2 DEF SayTrue
  <2> QED
    BY <2>6, <2>7
<1>8. noteSpent.requests \in Nat /\ noteSpent'.requests <= MaxNoteRequests
  BY DEF NoteInv, NoteTyped
<1>9. NoteSaid \subseteq NoteSaid' /\ MessagesTrue' /\ IsSequence(noteOut')
  BY <1>8, SaidSame DEF noteWire
<1>10. SayTrue(say)'
  BY <1>7, <1>8, <1>9, DatabaseSame, PastStays DEF NoteInv
<1>11. TaskInv(y)'
  BY <1>5, <1>6, <1>10 DEF TaskInv, NoteTaskOK, NoCalls, Uncalled, CallMatches, InWait
<1> QED
  BY <1>1, <1>4, <1>6, <1>8, <1>9, <1>11, TaskMoves DEF noteWire

\* The task says one message.
LEMMA NoteSayKeeps ==
  ASSUME NoteInv, NEW t \in NoteTasks, NoteSay(t)
  PROVE  NoteInv'
<1>1. PICK x : x = noteTask[t]
  OBVIOUS
<1>2. PICK m : m = x.say[1]
  OBVIOUS
<1>3. /\ x.pc = "reply" /\ DOMAIN x = NoteTaskFields /\ x.request \in 1..noteSpent.requests
      /\ x.params \in NoteRequests /\ SayTrue(x.say)
  BY <1>1 DEF NoteSay, NoteInv, TasksTrue, TaskInv, NoteTaskOK
<1>4. x.say # <<>> /\ Head(x.say) = m
  BY <1>2, <1>3, EmptySequence, SequenceTail DEF SayTrue
<1>5. PICK y : y = IF Len(x.say) = 1 THEN NoteIdle ELSE [x EXCEPT !.say = Tail(x.say)]
  OBVIOUS
<1>6. /\ noteOut' = Append(noteOut, m) /\ NoteTaskSet(t, y)
      /\ UNCHANGED <<noteRpc, noteSeq, notePending, noteFlight, noteAnswers, noteSent>>
      /\ UNCHANGED noteDatabase /\ UNCHANGED noteSpent
  <2>1. /\ noteOut' = Append(noteOut, Head(x.say))
        /\ UNCHANGED <<noteRpc, noteSeq, notePending, noteFlight, noteAnswers, noteSent>>
        /\ UNCHANGED noteDatabase /\ UNCHANGED noteSpent
    BY <1>1 DEF NoteSay, noteWire
  <2>2. NoteTaskSet(t, y)
    BY <1>1, <1>5 DEF NoteSay, NoteTaskSet, NoteInv, NoteTyped
  <2> QED
    BY <1>4, <2>1, <2>2
<1>7. PICK L : L = Len(noteOut)
  OBVIOUS
<1>8. /\ IsSequence(noteOut') /\ L \in Nat /\ Len(noteOut') = L + 1
      /\ \A i \in 1..L : noteOut'[i] = noteOut[i]
      /\ noteOut'[L + 1] = m
  BY <1>6, <1>7, SequenceAppend DEF NoteInv, NoteTyped
<1>9. /\ \A i \in 1..L+1 : i \in 1..L \/ i = L + 1
      /\ 1..L \subseteq 1..L+1 /\ L + 1 \in 1..L+1
  BY <1>8
<1>10. NoteSaid \subseteq NoteSaid' /\ m \in NoteSaid'
  BY <1>6, <1>7, <1>8, <1>9 DEF NoteSaid
<1>11. noteSpent.requests \in Nat /\ noteSpent.requests <= MaxNoteRequests
       /\ DOMAIN noteSpent = {"requests", "faults", "crashes"}
  BY DEF NoteInv, NoteTyped
<1>12. NoteTruthsKept
  BY <1>6, <1>10, <1>11, DatabaseSame DEF NoteInv
<1>13. MessagesTrue'
  <2>1. \A n : NoteMessageTrue(n) => NoteMessageTrue(n)'
    BY <1>12, PastStays
  <2>2. m.event => ReplyOf(m) \in NoteSaid
    BY <1>2, <1>3 DEF SayTrue
  <2>3. m.event => ReplyOf(m) \in noteSent \/ \E j \in 1..L : noteOut[j] = ReplyOf(m)
    BY <1>7, <2>2 DEF NoteSaid
  <2>4. NoteMessageTrue(m)
    BY <1>2, <1>3 DEF SayTrue
  <2>5. ASSUME NEW i \in 1..L, NEW n, n = noteOut[i]
        PROVE  /\ NoteMessageTrue(n)'
               /\ n.event => \/ ReplyOf(n) \in noteSent'
                             \/ \E j \in 1..i-1 : noteOut'[j] = ReplyOf(n)
    <3>1. /\ NoteMessageTrue(n)
          /\ n.event => \/ ReplyOf(n) \in noteSent
                        \/ \E j \in 1..i-1 : noteOut[j] = ReplyOf(n)
      BY <1>7, <2>5 DEF NoteInv, MessagesTrue
    <3>2. \A j \in 1..i-1 : j \in 1..L
      BY <1>8
    <3> QED
      BY <1>6, <1>8, <2>1, <3>1, <3>2
  <2>6. /\ NoteMessageTrue(m)'
        /\ m.event => \/ ReplyOf(m) \in noteSent'
                      \/ \E j \in 1..(L + 1)-1 : noteOut'[j] = ReplyOf(m)
    BY <1>6, <1>8, <2>1, <2>3, <2>4
  <2>7. \A n \in noteSent' : NoteMessageTrue(n)' /\ (n.event => ReplyOf(n) \in noteSent')
    BY <1>6, <2>1 DEF NoteInv, MessagesTrue
  <2>8. ASSUME NEW i \in 1..Len(noteOut'), NEW n, n = noteOut'[i]
        PROVE  /\ NoteMessageTrue(n)'
               /\ n.event => \/ ReplyOf(n) \in noteSent'
                             \/ \E j \in 1..i-1 : noteOut'[j] = ReplyOf(n)
    <3>1. CASE i \in 1..L
      BY <1>8, <2>5, <2>8, <3>1
    <3>2. CASE i = L + 1
      BY <1>8, <2>6, <2>8, <3>2
    <3> QED
      BY <1>8, <1>9, <3>1, <3>2
  <2>9. \A i \in 1..Len(noteOut') : \A n : n = noteOut'[i] =>
          /\ NoteMessageTrue(n)'
          /\ n.event => \/ ReplyOf(n) \in noteSent'
                        \/ \E j \in 1..i-1 : noteOut'[j] = ReplyOf(n)
    BY <2>8
  <2> QED
    BY <2>7, <2>9 DEF MessagesTrue, ReplyOf
<1>14. TaskInv(y)' /\ (y.pc # "idle" => y.request = x.request)
  <2>1. CASE Len(x.say) = 1
    BY <1>5, <2>1 DEF TaskInv, NoteTaskOK, NoCalls, Uncalled, CallMatches, InWait, NoteIdle
  <2>2. CASE Len(x.say) # 1
    <3>1. PICK e : e = x.say[2]
      OBVIOUS
    <3>2. /\ Len(x.say) = 2 /\ IsSequence(x.say) /\ NoteMessageTrue(e) /\ m = ReplyOf(e)
      BY <1>2, <1>3, <2>2, <3>1 DEF SayTrue
    <3>3. /\ IsSequence(Tail(x.say)) /\ Len(Tail(x.say)) = 1 /\ Tail(x.say)[1] = e
      BY <1>4, <3>1, <3>2, SequenceTail
    <3>4. /\ y.pc = "reply" /\ DOMAIN y = NoteTaskFields /\ y.request = x.request
          /\ y.params = x.params /\ y.say = Tail(x.say)
      BY <1>3, <1>5, <2>2 DEF NoteTaskFields
    <3>5. NoteMessageTrue(e)' /\ ReplyOf(e) \in NoteSaid'
      BY <1>10, <1>12, <3>2, PastStays
    <3>6. SayTrue(Tail(x.say))'
      <4>1. PICK rest : rest = Tail(x.say)
        OBVIOUS
      <4>2. IsSequence(rest) /\ Len(rest) = 1 /\ rest[1] = e
        BY <3>3, <4>1
      <4>3. PICK f : f = ReplyOf(e)
        OBVIOUS
      <4>4. /\ (IsSequence(rest) /\ Len(rest) \in {1, 2})'
            /\ NoteMessageTrue(rest[1])'
            /\ (ReplyOf(rest[1]) \in NoteSaid)'
        BY <3>5, <4>2, <4>3 DEF IsSequence, ReplyOf
      <4>5. SayTrue(rest)'
        BY <4>2, <4>4 DEF SayTrue
      <4> QED
        BY <4>1, <4>5
    <3> QED
      BY <1>3, <1>6, <3>4, <3>6 DEF TaskInv, NoteTaskOK, NoCalls, Uncalled, CallMatches, InWait
  <2> QED
    BY <2>1, <2>2
<1> QED
  BY <1>1, <1>3, <1>6, <1>8, <1>10, <1>11, <1>13, <1>14, TaskMoves

\* The task makes its next call.
LEMMA NoteCallKeeps ==
  ASSUME NoteInv, NEW t \in NoteTasks, NEW x, x = noteTask[t], Uncalled(x), NEW task, NEW op,
         NoteCall(t, task, op), DOMAIN task = NoteTaskFields, task.request = x.request,
         task.params = x.params, ValidNoteRequest(x.params), NoteCallOK(x.request, op),
         op.kind \in Expected[x.params.action],
         x.params.action = "note_create" /\ op.kind = "db_set" => NoteGiven(task.id, x.request),
         op.kind \in {"db_get", "db_set", "db_delete"} => op.id = task.id,
         UNCHANGED <<noteSeq, notePending, noteOut>>, UNCHANGED noteWire,
         UNCHANGED noteDatabase, UNCHANGED noteSpent
  PROVE  NoteInv'
<1>1. PICK y : y = [task EXCEPT !.pc = "wait", !.expects = op.kind, !.result = Absent]
  OBVIOUS
<1>2. PICK c : c = [task |-> t, request |-> x.request, op |-> op]
  OBVIOUS
<1>3. PICK L : L = Len(noteRpc)
  OBVIOUS
<1>4. NoteTaskSet(t, y) /\ noteRpc' = Append(noteRpc, c)
  BY <1>1, <1>2 DEF NoteCall, NoteTaskSet
<1>5. /\ y.pc = "wait" /\ y.expects = op.kind /\ y.result = Absent /\ y.id = task.id
      /\ y.request = x.request /\ y.params = x.params /\ DOMAIN y = NoteTaskFields
  BY <1>1 DEF NoteTaskFields
<1>6. /\ IsSequence(noteRpc') /\ L \in Nat /\ Len(noteRpc') = L + 1
      /\ \A i \in 1..L : noteRpc'[i] = noteRpc[i]
      /\ noteRpc'[L + 1] = c
  BY <1>3, <1>4, SequenceAppend DEF NoteInv, NoteTyped
<1>7. \A i \in 1..L+1 : i \in 1..L \/ i = L + 1
  BY <1>6
<1>8. c.request = x.request /\ c.op = op
  BY <1>2
<1>9. /\ TaskInv(x) /\ x.pc # "idle" /\ x.request \in 1..noteSpent.requests
      /\ x.params \in NoteRequests
  BY DEF NoteInv, TasksTrue, TaskInv, NoteTaskOK, Uncalled
<1>10. /\ \A i \in 1..L : noteRpc[i].request # x.request
       /\ \A d \in noteFlight : d.request # x.request
       /\ \A n \in DOMAIN notePending : notePending[n].request # x.request
  BY <1>3, <1>9 DEF TaskInv, NoCalls
<1>11. /\ DOMAIN noteTask' = NoteTasks /\ noteTask'[t] = y
       /\ \A u \in NoteTasks : u # t => noteTask'[u] = noteTask[u]
  BY <1>4, SetNoteTask DEF NoteInv
<1>12. NoteTruthsKept /\ \A q : NoteQuiet(q)
  <2>1. NoteSaid \subseteq NoteSaid'
    BY DEF NoteSaid, noteWire
  <2> QED
    BY <2>1, DatabaseSame DEF NoteInv, NoteTyped
<1>13. NoteTyped'
  BY <1>6, <1>11 DEF NoteInv, NoteTyped, noteDatabase, noteWire
<1>14. RequestsApart'
  <2> SUFFICES ASSUME NEW u \in NoteTasks, NEW v \in NoteTasks, noteTask'[u].pc # "idle",
                      noteTask'[v].pc # "idle", noteTask'[u].request = noteTask'[v].request
               PROVE  u = v
    BY DEF RequestsApart
  <2> QED
    BY <1>5, <1>9, <1>11 DEF NoteInv, RequestsApart
<1>15. OneCallEach'
  <2>1. \A i, j \in 1..L+1 : noteRpc'[i].request = noteRpc'[j].request => i = j
    BY <1>3, <1>6, <1>7, <1>8, <1>10 DEF NoteInv, OneCallEach
  <2>2. \A i \in 1..L+1 :
           /\ \A d \in noteFlight : noteRpc'[i].request # d.request
           /\ \A n \in DOMAIN notePending : noteRpc'[i].request # notePending[n].request
    BY <1>3, <1>6, <1>7, <1>8, <1>10 DEF NoteInv, OneCallEach
  <2> QED
    BY <1>6, <2>1, <2>2 DEF NoteInv, OneCallEach, noteWire
<1>16. CallsTrue'
  <2>1. ASSUME NEW q, NEW o, NoteCallOK(q, o) PROVE NoteCallOK(q, o)'
    BY <1>12, <2>1, CallStays
  <2>2. ASSUME NEW i \in 1..Len(noteRpc'), NEW d, d = noteRpc'[i] PROVE NoteCallOK(d.request, d.op)'
    <3>1. CASE i \in 1..L
      BY <1>3, <1>6, <2>1, <2>2, <3>1 DEF NoteInv, CallsTrue
    <3>2. CASE i = L + 1
      BY <1>6, <1>8, <2>1, <2>2, <3>2
    <3> QED
      BY <1>6, <1>7, <3>1, <3>2
  <2>3. \A d \in noteFlight' : NoteCallOK(d.request, d.op)'
    BY <2>1 DEF NoteInv, CallsTrue, noteWire
  <2> QED
    BY <2>2, <2>3 DEF CallsTrue
<1>17. TaskInv(y)'
  <2>1. NoteTaskOK(y)'
    <3>1. NoteGiven(task.id, x.request) => NoteGiven(task.id, x.request)'
      BY <1>12, PastStays
    <3>2. WaitOK(y)'
      BY <1>5, <3>1 DEF WaitOK
    <3> QED
      BY <1>5, <1>9, <3>2 DEF NoteTaskOK
  <2>2. NoCalls(y)'
    BY <1>5 DEF NoCalls, Uncalled
  <2>3. CallMatches(y)'
    <3>1. NoteMatches(y, op)
      BY <1>5 DEF NoteMatches
    <3>2. ASSUME NEW i \in 1..L+1, noteRpc'[i].request = x.request
          PROVE  NoteMatches(y, noteRpc'[i].op)
      BY <1>6, <1>7, <1>8, <1>10, <3>1, <3>2
    <3> QED
      BY <1>5, <1>6, <1>10, <3>2 DEF CallMatches, NoteMatches, noteWire
  <2> QED
    BY <2>1, <2>2, <2>3 DEF TaskInv
<1>18. ASSUME NEW u \in NoteTasks, u # t, NEW z, z = noteTask[u]
       PROVE  TaskInv(z)'
  <2>1. TaskInv(z)
    BY <1>18 DEF NoteInv, TasksTrue
  <2>2. NoteTaskOK(z)'
    BY <1>12, <2>1, TaskStays DEF TaskInv
  <2>3. \A a : NoteAnswerTrue(z, a) => NoteAnswerTrue(z, a)'
    BY <1>12, AnswerStays
  <2>4. z.pc # "idle" => c.request # z.request
    BY <1>8, <1>9, <1>18 DEF NoteInv, RequestsApart
  <2>5. Uncalled(z) \/ InWait(z) => z.pc # "idle"
    BY DEF Uncalled, InWait
  <2>6. NoCalls(z)'
    <3> SUFFICES ASSUME Uncalled(z)
                 PROVE  /\ \A i \in 1..Len(noteRpc') : noteRpc'[i].request # z.request
                        /\ \A d \in noteFlight' : d.request # z.request
                        /\ \A n \in DOMAIN notePending' : notePending'[n].request # z.request
      BY DEF NoCalls, Uncalled
    <3> QED
      BY <1>3, <1>6, <1>7, <2>1, <2>4, <2>5 DEF TaskInv, NoCalls, noteWire
  <2>7. CallMatches(z)'
    <3>1. ASSUME InWait(z), NEW i \in 1..L+1, noteRpc'[i].request = z.request
          PROVE  NoteMatches(z, noteRpc'[i].op)
      BY <1>3, <1>6, <1>7, <2>1, <2>4, <2>5, <3>1 DEF TaskInv, CallMatches
    <3> QED
      BY <1>6, <2>1, <2>3, <3>1 DEF TaskInv, CallMatches, InWait, NoteMatches, noteWire
  <2> QED
    BY <2>2, <2>6, <2>7 DEF TaskInv
<1>19. TasksTrue'
  <2> SUFFICES ASSUME NEW u \in NoteTasks, NEW z, z = noteTask'[u] PROVE TaskInv(z)'
    BY DEF TasksTrue
  <2> QED
    BY <1>11, <1>17, <1>18
<1>20. IdsGiven' /\ DocsTrue'
  BY DEF NoteInv, IdsGiven, Owners, DocsTrue, noteDatabase, NoteSettled, MayBeStored, NoteTyped
<1>21. MessagesTrue'
  <2>1. \A m : NoteMessageTrue(m) => NoteMessageTrue(m)'
    BY <1>12, PastStays
  <2> QED
    BY <2>1 DEF NoteInv, MessagesTrue, ReplyOf, noteWire
<1> QED
  BY <1>13, <1>14, <1>15, <1>16, <1>19, <1>20, <1>21 DEF NoteInv

LEMMA NoteFirstCallKeeps ==
  ASSUME NoteInv, NEW t \in NoteTasks, NoteFirstCall(t)
  PROVE  NoteInv'
<1>1. PICK x : x = noteTask[t]
  OBVIOUS
<1>2. /\ x.pc \in {"first", "refuse"}
      /\ UNCHANGED <<noteSeq, notePending, noteOut>> /\ UNCHANGED noteWire
      /\ UNCHANGED noteDatabase /\ UNCHANGED noteSpent
  BY <1>1 DEF NoteFirstCall
<1>3. /\ DOMAIN x = NoteTaskFields /\ x.request \in 1..noteSpent.requests
      /\ x.params \in NoteRequests
      /\ x.pc = "first" => FirstOK(x)
  BY <1>1, <1>2 DEF NoteInv, TasksTrue, TaskInv, NoteTaskOK
<1>4. CASE x.pc = "refuse"
  <2>1. NoteReply(t, noteTask[t], FALSE, FALSE) /\ UNCHANGED noteRpc
    BY <1>1, <1>4 DEF NoteFirstCall
  <2> QED
    BY <1>1, <1>2, <2>1, NoteReplyKeeps DEF NoteInv, NoteTyped
<1>5. CASE x.pc = "first"
  <2>1. PICK op : op = FirstOp(x.params)
    OBVIOUS
  <2>2. NoteCall(t, x, op)
    BY <1>1, <1>5, <2>1 DEF NoteFirstCall
  <2>3. /\ op.kind \in Expected[x.params.action] /\ op.kind \in NoteOps /\ op.kind # "db_set"
        /\ op.kind \in {"db_get", "db_delete"} => op.id = x.id
    <3>1. /\ x.params.action \in {"note_create", "note_get", "note_update", "note_delete", "note_list"}
          /\ x.params.action \in {"note_get", "note_update", "note_delete"} => x.id = x.params.id
      BY <1>3, <1>5, NotesAssumption DEF FirstOK
    <3>2. CASE x.params.action = "note_create"
      BY <2>1, <3>2 DEF FirstOp, Expected, NoteOps
    <3>3. CASE x.params.action = "note_get"
      BY <2>1, <3>1, <3>3 DEF FirstOp, Expected, NoteOps
    <3>4. CASE x.params.action = "note_update"
      BY <2>1, <3>1, <3>4 DEF FirstOp, Expected, NoteOps
    <3>5. CASE x.params.action = "note_delete"
      BY <2>1, <3>1, <3>5 DEF FirstOp, Expected, NoteOps
    <3>6. CASE x.params.action = "note_list"
      BY <2>1, <3>6 DEF FirstOp, Expected, NoteOps
    <3> QED
      BY <3>1, <3>2, <3>3, <3>4, <3>5, <3>6
  <2>4. NoteCallOK(x.request, op)
    BY <1>3, <1>5, <2>3 DEF NoteCallOK, FirstOK
  <2>5. Uncalled(x) /\ ValidNoteRequest(x.params)
    BY <1>3, <1>5 DEF Uncalled, FirstOK
  <2> QED
    BY <1>1, <1>2, <1>3, <2>2, <2>3, <2>4, <2>5, NoteCallKeeps
<1> QED
  BY <1>2, <1>4, <1>5

LEMMA NoteTimeoutKeeps ==
  ASSUME NoteInv, NEW t \in NoteTasks, NoteTimeout(t)
  PROVE  NoteInv'
<1>1. /\ noteTask[t].pc = "wait" /\ NoteReply(t, noteTask[t], FALSE, FALSE)
      /\ UNCHANGED <<noteRpc, noteSeq, notePending, noteOut>> /\ UNCHANGED noteWire
      /\ UNCHANGED noteDatabase /\ noteSpent' = [noteSpent EXCEPT !.faults = @ + 1]
  BY DEF NoteTimeout, NoteFault
<1>2. noteSpent'.requests = noteSpent.requests /\ DOMAIN noteSpent' = {"requests", "faults", "crashes"}
  BY <1>1 DEF NoteInv, NoteTyped
<1> QED
  BY <1>1, <1>2, NoteReplyKeeps

\* The task goes on with the answer to its call.
LEMMA NoteContinueKeeps ==
  ASSUME NoteInv, NEW t \in NoteTasks, NoteContinue(t)
  PROVE  NoteInv'
<1>1. PICK x : x = noteTask[t]
  OBVIOUS
<1>2. PICK a : a = x.result
  OBVIOUS
<1>3. PICK kind : kind = a.data[1]
  OBVIOUS
<1>4. PICK value : value = a.data[2]
  OBVIOUS
<1>5. /\ x.pc = "wait" /\ a # Absent
      /\ UNCHANGED <<noteSeq, notePending, noteOut>> /\ UNCHANGED noteWire
      /\ UNCHANGED noteDatabase /\ UNCHANGED noteSpent
  BY <1>1, <1>2 DEF NoteContinue
<1>6. /\ DOMAIN x = NoteTaskFields /\ x.request \in 1..noteSpent.requests
      /\ x.params \in NoteRequests /\ WaitOK(x) /\ NoteAnswerTrue(x, a) /\ Uncalled(x)
  BY <1>1, <1>2, <1>5 DEF NoteInv, TasksTrue, TaskInv, NoteTaskOK, WaitOK, Uncalled
<1>7. /\ noteSpent'.requests = noteSpent.requests
      /\ DOMAIN noteSpent' = {"requests", "faults", "crashes"}
  BY <1>5 DEF NoteInv, NoteTyped
<1>a. ASSUME NoteReply(t, x, FALSE, FALSE), UNCHANGED noteRpc PROVE NoteInv'
  BY <1>1, <1>5, <1>7, <1>a, NoteReplyKeeps
<1>b. ASSUME NoteReply(t, x, TRUE, FALSE), UNCHANGED noteRpc PROVE NoteInv'
  BY <1>1, <1>5, <1>7, <1>b, NoteReplyKeeps
<1>8. CASE ~a.ok \/ kind # x.expects
  <2>1. NoteReply(t, x, FALSE, FALSE) /\ UNCHANGED noteRpc
    BY <1>1, <1>2, <1>3, <1>8 DEF NoteContinue
  <2> QED
    BY <1>a, <2>1
<1>9. CASE a.ok /\ kind = x.expects
  <2>1. kind \in Expected[x.params.action] /\ ValidNoteRequest(x.params)
    BY <1>6, <1>9 DEF WaitOK
  <2>2. x.params.action \in {"note_create", "note_get", "note_update", "note_delete", "note_list"}
    BY <1>6, NotesAssumption
  <2>3. /\ kind = "db_incr" => x.params.action = "note_create"
        /\ kind = "db_keys" => x.params.action = "note_list"
        /\ kind \in {"db_incr", "db_get", "db_set", "db_delete", "db_keys", "db_batch_get"}
    BY <2>1, <2>2 DEF Expected
  <2>4. /\ kind \notin NoteWrites => x.request \notin noteChanged
        /\ kind = "db_incr" => NoteGiven(value, x.request)
        /\ kind = "db_get" /\ value # Absent => MayBeStored(value) /\ NoteSettled(x.id)
        /\ kind \in NoteWrites /\ value => x.request \in noteChanged
        /\ kind = "db_delete" /\ value => NoteGone(x.id)
    BY <1>3, <1>4, <1>6, <1>9 DEF NoteAnswerTrue
  <2>5. CASE kind = "db_incr"
    <3>1. NoteCreated(t, x, value)
      BY <1>1, <1>2, <1>3, <1>4, <1>9, <2>5 DEF NoteContinue
    <3>2. PICK task : task = [x EXCEPT !.id = value]
      OBVIOUS
    <3>3. PICK note : note = [title |-> x.params.title, body |-> x.params.body,
                              tags |-> SanitizedTags(x.params.tags)]
      OBVIOUS
    <3>4. PICK op : op = PutOp(note, value, Absent)
      OBVIOUS
    <3>5. /\ DOMAIN task = NoteTaskFields /\ task.request = x.request /\ task.params = x.params
          /\ task.id = value
      BY <1>6, <3>2 DEF NoteTaskFields
    <3>6. NoteCall(t, task, op)
      BY <3>1, <3>2, <3>3, <3>4, <3>5 DEF NoteCreated
    <3>7. op.kind = "db_set" /\ op.id = value /\ op.note = note /\ op.read = Absent
      BY <3>4 DEF PutOp
    <3>8. MayBeStored(note)
      <4>1. ~BlankNote(x.params.title, x.params.body)
        BY <2>1, <2>3, <2>5 DEF ValidNoteRequest
      <4> QED
        BY <3>3, <4>1 DEF MayBeStored, NoteFields
    <3>9. NoteCallOK(x.request, op)
      BY <1>6, <2>4, <2>5, <3>7, <3>8 DEF NoteCallOK, NoteOps, NoteWrites
    <3>10. op.kind \in Expected[x.params.action]
      BY <2>3, <2>5, <3>7 DEF Expected
    <3> QED
      BY <1>1, <1>5, <1>6, <2>1, <2>4, <2>5, <3>5, <3>6, <3>7, <3>9, <3>10, NoteCallKeeps
  <2>6. CASE kind = "db_keys"
    <3>1. NoteListed(t, x, value)
      BY <1>1, <1>2, <1>3, <1>4, <1>9, <2>6 DEF NoteContinue
    <3>2. CASE value = {}
      BY <1>b, <3>1, <3>2 DEF NoteListed
    <3>3. CASE value # {}
      <4>1. PICK op : op = [kind |-> "db_batch_get", ids |-> value]
        OBVIOUS
      <4>2. NoteCall(t, x, op) /\ op.kind = "db_batch_get"
        BY <3>1, <3>3, <4>1 DEF NoteListed
      <4>3. NoteCallOK(x.request, op) /\ op.kind \in Expected[x.params.action]
        BY <1>6, <2>3, <2>4, <2>6, <4>2 DEF NoteCallOK, NoteOps, NoteWrites, Expected
      <4> QED
        BY <1>1, <1>5, <1>6, <2>1, <4>2, <4>3, NoteCallKeeps
    <3> QED
      BY <3>2, <3>3
  <2>7. CASE kind = "db_get" /\ x.params.action = "note_update"
    <3>1. NoteUpdated(t, x, value)
      BY <1>1, <1>2, <1>3, <1>4, <1>9, <2>7 DEF NoteContinue
    <3>2. CASE value = Absent \/ BlankNote(NewText(value.title, x.params.title),
                                           NewText(value.body, x.params.body))
      BY <1>a, <3>1, <3>2 DEF NoteUpdated
    <3>3. CASE value # Absent /\ ~BlankNote(NewText(value.title, x.params.title),
                                            NewText(value.body, x.params.body))
      <4>1. PICK note : note = NotePatched(value, x.params)
        OBVIOUS
      <4>2. PICK op : op = PutOp(note, x.id, value)
        OBVIOUS
      <4>3. NoteCall(t, x, op)
        BY <3>1, <3>3, <4>1, <4>2 DEF NoteUpdated
      <4>4. op.kind = "db_set" /\ op.id = x.id /\ op.note = note /\ op.read = value
        BY <4>2 DEF PutOp
      <4>5. MayBeStored(note)
        <5>1. DOMAIN value = NoteFields
          BY <2>4, <2>7, <3>3 DEF MayBeStored
        <5>2. /\ DOMAIN note = NoteFields
              /\ note.title = NewText(value.title, x.params.title)
              /\ note.body = NewText(value.body, x.params.body)
          BY <4>1, <5>1 DEF NotePatched, NoteFields
        <5> QED
          BY <3>3, <5>2 DEF MayBeStored
      <4>6. NoteCallOK(x.request, op)
        BY <1>6, <2>4, <2>7, <3>3, <4>4, <4>5 DEF NoteCallOK, NoteOps, NoteWrites
      <4>7. op.kind \in Expected[x.params.action] /\ x.params.action # "note_create"
        BY <2>7, <4>4 DEF Expected
      <4> QED
        BY <1>1, <1>5, <1>6, <2>1, <4>3, <4>4, <4>6, <4>7, NoteCallKeeps
    <3> QED
      BY <3>2, <3>3
  <2>8. CASE kind \notin {"db_incr", "db_keys"} /\ ~(kind = "db_get" /\ x.params.action = "note_update")
    <3>1. PICK changed : changed = (kind \in {"db_set", "db_delete"} /\ value)
      OBVIOUS
    <3>2. NoteReply(t, noteTask[t], TRUE, changed) /\ UNCHANGED noteRpc
      BY <1>1, <1>2, <1>3, <1>4, <1>9, <2>8, <3>1 DEF NoteContinue
    <3>3. changed \in BOOLEAN
      BY <3>1
    <3>4. changed => kind \in NoteWrites /\ value
      BY <3>1 DEF NoteWrites
    <3>5. /\ kind \in NoteWrites /\ x.params.action = "note_create" => kind = "db_set"
          /\ kind \in NoteWrites /\ x.params.action = "note_delete" => kind = "db_delete"
      BY <2>1 DEF Expected, NoteWrites
    <3>6. changed => /\ x.request \in noteChanged
                     /\ x.params.action = "note_create" => NoteGiven(x.id, x.request)
                     /\ x.params.action = "note_delete" => NoteGone(x.id)
      BY <1>6, <1>9, <2>4, <3>4, <3>5 DEF WaitOK
    <3> QED
      BY <1>1, <1>5, <1>7, <3>2, <3>3, <3>6, NoteReplyKeeps
  <2> QED
    BY <2>3, <2>5, <2>6, <2>7, <2>8
<1> QED
  BY <1>8, <1>9

\* Neither tasks, calls nor documents change.
LEMMA NotesStay ==
  ASSUME NoteInv, UNCHANGED <<noteTask, noteRpc, noteSeq, notePending, noteFlight, noteAnswers>>,
         UNCHANGED noteDatabase, UNCHANGED noteSpent, IsSequence(noteOut'),
         NoteSaid \subseteq NoteSaid', MessagesTrue'
  PROVE  NoteInv'
<1>1. NoteTruthsKept /\ \A q : NoteQuiet(q)
  BY DatabaseSame DEF NoteInv, NoteTyped
<1>2. NoteTyped' /\ RequestsApart' /\ OneCallEach'
  BY DEF NoteInv, NoteTyped, RequestsApart, OneCallEach, noteDatabase
<1>3. CallsTrue'
  BY <1>1, CallStays DEF NoteInv, CallsTrue
<1>4. ASSUME NEW x, TaskInv(x) PROVE TaskInv(x)'
  <2>1. NoteTaskOK(x)'
    BY <1>1, <1>4, TaskStays DEF TaskInv
  <2>2. \A a : NoteAnswerTrue(x, a) => NoteAnswerTrue(x, a)'
    BY <1>1, AnswerStays
  <2> QED
    BY <1>4, <2>1, <2>2 DEF TaskInv, NoCalls, Uncalled, CallMatches, InWait, NoteMatches
<1>5. TasksTrue'
  BY <1>4 DEF NoteInv, TasksTrue
<1>6. IdsGiven' /\ DocsTrue'
  BY DEF NoteInv, IdsGiven, Owners, DocsTrue, noteDatabase, NoteSettled, MayBeStored, NoteTyped
<1> QED
  BY <1>2, <1>3, <1>5, <1>6 DEF NoteInv

LEMMA LoopSendsMessageKeeps ==
  ASSUME NoteInv, LoopSendsMessage
  PROVE  NoteInv'
<1>1. PICK m : m = noteOut[1]
  OBVIOUS
<1>2. PICK L : L = Len(noteOut)
  OBVIOUS
<1>3. /\ noteOut # <<>> /\ noteSent' = noteSent \cup {Head(noteOut)} /\ noteOut' = Tail(noteOut)
      /\ UNCHANGED <<noteTask, noteRpc, noteSeq, notePending, noteFlight, noteAnswers>>
      /\ UNCHANGED noteDatabase /\ UNCHANGED noteSpent
  BY DEF LoopSendsMessage
<1>4. /\ IsSequence(noteOut') /\ L \in Nat /\ L >= 1 /\ Len(noteOut') = L - 1
      /\ \A i \in 1..L-1 : noteOut'[i] = noteOut[i + 1]
      /\ noteSent' = noteSent \cup {m}
  BY <1>1, <1>2, <1>3, SequenceTail DEF NoteInv, NoteTyped
<1>5. NoteSaid \subseteq NoteSaid'
  <2> SUFFICES ASSUME NEW i \in 1..L PROVE noteOut[i] \in NoteSaid'
    BY <1>2, <1>4 DEF NoteSaid
  <2>1. CASE i = 1
    BY <1>1, <1>4, <2>1 DEF NoteSaid
  <2>2. CASE i # 1
    <3>1. i - 1 \in 1..L-1 /\ noteOut'[i - 1] = noteOut[i]
      BY <1>4, <2>2
    <3> QED
      BY <1>4, <3>1 DEF NoteSaid
  <2> QED
    BY <2>1, <2>2
<1>6. \A n : NoteMessageTrue(n) => NoteMessageTrue(n)'
  BY <1>3, <1>5, DatabaseSame, PastStays DEF NoteInv, NoteTyped
<1>7. ASSUME NEW i \in 1..L, NEW n, n = noteOut[i]
      PROVE  /\ NoteMessageTrue(n)
             /\ n.event => \/ ReplyOf(n) \in noteSent
                           \/ \E j \in 1..i-1 : noteOut[j] = ReplyOf(n)
  BY <1>2, <1>7 DEF NoteInv, MessagesTrue
<1>8. NoteMessageTrue(m) /\ (m.event => ReplyOf(m) \in noteSent)
  BY <1>1, <1>4, <1>7
<1>9. ASSUME NEW n \in noteSent'
      PROVE  NoteMessageTrue(n)' /\ (n.event => ReplyOf(n) \in noteSent')
  BY <1>4, <1>6, <1>8, <1>9 DEF NoteInv, MessagesTrue
<1>10. ASSUME NEW i \in 1..Len(noteOut'), NEW n, n = noteOut'[i]
       PROVE  /\ NoteMessageTrue(n)'
              /\ n.event => \/ ReplyOf(n) \in noteSent'
                            \/ \E j \in 1..i-1 : noteOut'[j] = ReplyOf(n)
  <2>1. i + 1 \in 1..L /\ n = noteOut[i + 1]
    BY <1>4, <1>10
  <2>2. ASSUME n.event, NEW j \in 1..(i + 1)-1, noteOut[j] = ReplyOf(n)
        PROVE  ReplyOf(n) \in noteSent' \/ \E k \in 1..i-1 : noteOut'[k] = ReplyOf(n)
    <3>1. CASE j = 1
      BY <1>1, <1>4, <2>2, <3>1
    <3>2. CASE j # 1
      <4>1. j - 1 \in 1..i-1 /\ j - 1 \in 1..L-1 /\ noteOut'[j - 1] = noteOut[j]
        BY <1>4, <2>1, <3>2
      <4> QED
        BY <2>2, <4>1
    <3> QED
      BY <3>1, <3>2
  <2> QED
    BY <1>4, <1>6, <1>7, <2>1, <2>2
<1>11. MessagesTrue'
  <2>1. \A i \in 1..Len(noteOut') : \A n : n = noteOut'[i] =>
          /\ NoteMessageTrue(n)'
          /\ n.event => \/ ReplyOf(n) \in noteSent'
                        \/ \E j \in 1..i-1 : noteOut'[j] = ReplyOf(n)
    BY <1>10
  <2> QED
    BY <1>9, <2>1 DEF MessagesTrue, ReplyOf
<1> QED
  BY <1>3, <1>4, <1>5, <1>11, NotesStay

\* What has been said stays said and true when nothing is said.
LEMMA MessagesStay ==
  ASSUME NoteInv, NoteTruthsKept, UNCHANGED <<noteOut, noteSent>>
  PROVE  MessagesTrue'
<1>1. \A m : NoteMessageTrue(m) => NoteMessageTrue(m)'
  BY PastStays
<1> QED
  BY <1>1 DEF NoteInv, MessagesTrue, ReplyOf

\* The loop sends a call under the next number.
LEMMA LoopSendsCallKeeps ==
  ASSUME NoteInv, LoopSendsCall
  PROVE  NoteInv'
<1>1. PICK c : c = noteRpc[1]
  OBVIOUS
<1>2. PICK n : n = noteSeq + 1
  OBVIOUS
<1>3. PICK d : d = [n |-> n, request |-> c.request, op |-> c.op]
  OBVIOUS
<1>4. PICK L : L = Len(noteRpc)
  OBVIOUS
<1>5. /\ noteRpc # <<>> /\ noteRpc' = Tail(noteRpc)
      /\ UNCHANGED <<noteTask, noteAnswers, noteOut, noteSent>>
      /\ UNCHANGED noteDatabase /\ UNCHANGED noteSpent
  BY DEF LoopSendsCall
<1>6. /\ IsSequence(noteRpc') /\ L \in Nat /\ L >= 1 /\ Len(noteRpc') = L - 1
      /\ \A i \in 1..L-1 : noteRpc'[i] = noteRpc[i + 1]
      /\ Head(noteRpc) = c
  BY <1>1, <1>4, <1>5, SequenceTail DEF NoteInv, NoteTyped
<1>7. /\ noteSeq' = n
      /\ notePending' = [m \in DOMAIN notePending \cup {n} |->
                           IF m = n THEN [task |-> c.task, request |-> c.request]
                           ELSE notePending[m]]
      /\ noteFlight' = noteFlight \cup {d}
  BY <1>2, <1>3, <1>6 DEF LoopSendsCall, NextCall
<1>8. /\ n \in Nat /\ n \notin DOMAIN notePending /\ n > noteSeq /\ noteSeq \in Nat
      /\ \A e \in noteFlight : e.n # n
      /\ \A a \in noteAnswers : a.n # n
      /\ DOMAIN notePending \cup {n} \subseteq 1..n
  BY <1>2 DEF NoteInv, NoteTyped
<1>9. /\ DOMAIN notePending' = DOMAIN notePending \cup {n}
      /\ notePending'[n].request = c.request
      /\ \A m \in DOMAIN notePending : notePending'[m] = notePending[m]
  BY <1>7, <1>8
<1>10. \A i \in 1..L-1 : i + 1 \in 1..L /\ i + 1 # 1 /\ 1 \in 1..L
  BY <1>6
<1>11. d.n = n /\ d.request = c.request /\ d.op = c.op /\ DOMAIN d = {"n", "request", "op"}
  BY <1>3
<1>12. NoteTruthsKept /\ \A q : NoteQuiet(q)
  <2>1. NoteSaid \subseteq NoteSaid'
    BY <1>5 DEF NoteSaid
  <2> QED
    BY <1>5, <2>1, DatabaseSame DEF NoteInv, NoteTyped
<1>13. NoteTyped'
  <2>1. \A e \in noteFlight' : DOMAIN e = {"n", "request", "op"} /\ e.n \in Nat /\ e.n <= noteSeq'
    BY <1>7, <1>8, <1>11 DEF NoteInv, NoteTyped
  <2>2. \A a \in noteAnswers' : a.n \in Nat /\ a.n <= noteSeq'
    BY <1>5, <1>7, <1>8 DEF NoteInv, NoteTyped
  <2> QED
    BY <1>5, <1>6, <1>7, <1>8, <1>9, <2>1, <2>2 DEF NoteInv, NoteTyped, noteDatabase
<1>14. RequestsApart'
  BY <1>5 DEF NoteInv, RequestsApart
<1>15. /\ \A i \in 1..L-1 : noteRpc'[i].request # c.request
       /\ \A e \in noteFlight : e.request # c.request
       /\ \A m \in DOMAIN notePending : notePending[m].request # c.request
       /\ NoteCallOK(c.request, c.op)
  BY <1>1, <1>4, <1>6, <1>10 DEF NoteInv, OneCallEach, CallsTrue
<1>16. OneCallEach'
  <2>1. \A i, j \in 1..L-1 : noteRpc'[i].request = noteRpc'[j].request => i = j
    BY <1>4, <1>6, <1>10 DEF NoteInv, OneCallEach
  <2>2. \A e, f \in noteFlight' : e.request = f.request => e = f
    BY <1>7, <1>11, <1>15 DEF NoteInv, OneCallEach
  <2>3. \A i \in 1..L-1 :
         /\ \A e \in noteFlight' : noteRpc'[i].request # e.request
         /\ \A m \in DOMAIN notePending' : noteRpc'[i].request # notePending'[m].request
    <3>1. \A i \in 1..L-1 :
           /\ \A e \in noteFlight : noteRpc'[i].request # e.request
           /\ \A m \in DOMAIN notePending : noteRpc'[i].request # notePending[m].request
      BY <1>4, <1>6, <1>10 DEF NoteInv, OneCallEach
    <3> QED
      BY <1>7, <1>9, <1>11, <1>15, <3>1
  <2>4. \A l, m \in DOMAIN notePending' : notePending'[l].request = notePending'[m].request => l = m
    BY <1>9, <1>15 DEF NoteInv, OneCallEach
  <2>5. \A e \in noteFlight', m \in DOMAIN notePending' : e.n = m <=> e.request = notePending'[m].request
    BY <1>7, <1>8, <1>9, <1>11, <1>15 DEF NoteInv, OneCallEach
  <2>6. \A a \in noteAnswers', e \in noteFlight' : a.n \in DOMAIN notePending' => a.n # e.n
    BY <1>5, <1>7, <1>8, <1>9, <1>11 DEF NoteInv, OneCallEach
  <2>7. \A m \in DOMAIN notePending' : notePending'[m].request \in 1..noteSpent'.requests
    BY <1>5, <1>9, <1>15 DEF NoteInv, OneCallEach, NoteCallOK
  <2> QED
    BY <1>6, <2>1, <2>2, <2>3, <2>4, <2>5, <2>6, <2>7 DEF OneCallEach
<1>17. CallsTrue'
  <2>1. ASSUME NEW q, NEW o, NoteCallOK(q, o) PROVE NoteCallOK(q, o)'
    BY <1>12, <2>1, CallStays
  <2>2. ASSUME NEW i \in 1..Len(noteRpc'), NEW e, e = noteRpc'[i] PROVE NoteCallOK(e.request, e.op)'
    BY <1>4, <1>6, <1>10, <2>1, <2>2 DEF NoteInv, CallsTrue
  <2>3. \A e \in noteFlight' : NoteCallOK(e.request, e.op)'
    BY <1>7, <1>11, <1>15, <2>1 DEF NoteInv, CallsTrue
  <2> QED
    BY <2>2, <2>3 DEF CallsTrue
<1>18. ASSUME NEW x, TaskInv(x) PROVE TaskInv(x)'
  <2>1. NoteTaskOK(x)'
    BY <1>12, <1>18, TaskStays DEF TaskInv
  <2>2. \A a : NoteAnswerTrue(x, a) => NoteAnswerTrue(x, a)'
    BY <1>12, AnswerStays
  <2>3. 1 \in 1..L
    BY <1>6
  <2>4. NoCalls(x)'
    <3> SUFFICES ASSUME Uncalled(x)
                 PROVE  /\ \A i \in 1..Len(noteRpc') : noteRpc'[i].request # x.request
                        /\ \A e \in noteFlight' : e.request # x.request
                        /\ \A m \in DOMAIN notePending' : notePending'[m].request # x.request
      BY DEF NoCalls, Uncalled
    <3>1. c.request # x.request
      BY <1>1, <1>4, <1>18, <2>3 DEF TaskInv, NoCalls
    <3> QED
      BY <1>4, <1>6, <1>7, <1>9, <1>10, <1>11, <1>18, <3>1 DEF TaskInv, NoCalls
  <2>5. CallMatches(x)'
    <3> SUFFICES ASSUME InWait(x)
                 PROVE  /\ \A i \in 1..Len(noteRpc') : noteRpc'[i].request = x.request
                             => NoteMatches(x, noteRpc'[i].op)
                        /\ \A e \in noteFlight' : e.request = x.request => NoteMatches(x, e.op)
                        /\ \A a \in noteAnswers' :
                             a.n \in DOMAIN notePending' /\ notePending'[a.n].request = x.request
                               => NoteAnswerTrue(x, a)'
      BY DEF CallMatches, InWait, NoteMatches
    <3>1. c.request = x.request => NoteMatches(x, c.op)
      BY <1>1, <1>4, <1>18, <2>3 DEF TaskInv, CallMatches
    <3>2. \A i \in 1..Len(noteRpc') : noteRpc'[i].request = x.request => NoteMatches(x, noteRpc'[i].op)
      BY <1>4, <1>6, <1>10, <1>18 DEF TaskInv, CallMatches
    <3>3. \A e \in noteFlight' : e.request = x.request => NoteMatches(x, e.op)
      BY <1>7, <1>11, <1>18, <3>1 DEF TaskInv, CallMatches
    <3>4. ASSUME NEW a \in noteAnswers', a.n \in DOMAIN notePending', notePending'[a.n].request = x.request
          PROVE  NoteAnswerTrue(x, a)'
      BY <1>5, <1>8, <1>9, <1>18, <2>2, <3>4 DEF TaskInv, CallMatches
    <3> QED
      BY <3>2, <3>3, <3>4
  <2> QED
    BY <2>1, <2>4, <2>5 DEF TaskInv
<1>19. TasksTrue'
  BY <1>5, <1>18 DEF NoteInv, TasksTrue
<1>20. IdsGiven' /\ DocsTrue'
  BY <1>5 DEF NoteInv, IdsGiven, Owners, DocsTrue, noteDatabase, NoteSettled, MayBeStored, NoteTyped
<1>21. MessagesTrue'
  BY <1>5, <1>12, MessagesStay
<1> QED
  BY <1>13, <1>14, <1>16, <1>17, <1>19, <1>20, <1>21 DEF NoteInv

\* The loop hands an answer to the task that waits under its number, if any.
LEMMA LoopHandsBackKeeps ==
  ASSUME NoteInv, NEW a, LoopHandsBack(a)
  PROVE  NoteInv'
<1>1. /\ a \in noteAnswers /\ noteAnswers' = noteAnswers \ {a}
      /\ notePending' = [m \in DOMAIN notePending \ {a.n} |-> notePending[m]]
      /\ UNCHANGED <<noteRpc, noteSeq, noteFlight, noteOut, noteSent>>
      /\ UNCHANGED noteDatabase /\ UNCHANGED noteSpent
  BY DEF LoopHandsBack
<1>2. /\ DOMAIN notePending' = DOMAIN notePending \ {a.n}
      /\ \A m \in DOMAIN notePending' : notePending'[m] = notePending[m]
  BY <1>1
<1>3. ASSUME NEW t \in NoteTasks, NEW x, x = noteTask[t], NEW y, y = noteTask'[t]
      PROVE  \/ y = x
             \/ /\ a.n \in DOMAIN notePending /\ InWait(x) /\ x.request = notePending[a.n].request
                /\ y = [x EXCEPT !.result = a]
  BY <1>3 DEF LoopHandsBack, InWait
<1>4. NoteTruthsKept /\ \A q : NoteQuiet(q)
  <2>1. NoteSaid \subseteq NoteSaid'
    BY <1>1 DEF NoteSaid
  <2> QED
    BY <1>1, <2>1, DatabaseSame DEF NoteInv, NoteTyped
<1>5. NoteTyped'
  <2>1. DOMAIN noteTask' = NoteTasks
    BY DEF LoopHandsBack
  <2> QED
    BY <1>1, <1>2, <2>1 DEF NoteInv, NoteTyped, noteDatabase
<1>6. ASSUME NEW t \in NoteTasks, NEW x, x = noteTask[t], NEW y, y = noteTask'[t]
      PROVE  /\ TaskInv(y)'
             /\ y.pc # "idle" => x.pc # "idle" /\ y.request = x.request
  <2>1. TaskInv(x)
    BY <1>6 DEF NoteInv, TasksTrue
  <2>2. \A b : NoteAnswerTrue(x, b) => NoteAnswerTrue(x, b)'
    BY <1>4, AnswerStays
  <2>3. CASE y = x
    <3>1. NoteTaskOK(x)'
      BY <1>4, <2>1, TaskStays DEF TaskInv
    <3>2. NoCalls(x)'
      BY <1>1, <1>2, <2>1 DEF TaskInv, NoCalls, Uncalled
    <3>3. CallMatches(x)'
      BY <1>1, <1>2, <2>1, <2>2 DEF TaskInv, CallMatches, InWait, NoteMatches
    <3> QED
      BY <2>3, <3>1, <3>2, <3>3 DEF TaskInv
  <2>4. CASE /\ a.n \in DOMAIN notePending /\ InWait(x) /\ x.request = notePending[a.n].request
             /\ y = [x EXCEPT !.result = a]
    <3>1. /\ DOMAIN x = NoteTaskFields /\ x.pc = "wait" /\ x.request \in 1..noteSpent.requests
          /\ x.params \in NoteRequests /\ WaitOK(x) /\ NoteAnswerTrue(x, a)
      BY <1>1, <2>1, <2>4 DEF TaskInv, NoteTaskOK, CallMatches, InWait
    <3>2. /\ DOMAIN y = NoteTaskFields /\ y.pc = "wait" /\ y.request = x.request
          /\ y.params = x.params /\ y.expects = x.expects /\ y.id = x.id /\ y.result = a
      BY <2>4, <3>1 DEF NoteTaskFields
    <3>3. NoteAnswerTrue(y, a)'
      BY <2>2, <3>1, <3>2 DEF NoteAnswerTrue
    <3>4. NoteGiven(x.id, x.request) => NoteGiven(x.id, x.request)'
      BY <1>4, PastStays
    <3>5. NoteTaskOK(y)'
      <4>1. WaitOK(y)'
        BY <3>1, <3>2, <3>3, <3>4 DEF WaitOK
      <4> QED
        BY <1>1, <3>1, <3>2, <4>1 DEF NoteTaskOK
    <3>6. /\ \A i \in 1..Len(noteRpc) : noteRpc[i].request # x.request
          /\ \A c \in noteFlight : c.request # x.request
          /\ \A n \in DOMAIN notePending' : notePending'[n].request # x.request
      BY <1>1, <1>2, <2>4 DEF NoteInv, OneCallEach
    <3>7. NoCalls(y)'
      BY <1>1, <3>2, <3>6 DEF NoCalls
    <3>8. CallMatches(y)'
      BY <1>1, <1>2, <3>2, <3>6 DEF CallMatches
    <3> QED
      BY <2>4, <3>1, <3>2, <3>5, <3>7, <3>8 DEF TaskInv
  <2> QED
    BY <1>3, <1>6, <2>3, <2>4
<1>7. TasksTrue'
  <2> SUFFICES ASSUME NEW u \in NoteTasks, NEW z, z = noteTask'[u] PROVE TaskInv(z)'
    BY DEF TasksTrue
  <2> QED
    BY <1>6
<1>8. RequestsApart'
  <2> SUFFICES ASSUME NEW u \in NoteTasks, NEW v \in NoteTasks, noteTask'[u].pc # "idle",
                      noteTask'[v].pc # "idle", noteTask'[u].request = noteTask'[v].request
               PROVE  u = v
    BY DEF RequestsApart
  <2>1. /\ noteTask[u].pc # "idle" /\ noteTask[v].pc # "idle"
        /\ noteTask[u].request = noteTask[v].request
    BY <1>6
  <2> QED
    BY <2>1 DEF NoteInv, RequestsApart
<1>9. OneCallEach'
  BY <1>1, <1>2 DEF NoteInv, OneCallEach
<1>10. CallsTrue'
  BY <1>1, <1>4, CallStays DEF NoteInv, CallsTrue
<1>11. IdsGiven' /\ DocsTrue'
  BY <1>1 DEF NoteInv, IdsGiven, Owners, DocsTrue, noteDatabase, NoteSettled, MayBeStored, NoteTyped
<1>12. MessagesTrue'
  BY <1>1, <1>4, MessagesStay
<1> QED
  BY <1>5, <1>7, <1>8, <1>9, <1>10, <1>11, <1>12 DEF NoteInv

\* The database answers a call: that request has no other call, no other answer
\* and no task that goes on with it.
LEMMA ServedKeeps ==
  ASSUME NoteInv, NEW c \in noteFlight, NEW ok, NEW value, NoteAnswer(c, ok, value),
         NoteTruthsKept, \A q : q # c.request => NoteQuiet(q),
         UNCHANGED <<noteTask, noteRpc, noteSeq, notePending, noteOut, noteSent>>,
         noteSpent'.requests = noteSpent.requests,
         DOMAIN noteSpent' = {"requests", "faults", "crashes"},
         noteChanged' \subseteq 1..noteSpent.requests, DOMAIN noteOwner' = DOMAIN noteDocs,
         IdsGiven', DocsTrue',
         NEW a, a = [n |-> c.n, ok |-> ok, data |-> <<c.op.kind, value>>],
         \A x : x.request = c.request /\ NoteMatches(x, c.op) => NoteAnswerTrue(x, a)'
  PROVE  NoteInv'
<1>1. /\ noteFlight' = noteFlight \ {c} /\ noteAnswers' = noteAnswers \cup {a} /\ a.n = c.n
  BY DEF NoteAnswer
<1>2. NoteTyped'
  <2>1. DOMAIN noteDocs' = DOMAIN noteDocs
    BY DEF NoteTruthsKept
  <2>2. \A b \in noteAnswers' : b.n \in Nat /\ b.n <= noteSeq'
    BY <1>1 DEF NoteInv, NoteTyped
  <2>3. \A e \in noteFlight' : DOMAIN e = {"n", "request", "op"} /\ e.n \in Nat /\ e.n <= noteSeq'
    BY <1>1 DEF NoteInv, NoteTyped
  <2> QED
    BY <2>1, <2>2, <2>3 DEF NoteInv, NoteTyped
<1>3. RequestsApart'
  BY DEF NoteInv, RequestsApart
<1>4. OneCallEach'
  <2>1. \A b \in noteAnswers', e \in noteFlight' : b.n \in DOMAIN notePending' => b.n # e.n
    <3> SUFFICES ASSUME NEW b \in noteAnswers', NEW e \in noteFlight', b.n \in DOMAIN notePending,
                        b.n = e.n
                 PROVE  FALSE
      OBVIOUS
    <3>1. b = a
      BY <1>1 DEF NoteInv, OneCallEach
    <3>2. /\ e.request = notePending[b.n].request /\ c.request = notePending[b.n].request
          /\ e \in noteFlight /\ e # c
      BY <1>1, <3>1 DEF NoteInv, OneCallEach
    <3> QED
      BY <3>2 DEF NoteInv, OneCallEach
  <2> QED
    BY <1>1, <2>1 DEF NoteInv, OneCallEach
<1>5. CallsTrue'
  <2>1. \A i \in 1..Len(noteRpc) : noteRpc[i].request # c.request
    BY DEF NoteInv, OneCallEach
  <2>2. \A e \in noteFlight' : e \in noteFlight /\ e.request # c.request
    BY <1>1 DEF NoteInv, OneCallEach
  <2>3. ASSUME NEW q, q # c.request, NEW op, NoteCallOK(q, op) PROVE NoteCallOK(q, op)'
    BY <2>3, CallStays
  <2>4. ASSUME NEW i \in 1..Len(noteRpc) PROVE NoteCallOK(noteRpc[i].request, noteRpc[i].op)'
    <3>1. PICK e : e = noteRpc[i]
      OBVIOUS
    <3>2. NoteCallOK(e.request, e.op)'
      BY <2>1, <2>3, <3>1 DEF NoteInv, CallsTrue
    <3> QED
      BY <3>1, <3>2 DEF NoteCallOK, NoIdYet, NoteSettled, NoteGiven, MayBeStored
  <2>5. \A e \in noteFlight' : NoteCallOK(e.request, e.op)'
    BY <2>2, <2>3 DEF NoteInv, CallsTrue
  <2> QED
    BY <2>4, <2>5 DEF CallsTrue
<1>6. ASSUME NEW x, TaskInv(x) PROVE TaskInv(x)'
  <2>1. NoteTaskOK(x)'
    <3>1. Uncalled(x) => NoteQuiet(x.request)
      BY <1>6 DEF TaskInv, NoCalls
    <3> QED
      BY <1>6, <3>1, TaskStays DEF TaskInv
  <2>2. NoCalls(x)'
    BY <1>1, <1>6 DEF TaskInv, NoCalls, Uncalled
  <2>3. CallMatches(x)'
    <3> SUFFICES ASSUME InWait(x)
                 PROVE  /\ \A i \in 1..Len(noteRpc') : noteRpc'[i].request = x.request
                             => NoteMatches(x, noteRpc'[i].op)
                        /\ \A e \in noteFlight' : e.request = x.request => NoteMatches(x, e.op)
                        /\ \A b \in noteAnswers' :
                             b.n \in DOMAIN notePending' /\ notePending'[b.n].request = x.request
                               => NoteAnswerTrue(x, b)'
      BY DEF CallMatches, InWait, NoteMatches
    <3>1. /\ \A i \in 1..Len(noteRpc') : noteRpc'[i].request = x.request
                             => NoteMatches(x, noteRpc'[i].op)
          /\ \A e \in noteFlight' : e.request = x.request => NoteMatches(x, e.op)
      BY <1>1, <1>6 DEF TaskInv, CallMatches
    <3>2. ASSUME NEW b \in noteAnswers', b.n \in DOMAIN notePending',
                 notePending'[b.n].request = x.request
          PROVE  NoteAnswerTrue(x, b)'
      <4>1. CASE b = a
        <5>1. c.request = x.request
          BY <1>1, <3>2, <4>1 DEF NoteInv, OneCallEach
        <5>2. NoteMatches(x, c.op)
          BY <1>6, <5>1 DEF TaskInv, CallMatches
        <5> QED
          BY <4>1, <5>1, <5>2
      <4>2. CASE b # a
        <5>1. b \in noteAnswers /\ NoteAnswerTrue(x, b)
          BY <1>1, <1>6, <3>2, <4>2 DEF TaskInv, CallMatches
        <5>2. x.request # c.request
          BY <3>2, <5>1 DEF NoteInv, OneCallEach
        <5> QED
          BY <5>1, <5>2, AnswerStays
      <4> QED
        BY <4>1, <4>2
    <3> QED
      BY <3>1, <3>2
  <2> QED
    BY <2>1, <2>2, <2>3 DEF TaskInv
<1>7. TasksTrue'
  BY <1>6 DEF NoteInv, TasksTrue
<1>8. MessagesTrue'
  BY MessagesStay
<1> QED
  BY <1>2, <1>3, <1>4, <1>5, <1>7, <1>8 DEF NoteInv

\* A call that reads, or fails: the documents stay.
LEMMA ReadKeeps ==
  ASSUME NoteInv, NEW c \in noteFlight, NEW ok, NEW value, NoteAnswer(c, ok, value),
         UNCHANGED noteDatabase,
         UNCHANGED <<noteTask, noteRpc, noteSeq, notePending, noteOut, noteSent>>,
         noteSpent'.requests = noteSpent.requests,
         DOMAIN noteSpent' = {"requests", "faults", "crashes"},
         ok => c.op.kind \in {"db_get", "db_keys", "db_batch_get"},
         ok /\ c.op.kind = "db_get" => value = StoredNote(c.op.id)
  PROVE  NoteInv'
<1>1. NoteTruthsKept /\ \A q : NoteQuiet(q)
  <2>1. NoteSaid \subseteq NoteSaid'
    BY DEF NoteSaid
  <2> QED
    BY <2>1, DatabaseSame DEF NoteInv, NoteTyped
<1>2. noteChanged' \subseteq 1..noteSpent.requests /\ DOMAIN noteOwner' = DOMAIN noteDocs
  BY DEF NoteInv, NoteTyped, noteDatabase
<1>3. IdsGiven' /\ DocsTrue'
  BY DEF NoteInv, IdsGiven, Owners, DocsTrue, noteDatabase, NoteSettled, MayBeStored, NoteTyped
<1>4. PICK a : a = [n |-> c.n, ok |-> ok, data |-> <<c.op.kind, value>>]
  OBVIOUS
<1>5. ASSUME NEW x, x.request = c.request, NoteMatches(x, c.op) PROVE NoteAnswerTrue(x, a)'
  <2> SUFFICES ASSUME ok PROVE NoteAnswerTrue(x, a)'
    BY <1>4 DEF NoteAnswerTrue
  <2>1. a.data[1] = c.op.kind /\ a.data[2] = value
    BY <1>4
  <2>2. x.request \notin noteChanged'
    BY <1>5 DEF NoteInv, CallsTrue, NoteCallOK, noteDatabase
  <2>3. c.op.kind = "db_get" /\ value # Absent => MayBeStored(value) /\ NoteSettled(x.id)
    BY <1>5 DEF StoredNote, NoteIds, NoteInv, DocsTrue, NoteMatches
  <2>4. NoteSettled(x.id) => NoteSettled(x.id)'
    BY <1>1, PastStays
  <2> QED
    BY <2>1, <2>2, <2>3, <2>4 DEF NoteAnswerTrue, NoteWrites, MayBeStored
<1> QED
  BY <1>1, <1>2, <1>3, <1>4, <1>5, ServedKeeps

\* A create is given the next id: there is one, nobody has it, and it is the
\* request's only one.
LEMMA IncrKeeps ==
  ASSUME NoteInv, NEW c \in noteFlight, DatabaseServes(c), c.op.kind = "db_incr"
  PROVE  NoteInv'
<1>1. PICK q : q = c.request
  OBVIOUS
<1>2. PICK i : i = noteCounter + 1
  OBVIOUS
<1>3. /\ noteCounter' = i /\ noteOwner' = [noteOwner EXCEPT ![i] = @ \cup {q}]
      /\ NoteAnswer(c, TRUE, i) /\ UNCHANGED <<noteDocs, noteChanged, noteRaced>>
      /\ UNCHANGED <<noteTask, noteRpc, noteSeq, notePending, noteOut, noteSent, noteSpent>>
  BY <1>1, <1>2 DEF DatabaseServes
<1>4. /\ q \in 1..noteSpent.requests /\ q \notin noteChanged /\ NoIdYet(q)
  BY <1>1 DEF NoteInv, CallsTrue, NoteCallOK
<1>5. Len(NotesStored) \in Nat /\ DOMAIN noteDocs = 1..(MaxNoteRequests + Len(NotesStored))
      /\ MaxNoteRequests \in Nat /\ noteSpent.requests \in Nat
      /\ noteSpent.requests <= MaxNoteRequests
      /\ noteCounter \in Nat /\ noteCounter >= Len(NotesStored)
  BY NotesAssumption DEF NoteInv, NoteTyped, IdsGiven
<1>6. q \notin Owners
  BY <1>4 DEF NoIdYet, Owners
<1>7. Owners \cup {q} \subseteq 1..noteSpent.requests
  BY <1>4 DEF NoteInv, IdsGiven
<1>8. /\ IsFiniteSet(Owners) /\ Cardinality(Owners \cup {q}) = Cardinality(Owners) + 1
      /\ Cardinality(Owners \cup {q}) <= noteSpent.requests
  <2>1. IsFiniteSet(1..noteSpent.requests) /\ Cardinality(1..noteSpent.requests) = noteSpent.requests
    <3>1. PICK n : n = noteSpent.requests
      OBVIOUS
    <3>2. n \in Nat /\ 1 \in Int /\ n \in Int
      BY <1>5, <3>1
    <3>3. IsFiniteSet(1..n) /\ Cardinality(1..n) = IF 1 > n THEN 0 ELSE n - 1 + 1
      BY <3>2, FS_Interval
    <3> QED
      BY <3>1, <3>2, <3>3
  <2>2. IsFiniteSet(Owners \cup {q}) /\ Cardinality(Owners \cup {q}) <= noteSpent.requests
    BY <1>7, <2>1, FS_Subset
  <2>3. IsFiniteSet(Owners)
    BY <2>2, FS_Subset
  <2> QED
    BY <1>6, <2>2, <2>3, FS_AddElement
<1>9. Cardinality(Owners) = noteCounter - Len(NotesStored)
  BY DEF NoteInv, IdsGiven
<1>10. i \in DOMAIN noteDocs /\ i > noteCounter /\ i > Len(NotesStored)
  BY <1>2, <1>5, <1>8, <1>9
<1>11. noteOwner[i] = {} /\ DOMAIN noteOwner = DOMAIN noteDocs
  BY <1>2, <1>5, <1>10 DEF NoteInv, NoteTyped, IdsGiven
<1>12. /\ DOMAIN noteOwner' = DOMAIN noteDocs /\ noteOwner'[i] = {q}
       /\ \A j \in DOMAIN noteDocs : j # i => noteOwner'[j] = noteOwner[j]
  BY <1>3, <1>10, <1>11
<1>13. NoteTruthsKept
  <2>1. ASSUME NEW j, NoteGone(j) PROVE NoteGone(j)'
    BY <1>3, <1>11, <1>12, <2>1 DEF NoteGone, NoteSettled
  <2>2. NoteSaid \subseteq NoteSaid'
    BY <1>3 DEF NoteSaid
  <2>3. \A j \in DOMAIN noteDocs : noteOwner[j] # {} => noteOwner'[j] = noteOwner[j]
    BY <1>11, <1>12
  <2>4. /\ DOMAIN noteDocs' = DOMAIN noteDocs /\ noteChanged \subseteq noteChanged'
        /\ noteSpent'.requests = noteSpent.requests
    BY <1>3
  <2> QED
    BY <1>5, <2>1, <2>2, <2>3, <2>4 DEF NoteTruthsKept
<1>14. ASSUME NEW r, r # q PROVE NoteQuiet(r)
  BY <1>3, <1>12, <1>14 DEF NoteQuiet, NoIdYet
<1>15. IdsGiven'
  <2>1. Owners' = Owners \cup {q}
    BY <1>3, <1>10, <1>11, <1>12 DEF Owners
  <2>2. Cardinality(Owners') = i - Len(NotesStored)
    BY <1>2, <1>5, <1>8, <1>9, <2>1
  <2>3. \A j \in DOMAIN noteDocs : noteOwner'[j] # {} => j > Len(NotesStored) /\ j <= i
    BY <1>2, <1>5, <1>10, <1>12 DEF NoteInv, IdsGiven
  <2> QED
    BY <1>2, <1>3, <1>5, <1>7, <2>1, <2>2, <2>3 DEF IdsGiven
<1>16. DocsTrue'
  <2>1. \A j : NoteSettled(j) => NoteSettled(j)'
    BY <1>13, PastStays
  <2> QED
    BY <1>3, <2>1 DEF NoteInv, DocsTrue, MayBeStored
<1>17. PICK a : a = [n |-> c.n, ok |-> TRUE, data |-> <<c.op.kind, i>>]
  OBVIOUS
<1>18. ASSUME NEW x, x.request = q PROVE NoteAnswerTrue(x, a)'
  <2>1. a.data[1] = "db_incr" /\ a.data[2] = i
    BY <1>17
  <2>2. NoteGiven(i, q)'
    BY <1>3, <1>10, <1>12 DEF NoteGiven
  <2> QED
    BY <1>3, <1>4, <1>18, <2>1, <2>2 DEF NoteAnswerTrue, NoteWrites
<1>19. /\ noteSpent'.requests = noteSpent.requests
       /\ DOMAIN noteSpent' = {"requests", "faults", "crashes"}
       /\ noteChanged' \subseteq 1..noteSpent.requests
  BY <1>3 DEF NoteInv, NoteTyped
<1> QED
  BY <1>1, <1>3, <1>12, <1>13, <1>14, <1>15, <1>16, <1>17, <1>18, <1>19, ServedKeeps

\* A write: the history remembers whose, and whether it read what it writes over.
LEMMA SetKeeps ==
  ASSUME NoteInv, NEW c \in noteFlight, DatabaseServes(c), c.op.kind = "db_set"
  PROVE  NoteInv'
<1>1. PICK q : q = c.request
  OBVIOUS
<1>2. PICK op : op = c.op
  OBVIOUS
<1>3. /\ noteDocs' = [noteDocs EXCEPT ![op.id] = op.note]
      /\ noteChanged' = noteChanged \cup {q}
      /\ noteRaced' = IF StoredNote(op.id) = op.read THEN noteRaced ELSE noteRaced \cup {op.id}
      /\ NoteAnswer(c, TRUE, TRUE) /\ UNCHANGED <<noteCounter, noteOwner>>
      /\ UNCHANGED <<noteTask, noteRpc, noteSeq, notePending, noteOut, noteSent, noteSpent>>
  BY <1>1, <1>2 DEF DatabaseServes
<1>4. /\ q \in 1..noteSpent.requests /\ q \notin noteChanged /\ MayBeStored(op.note)
      /\ IF op.read = Absent THEN NoteGiven(op.id, q) ELSE NoteSettled(op.id)
  BY <1>1, <1>2 DEF NoteInv, CallsTrue, NoteCallOK
<1>5. /\ DOMAIN noteDocs' = DOMAIN noteDocs /\ op.id \in DOMAIN noteDocs
      /\ noteDocs'[op.id] = op.note
      /\ \A i \in DOMAIN noteDocs : i # op.id => noteDocs'[i] = noteDocs[i]
  BY <1>3, <1>4 DEF NoteGiven, NoteSettled
<1>6. NoteSettled(op.id)'
  <2>1. CASE op.read = Absent
    BY <1>3, <1>4, <1>5, <2>1 DEF NoteGiven, NoteSettled
  <2>2. CASE op.read # Absent
    BY <1>3, <1>4, <1>5, <2>2 DEF NoteSettled
  <2> QED
    BY <2>1, <2>2
<1>7. ASSUME NEW i, NoteGone(i) PROVE NoteGone(i)'
  <2>1. NoteSettled(i) /\ (i \notin noteRaced => noteDocs[i] = Absent) /\ i \in DOMAIN noteDocs
    BY <1>7 DEF NoteGone, NoteSettled
  <2>2. NoteSettled(i)'
    BY <1>3, <1>5, <2>1 DEF NoteSettled
  <2>3. CASE i # op.id
    BY <1>3, <1>5, <2>1, <2>2, <2>3 DEF NoteGone
  <2>4. CASE i = op.id /\ op.read = Absent
    <3>1. noteOwner[i] = {q} /\ i > Len(NotesStored) /\ Len(NotesStored) \in Nat
      BY <1>4, <2>1, <2>4, NotesAssumption DEF NoteGiven, NoteInv, IdsGiven
    <3>2. DOMAIN NotesStored = 1..Len(NotesStored)
      BY NotesAssumption
    <3>3. FALSE
      BY <1>4, <2>1, <3>1, <3>2 DEF NoteSettled
    <3> QED
      BY <3>3
  <2>5. CASE i = op.id /\ op.read # Absent
    <3>1. i \notin noteRaced => StoredNote(op.id) # op.read
      BY <2>1, <2>5 DEF StoredNote, NoteIds
    <3>2. i \in noteRaced'
      BY <1>3, <2>5, <3>1
    <3> QED
      BY <2>2, <3>2 DEF NoteGone
  <2> QED
    BY <2>3, <2>4, <2>5
<1>8. NoteTruthsKept
  <2>1. NoteSaid \subseteq NoteSaid'
    BY <1>3 DEF NoteSaid
  <2>2. noteSpent.requests \in Nat
    BY DEF NoteInv, NoteTyped
  <2> QED
    BY <1>3, <1>5, <1>7, <2>1, <2>2 DEF NoteTruthsKept
<1>9. ASSUME NEW r, r # q PROVE NoteQuiet(r)
  BY <1>3, <1>5, <1>9 DEF NoteQuiet, NoIdYet
<1>10. IdsGiven'
  BY <1>3, <1>5 DEF NoteInv, IdsGiven, Owners
<1>11. DocsTrue'
  <2>1. \A j : NoteSettled(j) => NoteSettled(j)'
    BY <1>8, PastStays
  <2>2. MayBeStored(op.note)'
    BY <1>4 DEF MayBeStored
  <2>3. ASSUME NEW i \in DOMAIN noteDocs', noteDocs'[i] # Absent
        PROVE  MayBeStored(noteDocs'[i]) /\ NoteSettled(i)'
    <3>1. CASE i = op.id
      BY <1>4, <1>5, <1>6, <3>1
    <3>2. CASE i # op.id
      BY <1>5, <2>1, <2>3, <3>2 DEF NoteInv, DocsTrue
    <3> QED
      BY <3>1, <3>2
  <2> QED
    BY <2>3 DEF DocsTrue, MayBeStored
<1>12. PICK a : a = [n |-> c.n, ok |-> TRUE, data |-> <<c.op.kind, TRUE>>]
  OBVIOUS
<1>13. ASSUME NEW x, x.request = q PROVE NoteAnswerTrue(x, a)'
  <2>1. a.data[1] = "db_set"
    BY <1>12
  <2>2. x.request \in noteChanged'
    BY <1>3, <1>13
  <2> QED
    BY <2>1, <2>2 DEF NoteAnswerTrue, NoteWrites
<1>14. /\ noteSpent'.requests = noteSpent.requests
       /\ DOMAIN noteSpent' = {"requests", "faults", "crashes"}
       /\ noteChanged' \subseteq 1..noteSpent.requests /\ DOMAIN noteOwner' = DOMAIN noteDocs
  BY <1>3, <1>4 DEF NoteInv, NoteTyped
<1> QED
  BY <1>1, <1>3, <1>8, <1>9, <1>10, <1>11, <1>12, <1>13, <1>14, ServedKeeps

\* A deletion: whoever is told of it, the note is gone.
LEMMA DeleteKeeps ==
  ASSUME NoteInv, NEW c \in noteFlight, DatabaseServes(c), c.op.kind = "db_delete"
  PROVE  NoteInv'
<1>1. PICK q : q = c.request
  OBVIOUS
<1>2. PICK id : id = c.op.id
  OBVIOUS
<1>3. PICK held : held = (id \in NoteIds)
  OBVIOUS
<1>4. /\ noteDocs' = [noteDocs EXCEPT ![id] = Absent]
      /\ noteChanged' = IF id \in NoteIds THEN noteChanged \cup {q} ELSE noteChanged
      /\ NoteAnswer(c, TRUE, id \in NoteIds) /\ UNCHANGED <<noteCounter, noteOwner, noteRaced>>
      /\ UNCHANGED <<noteTask, noteRpc, noteSeq, notePending, noteOut, noteSent, noteSpent>>
  BY <1>1, <1>2 DEF DatabaseServes
<1>5. q \in 1..noteSpent.requests /\ q \notin noteChanged
  BY <1>1 DEF NoteInv, CallsTrue, NoteCallOK
<1>6. /\ DOMAIN noteDocs' = DOMAIN noteDocs
      /\ \A i \in DOMAIN noteDocs : noteDocs'[i] = IF i = id THEN Absent ELSE noteDocs[i]
      /\ noteChanged \subseteq noteChanged' /\ noteChanged' \subseteq noteChanged \cup {q}
  BY <1>4
<1>7. ASSUME NEW i, NoteSettled(i) PROVE NoteSettled(i)'
  BY <1>4, <1>6, <1>7 DEF NoteSettled
<1>8. ASSUME NEW i, NoteGone(i) PROVE NoteGone(i)'
  BY <1>4, <1>6, <1>7, <1>8 DEF NoteGone, NoteSettled
<1>9. NoteTruthsKept
  <2>1. NoteSaid \subseteq NoteSaid'
    BY <1>4 DEF NoteSaid
  <2>2. noteSpent.requests \in Nat
    BY DEF NoteInv, NoteTyped
  <2> QED
    BY <1>4, <1>6, <1>8, <2>1, <2>2 DEF NoteTruthsKept
<1>10. ASSUME NEW r, r # q PROVE NoteQuiet(r)
  BY <1>4, <1>6, <1>10 DEF NoteQuiet, NoIdYet
<1>11. IdsGiven'
  BY <1>4, <1>6 DEF NoteInv, IdsGiven, Owners
<1>12. DocsTrue'
  BY <1>6, <1>7 DEF NoteInv, DocsTrue, MayBeStored
<1>13. PICK a : a = [n |-> c.n, ok |-> TRUE, data |-> <<c.op.kind, id \in NoteIds>>]
  OBVIOUS
<1>14. ASSUME NEW x, x.request = q, NoteMatches(x, c.op) PROVE NoteAnswerTrue(x, a)'
  <2>1. a.data[1] = "db_delete" /\ a.data[2] = (id \in NoteIds) /\ x.id = id
    BY <1>2, <1>13, <1>14 DEF NoteMatches
  <2>2. id \in NoteIds => q \in noteChanged'
    BY <1>4
  <2>3. id \in NoteIds => NoteGone(id)'
    BY <1>6, <1>7 DEF NoteIds, NoteGone, NoteInv, DocsTrue
  <2> QED
    BY <1>14, <2>1, <2>2, <2>3 DEF NoteAnswerTrue, NoteWrites
<1>15. /\ noteSpent'.requests = noteSpent.requests
       /\ DOMAIN noteSpent' = {"requests", "faults", "crashes"}
       /\ noteChanged' \subseteq 1..noteSpent.requests /\ DOMAIN noteOwner' = DOMAIN noteDocs
  BY <1>4, <1>5 DEF NoteInv, NoteTyped
<1> QED
  BY <1>1, <1>4, <1>9, <1>10, <1>11, <1>12, <1>13, <1>14, <1>15, ServedKeeps

LEMMA NotesServeKeeps ==
  ASSUME NoteInv, NEW c \in noteFlight, DatabaseServes(c) \/ DatabaseFails(c)
  PROVE  NoteInv'
<1>1. c.op.kind \in NoteOps
  BY DEF NoteInv, CallsTrue, NoteCallOK
<1>2. DOMAIN noteSpent = {"requests", "faults", "crashes"}
  BY DEF NoteInv, NoteTyped
<1>3. CASE DatabaseFails(c)
  <2>1. /\ noteSpent'.requests = noteSpent.requests
        /\ DOMAIN noteSpent' = {"requests", "faults", "crashes"}
    BY <1>2, <1>3 DEF DatabaseFails, NoteFault
  <2>2. /\ NoteAnswer(c, FALSE, Absent) /\ UNCHANGED noteDatabase
        /\ UNCHANGED <<noteTask, noteRpc, noteSeq, notePending, noteOut, noteSent>>
    BY <1>3 DEF DatabaseFails
  <2> QED
    BY <2>1, <2>2, ReadKeeps
<1>4. CASE DatabaseServes(c)
  <2>1. /\ UNCHANGED <<noteTask, noteRpc, noteSeq, notePending, noteOut, noteSent>>
        /\ noteSpent' = noteSpent
    BY <1>4 DEF DatabaseServes
  <2>2. CASE c.op.kind = "db_get"
    <3>1. NoteAnswer(c, TRUE, StoredNote(c.op.id)) /\ UNCHANGED noteDatabase
      BY <1>4, <2>2 DEF DatabaseServes
    <3> QED
      BY <1>2, <2>1, <2>2, <3>1, ReadKeeps
  <2>3. CASE c.op.kind = "db_keys"
    <3>1. NoteAnswer(c, TRUE, NoteIds) /\ UNCHANGED noteDatabase
      BY <1>4, <2>3 DEF DatabaseServes
    <3> QED
      BY <1>2, <2>1, <2>3, <3>1, ReadKeeps
  <2>4. CASE c.op.kind = "db_batch_get"
    <3>1. NoteAnswer(c, TRUE, c.op.ids \cap NoteIds) /\ UNCHANGED noteDatabase
      BY <1>4, <2>4 DEF DatabaseServes
    <3> QED
      BY <1>2, <2>1, <2>4, <3>1, ReadKeeps
  <2> QED
    BY <1>1, <1>4, <2>2, <2>3, <2>4, IncrKeeps, SetKeeps, DeleteKeeps DEF NoteOps
<1> QED
  BY <1>3, <1>4

\* A restart forgets tasks, channels and answers; the calls under way go on,
\* and nobody waits for them.
LEMMA NotesRestartKeeps ==
  ASSUME NoteInv, NotesRestart
  PROVE  NoteInv'
<1>1. /\ noteSpent' = [noteSpent EXCEPT !.crashes = @ + 1]
      /\ noteTask' = [t \in NoteTasks |-> NoteIdle]
      /\ noteRpc' = <<>> /\ noteSeq' = 0 /\ notePending' = <<>>
      /\ noteOut' = <<>> /\ noteAnswers' = {}
      /\ noteFlight' = {[c EXCEPT !.n = 0] : c \in noteFlight}
      /\ noteSent' = noteSent /\ UNCHANGED noteDatabase
  BY DEF NotesRestart
<1>2. noteSpent'.requests = noteSpent.requests /\ DOMAIN noteSpent' = {"requests", "faults", "crashes"}
  BY <1>1 DEF NoteInv, NoteTyped
<1>3. \A e \in noteFlight' : \E c \in noteFlight :
        /\ e = [c EXCEPT !.n = 0] /\ e.n = 0 /\ e.request = c.request /\ e.op = c.op
        /\ DOMAIN e = {"n", "request", "op"}
  BY <1>1 DEF NoteInv, NoteTyped
<1>4. DOMAIN notePending' = {} /\ Len(noteRpc') = 0 /\ Len(noteOut') = 0
      /\ IsSequence(noteRpc') /\ IsSequence(noteOut')
  BY <1>1, EmptySequence
<1>5. NoteTyped'
  BY <1>1, <1>2, <1>3, <1>4 DEF NoteInv, NoteTyped, noteDatabase
<1>6. \A t \in NoteTasks : noteTask'[t].pc = "idle"
  BY <1>1 DEF NoteIdle
<1>7. RequestsApart' /\ TasksTrue'
  BY <1>6 DEF RequestsApart, TasksTrue, TaskInv, NoteTaskOK, NoCalls, Uncalled, CallMatches, InWait
<1>8. OneCallEach'
  <2>1. ASSUME NEW d \in noteFlight', NEW e \in noteFlight', d.request = e.request PROVE d = e
    BY <1>3, <2>1 DEF NoteInv, OneCallEach
  <2> QED
    BY <1>1, <1>4, <2>1 DEF OneCallEach
<1>9. CallsTrue'
  <2>1. ASSUME NEW q, NEW op, NoteCallOK(q, op) PROVE NoteCallOK(q, op)'
    BY <1>1, <1>2, <2>1 DEF NoteCallOK, noteDatabase, NoIdYet, MayBeStored, NoteGiven, NoteSettled
  <2>2. \A e \in noteFlight' : NoteCallOK(e.request, e.op)'
    BY <1>3, <2>1 DEF NoteInv, CallsTrue
  <2> QED
    BY <1>4, <2>2 DEF CallsTrue
<1>10. MessagesTrue'
  <2>1. \A m \in noteSent' : NoteMessageTrue(m)'
    BY <1>1 DEF NoteInv, MessagesTrue, NoteMessageTrue, noteDatabase, NoteGiven, NoteGone, NoteSettled
  <2> QED
    BY <1>1, <1>4, <2>1 DEF NoteInv, MessagesTrue, ReplyOf
<1>11. IdsGiven' /\ DocsTrue'
  BY <1>1, <1>2 DEF NoteInv, IdsGiven, Owners, DocsTrue, noteDatabase, NoteSettled, MayBeStored
<1> QED
  BY <1>5, <1>7, <1>8, <1>9, <1>10, <1>11 DEF NoteInv

LEMMA NotesStart ==
  ASSUME NotesInit
  PROVE  NoteInv
<1>1. Len(NotesStored) \in Nat /\ DOMAIN NotesStored = 1..Len(NotesStored)
  BY NotesAssumption
<1>2. /\ DOMAIN noteDocs = 1..(MaxNoteRequests + Len(NotesStored))
      /\ DOMAIN noteOwner = DOMAIN noteDocs
      /\ \A i \in DOMAIN noteDocs : noteOwner[i] = {}
  BY DEF NotesInit
<1>3. /\ Len(noteRpc) = 0 /\ Len(noteOut) = 0 /\ IsSequence(noteRpc) /\ IsSequence(noteOut)
      /\ DOMAIN notePending = {} /\ noteSeq = 0 /\ noteFlight = {} /\ noteAnswers = {}
      /\ noteSent = {} /\ noteChanged = {}
  BY EmptySequence DEF NotesInit
<1>4. DOMAIN noteSpent = {"requests", "faults", "crashes"} /\ noteSpent.requests = 0
  BY DEF NotesInit
<1>5. NoteTyped
  <2>1. DOMAIN noteTask = NoteTasks
    BY DEF NotesInit
  <2> QED
    BY <1>2, <1>3, <1>4, <2>1, NotesAssumption DEF NoteTyped
<1>6. \A t \in NoteTasks : noteTask[t].pc = "idle"
  BY DEF NotesInit, NoteIdle
<1>7. RequestsApart /\ TasksTrue
  BY <1>6 DEF RequestsApart, TasksTrue, TaskInv, NoteTaskOK, NoCalls, Uncalled, CallMatches, InWait
<1>8. OneCallEach /\ CallsTrue /\ MessagesTrue
  BY <1>3 DEF OneCallEach, CallsTrue, MessagesTrue
<1>9. IdsGiven
  <2>1. Owners = {}
    BY <1>2 DEF Owners
  <2>2. Cardinality(Owners) = 0
    BY <2>1, FS_EmptySet
  <2>3. noteCounter = Len(NotesStored)
    BY DEF NotesInit
  <2> QED
    BY <1>1, <1>2, <2>1, <2>2, <2>3 DEF IdsGiven
<1>10. DocsTrue
  <2> SUFFICES ASSUME NEW i \in DOMAIN noteDocs, noteDocs[i] # Absent
               PROVE  MayBeStored(noteDocs[i]) /\ NoteSettled(i)
    BY DEF DocsTrue
  <2>1. noteDocs[i] = IF i \in DOMAIN NotesStored THEN NotesStored[i] ELSE Absent
    BY DEF NotesInit
  <2>2. i \in DOMAIN NotesStored /\ noteDocs[i] = NotesStored[i] /\ NotesStored[i] # Absent
    BY <2>1
  <2> QED
    BY <2>2, NotesAssumption DEF MayBeStored, NoteFields, BlankNote, NoteSettled
<1> QED
  BY <1>5, <1>7, <1>8, <1>9, <1>10 DEF NoteInv

LEMMA NotesStep ==
  ASSUME NoteInv, [NotesNext]_noteVars
  PROVE  NoteInv'
<1>1. CASE UNCHANGED noteVars
  <2>1. /\ UNCHANGED <<noteTask, noteRpc, noteSeq, notePending, noteFlight, noteAnswers>>
        /\ UNCHANGED noteDatabase /\ UNCHANGED noteSpent /\ UNCHANGED <<noteOut, noteSent>>
    BY <1>1 DEF noteVars, noteDatabase
  <2>2. NoteSaid \subseteq NoteSaid' /\ MessagesTrue' /\ IsSequence(noteOut')
    BY <2>1, SaidSame DEF NoteInv, NoteTyped
  <2> QED
    BY <2>1, <2>2, NotesStay
<1>2. CASE NotesNext
  <2>1. CASE \E t \in NoteTasks : \/ \E r \in NoteRequests : NoteAccept(t, r)
                                  \/ NoteFirstCall(t) \/ NoteContinue(t)
                                  \/ NoteTimeout(t) \/ NoteSay(t)
    BY <2>1, NoteAcceptKeeps, NoteFirstCallKeeps, NoteContinueKeeps, NoteTimeoutKeeps, NoteSayKeeps
  <2>2. CASE LoopSendsCall \/ LoopSendsMessage \/ \E a \in noteAnswers : LoopHandsBack(a)
    BY <2>2, LoopSendsCallKeeps, LoopSendsMessageKeeps, LoopHandsBackKeeps
  <2>3. CASE \E c \in noteFlight : DatabaseServes(c) \/ DatabaseFails(c)
    BY <2>3, NotesServeKeeps
  <2>4. CASE NotesRestart
    BY <2>4, NotesRestartKeeps
  <2> QED
    BY <1>2, <2>1, <2>2, <2>3, <2>4 DEF NotesNext
<1> QED
  BY <1>1, <1>2

\* What callers and subscribers of the notes plugin are told is true: a reply
\* that names a change comes from the request that made it, an event comes
\* after its reply, an id was given to one create, a note deleted with success
\* stays deleted unless an update wrote over what it had not read, and no
\* stored note is blank - whichever answers were late, failed or lost.
THEOREM NotesAreTrue == NotesSpec => []NotesTellTheTruth
<1>1. NotesInit => NoteInv
  BY NotesStart
<1>2. NoteInv /\ [NotesNext]_noteVars => NoteInv'
  BY NotesStep
<1>3. NoteInv => NotesTellTheTruth
  <2> SUFFICES ASSUME NoteInv PROVE NotesTellTheTruth
    OBVIOUS
  <2>1. ASSUME NEW m \in noteSent
        PROVE  /\ m.did # "nothing" => m.ok /\ m.request \in noteChanged
               /\ m.event => [m EXCEPT !.event = FALSE] \in noteSent
               /\ m.did = "note_create" => noteOwner[m.id] = {m.request}
               /\ m.did = "note_delete" /\ m.id \notin noteRaced => noteDocs[m.id] = Absent
    BY DEF NoteInv, MessagesTrue, NoteMessageTrue, ReplyOf, NoteGiven, NoteGone
  <2>2. \A i \in NoteIds : ~BlankNote(noteDocs[i].title, noteDocs[i].body)
    BY DEF NoteInv, DocsTrue, NoteIds, MayBeStored
  <2> QED
    BY <2>1, <2>2 DEF NotesTellTheTruth
<1> QED
  BY <1>1, <1>2, <1>3, PTL DEF NotesSpec

-----------------------------------------------------------------------------
(* Notify: what callers are told is true, and the inbox keeps its order      *)

EntryIds == [ms : Nat, seq : Nat]
Entries == [id : EntryIds, request : Nat, delivered : BOOLEAN, silent : BOOLEAN,
            spoken : BOOLEAN, read : BOOLEAN]

\* What the inbox holds: distinct ids, in the order of the requests, all of them from
\* the first n requests; a number is never above that of the entry's request.
InboxOrdered(file) ==
  \A i, j \in DOMAIN file :
    i < j => file[i].id # file[j].id /\ file[i].request < file[j].request
InboxOK(file, n) ==
  /\ file \in Seq(Entries) /\ InboxOrdered(file)
  /\ \A i \in DOMAIN file : file[i].id.seq <= file[i].request /\ file[i].request <= n

NotifyPCs == {"deliver", "speak", "play", "store", "answer", "edit"}
NotifyTasks == [pc : NotifyPCs, request : Nat, params : NotifyRequests, spoken : BOOLEAN,
                id : EntryIds \cup {NoneGiven}]
EntriesOf(n) == {e \in kept : e.request = n}

\* The request at hand, by where it is: what has been shown, spoken and stored for it.
AtWork ==
  LET n == notifySpent.requests pc == notifyTask.pc silent == notifyTask.params.silent IN
  /\ notifyTask \in NotifyTasks /\ notifyTask.request = n
  /\ \A a \in notifyReplies : a.request # n
  /\ pc \in {"deliver", "speak", "play", "edit"} => n \notin heard /\ notifyTask.spoken = FALSE
  /\ pc \in {"deliver", "edit"} => n \notin shown
  /\ pc \in {"speak", "play"} => n \in shown
  /\ pc # "edit" => silent \in BOOLEAN
  /\ pc \in {"deliver", "speak", "play"} => silent = FALSE
  /\ pc \in {"store", "answer"} => /\ silent = TRUE <=> n \notin shown
                                   /\ notifyTask.spoken = TRUE <=> n \in heard
  /\ pc # "answer" => EntriesOf(n) = {}
  /\ pc \in {"deliver", "speak", "play", "store"} => notifyTask.id = NoneGiven
  /\ pc = "answer" =>
       \/ notifyTask.id = NoneGiven /\ EntriesOf(n) = {} /\ silent = FALSE
       \/ \E e \in kept : /\ EntriesOf(n) = {e} /\ notifyTask.id = e.id
                          /\ e.spoken = notifyTask.spoken
                          /\ e.delivered = TRUE <=> silent = FALSE

ReplyTrue(a) ==
  IF a.ok
    THEN /\ a.spoken <=> a.request \in heard
         /\ {e.id : e \in EntriesOf(a.request)} = {a.id} \ {NoneGiven}
         /\ \A e \in EntriesOf(a.request) :
              e.spoken = a.spoken /\ e.delivered = (a.request \in shown)
         /\ a.request \in shown \/ EntriesOf(a.request) # {}
    ELSE a.request \notin shown /\ EntriesOf(a.request) = {}

\* The requests that may have left an entry.
Done == IF notifyTask # NotifyIdle /\ notifyTask.pc # "answer" THEN notifySpent.requests - 1
        ELSE notifySpent.requests

NotifyTyped ==
  /\ notifySpent \in [requests : Nat, faults : Nat, crashes : Nat]
  /\ millis \in Nat /\ kept \subseteq Entries
  /\ shown \subseteq 1..notifySpent.requests /\ heard \subseteq 1..notifySpent.requests
  /\ \A e \in kept : e.request <= notifySpent.requests
  /\ \A a \in notifyReplies : a.request \in 1..notifySpent.requests

NotifyInv ==
  /\ NotifyTyped
  /\ notifyTask = NotifyIdle \/ AtWork
  /\ notifyTask # NotifyIdle => notifySpent.requests >= 1
  /\ InboxOK(inboxFile, Done) /\ InboxOK(inboxDisk, Done)
  /\ \A a \in notifyReplies : ReplyTrue(a)

\* Entries in the order and with the ids they had.
Thinner(new, old) ==
  \E f : /\ \A i \in DOMAIN new : /\ f[i] \in DOMAIN old /\ new[i].id = old[f[i]].id
                                  /\ new[i].request = old[f[i]].request
         /\ \A i, j \in DOMAIN new : i < j => f[i] < f[j]

LEMMA ThinnerOK ==
  ASSUME NEW n, NEW old, InboxOK(old, n), NEW new \in Seq(Entries), Thinner(new, old)
  PROVE  InboxOK(new, n)
<1>1. PICK f : /\ \A i \in DOMAIN new : /\ f[i] \in DOMAIN old /\ new[i].id = old[f[i]].id
                                        /\ new[i].request = old[f[i]].request
               /\ \A i, j \in DOMAIN new : i < j => f[i] < f[j]
  BY DEF Thinner
<1>2. /\ InboxOrdered(old)
      /\ \A i \in DOMAIN old : old[i].id.seq <= old[i].request /\ old[i].request <= n
  BY DEF InboxOK
<1>3. InboxOrdered(new)
  <2> SUFFICES ASSUME NEW i \in DOMAIN new, NEW j \in DOMAIN new, i < j
               PROVE  new[i].id # new[j].id /\ new[i].request < new[j].request
    BY DEF InboxOrdered
  <2>1. f[i] \in DOMAIN old /\ f[j] \in DOMAIN old /\ f[i] < f[j]
    BY <1>1
  <2>2. old[f[i]].id # old[f[j]].id /\ old[f[i]].request < old[f[j]].request
    BY <1>2, <2>1 DEF InboxOrdered
  <2> QED
    BY <1>1, <2>2
<1>4. \A i \in DOMAIN new : new[i].id.seq <= new[i].request /\ new[i].request <= n
  BY <1>1, <1>2
<1> QED
  BY <1>3, <1>4 DEF InboxOK

\* The entries of an inbox, one by one.
LEMMA EntryTyped ==
  ASSUME NEW file \in Seq(Entries)
  PROVE  /\ DOMAIN file = 1..Len(file) /\ Len(file) \in Nat
         /\ \A i \in DOMAIN file : /\ file[i] \in Entries /\ file[i].request \in Nat
                                  /\ file[i].id.seq \in Nat
<1>1. DOMAIN file = 1..Len(file) /\ Len(file) \in Nat /\ \A i \in DOMAIN file : file[i] \in Entries
  OBVIOUS
<1>2. \A e \in Entries : e.request \in Nat /\ e.id.seq \in Nat
  BY DEF Entries, EntryIds
<1> QED
  BY <1>1, <1>2

LEMMA InboxLater ==
  ASSUME NEW n \in Int, NEW m \in Int, n <= m, NEW file, InboxOK(file, n)
  PROVE  InboxOK(file, m)
<1>1. \A i \in DOMAIN file : file[i].request \in Nat
  BY EntryTyped DEF InboxOK
<1> QED
  BY <1>1 DEF InboxOK

LEMMA LargerOfTwo == \A k \in Int : Max({0, k}) = IF k > 0 THEN k ELSE 0
<1> TAKE k \in Int
<1>1. \E x \in {0, k} : \A y \in {0, k} : x >= y
  OBVIOUS
<1> QED
  BY <1>1 DEF Max

LEMMA EndOfSequence ==
  ASSUME NEW S, NEW q \in Seq(S), NEW m \in 1..Len(q) + 1
  PROVE  /\ SubSeq(q, m, Len(q)) \in Seq(S) /\ Len(SubSeq(q, m, Len(q))) = Len(q) - m + 1
         /\ \A i \in 1..Len(q) - m + 1 : SubSeq(q, m, Len(q))[i] = q[m + i - 1]
<1>1. Len(q) \in Nat
  OBVIOUS
<1>2. PICK n \in m - 1..Len(q) : n = Len(q)
  BY <1>1
<1> QED
  BY <1>1, <1>2

LEMMA NewlyHeard ==
  ASSUME NEW S, NEW a \in Seq(S), NEW b \in Seq(S)
  PROVE  /\ a \o b \in Seq(S) /\ Len(a \o b) = Len(a) + Len(b)
         /\ \A k \in 1..Len(a) + Len(b) : (a \o b)[k] = IF k <= Len(a) THEN a[k] ELSE b[k - Len(a)]
OBVIOUS

LEMMA PrunedOK ==
  ASSUME NEW n, NEW file, InboxOK(file, n)
  PROVE  InboxOK(Pruned(file), n)
<1>1. file \in Seq(Entries) /\ Len(file) \in Nat /\ DOMAIN file = 1..Len(file)
  BY DEF InboxOK
<1>2. PICK from \in Nat : from = Max({0, Len(file) - MaxEntries}) /\ from <= Len(file)
  <2>1. MaxEntries \in Nat /\ Len(file) - MaxEntries \in Int
    BY <1>1, NotifyAssumption
  <2> QED
    BY <1>1, <2>1, LargerOfTwo
<1>3. PICK new : new = SubSeq(file, 1 + from, Len(file))
  OBVIOUS
<1>4. /\ new \in Seq(Entries) /\ Len(new) = Len(file) - from
      /\ \A i \in 1..Len(file) - from : new[i] = file[i + from]
  <2>1. PICK m \in 1..Len(file) + 1 : m = 1 + from
    BY <1>1, <1>2
  <2>2. /\ new \in Seq(Entries) /\ Len(new) = Len(file) - m + 1
        /\ \A i \in 1..Len(file) - m + 1 : new[i] = file[m + i - 1]
    BY <1>1, <1>3, <2>1, EndOfSequence
  <2>3. Len(file) - m + 1 = Len(file) - from
    BY <1>1, <1>2, <2>1
  <2>4. \A i \in 1..Len(file) - from : m + i - 1 = i + from
    BY <1>1, <1>2, <2>1
  <2> QED
    BY <2>2, <2>3, <2>4
<1>5. DOMAIN new = 1..Len(file) - from
  BY <1>4
<1>6. \A i \in 1..Len(file) - from : i + from \in 1..Len(file)
  BY <1>1, <1>2
<1>7. Thinner(new, file)
  <2>1. PICK f : f = [i \in 1..Len(file) - from |-> i + from]
    OBVIOUS
  <2>2. \A i, j \in 1..Len(file) - from : i < j => f[i] < f[j]
    BY <1>1, <1>2, <2>1
  <2>3. \A i \in DOMAIN new : f[i] \in DOMAIN file /\ new[i] = file[f[i]]
    BY <1>1, <1>4, <1>5, <1>6, <2>1
  <2> QED
    BY <1>5, <2>2, <2>3 DEF Thinner
<1>8. Pruned(file) = new
  BY <1>2, <1>3 DEF Pruned
<1> QED
  BY <1>4, <1>7, <1>8, ThinnerOK

LEMMA RemovedAt ==
  ASSUME NEW S, NEW q \in Seq(S), NEW at \in 1..Len(q)
  PROVE  /\ RemoveAt(q, at) \in Seq(S) /\ Len(RemoveAt(q, at)) = Len(q) - 1
         /\ \A k \in 1..Len(q) - 1 : RemoveAt(q, at)[k] = IF k < at THEN q[k] ELSE q[k + 1]
<1>1. PICK a : a = SubSeq(q, 1, at - 1)
  OBVIOUS
<1>2. PICK b : b = SubSeq(q, at + 1, Len(q))
  OBVIOUS
<1>3. /\ a \in Seq(S) /\ Len(a) = at - 1
      /\ \A k \in 1..at - 1 : a[k] = q[k]
  BY <1>1
<1>4. /\ b \in Seq(S) /\ Len(b) = Len(q) - at
      /\ \A k \in 1..Len(q) - at : b[k] = q[k + at]
  BY <1>2
<1>5. /\ a \o b \in Seq(S) /\ Len(a \o b) = Len(q) - 1
      /\ \A k \in 1..Len(q) - 1 : (a \o b)[k] = IF k <= at - 1 THEN a[k] ELSE b[k - (at - 1)]
  <2>1. /\ a \o b \in Seq(S) /\ Len(a \o b) = Len(a) + Len(b)
        /\ \A k \in 1..Len(a) + Len(b) : (a \o b)[k] = IF k <= Len(a) THEN a[k] ELSE b[k - Len(a)]
    BY <1>3, <1>4, NewlyHeard
  <2>2. Len(q) \in Nat /\ Len(a) + Len(b) = Len(q) - 1
    BY <1>3, <1>4
  <2> QED
    BY <1>3, <2>1, <2>2
<1>6. ASSUME NEW k \in 1..Len(q) - 1
      PROVE  (a \o b)[k] = IF k < at THEN q[k] ELSE q[k + 1]
  <2>1. CASE k < at
    BY <1>3, <1>5, <2>1
  <2>2. CASE k >= at
    <3>1. Len(q) \in Nat
      OBVIOUS
    <3>2. k - (at - 1) \in 1..Len(q) - at /\ k - (at - 1) + at = k + 1 /\ ~(k <= at - 1)
      BY <2>2, <3>1
    <3>3. (a \o b)[k] = b[k - (at - 1)]
      BY <1>5, <3>2
    <3>4. b[k - (at - 1)] = q[k + 1]
      BY <1>4, <3>2
    <3>5. ~(k < at)
      BY <2>2
    <3> QED
      BY <3>3, <3>4, <3>5
  <2>3. k \in Int /\ at \in Int
    OBVIOUS
  <2>4. k < at \/ k >= at
    BY <2>3
  <2> QED
    BY <2>1, <2>2, <2>4
<1>7. RemoveAt(q, at) = a \o b
  BY <1>1, <1>2 DEF RemoveAt
<1> QED
  BY <1>5, <1>6, <1>7

LEMMA EditedOK ==
  ASSUME NEW n, NEW file, InboxOK(file, n), NEW id
  PROVE  InboxOK(Edited(file, id), n)
<1>1. file \in Seq(Entries) /\ Len(file) \in Nat /\ DOMAIN file = 1..Len(file)
  BY DEF InboxOK
<1>2. PICK named : named = {i \in DOMAIN file : file[i].id = id}
  OBVIOUS
<1>3. CASE named = {}
  <2>1. Edited(file, id) = file
    BY <1>2, <1>3 DEF Edited
  <2> QED
    BY <2>1
<1>4. CASE named # {}
  <2>1. PICK at : at = Min(named) /\ at \in 1..Len(file)
    <3>1. named \subseteq 1..Len(file) /\ named \subseteq Nat
      BY <1>1, <1>2
    <3> QED
      BY <1>4, <3>1, MinIsElement
  <2>2. \/ Edited(file, id) = RemoveAt(file, at)
        \/ Edited(file, id) = [file EXCEPT ![at].read = TRUE]
    BY <1>2, <1>4, <2>1 DEF Edited
  <2>3. InboxOK(RemoveAt(file, at), n)
    <3>1. PICK new : new = RemoveAt(file, at)
      OBVIOUS
    <3>2. /\ new \in Seq(Entries) /\ DOMAIN new = 1..Len(file) - 1
          /\ \A k \in 1..Len(file) - 1 : new[k] = IF k < at THEN file[k] ELSE file[k + 1]
      <4>1. file \in Seq(Entries) /\ at \in 1..Len(file)
        BY <1>1, <2>1
      <4>2. /\ RemoveAt(file, at) \in Seq(Entries) /\ Len(RemoveAt(file, at)) = Len(file) - 1
            /\ \A k \in 1..Len(file) - 1 :
                 RemoveAt(file, at)[k] = IF k < at THEN file[k] ELSE file[k + 1]
        BY <4>1, RemovedAt
      <4> QED
        BY <3>1, <4>2
    <3>3. PICK f : f = [k \in 1..Len(file) - 1 |-> IF k < at THEN k ELSE k + 1]
      OBVIOUS
    <3>4. \A i \in 1..Len(file) - 1 : f[i] \in 1..Len(file) /\ new[i] = file[f[i]]
      BY <1>1, <2>1, <3>2, <3>3
    <3>5. \A i, j \in 1..Len(file) - 1 : i < j => f[i] < f[j]
      BY <1>1, <2>1, <3>3
    <3>6. Thinner(new, file)
      BY <1>1, <3>2, <3>4, <3>5 DEF Thinner
    <3> QED
      BY <3>1, <3>2, <3>6, ThinnerOK
  <2>4. InboxOK([file EXCEPT ![at].read = TRUE], n)
    <3>1. PICK new : new = [file EXCEPT ![at].read = TRUE]
      OBVIOUS
    <3>2. file[at] \in Entries
      BY <1>1, <2>1
    <3>3. /\ [file[at] EXCEPT !.read = TRUE] \in Entries
          /\ [file[at] EXCEPT !.read = TRUE].id = file[at].id
          /\ [file[at] EXCEPT !.read = TRUE].request = file[at].request
      BY <3>2 DEF Entries
    <3>4. /\ new \in Seq(Entries) /\ DOMAIN new = 1..Len(file)
          /\ \A i \in 1..Len(file) : new[i].id = file[i].id /\ new[i].request = file[i].request
      BY <1>1, <2>1, <3>1, <3>3
    <3>5. PICK f : f = [i \in 1..Len(file) |-> i]
      OBVIOUS
    <3>6. Thinner(new, file)
      BY <1>1, <3>4, <3>5 DEF Thinner
    <3> QED
      BY <3>1, <3>4, <3>6, ThinnerOK
  <2> QED
    BY <2>2, <2>3, <2>4
<1> QED
  BY <1>3, <1>4

\* The number of the next entry is above all the stored ones.
LEMMA NextSeqIsNew ==
  ASSUME NEW n \in Nat, NEW file, InboxOK(file, n)
  PROVE  /\ NextSeq(file) \in 1..n + 1
         /\ \A i \in DOMAIN file : file[i].id.seq < NextSeq(file)
<1>1. PICK seqs : seqs = {0} \cup {e.id.seq : e \in ToSet(file)}
  OBVIOUS
<1>2. \A i \in DOMAIN file : file[i].id.seq \in 0..n /\ file[i].id.seq \in seqs
  <2>1. \A i \in DOMAIN file : file[i].id.seq \in Nat /\ file[i].request \in Nat
    BY EntryTyped DEF InboxOK
  <2> QED
    BY <1>1, <2>1 DEF InboxOK, ToSet
<1>3. seqs \subseteq 0..n /\ 0 \in seqs
  BY <1>1, <1>2 DEF ToSet
<1>4. \E m \in seqs : \A s \in seqs : m >= s
  <2>1. PICK T : T = {n - s : s \in seqs}
    OBVIOUS
  <2>2. \A s \in 0..n : n - s \in Nat
    OBVIOUS
  <2>3. T \subseteq Nat /\ T # {}
    BY <1>3, <2>1, <2>2
  <2>4. PICK t \in T : \A u \in T : t <= u
    BY <2>3, LeastElement
  <2>5. PICK m \in seqs : t = n - m
    BY <2>1, <2>4
  <2>6. ASSUME NEW s \in seqs PROVE m >= s
    <3>1. t <= n - s
      BY <2>1, <2>4
    <3>2. m \in 0..n /\ s \in 0..n
      BY <1>3
    <3> QED
      BY <2>5, <3>1, <3>2
  <2> QED
    BY <2>6
<1>5. Max(seqs) \in seqs /\ \A s \in seqs : Max(seqs) >= s
  BY <1>4 DEF Max
<1>6. NextSeq(file) = 1 + Max(seqs)
  BY <1>1 DEF NextSeq
<1>7. Max(seqs) \in 0..n
  BY <1>3, <1>5
<1>8. \A i \in DOMAIN file : file[i].id.seq <= Max(seqs) /\ file[i].id.seq \in Nat
  BY <1>2, <1>3, <1>5, <1>7
<1> QED
  BY <1>6, <1>7, <1>8

LEMMA AppendedOK ==
  ASSUME NEW n \in Nat, NEW file, InboxOK(file, n), NEW e \in Entries,
         e.request = n + 1, e.id.seq = NextSeq(file)
  PROVE  InboxOK(Append(file, e), n + 1)
<1>1. /\ file \in Seq(Entries) /\ Len(file) \in Nat /\ DOMAIN file = 1..Len(file)
      /\ \A i \in DOMAIN file : file[i].id.seq <= file[i].request /\ file[i].request <= n
      /\ InboxOrdered(file)
  BY DEF InboxOK
<1>2. /\ e.id.seq \in 1..n + 1
      /\ \A i \in DOMAIN file : file[i].id.seq < e.id.seq
  BY NextSeqIsNew
<1>3. PICK new : new = Append(file, e)
  OBVIOUS
<1>4. /\ new \in Seq(Entries) /\ DOMAIN new = 1..Len(file) + 1 /\ new[Len(file) + 1] = e
      /\ \A i \in 1..Len(file) : new[i] = file[i]
  BY <1>1, <1>3
<1>5. \A i \in 1..Len(file) : /\ file[i].id.seq \in Nat /\ file[i].request \in Nat
                              /\ file[i].request < n + 1
  BY <1>1, EntryTyped
<1>6. \A i \in 1..Len(file) + 1 : new[i].id.seq <= new[i].request /\ new[i].request <= n + 1
  <2> TAKE i \in 1..Len(file) + 1
  <2>1. CASE i = Len(file) + 1
    BY <1>2, <1>4, <2>1
  <2>2. CASE i \in 1..Len(file)
    BY <1>1, <1>4, <1>5, <2>2
  <2> QED
    BY <1>1, <2>1, <2>2
<1>7. InboxOrdered(new)
  <2> SUFFICES ASSUME NEW i \in 1..Len(file) + 1, NEW j \in 1..Len(file) + 1, i < j
               PROVE  new[i].id # new[j].id /\ new[i].request < new[j].request
    BY <1>4 DEF InboxOrdered
  <2>1. i \in 1..Len(file)
    BY <1>1
  <2>2. CASE j = Len(file) + 1
    <3>1. new[j] = e /\ new[i] = file[i]
      BY <1>4, <2>1, <2>2
    <3>2. file[i].id.seq # e.id.seq /\ file[i].request < e.request
      <4>1. file[i].id.seq < e.id.seq /\ file[i].id.seq \in Nat
        BY <1>1, <1>2, <1>5, <2>1
      <4> QED
        BY <1>5, <2>1, <4>1
    <3> QED
      BY <3>1, <3>2
  <2>3. CASE j \in 1..Len(file)
    BY <1>1, <1>4, <2>1, <2>3 DEF InboxOrdered
  <2> QED
    BY <1>1, <2>2, <2>3
<1> QED
  BY <1>3, <1>4, <1>6, <1>7 DEF InboxOK

LEMMA SpentAfter ==
  ASSUME notifySpent \in [requests : Nat, faults : Nat, crashes : Nat],
         NotifyFault \/ UNCHANGED notifySpent
  PROVE  /\ notifySpent' \in [requests : Nat, faults : Nat, crashes : Nat]
         /\ notifySpent'.requests = notifySpent.requests
BY DEF NotifyFault

LEMMA ToldStays ==
  ASSUME NEW a, ReplyTrue(a), (a.request \in shown') = (a.request \in shown),
         (a.request \in heard') = (a.request \in heard),
         EntriesOf(a.request)' = EntriesOf(a.request)
  PROVE  ReplyTrue(a)'
BY DEF ReplyTrue

\* Where the request at hand is.
LEMMA AtHand ==
  ASSUME NotifyInv, notifyTask # NotifyIdle, NEW n, n = notifySpent.requests
  PROVE  /\ n \in Nat /\ n >= 1 /\ n - 1 \in Nat /\ AtWork
         /\ Done \in {n - 1, n} /\ (notifyTask.pc # "answer" => Done = n - 1)
         /\ InboxOK(inboxFile, n) /\ InboxOK(inboxDisk, n)
<1>1. /\ n \in Nat /\ n >= 1 /\ n - 1 \in Nat /\ AtWork
      /\ InboxOK(inboxFile, Done) /\ InboxOK(inboxDisk, Done)
  BY DEF NotifyInv, NotifyTyped
<1>2. Done \in {n - 1, n} /\ (notifyTask.pc # "answer" => Done = n - 1)
  BY DEF Done
<1>3. n \in Int /\ n - 1 \in Int /\ n - 1 <= n /\ n <= n
  BY <1>1
<1>4. InboxOK(inboxFile, n) /\ InboxOK(inboxDisk, n)
  BY <1>1, <1>2, <1>3, InboxLater
<1> QED
  BY <1>1, <1>2, <1>4

LEMMA IdleIsNoTask == \A t \in NotifyTasks : t # NotifyIdle /\ t.pc # "idle"
BY DEF NotifyTasks, NotifyIdle, NotifyPCs

\* The request goes on to its next step.
LEMMA GoesOn ==
  ASSUME NotifyInv, notifyTask # NotifyIdle, notifyTask.pc # "answer",
         NotifyFault \/ UNCHANGED notifySpent, NEW n, n = notifySpent.requests,
         shown' \in {shown, shown \cup {n}}, heard' \in {heard, heard \cup {n}},
         UNCHANGED <<kept, notifyReplies, inboxFile, inboxDisk, millis>>, AtWork'
  PROVE  NotifyInv'
<1>1. /\ notifySpent' \in [requests : Nat, faults : Nat, crashes : Nat]
      /\ notifySpent'.requests = n
  BY SpentAfter DEF NotifyInv, NotifyTyped
<1>2. /\ n \in Nat /\ n >= 1 /\ n - 1 \in Nat /\ Done = n - 1
      /\ InboxOK(inboxFile, n) /\ InboxOK(inboxDisk, n)
      /\ \A a \in notifyReplies : a.request # n
  BY AtHand DEF AtWork
<1>3. NotifyTyped'
  <2>1. shown' \subseteq 1..n /\ heard' \subseteq 1..n
    BY <1>2 DEF NotifyInv, NotifyTyped
  <2> QED
    BY <1>1, <2>1 DEF NotifyInv, NotifyTyped
<1>4. notifyTask' # NotifyIdle'
  BY IdleIsNoTask DEF AtWork, NotifyIdle
<1>5. InboxOK(inboxFile, Done)' /\ InboxOK(inboxDisk, Done)'
  <2>1. PICK m : m = Done'
    OBVIOUS
  <2>2. m = n - 1 \/ m = n
    BY <1>1, <2>1 DEF Done
  <2>3. InboxOK(inboxFile, m) /\ InboxOK(inboxDisk, m)
    BY <1>2, <2>2 DEF NotifyInv
  <2> QED
    BY <2>1, <2>3
<1>6. \A a \in notifyReplies : ReplyTrue(a)'
  <2> TAKE a \in notifyReplies
  <2>1. a.request # n /\ ReplyTrue(a)
    BY <1>2 DEF NotifyInv
  <2>2. /\ (a.request \in shown') = (a.request \in shown)
        /\ (a.request \in heard') = (a.request \in heard)
        /\ EntriesOf(a.request)' = EntriesOf(a.request)
    BY <2>1 DEF EntriesOf
  <2> QED
    BY <2>1, <2>2, ToldStays
<1> QED
  BY <1>1, <1>2, <1>3, <1>4, <1>5, <1>6 DEF NotifyInv

\* The request ends, with a reply or without; the inbox may have been edited.
LEMMA RequestEnds ==
  ASSUME NotifyInv, notifyTask # NotifyIdle,
         NotifyFault \/ UNCHANGED notifySpent, NEW n, n = notifySpent.requests,
         UNCHANGED <<kept, shown, heard, millis>>, notifyTask' = NotifyIdle,
         NEW file, inboxFile' = file, InboxOK(file, n),
         NEW saved, inboxDisk' = saved, InboxOK(saved, n),
         \/ notifyReplies' = notifyReplies
         \/ \E a : notifyReplies' = notifyReplies \cup {a} /\ a.request = n /\ ReplyTrue(a)
  PROVE  NotifyInv'
<1>1. /\ notifySpent' \in [requests : Nat, faults : Nat, crashes : Nat]
      /\ notifySpent'.requests = n
  BY SpentAfter DEF NotifyInv, NotifyTyped
<1>2. n \in Nat /\ n >= 1
  BY AtHand
<1>3. \A a \in notifyReplies' : a.request \in 1..n /\ ReplyTrue(a)
  BY <1>2 DEF NotifyInv, NotifyTyped
<1>4. NotifyTyped'
  BY <1>1, <1>3 DEF NotifyInv, NotifyTyped
<1>5. notifyTask' = NotifyIdle'
  BY DEF NotifyIdle
<1>6. InboxOK(inboxFile, Done)' /\ InboxOK(inboxDisk, Done)'
  <2>1. Done' = n
    BY <1>1, <1>5 DEF Done
  <2> QED
    BY <2>1
<1>7. \A a \in notifyReplies' : ReplyTrue(a)'
  <2>1. PICK replies : replies = notifyReplies'
    OBVIOUS
  <2>2. \A a \in replies : ReplyTrue(a)'
    BY <1>3, <2>1, ToldStays DEF EntriesOf
  <2> QED
    BY <2>1, <2>2
<1> QED
  BY <1>4, <1>5, <1>6, <1>7 DEF NotifyInv

LEMMA NotifyAcceptKeeps ==
  ASSUME NotifyInv, NotifyAccept
  PROVE  NotifyInv'
<1>1. PICK n \in Nat : n = notifySpent.requests
  BY DEF NotifyInv, NotifyTyped
<1>2. /\ notifyTask = NotifyIdle
      /\ notifySpent' = [notifySpent EXCEPT !.requests = @ + 1]
      /\ UNCHANGED <<inboxFile, inboxDisk, millis, shown, heard, kept, notifyReplies>>
  BY DEF NotifyAccept, AtPc, NotifyInv, NotifyIdle, AtWork, NotifyTasks, NotifyPCs
<1>3. /\ notifySpent' \in [requests : Nat, faults : Nat, crashes : Nat]
      /\ notifySpent'.requests = n + 1
  BY <1>1, <1>2 DEF NotifyInv, NotifyTyped
<1>4. \/ notifyTask' = NotifyIdle
      \/ /\ notifyTask' \in NotifyTasks /\ notifyTask'.request = n + 1
         /\ notifyTask'.pc \in {"store", "deliver", "edit"} /\ notifyTask'.spoken = FALSE
         /\ notifyTask'.pc # "edit" => /\ notifyTask'.params.silent \in BOOLEAN
                                       /\ notifyTask'.id = NoneGiven
         /\ notifyTask'.pc = "deliver" => notifyTask'.params.silent = FALSE
         /\ notifyTask'.pc = "store" => notifyTask'.params.silent = TRUE
  <2>1. CASE \E r \in NotifyRequests :
               /\ r.action = "notify_send"
               /\ IF ValidNotification(r)
                    THEN notifyTask' = [pc |-> IF r.silent THEN "store" ELSE "deliver",
                                        request |-> notifySpent'.requests, params |-> r,
                                        spoken |-> FALSE, id |-> NoneGiven]
                    ELSE notifyTask' = NotifyIdle
    <3>1. PICK r \in NotifyRequests :
            /\ r.action = "notify_send"
            /\ IF ValidNotification(r)
                 THEN notifyTask' = [pc |-> IF r.silent THEN "store" ELSE "deliver",
                                     request |-> notifySpent'.requests, params |-> r,
                                     spoken |-> FALSE, id |-> NoneGiven]
                 ELSE notifyTask' = NotifyIdle
      BY <2>1
    <3>2. r.silent = TRUE \/ r.silent = FALSE
      BY <3>1, NotifyAssumption
    <3>3. PICK pc \in NotifyPCs : /\ pc = IF r.silent THEN "store" ELSE "deliver"
                                  /\ pc = "deliver" => r.silent = FALSE
                                  /\ pc = "store" => r.silent = TRUE
                                  /\ pc \in {"store", "deliver"}
      BY <3>2 DEF NotifyPCs
    <3>4. CASE notifyTask' = [pc |-> pc, request |-> n + 1, params |-> r, spoken |-> FALSE,
                              id |-> NoneGiven]
      <4>1. n + 1 \in Nat /\ NoneGiven \in EntryIds \cup {NoneGiven}
        BY <1>1
      <4>2. notifyTask' \in NotifyTasks
        BY <3>3, <3>4, <4>1 DEF NotifyTasks
      <4>3. /\ notifyTask'.request = n + 1 /\ notifyTask'.pc = pc /\ notifyTask'.spoken = FALSE
            /\ notifyTask'.params.silent = r.silent /\ notifyTask'.id = NoneGiven
        BY <3>4
      <4> QED
        BY <3>2, <3>3, <4>2, <4>3
    <3> QED
      BY <1>3, <3>1, <3>3, <3>4
  <2>2. CASE \E r \in NotifyRequests : \E k \in kept :
               notifyTask' = IF ValidId(r)
                               THEN [pc |-> "edit", request |-> notifySpent'.requests,
                                     params |-> r, id |-> k.id, spoken |-> FALSE]
                               ELSE NotifyIdle
    <3>1. PICK r \in NotifyRequests, k \in kept :
            notifyTask' = IF ValidId(r)
                            THEN [pc |-> "edit", request |-> notifySpent'.requests,
                                  params |-> r, id |-> k.id, spoken |-> FALSE]
                            ELSE NotifyIdle
      BY <2>2
    <3>2. k.id \in EntryIds
      BY DEF NotifyInv, NotifyTyped, Entries
    <3> QED
      BY <1>1, <1>3, <3>1, <3>2 DEF NotifyTasks, NotifyPCs
  <2> QED
    BY <2>1, <2>2 DEF NotifyAccept
<1>5. /\ n + 1 \notin shown /\ n + 1 \notin heard /\ EntriesOf(n + 1) = {}
      /\ \A a \in notifyReplies : a.request # n + 1
  BY <1>1 DEF NotifyInv, NotifyTyped, EntriesOf
<1>6. (notifyTask = NotifyIdle \/ AtWork)'
  <2>1. CASE notifyTask' = NotifyIdle
    BY <2>1 DEF NotifyIdle
  <2>2. CASE notifyTask' # NotifyIdle
    <3>1. /\ EntriesOf(n + 1)' = {} /\ n + 1 \notin shown' /\ n + 1 \notin heard'
          /\ \A a \in notifyReplies' : a.request # n + 1
      BY <1>2, <1>5 DEF EntriesOf
    <3> QED
      BY <1>3, <1>4, <2>2, <3>1 DEF AtWork, EntriesOf
  <2> QED
    BY <2>1, <2>2
<1>7. NotifyTyped'
  <2>1. 1..n \subseteq 1..n + 1
    BY <1>1
  <2>2. \A e \in kept : e.request <= n + 1
    BY <1>1 DEF NotifyInv, NotifyTyped, Entries
  <2> QED
    BY <1>1, <1>2, <1>3, <2>1, <2>2 DEF NotifyInv, NotifyTyped
<1>8. InboxOK(inboxFile, Done)' /\ InboxOK(inboxDisk, Done)'
  <2>1. PICK m : m = Done'
    OBVIOUS
  <2>2. m = n \/ m = n + 1
    BY <1>1, <1>3, <2>1 DEF Done
  <2>3. InboxOK(inboxFile, n) /\ InboxOK(inboxDisk, n)
    BY <1>1, <1>2 DEF NotifyInv, Done
  <2>4. n \in Int /\ m \in Int /\ n <= m
    BY <1>1, <2>2
  <2>5. InboxOK(inboxFile, m) /\ InboxOK(inboxDisk, m)
    BY <2>3, <2>4, InboxLater
  <2> QED
    BY <1>2, <2>1, <2>5
<1>9. \A a \in notifyReplies : ReplyTrue(a)'
  BY <1>2, ToldStays DEF NotifyInv, EntriesOf
<1> QED
  BY <1>1, <1>2, <1>3, <1>6, <1>7, <1>8, <1>9 DEF NotifyInv

\* What a task that is not at its answer knows.
LEMMA TaskKnows ==
  ASSUME NotifyInv, NEW n, n = notifySpent.requests,
         notifyTask.pc \in {"deliver", "speak", "play", "store", "edit"}
  PROVE  /\ notifyTask # NotifyIdle /\ notifyTask \in NotifyTasks /\ notifyTask.request = n
         /\ EntriesOf(n) = {} /\ n \in Nat /\ n >= 1
         /\ \A a \in notifyReplies : a.request # n
<1>1. notifyTask # NotifyIdle
  BY DEF NotifyIdle
<1> QED
  BY <1>1, AtHand DEF AtWork

\* An error: nothing has been shown, nor stored.
LEMMA ErrorIsTrue ==
  ASSUME NotifyInv, NotifyError, NEW n, n = notifySpent.requests, n \notin shown,
         notifyTask.pc \in {"deliver", "store"}
  PROVE  /\ notifyTask' = NotifyIdle
         /\ \E a : notifyReplies' = notifyReplies \cup {a} /\ a.request = n /\ ReplyTrue(a)
<1>1. PICK a : a = NotifyReply(FALSE, NoneGiven, FALSE)
  OBVIOUS
<1>2. a.request = n /\ a.ok = FALSE
  BY <1>1, TaskKnows DEF NotifyReply
<1>3. ReplyTrue(a)
  BY <1>2, TaskKnows DEF ReplyTrue
<1> QED
  BY <1>1, <1>2, <1>3 DEF NotifyError, Answered

LEMMA DeliverKeeps ==
  ASSUME NotifyInv, Deliver \/ DeliverFails
  PROVE  NotifyInv'
<1>1. PICK n : n = notifySpent.requests
  OBVIOUS
<1>2. notifyTask.pc = "deliver" /\ UNCHANGED <<inboxFile, inboxDisk, millis, heard, kept>>
  BY DEF Deliver, DeliverFails, AtPc
<1>3. /\ notifyTask # NotifyIdle /\ notifyTask \in NotifyTasks /\ notifyTask.request = n
      /\ EntriesOf(n) = {} /\ n \in Nat /\ n >= 1 /\ AtWork
  BY <1>1, <1>2, TaskKnows, AtHand
<1>4. NotifyFault \/ UNCHANGED notifySpent
  BY DEF Deliver, DeliverFails
<1>5. CASE NotifyError /\ UNCHANGED shown
  <2>1. n \notin shown
    BY <1>1, <1>2, <1>3 DEF AtWork
  <2>2. /\ notifyTask' = NotifyIdle
        /\ \E a : notifyReplies' = notifyReplies \cup {a} /\ a.request = n /\ ReplyTrue(a)
    BY <1>1, <1>2, <1>5, <2>1, ErrorIsTrue
  <2>3. InboxOK(inboxFile, n) /\ InboxOK(inboxDisk, n)
    BY <1>1, <1>3, AtHand
  <2> QED
    BY <1>1, <1>2, <1>3, <1>4, <1>5, <2>2, <2>3, RequestEnds
<1>6. CASE /\ shown' = shown \cup {n} /\ UNCHANGED <<notifyReplies, notifySpent>>
           /\ \E pc \in {"speak", "store"} : notifyTask' = [notifyTask EXCEPT !.pc = pc]
  <2>1. PICK pc \in {"speak", "store"} : notifyTask' = [notifyTask EXCEPT !.pc = pc]
    BY <1>6
  <2>2. /\ notifyTask' \in NotifyTasks /\ notifyTask'.pc = pc /\ notifyTask'.request = n
        /\ notifyTask'.params = notifyTask.params /\ notifyTask'.spoken = notifyTask.spoken
        /\ notifyTask'.id = notifyTask.id
    BY <1>3, <2>1 DEF NotifyTasks, NotifyPCs
  <2>3. n \in shown' /\ n \notin heard' /\ EntriesOf(n)' = {}
    BY <1>1, <1>2, <1>3, <1>6 DEF AtWork, EntriesOf
  <2>5. notifySpent'.requests = n
    BY <1>1, <1>6
  <2>6. (\A a \in notifyReplies : a.request # n)'
    BY <1>1, <1>3, <1>6 DEF AtWork
  <2>7. EntriesOf(n)' = {e \in kept' : e.request = n}
    BY DEF EntriesOf
  <2>8. notifyTask.spoken = FALSE /\ notifyTask.id = NoneGiven /\ notifyTask.params.silent = FALSE
    BY <1>1, <1>2, <1>3 DEF AtWork
  <2>4. AtWork'
    BY <2>1, <2>2, <2>3, <2>5, <2>6, <2>7, <2>8 DEF AtWork, EntriesOf
  <2> QED
    BY <1>1, <1>2, <1>3, <1>4, <1>6, <2>4, GoesOn
<1> QED
  BY <1>1, <1>3, <1>5, <1>6 DEF Deliver, DeliverFails

LEMMA SpeechKeeps ==
  ASSUME NotifyInv, Synthesize \/ SynthesizeFails \/ Play
  PROVE  NotifyInv'
<1>1. PICK n : n = notifySpent.requests
  OBVIOUS
<1>2. /\ notifyTask.pc \in {"speak", "play"}
      /\ UNCHANGED <<inboxFile, inboxDisk, millis, shown, kept, notifyReplies>>
      /\ NotifyFault \/ UNCHANGED notifySpent
  BY DEF Synthesize, SynthesizeFails, Play, AtPc
<1>3. /\ notifyTask # NotifyIdle /\ notifyTask \in NotifyTasks /\ notifyTask.request = n
      /\ EntriesOf(n) = {} /\ n \in Nat /\ n >= 1 /\ AtWork
  BY <1>1, <1>2, TaskKnows, AtHand
<1>4. notifySpent'.requests = n
  BY <1>1, <1>2, SpentAfter DEF NotifyInv, NotifyTyped
<1>5. \/ /\ UNCHANGED heard
         /\ \E pc \in {"play", "store"} : notifyTask' = [notifyTask EXCEPT !.pc = pc]
      \/ /\ heard' = heard \cup {n}
         /\ notifyTask' = [notifyTask EXCEPT !.pc = "store", !.spoken = TRUE]
  BY <1>3 DEF Synthesize, SynthesizeFails, Play
<1>6. n \in shown' /\ EntriesOf(n)' = {} /\ n \notin heard
  BY <1>1, <1>2, <1>3 DEF AtWork, EntriesOf
<1>7. CASE /\ UNCHANGED heard
           /\ \E pc \in {"play", "store"} : notifyTask' = [notifyTask EXCEPT !.pc = pc]
  <2>1. PICK pc \in {"play", "store"} : notifyTask' = [notifyTask EXCEPT !.pc = pc]
    BY <1>7
  <2>2. /\ notifyTask' \in NotifyTasks /\ notifyTask'.pc = pc /\ notifyTask'.request = n
        /\ notifyTask'.params = notifyTask.params /\ notifyTask'.spoken = notifyTask.spoken
        /\ notifyTask'.id = notifyTask.id
    BY <1>3, <2>1 DEF NotifyTasks, NotifyPCs
  <2>3. AtWork'
    BY <1>1, <1>2, <1>3, <1>4, <1>6, <1>7, <2>2 DEF AtWork, EntriesOf
  <2> QED
    BY <1>1, <1>2, <1>3, <1>7, <2>3, GoesOn
<1>8. CASE /\ heard' = heard \cup {n}
           /\ notifyTask' = [notifyTask EXCEPT !.pc = "store", !.spoken = TRUE]
  <2>1. /\ notifyTask' \in NotifyTasks /\ notifyTask'.pc = "store" /\ notifyTask'.request = n
        /\ notifyTask'.params = notifyTask.params /\ notifyTask'.spoken = TRUE
        /\ notifyTask'.id = notifyTask.id
    BY <1>3, <1>8 DEF NotifyTasks, NotifyPCs
  <2>2. AtWork'
    BY <1>1, <1>2, <1>3, <1>4, <1>6, <1>8, <2>1 DEF AtWork, EntriesOf
  <2> QED
    BY <1>1, <1>2, <1>3, <1>8, <2>2, GoesOn
<1> QED
  BY <1>5, <1>7, <1>8

LEMMA StoreKeeps ==
  ASSUME NotifyInv, Store
  PROVE  NotifyInv'
<1>1. PICK n : n = notifySpent.requests
  OBVIOUS
<1>2. notifyTask.pc = "store" /\ UNCHANGED <<millis, shown, heard, notifyReplies>>
  BY DEF Store, AtPc
<1>3. /\ notifyTask # NotifyIdle /\ notifyTask \in NotifyTasks /\ notifyTask.request = n
      /\ EntriesOf(n) = {} /\ n \in Nat /\ n >= 1 /\ n - 1 \in Nat /\ AtWork /\ Done = n - 1
      /\ \A a \in notifyReplies : a.request # n
  BY <1>1, <1>2, TaskKnows, AtHand
<1>4. PICK e : e = NewEntry
  OBVIOUS
<1>5. InboxOK(inboxFile, n - 1) /\ InboxOK(inboxDisk, n - 1)
  BY <1>3 DEF NotifyInv
<1>6. /\ e \in Entries /\ e.request = n /\ e.id.seq = NextSeq(inboxFile)
      /\ e.delivered = TRUE <=> notifyTask.params.silent = FALSE
      /\ e.spoken = notifyTask.spoken
  <2>1. NextSeq(inboxFile) \in Nat
    <3>1. NextSeq(inboxFile) \in 1..n - 1 + 1
      BY <1>3, <1>5, NextSeqIsNew
    <3> QED
      BY <1>3, <3>1
  <2>2. notifyTask.params.silent \in BOOLEAN /\ notifyTask.spoken \in BOOLEAN
    BY <1>2, <1>3 DEF AtWork, NotifyTasks
  <2>3. millis \in Nat
    BY DEF NotifyInv, NotifyTyped
  <2>4. PICK id \in EntryIds : id = [ms |-> millis, seq |-> NextSeq(inboxFile)]
    BY <2>1, <2>3 DEF EntryIds
  <2>5. PICK silent \in BOOLEAN : silent = notifyTask.params.silent
    BY <2>2
  <2>6. e = [id |-> id, request |-> n, delivered |-> ~silent, silent |-> silent,
             spoken |-> notifyTask.spoken, read |-> FALSE]
    BY <1>3, <1>4, <2>4, <2>5 DEF NewEntry
  <2>7. e \in Entries
    BY <1>3, <2>2, <2>6 DEF Entries
  <2>8. e.id.seq = NextSeq(inboxFile)
    BY <2>4, <2>6
  <2> QED
    BY <2>5, <2>6, <2>7, <2>8
<1>7. PICK file : file = Pruned(Append(inboxFile, e))
  OBVIOUS
<1>8. InboxOK(file, n)
  <2>1. InboxOK(Append(inboxFile, e), n - 1 + 1)
    <3>1. e.request = n - 1 + 1
      BY <1>3, <1>6
    <3> QED
      BY <1>3, <1>5, <1>6, <3>1, AppendedOK
  <2>2. n - 1 + 1 = n
    BY <1>3
  <2> QED
    BY <1>7, <2>1, <2>2, PrunedOK
<1>9. InboxOK(inboxDisk, n)
  BY <1>1, <1>3, AtHand
<1>10. /\ inboxFile' = file /\ inboxDisk' \in {file, inboxDisk} /\ kept' = kept \cup {e}
       /\ NotifyFault \/ UNCHANGED notifySpent
       /\ notifyTask' = [notifyTask EXCEPT !.pc = "answer", !.id = e.id]
  BY <1>4, <1>7 DEF Store, Persist
<1>11. /\ notifySpent' \in [requests : Nat, faults : Nat, crashes : Nat]
       /\ notifySpent'.requests = n
  BY <1>1, <1>10, SpentAfter DEF NotifyInv, NotifyTyped
<1>12. /\ notifyTask' \in NotifyTasks /\ notifyTask'.pc = "answer" /\ notifyTask'.request = n
       /\ notifyTask'.params = notifyTask.params /\ notifyTask'.spoken = notifyTask.spoken
       /\ notifyTask'.id = e.id
  <2>1. e.id \in EntryIds
    BY <1>6 DEF Entries
  <2> QED
    BY <1>3, <1>10, <2>1 DEF NotifyTasks, NotifyPCs
<1>13. {f \in kept' : f.request = n} = {e} /\ e \in kept'
  BY <1>3, <1>6, <1>10 DEF EntriesOf
<1>14. AtWork'
  BY <1>1, <1>2, <1>3, <1>6, <1>11, <1>12, <1>13 DEF AtWork, EntriesOf
<1>15. NotifyTyped'
  <2>1. kept' \subseteq Entries /\ \A f \in kept' : f.request <= n
    BY <1>1, <1>3, <1>6, <1>10 DEF NotifyInv, NotifyTyped
  <2> QED
    BY <1>1, <1>2, <1>11, <2>1 DEF NotifyInv, NotifyTyped
<1>16. InboxOK(inboxFile, Done)' /\ InboxOK(inboxDisk, Done)'
  <2>1. Done' = n
    BY <1>11, <1>12 DEF Done
  <2>2. PICK saved : saved = inboxDisk' /\ InboxOK(saved, n)
    BY <1>8, <1>9, <1>10
  <2> QED
    BY <1>8, <1>10, <2>1, <2>2
<1>17. \A a \in notifyReplies : ReplyTrue(a)'
  <2> TAKE a \in notifyReplies
  <2>1. a.request # n /\ ReplyTrue(a)
    BY <1>3 DEF NotifyInv
  <2>2. EntriesOf(a.request)' = EntriesOf(a.request)
    BY <1>6, <1>10, <2>1 DEF EntriesOf
  <2> QED
    BY <1>2, <2>1, <2>2, ToldStays
<1> QED
  BY <1>2, <1>3, <1>11, <1>14, <1>15, <1>16, <1>17 DEF NotifyInv

LEMMA StoreFailsKeeps ==
  ASSUME NotifyInv, StoreFails
  PROVE  NotifyInv'
<1>1. PICK n : n = notifySpent.requests
  OBVIOUS
<1>2. /\ notifyTask.pc = "store" /\ NotifyFault
      /\ UNCHANGED <<inboxFile, inboxDisk, millis, shown, heard, kept>>
  BY DEF StoreFails, AtPc
<1>3. /\ notifyTask # NotifyIdle /\ notifyTask \in NotifyTasks /\ notifyTask.request = n
      /\ EntriesOf(n) = {} /\ n \in Nat /\ n >= 1 /\ AtWork
      /\ \A a \in notifyReplies : a.request # n
  BY <1>1, <1>2, TaskKnows, AtHand
<1>4. CASE notifyTask.params.silent
  <2>1. notifyTask.params.silent = TRUE
    BY <1>2, <1>3, <1>4 DEF AtWork
  <2>2. n \notin shown
    BY <1>1, <1>2, <1>3, <2>1 DEF AtWork
  <2>3. NotifyError
    BY <1>4 DEF StoreFails
  <2>4. /\ notifyTask' = NotifyIdle
        /\ \E a : notifyReplies' = notifyReplies \cup {a} /\ a.request = n /\ ReplyTrue(a)
    BY <1>1, <1>2, <2>2, <2>3, ErrorIsTrue
  <2>5. InboxOK(inboxFile, n) /\ InboxOK(inboxDisk, n)
    BY <1>1, <1>3, AtHand
  <2> QED
    BY <1>1, <1>2, <1>3, <2>4, <2>5, RequestEnds
<1>5. CASE ~notifyTask.params.silent
  <2>1. notifyTask' = [notifyTask EXCEPT !.pc = "answer"] /\ UNCHANGED notifyReplies
    BY <1>5 DEF StoreFails
  <2>2. /\ notifyTask' \in NotifyTasks /\ notifyTask'.pc = "answer" /\ notifyTask'.request = n
        /\ notifyTask'.params = notifyTask.params /\ notifyTask'.spoken = notifyTask.spoken
        /\ notifyTask'.id = notifyTask.id
    BY <1>3, <2>1 DEF NotifyTasks, NotifyPCs
  <2>3. notifySpent'.requests = n
    BY <1>1, <1>2, SpentAfter DEF NotifyInv, NotifyTyped
  <2>4. notifyTask.params.silent = FALSE /\ notifyTask.id = NoneGiven
    BY <1>2, <1>3, <1>5 DEF AtWork
  <2>5. {f \in kept' : f.request = n} = {}
    BY <1>2, <1>3 DEF EntriesOf
  <2>6. AtWork'
    BY <1>1, <1>2, <1>3, <2>1, <2>2, <2>3, <2>4, <2>5 DEF AtWork, EntriesOf
  <2> QED
    BY <1>1, <1>2, <1>3, <2>1, <2>6, GoesOn
<1> QED
  BY <1>4, <1>5

LEMMA AnswerSendKeeps ==
  ASSUME NotifyInv, AnswerSend
  PROVE  NotifyInv'
<1>1. PICK n : n = notifySpent.requests
  OBVIOUS
<1>2. /\ notifyTask.pc = "answer" /\ notifyTask # NotifyIdle
      /\ UNCHANGED <<inboxFile, inboxDisk, millis, shown, heard, kept, notifySpent>>
  BY DEF AnswerSend, AtPc, NotifyIdle
<1>3. n \in Nat /\ AtWork /\ InboxOK(inboxFile, n) /\ InboxOK(inboxDisk, n)
  BY <1>1, <1>2, AtHand
<1>4. PICK a : a = NotifyReply(TRUE, notifyTask.id, notifyTask.spoken)
  OBVIOUS
<1>5. /\ a.request = n /\ a.ok = TRUE /\ a.id = notifyTask.id /\ a.spoken = notifyTask.spoken
      /\ a.spoken \in BOOLEAN
  BY <1>1, <1>3, <1>4 DEF NotifyReply, AtWork, NotifyTasks
<1>6. /\ a.spoken = TRUE <=> n \in heard
      /\ notifyTask.params.silent \in BOOLEAN
      /\ notifyTask.params.silent = TRUE <=> n \notin shown
  BY <1>1, <1>2, <1>3, <1>5 DEF AtWork
<1>7. ReplyTrue(a)
  <2>1. CASE /\ notifyTask.id = NoneGiven /\ EntriesOf(n) = {}
             /\ notifyTask.params.silent = FALSE
    BY <1>5, <1>6, <2>1 DEF ReplyTrue
  <2>2. CASE \E e \in kept : /\ EntriesOf(n) = {e} /\ notifyTask.id = e.id
                             /\ e.spoken = notifyTask.spoken
                             /\ e.delivered = TRUE <=> notifyTask.params.silent = FALSE
    <3>1. PICK e \in kept : /\ EntriesOf(n) = {e} /\ notifyTask.id = e.id
                            /\ e.spoken = notifyTask.spoken
                            /\ e.delivered = TRUE <=> notifyTask.params.silent = FALSE
      BY <2>2
    <3>2. e \in Entries
      BY DEF NotifyInv, NotifyTyped
    <3>3. e.id # NoneGiven /\ e.delivered \in BOOLEAN
      BY <3>2, NotifyAssumption DEF Entries, EntryIds
    <3>4. {f.id : f \in EntriesOf(n)} = {a.id} \ {NoneGiven}
      BY <1>5, <3>1, <3>3
    <3>5. e.delivered = (n \in shown)
      <4>1. CASE n \in shown
        BY <1>6, <3>1, <3>3, <4>1
      <4>2. CASE n \notin shown
        BY <1>6, <3>1, <3>3, <4>2
      <4> QED
        BY <4>1, <4>2
    <3> QED
      BY <1>5, <1>6, <3>1, <3>4, <3>5 DEF ReplyTrue
  <2> QED
    BY <1>1, <1>2, <1>3, <2>1, <2>2 DEF AtWork
<1>8. notifyTask' = NotifyIdle /\ notifyReplies' = notifyReplies \cup {a}
  BY <1>4 DEF AnswerSend, Answered
<1> QED
  BY <1>1, <1>2, <1>3, <1>5, <1>7, <1>8, RequestEnds

LEMMA EditKeeps ==
  ASSUME NotifyInv, Edit \/ EditFails
  PROVE  NotifyInv'
<1>1. PICK n : n = notifySpent.requests
  OBVIOUS
<1>2. /\ notifyTask.pc = "edit" /\ notifyTask' = NotifyIdle
      /\ UNCHANGED <<millis, shown, heard, kept, notifyReplies>>
  BY DEF Edit, EditFails, AtPc
<1>3. notifyTask # NotifyIdle /\ InboxOK(inboxFile, n) /\ InboxOK(inboxDisk, n)
  BY <1>1, <1>2, TaskKnows, AtHand
<1>4. PICK entries : entries = Edited(inboxFile, notifyTask.id)
  OBVIOUS
<1>5. InboxOK(entries, n)
  BY <1>3, <1>4, EditedOK
<1>6. /\ inboxFile' \in {inboxFile, entries} /\ inboxDisk' \in {inboxDisk, entries}
      /\ NotifyFault \/ UNCHANGED notifySpent
  BY <1>4 DEF Edit, EditFails, Persist
<1>7. PICK file : inboxFile' = file /\ InboxOK(file, n)
  BY <1>3, <1>5, <1>6
<1>8. PICK saved : inboxDisk' = saved /\ InboxOK(saved, n)
  BY <1>3, <1>5, <1>6
<1> QED
  BY <1>1, <1>2, <1>3, <1>6, <1>7, <1>8, RequestEnds

LEMMA NotifyStays ==
  ASSUME NotifyInv, UNCHANGED notifyVars
  PROVE  NotifyInv'
<1>1. UNCHANGED <<notifyTask, inboxFile, inboxDisk, millis, shown, heard, kept, notifyReplies,
                  notifySpent>>
  BY DEF notifyVars
<1>2. NotifyTyped' /\ (AtWork => AtWork') /\ Done' = Done /\ NotifyIdle' = NotifyIdle
  BY <1>1 DEF NotifyInv, NotifyTyped, AtWork, Done, NotifyIdle, EntriesOf
<1>3. \A a \in notifyReplies : ReplyTrue(a)'
  BY <1>1, ToldStays DEF NotifyInv, EntriesOf
<1> QED
  BY <1>1, <1>2, <1>3 DEF NotifyInv

LEMMA ClockKeeps ==
  ASSUME NotifyInv, ClockMoves
  PROVE  NotifyInv'
<1>1. /\ UNCHANGED <<notifyTask, inboxFile, inboxDisk, shown, heard, kept, notifyReplies,
                     notifySpent>>
      /\ millis' \in Nat
  BY NotifyAssumption DEF ClockMoves
<1>2. NotifyTyped' /\ (AtWork => AtWork') /\ Done' = Done /\ NotifyIdle' = NotifyIdle
  BY <1>1 DEF NotifyInv, NotifyTyped, AtWork, Done, NotifyIdle, EntriesOf
<1>3. \A a \in notifyReplies : ReplyTrue(a)'
  BY <1>1, ToldStays DEF NotifyInv, EntriesOf
<1> QED
  BY <1>1, <1>2, <1>3 DEF NotifyInv

LEMMA NotifyCrashKeeps ==
  ASSUME NotifyInv, NotifyCrash
  PROVE  NotifyInv'
<1>1. PICK n \in Nat : n = notifySpent.requests
  BY DEF NotifyInv, NotifyTyped
<1>2. /\ notifySpent' = [notifySpent EXCEPT !.crashes = @ + 1] /\ notifyTask' = NotifyIdle
      /\ inboxFile' \in {inboxFile, inboxDisk} /\ inboxDisk' = inboxFile'
      /\ UNCHANGED <<millis, shown, heard, kept, notifyReplies>>
  BY DEF NotifyCrash
<1>3. /\ notifySpent' \in [requests : Nat, faults : Nat, crashes : Nat]
      /\ notifySpent'.requests = n
  BY <1>1, <1>2 DEF NotifyInv, NotifyTyped
<1>4. InboxOK(inboxFile, n) /\ InboxOK(inboxDisk, n)
  <2>1. Done = n \/ Done = n - 1
    BY <1>1 DEF Done
  <2>2. Done \in Int /\ Done <= n
    BY <1>1, <2>1
  <2> QED
    BY <1>1, <2>2, InboxLater DEF NotifyInv
<1>5. PICK file : inboxFile' = file /\ inboxDisk' = file /\ InboxOK(file, n)
  BY <1>2, <1>4
<1>6. Done' = n /\ NotifyIdle' = NotifyIdle
  BY <1>2, <1>3 DEF Done, NotifyIdle
<1>7. InboxOK(inboxFile, Done)' /\ InboxOK(inboxDisk, Done)'
  BY <1>5, <1>6
<1>8. NotifyTyped'
  BY <1>1, <1>2, <1>3 DEF NotifyInv, NotifyTyped
<1>9. \A a \in notifyReplies : ReplyTrue(a)'
  BY <1>2, ToldStays DEF NotifyInv, EntriesOf
<1> QED
  BY <1>2, <1>6, <1>7, <1>8, <1>9 DEF NotifyInv

LEMMA NotifyStarts == NotifyInit => NotifyInv
<1> SUFFICES ASSUME NotifyInit PROVE NotifyInv
  OBVIOUS
<1>1. /\ notifyTask = NotifyIdle /\ inboxFile = <<>> /\ inboxDisk = <<>> /\ millis = 0
      /\ shown = {} /\ heard = {} /\ kept = {} /\ notifyReplies = {}
      /\ notifySpent = [requests |-> 0, faults |-> 0, crashes |-> 0]
  BY DEF NotifyInit
<1>2. Done = 0
  BY <1>1 DEF Done
<1>3. InboxOK(<<>>, 0)
  BY DEF InboxOK, InboxOrdered
<1>4. NotifyTyped
  BY <1>1 DEF NotifyTyped
<1> QED
  BY <1>1, <1>2, <1>3, <1>4 DEF NotifyInv

LEMMA NotifyStep == NotifyInv /\ [NotifyNext]_notifyVars => NotifyInv'
BY NotifyAcceptKeeps, DeliverKeeps, SpeechKeeps, StoreKeeps, StoreFailsKeeps, AnswerSendKeeps,
   EditKeeps, ClockKeeps, NotifyCrashKeeps, NotifyStays DEF NotifyNext

\* Whatever fails or crashes, and however the clock is set: a notification whose request
\* was refused was neither shown nor stored, what an answer says was done is what was
\* shown, spoken and stored, and the inbox has distinct ids in the order of arrival.
THEOREM NotificationsAreTold == NotifySpec => []NotifyTellsTheTruth
<1>1. NotifyInit => NotifyInv
  BY NotifyStarts
<1>2. NotifyInv /\ [NotifyNext]_notifyVars => NotifyInv'
  BY NotifyStep
<1>3. NotifyInv => NotifyTellsTheTruth
  <2> SUFFICES ASSUME NotifyInv PROVE NotifyTellsTheTruth
    OBVIOUS
  <2>1. \A a \in notifyReplies : ReplyTrue(a)
    BY DEF NotifyInv
  <2>2. InboxOrdered(inboxFile)
    BY DEF NotifyInv, InboxOK
  <2> QED
    BY <2>1, <2>2 DEF NotifyTellsTheTruth, ReplyTrue, EntriesOf, InboxOrdered
<1> QED
  BY <1>1, <1>2, <1>3, PTL DEF NotifySpec
=============================================================================
