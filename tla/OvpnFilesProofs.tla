-------------------------- MODULE OvpnFilesProofs --------------------------
(***************************************************************************)
(* The file properties for any number of exports, imports and paths.  The  *)
(* three groups of processes touch different variables, so the inductive   *)
(* invariant has a part for each; only the activation's part looks at      *)
(* another group's (the inode it has open).                                *)
(***************************************************************************)
EXTENDS OvpnFiles, TLAPS

(* A file has contents from its creation on and is whole before it is      *)
(* moved; of the exports to a path that has seen no overlap one at most is *)
(* running, and the temporary file is its own.                             *)
ExportInv ==
    /\ size[Old] = "whole"
    /\ \A e \in Exports : size[e] # "none" =>
         epc[e] \in {"write", "rename", "cleanup", "done", "failed", "killed"}
    /\ \A e \in Exports : epc[e] = "rename" => size[e] = "whole"
    /\ \A t \in Targets : tmp[t] # None => size[tmp[t]] # "none"
    /\ \A t \in Targets : target[t] # None => size[target[t]] # "none"
    /\ \A e, f \in Exports :
         Exporting(e) /\ Exporting(f) /\ PathOf[e] = PathOf[f]
           /\ PathOf[e] \notin overlapped => e = f
    /\ \A e \in Exports :
         epc[e] \in {"write", "rename"} /\ PathOf[e] \notin overlapped => tmp[PathOf[e]] = e

(* The target part of NoTornProfile.                                       *)
WholeTargets ==
    \A t \in Targets \ overlapped :
      /\ target[t] # None => size[target[t]] = "whole"
      /\ target[t] \in Exported(t) \/ (Exported(t) = {} /\ target[t] \in {Old, None})

ImportInv ==
    /\ \A i \in Imports : id[i] = None => ipc[i] \in {"absent", "idle"} /\ items[i] = {}
    /\ \A i \in Imports : id[i] # None => ipc[i] # "idle"
    /\ \A i \in Imports : at[i] >= 1 /\ \A k \in items[i] : k < at[i]
    /\ \A i \in Imports \ shared : \A j \in Imports :
         id[i] # None /\ id[j] = id[i] /\ Importing(j) => i = j
    /\ \A i \in Imports \ shared : ipc[i] = "write" => blob[CurrentName(i)] = <<i, at[i]>>

ActivationInv ==
    /\ apc = "read" => opened # None
    /\ opened # None => size[opened] # "none"
    /\ Pinned \notin overlapped /\ opened # None => size[opened] = "whole"
    /\ apc \in {"absent", "idle", "read"} => made["import"] = 0 /\ made["tunnel"] = 0
    /\ apc = "import" => made["import"] = 0 /\ made["tunnel"] = 0
    /\ apc = "tunnel" => made["import"] = 1 /\ made["tunnel"] = 0
    /\ apc \in {"ready", "up"} => made["import"] = 1 /\ made["tunnel"] = 1
    /\ apc \in {"import", "tunnel", "ready", "up"} => profile # "none"
    /\ apc # "failed" => tries < Attempts

Inv ==
    /\ TypeOK /\ ExportInv /\ NoTempLeft /\ WholeTargets /\ ImportInv /\ OwnBlobs
    /\ ActivationInv /\ CallAtMostOnce /\ NoTornProfile
-----------------------------------------------------------------------------
(* An export's step, action by action.                                     *)

LEMMA ExportTypes ==
    ASSUME ExportTypeOK, NEW e \in Exports, ExportStep(e)
    PROVE  ExportTypeOK'
<1> USE ExportAssumption DEF ExportTypeOK
<1>1. CASE ExportBegin(e) BY <1>1 DEF ExportBegin
<1>2. CASE ExportUnlink(e) BY <1>2 DEF ExportUnlink, ExportFails
<1>3. CASE ExportCreate(e) BY <1>3 DEF ExportCreate, ExportFails
<1>4. CASE ExportWrite(e) BY <1>4 DEF ExportWrite, ExportFails
<1>5. CASE ExportRename(e) BY <1>5 DEF ExportRename, ExportFails
<1>6. CASE ExportCleanup(e) BY <1>6 DEF ExportCleanup
<1>7. CASE ExportKilled(e) BY <1>7 DEF ExportKilled
<1> QED BY <1>1, <1>2, <1>3, <1>4, <1>5, <1>6, <1>7 DEF ExportStep

LEMMA ExportTemps ==
    ASSUME ExportTypeOK, NoTempLeft, NEW e \in Exports, ExportStep(e)
    PROVE  NoTempLeft'
<1> USE ExportAssumption DEF ExportTypeOK, NoTempLeft
<1>1. CASE ExportBegin(e) BY <1>1 DEF ExportBegin
<1>2. CASE ExportUnlink(e) BY <1>2 DEF ExportUnlink, ExportFails
<1>3. CASE ExportCreate(e) BY <1>3 DEF ExportCreate, ExportFails
<1>4. CASE ExportWrite(e) BY <1>4 DEF ExportWrite, ExportFails
<1>5. CASE ExportRename(e) BY <1>5 DEF ExportRename, ExportFails
<1>6. CASE ExportCleanup(e) BY <1>6 DEF ExportCleanup
<1>7. CASE ExportKilled(e) BY <1>7 DEF ExportKilled, Exporting
<1> QED BY <1>1, <1>2, <1>3, <1>4, <1>5, <1>6, <1>7 DEF ExportStep

LEMMA ExportKeeps ==
    ASSUME ExportTypeOK, ExportInv, NoTempLeft, NEW e \in Exports, ExportStep(e)
    PROVE  ExportInv'
<1> USE ExportAssumption DEF ExportTypeOK, ExportInv, Exporting, NoTempLeft
<1>1. CASE ExportBegin(e) BY <1>1 DEF ExportBegin
<1>2. CASE ExportUnlink(e) BY <1>2 DEF ExportUnlink, ExportFails
<1>3. CASE ExportCreate(e) BY <1>3 DEF ExportCreate, ExportFails
<1>4. CASE ExportWrite(e) BY <1>4 DEF ExportWrite, ExportFails
<1>5. CASE ExportRename(e) BY <1>5 DEF ExportRename, ExportFails
<1>6. CASE ExportCleanup(e) BY <1>6 DEF ExportCleanup
<1>7. CASE ExportKilled(e) BY <1>7 DEF ExportKilled
<1> QED BY <1>1, <1>2, <1>3, <1>4, <1>5, <1>6, <1>7 DEF ExportStep

LEMMA ExportWhole ==
    ASSUME ExportTypeOK, ExportInv, NoTempLeft, WholeTargets, NEW e \in Exports, ExportStep(e)
    PROVE  WholeTargets'
<1> USE ExportAssumption DEF ExportTypeOK, ExportInv, WholeTargets, Exported
<1>1. CASE ExportBegin(e) BY <1>1 DEF ExportBegin
<1>2. CASE ExportUnlink(e) BY <1>2 DEF ExportUnlink, ExportFails
<1>3. CASE ExportCreate(e) BY <1>3 DEF ExportCreate, ExportFails
<1>4. CASE ExportWrite(e) BY <1>4 DEF ExportWrite, ExportFails
<1>5. CASE ExportRename(e) BY <1>5 DEF ExportRename, ExportFails, Exporting
<1>6. CASE ExportCleanup(e) BY <1>6 DEF ExportCleanup
<1>7. CASE ExportKilled(e) BY <1>7 DEF ExportKilled, Exporting
<1> QED BY <1>1, <1>2, <1>3, <1>4, <1>5, <1>6, <1>7 DEF ExportStep

-----------------------------------------------------------------------------
(* An import's step.  Two file names are the same only for the same id and *)
(* blob, so an import disturbs the files of another only if their ids are  *)
(* the same.                                                               *)

LEMMA NamesApart ==
    ASSUME NEW x \in Ids, NEW y \in Ids, NEW b, NEW c, BlobName(x, b) = BlobName(y, c)
    PROVE  x = y /\ b = c
BY ImportAssumption DEF BlobName

LEMMA CurrentNamed ==
    ASSUME ImportTypeOK, NEW i \in Imports, NEW k \in 1..Len(BlobsOf[i]), NEW x \in Ids
    PROVE  BlobName(x, BlobsOf[i][k]) \in Names
<1>1. BlobsOf[i] \in Seq(STRING) /\ k \in DOMAIN BlobsOf[i] BY ImportAssumption
<1> QED BY <1>1 DEF Names

LEMMA BlobCount == \A i \in Imports : Len(BlobsOf[i]) \in Nat
BY ImportAssumption

(* The parts of ImportTypeOK that an import at work relies on.             *)
LEMMA AtWork ==
    ASSUME ImportTypeOK, NEW i \in Imports, Importing(i)
    PROVE  /\ id[i] \in Ids
           /\ at[i] \in Nat /\ at[i] >= 1 /\ at[i] <= Len(BlobsOf[i])
           /\ <<i, at[i]>> \in Nodes
BY BlobCount DEF ImportTypeOK, Nodes

(* Going on to the next blob.                                              *)
LEMMA NextTypes ==
    ASSUME ImportTypeOK, NEW i \in Imports, Importing(i), NextBlob(i), id' = id
    PROVE  /\ ipc' \in [Imports -> {"absent", "idle", "unlink", "create", "write", "done",
                                    "killed"}]
           /\ at' \in [Imports -> Nat]
           /\ \A j \in Imports :
                Importing(j)' => id'[j] \in Ids /\ at'[j] \in 1..Len(BlobsOf[j])
           /\ \A j \in Imports : ipc'[j] \in {"absent", "idle"} => at'[j] = 1
BY BlobCount, AtWork DEF ImportTypeOK, NextBlob, Importing

LEMMA ImportTypes ==
    ASSUME ImportTypeOK, NEW i \in Imports, ImportStep(i)
    PROVE  ImportTypeOK'
<1>1. ASSUME NEW x \in Ids, ImportBegin(i, x) PROVE ImportTypeOK'
  <2>1. BlobsOf[i] # <<>> => 1 <= Len(BlobsOf[i]) BY ImportAssumption
  <2>2. at[i] = 1 BY <1>1 DEF ImportBegin, ImportTypeOK
  <2> QED BY <1>1, <2>1, <2>2, BlobCount DEF ImportBegin, ImportTypeOK, Importing
<1>2. CASE Importing(i) /\ Dropped(i) /\ UNCHANGED <<id, shared>>
  BY <1>2, NextTypes DEF Dropped, ImportTypeOK
<1>3. CASE ImportUnlink(i)
  BY <1>2, <1>3, AtWork DEF ImportUnlink, ImportTypeOK, Importing
<1>4. CASE ImportCreate(i)
  BY <1>2, <1>4, AtWork DEF ImportCreate, ImportTypeOK, Importing
<1>5. CASE ImportWrite(i)
  <2>1. CASE Dropped(i) BY <1>2, <1>5, <2>1 DEF ImportWrite, Importing
  <2>2. CASE ~Dropped(i)
    <3>1. /\ Importing(i) /\ NextBlob(i) /\ UNCHANGED <<id, shared, blob>>
          /\ complete' = complete \cup {<<i, at[i]>>}
          /\ items' = [items EXCEPT ![i] = @ \cup {at[i]}]
      BY <1>5, <2>2 DEF ImportWrite, Importing
    <3>2. items' \in [Imports -> SUBSET Nat]
          /\ \A j \in Imports : items'[j] \subseteq 1..Len(BlobsOf[j])
      BY <3>1, AtWork, BlobCount DEF ImportTypeOK
    <3> QED BY <3>1, <3>2, AtWork, NextTypes DEF ImportTypeOK
  <2> QED BY <2>1, <2>2
<1>6. CASE ImportKilled(i)
  BY <1>6 DEF ImportKilled, ImportTypeOK, Importing
<1> QED BY <1>1, <1>3, <1>4, <1>5, <1>6 DEF ImportStep

(* An import at work touches no file another one relies on.                *)
LEMMA FilesApart ==
    ASSUME ImportTypeOK, ImportInv, NEW i \in Imports, Importing(i),
           NEW j \in Imports \ shared, id[j] # None, NEW k \in 1..Len(BlobsOf[j]),
           BlobName(id[j], BlobsOf[j][k]) = CurrentName(i)
    PROVE  i = j /\ k = at[i]
<1>1. id[j] \in Ids /\ id[i] \in Ids /\ at[i] \in 1..Len(BlobsOf[i])
  BY DEF ImportTypeOK
<1>2. id[j] = id[i] /\ BlobsOf[j][k] = BlobsOf[i][at[i]]
  BY <1>1, NamesApart DEF CurrentName
<1>3. i = j BY <1>2 DEF ImportInv
<1> QED BY <1>1, <1>2, <1>3, ImportAssumption

(* Beginning an import: those of the same id are shared from now on, and   *)
(* it is shared itself if one of them is at work.                          *)
LEMMA BeginKeeps ==
    ASSUME ImportTypeOK, ImportInv, OwnBlobs, NEW i \in Imports, NEW x \in Ids,
           ImportBegin(i, x)
    PROVE  ImportInv' /\ OwnBlobs'
<1> USE DEF ImportTypeOK, ImportBegin
<1>1. /\ id[i] = None /\ items[i] = {} /\ ~Importing(i) /\ x # None
      /\ UNCHANGED <<at, blob, complete, items>>
      /\ shared \subseteq shared'
      /\ \A j \in Imports : id[j] = x => j \in shared'
      /\ \A j \in Imports : id[j] = x /\ Importing(j) => i \in shared'
      /\ \A j \in Imports : j # i => ipc'[j] = ipc[j] /\ id'[j] = id[j]
      /\ ipc'[i] \in {"done", "unlink"} /\ id'[i] = x
  BY ImportAssumption DEF ImportInv, Importing
<1>2. /\ \A j \in Imports : id'[j] = None => ipc'[j] \in {"absent", "idle"} /\ items'[j] = {}
      /\ \A j \in Imports : id'[j] # None => ipc'[j] # "idle"
      /\ \A j \in Imports : at'[j] >= 1 /\ \A k \in items'[j] : k < at'[j]
  BY <1>1 DEF ImportInv
<1>3. ASSUME NEW j \in Imports \ shared', NEW l \in Imports, id'[j] # None,
             id'[l] = id'[j], Importing(l)'
      PROVE  j = l
  BY <1>1, <1>3 DEF ImportInv, Importing
<1>4. ASSUME NEW j \in Imports \ shared', ipc'[j] = "write"
      PROVE  blob'[CurrentName(j)'] = <<j, at'[j]>>
  BY <1>1, <1>4 DEF ImportInv, CurrentName
<1>5. ASSUME NEW j \in Imports \ shared', NEW k \in items'[j]
      PROVE  blob'[BlobName(id'[j], BlobsOf[j][k])] = <<j, k>> /\ <<j, k>> \in complete'
  <2>1. j \in Imports \ shared /\ k \in items[j] /\ j # i BY <1>1, <1>5
  <2>2. id'[j] = id[j] BY <1>1, <2>1
  <2>3. blob' = blob /\ complete' = complete BY <1>1
  <2>4. blob[BlobName(id[j], BlobsOf[j][k])] = <<j, k>> /\ <<j, k>> \in complete
    BY <2>1 DEF OwnBlobs
  <2> HIDE DEF ImportTypeOK, ImportBegin
  <2> QED BY <2>2, <2>3, <2>4
<1> QED BY <1>2, <1>3, <1>4, <1>5 DEF ImportInv, OwnBlobs

(* A step that goes on: no new files, and the items of the import are as   *)
(* they were or have the blob that was just completed.                     *)
LEMMA NextKeeps ==
    ASSUME ImportTypeOK, ImportInv, OwnBlobs, NEW i \in Imports, Importing(i), NextBlob(i),
           UNCHANGED <<id, shared, blob>>, complete \subseteq complete',
           \A j \in Imports : j # i => items'[j] = items[j],
           \/ items'[i] = items[i]
           \/ /\ items'[i] = items[i] \cup {at[i]}
              /\ ipc[i] = "write" /\ <<i, at[i]>> \in complete'
    PROVE  ImportInv' /\ OwnBlobs'
<1>1. /\ id[i] # None /\ at'[i] = at[i] + 1 /\ at[i] \in Nat /\ ipc'[i] \in {"unlink", "done"}
      /\ \A j \in Imports : j # i => ipc'[j] = ipc[j] /\ at'[j] = at[j]
      /\ items[i] \subseteq Nat
  BY ImportAssumption DEF ImportTypeOK, NextBlob, Importing
<1>2. /\ \A j \in Imports : id'[j] = None => ipc'[j] \in {"absent", "idle"} /\ items'[j] = {}
      /\ \A j \in Imports : id'[j] # None => ipc'[j] # "idle"
  BY <1>1 DEF ImportInv
<1>3. \A j \in Imports : at'[j] >= 1 /\ \A k \in items'[j] : k < at'[j]
  BY <1>1 DEF ImportInv
<1>4. ASSUME NEW j \in Imports \ shared', NEW l \in Imports, id'[j] # None,
             id'[l] = id'[j], Importing(l)'
      PROVE  j = l
  BY <1>1, <1>4 DEF ImportInv, Importing
<1>5. ASSUME NEW j \in Imports \ shared', ipc'[j] = "write"
      PROVE  blob'[CurrentName(j)'] = <<j, at'[j]>>
  BY <1>1, <1>5 DEF ImportInv, CurrentName
<1>6. ASSUME NEW j \in Imports \ shared', NEW k \in items'[j]
      PROVE  blob'[BlobName(id'[j], BlobsOf[j][k])] = <<j, k>> /\ <<j, k>> \in complete'
  <2>1. CASE k \in items[j] BY <2>1 DEF OwnBlobs
  <2>2. CASE k \notin items[j]
    <3>1. j = i /\ k = at[i] /\ ipc[i] = "write" /\ <<i, k>> \in complete' BY <1>6, <2>2
    <3> QED BY <3>1 DEF ImportInv, CurrentName
  <2> QED BY <2>1, <2>2
<1> QED BY <1>2, <1>3, <1>4, <1>5, <1>6 DEF ImportInv, OwnBlobs

(* A step that changes the directory, at the current name only.            *)
LEMMA DirKeeps ==
    ASSUME ImportTypeOK, ImportInv, OwnBlobs, NEW i \in Imports, Importing(i), NEW n,
           blob' = [blob EXCEPT ![CurrentName(i)] = n], NEW p,
           ipc' = [ipc EXCEPT ![i] = p],
           p = "create" \/ (p = "write" /\ n = <<i, at[i]>>),
           UNCHANGED <<id, at, complete, items, shared>>
    PROVE  ImportInv' /\ OwnBlobs'
<1>1. /\ id[i] \in Ids /\ at[i] \in 1..Len(BlobsOf[i]) /\ id[i] # None
      /\ ipc'[i] = p /\ CurrentName(i) \in Names
      /\ \A j \in Imports : j # i => ipc'[j] = ipc[j]
  BY ImportAssumption, CurrentNamed DEF ImportTypeOK, CurrentName
<1>2. \A m \in Names : blob'[m] = IF m = CurrentName(i) THEN n ELSE blob[m]
  BY DEF ImportTypeOK
<1>3. ASSUME NEW j \in Imports \ shared', NEW l \in Imports, id'[j] # None,
             id'[l] = id'[j], Importing(l)'
      PROVE  j = l
  BY <1>1, <1>3 DEF ImportInv, Importing
<1>4. ASSUME NEW j \in Imports \ shared', ipc'[j] = "write"
      PROVE  blob'[CurrentName(j)'] = <<j, at'[j]>>
  <2>1. CASE j = i BY <1>1, <1>2, <1>4, <2>1 DEF CurrentName
  <2>2. CASE j # i
    <3>1. Importing(j) /\ id[j] # None /\ id[j] \in Ids /\ at[j] \in 1..Len(BlobsOf[j])
      BY <1>1, <1>4, <2>2, ImportAssumption DEF ImportTypeOK, Importing
    <3>2. CurrentName(j) # CurrentName(i) /\ CurrentName(j) \in Names
      BY <2>2, <3>1, FilesApart, CurrentNamed DEF CurrentName
    <3>3. CurrentName(j)' = CurrentName(j) BY DEF CurrentName
    <3>4. blob[CurrentName(j)] = <<j, at[j]>> BY <1>1, <1>4, <2>2 DEF ImportInv
    <3> QED BY <1>2, <3>2, <3>3, <3>4
  <2> QED BY <2>1, <2>2
<1>5. ASSUME NEW j \in Imports \ shared', NEW k \in items'[j]
      PROVE  blob'[BlobName(id'[j], BlobsOf[j][k])] = <<j, k>> /\ <<j, k>> \in complete'
  <2>1. k \in items[j] /\ k \in 1..Len(BlobsOf[j]) /\ k < at[j] /\ id[j] # None /\ id[j] \in Ids
    BY DEF ImportTypeOK, ImportInv
  <2>2. BlobName(id[j], BlobsOf[j][k]) # CurrentName(i)
    BY <2>1, FilesApart DEF ImportTypeOK
  <2>3. BlobName(id[j], BlobsOf[j][k]) \in Names BY <2>1, CurrentNamed
  <2> QED BY <1>2, <2>1, <2>2, <2>3 DEF OwnBlobs
<1>6. /\ \A j \in Imports : id'[j] = None => ipc'[j] \in {"absent", "idle"} /\ items'[j] = {}
      /\ \A j \in Imports : id'[j] # None => ipc'[j] # "idle"
      /\ \A j \in Imports : at'[j] >= 1 /\ \A k \in items'[j] : k < at'[j]
  BY <1>1 DEF ImportInv
<1> QED BY <1>3, <1>4, <1>5, <1>6 DEF ImportInv, OwnBlobs

LEMMA ImportKeeps ==
    ASSUME ImportTypeOK, ImportInv, OwnBlobs, NEW i \in Imports, ImportStep(i)
    PROVE  ImportInv' /\ OwnBlobs'
<1>1. ASSUME NEW x \in Ids, ImportBegin(i, x) PROVE ImportInv' /\ OwnBlobs'
  BY <1>1, BeginKeeps
<1>2. CASE Importing(i) /\ Dropped(i) /\ UNCHANGED <<id, shared>>
  BY <1>2, NextKeeps DEF Dropped
<1>3. CASE ImportUnlink(i)
  BY <1>2, <1>3, DirKeeps DEF ImportUnlink, Importing
<1>4. CASE ImportCreate(i)
  BY <1>2, <1>4, DirKeeps DEF ImportCreate, Importing
<1>5. CASE ImportWrite(i)
  <2>1. CASE Dropped(i) BY <1>2, <1>5, <2>1 DEF ImportWrite, Importing
  <2>2. CASE ~Dropped(i)
    <3>1. /\ ipc[i] = "write" /\ NextBlob(i) /\ UNCHANGED <<id, shared, blob>>
          /\ complete' = complete \cup {<<i, at[i]>>}
          /\ items' = [items EXCEPT ![i] = @ \cup {at[i]}]
      BY <1>5, <2>2 DEF ImportWrite
    <3>2. /\ items'[i] = items[i] \cup {at[i]}
          /\ \A j \in Imports : j # i => items'[j] = items[j]
      BY <3>1 DEF ImportTypeOK
    <3> QED BY <3>1, <3>2, NextKeeps DEF Importing
  <2> QED BY <2>1, <2>2
<1>6. CASE ImportKilled(i)
  BY <1>6 DEF ImportKilled, ImportInv, OwnBlobs, ImportTypeOK, Importing, CurrentName
<1> QED BY <1>1, <1>3, <1>4, <1>5, <1>6 DEF ImportStep

-----------------------------------------------------------------------------
(* The activation, and what it needs of the exports: an inode it has open  *)
(* never loses contents.                                                   *)

LEMMA OpenedKeeps ==
    ASSUME ExportTypeOK, ExportInv, ActivationTypeOK, ActivationInv,
           NEW e \in Exports, ExportStep(e), UNCHANGED activationVars
    PROVE  ActivationInv'
<1> USE ExportAssumption
<1>1. overlapped \subseteq overlapped'
  BY DEF ExportStep, ExportBegin, ExportUnlink, ExportCreate, ExportWrite, ExportRename,
         ExportCleanup, ExportKilled, ExportFails
<1>2. \A n \in Exports \cup {Old} :
        /\ size[n] # "none" => size'[n] # "none"
        /\ size[n] = "whole" => size'[n] = "whole"
  BY DEF ExportTypeOK, ExportInv, ExportStep, ExportBegin, ExportUnlink, ExportCreate,
         ExportWrite, ExportRename, ExportCleanup, ExportKilled, ExportFails
<1> QED BY <1>1, <1>2 DEF ActivationTypeOK, ActivationInv, activationVars

LEMMA CallKeeps ==
    ASSUME ActivationTypeOK, ActivationInv, CallAtMostOnce, UNCHANGED exportVars,
           import_config \/ new_tunnel
    PROVE  ActivationTypeOK' /\ ActivationInv' /\ CallAtMostOnce' /\ profile' = profile
<1> USE DEF ActivationTypeOK, ActivationInv, CallAtMostOnce, exportVars,
            with_activation_retry, TakesEffect, Attempts, Outcomes, Undelivered, Unanswered,
            Refused, is_pre_dispatch_transient
<1>1. CASE import_config BY <1>1 DEF import_config
<1>2. CASE new_tunnel BY <1>2 DEF new_tunnel
<1> QED BY <1>1, <1>2

LEMMA ActivationKeeps ==
    ASSUME ExportTypeOK, ExportInv, WholeTargets, ActivationTypeOK, ActivationInv,
           CallAtMostOnce, NoTornProfile, ActivationStep, UNCHANGED exportVars
    PROVE  ActivationTypeOK' /\ ActivationInv' /\ CallAtMostOnce' /\ NoTornProfile'
<1> USE ExportAssumption
<1>1. WholeTargets' BY DEF WholeTargets, exportVars, Exported
<1>2. CASE OpenProfile
  BY <1>1, <1>2 DEF OpenProfile, ActivationTypeOK, ActivationInv, CallAtMostOnce, Attempts,
     NoTornProfile, WholeTargets, exportVars, ExportTypeOK, ExportInv
<1>3. CASE ReadProfile
  BY <1>1, <1>3 DEF ReadProfile, ActivationTypeOK, ActivationInv, CallAtMostOnce, Attempts,
     NoTornProfile, WholeTargets, exportVars, ExportTypeOK
<1>4. CASE import_config \/ new_tunnel
  <2>1. ActivationTypeOK' /\ ActivationInv' /\ CallAtMostOnce' /\ profile' = profile
    BY <1>4, CallKeeps
  <2> QED BY <1>1, <2>1 DEF NoTornProfile, WholeTargets, exportVars
<1>5. CASE session_wait_ready
  BY <1>1, <1>5 DEF session_wait_ready, ActivationTypeOK, ActivationInv, CallAtMostOnce,
     Attempts, NoTornProfile, WholeTargets, exportVars
<1> QED BY <1>2, <1>3, <1>4, <1>5 DEF ActivationStep

-----------------------------------------------------------------------------
LEMMA InvInit == Init => Inv
<1> SUFFICES ASSUME Init PROVE Inv OBVIOUS
<1> USE DEF Init, InitialPc
<1>1. ExportTypeOK /\ ExportInv /\ NoTempLeft /\ WholeTargets
  BY ExportAssumption DEF ExportTypeOK, ExportInv, NoTempLeft, WholeTargets, Exporting, Exported
<1>2. ImportTypeOK /\ ImportInv /\ OwnBlobs
  BY ImportAssumption DEF ImportTypeOK, ImportInv, OwnBlobs, Importing
<1>3. ActivationTypeOK /\ ActivationInv /\ CallAtMostOnce /\ profile = "none"
  BY DEF ActivationTypeOK, ActivationInv, CallAtMostOnce, Attempts
<1> QED BY <1>1, <1>2, <1>3 DEF Inv, TypeOK, NoTornProfile, WholeTargets

LEMMA InvStep == Inv /\ [Next]_vars => Inv'
<1> SUFFICES ASSUME Inv, [Next]_vars PROVE Inv' OBVIOUS
<1> USE DEF Inv, TypeOK
<1>1. ASSUME NEW e \in Exports, ExportStep(e), UNCHANGED <<importVars, activationVars>>
      PROVE  Inv'
  <2>1. ExportTypeOK' /\ ExportInv' /\ NoTempLeft' /\ WholeTargets'
    BY <1>1, ExportTypes, ExportTemps, ExportKeeps, ExportWhole
  <2>2. ImportTypeOK' /\ ImportInv' /\ OwnBlobs'
    BY <1>1 DEF ImportTypeOK, ImportInv, OwnBlobs, importVars, Importing, CurrentName
  <2>3. ActivationTypeOK' /\ ActivationInv' /\ CallAtMostOnce'
    BY <1>1, OpenedKeeps DEF ActivationTypeOK, CallAtMostOnce, activationVars
  <2>4. Pinned \notin overlapped' => profile' # "part"
    <3>1. overlapped \subseteq overlapped'
      BY <1>1 DEF ExportStep, ExportBegin, ExportUnlink, ExportCreate, ExportWrite,
                  ExportRename, ExportCleanup, ExportKilled, ExportFails
    <3> QED BY <1>1, <3>1 DEF NoTornProfile, activationVars
  <2> QED BY <2>1, <2>2, <2>3, <2>4 DEF NoTornProfile, WholeTargets
<1>2. ASSUME NEW i \in Imports, ImportStep(i), UNCHANGED <<exportVars, activationVars>>
      PROVE  Inv'
  <2>1. ImportTypeOK' /\ ImportInv' /\ OwnBlobs' BY <1>2, ImportTypes, ImportKeeps
  <2>2. ExportTypeOK' /\ ExportInv' /\ NoTempLeft' /\ WholeTargets'
    BY <1>2 DEF ExportTypeOK, ExportInv, NoTempLeft, WholeTargets, exportVars, Exporting, Exported
  <2>3. ActivationTypeOK' /\ ActivationInv' /\ CallAtMostOnce'
    BY <1>2 DEF ActivationTypeOK, ActivationInv, CallAtMostOnce, activationVars, exportVars
  <2> QED BY <1>2, <2>1, <2>2, <2>3 DEF NoTornProfile, WholeTargets, exportVars, activationVars
<1>3. CASE ActivationStep /\ UNCHANGED <<exportVars, importVars>>
  <2>1. ActivationTypeOK' /\ ActivationInv' /\ CallAtMostOnce' /\ NoTornProfile'
    BY <1>3, ActivationKeeps
  <2>2. ExportTypeOK' /\ ExportInv' /\ NoTempLeft' /\ WholeTargets'
    BY <1>3 DEF ExportTypeOK, ExportInv, NoTempLeft, WholeTargets, exportVars, Exporting, Exported
  <2>3. ImportTypeOK' /\ ImportInv' /\ OwnBlobs'
    BY <1>3 DEF ImportTypeOK, ImportInv, OwnBlobs, importVars, Importing, CurrentName
  <2> QED BY <2>1, <2>2, <2>3
<1>4. CASE UNCHANGED vars
  <2>1. ExportTypeOK' /\ ExportInv' /\ NoTempLeft' /\ WholeTargets'
    BY <1>4 DEF ExportTypeOK, ExportInv, NoTempLeft, WholeTargets, exportVars, vars, Exporting,
       Exported
  <2>2. ImportTypeOK' /\ ImportInv' /\ OwnBlobs'
    BY <1>4 DEF ImportTypeOK, ImportInv, OwnBlobs, importVars, vars, Importing, CurrentName
  <2>3. ActivationTypeOK' /\ ActivationInv' /\ CallAtMostOnce'
    BY <1>4 DEF ActivationTypeOK, ActivationInv, CallAtMostOnce, activationVars, exportVars, vars
  <2> QED BY <1>4, <2>1, <2>2, <2>3
      DEF NoTornProfile, WholeTargets, exportVars, activationVars, vars
<1> QED BY <1>1, <1>2, <1>3, <1>4 DEF Next

THEOREM Invariance == Spec => []Inv
BY InvInit, InvStep, PTL DEF Spec

(* OvpnFiles' variables keep their types, for any processes and files.     *)
THEOREM FilesTypeCorrect == Spec => []TypeOK
<1>1. Inv => TypeOK BY DEF Inv
<1> QED BY <1>1, Invariance, PTL

(* A killed or failing export never leaves half a file at its path, and    *)
(* the service never reads half a profile, whatever the number of exports. *)
THEOREM ExportIsAtomic == Spec => []NoTornProfile
<1>1. Inv => NoTornProfile BY DEF Inv
<1> QED BY <1>1, Invariance, PTL

(* An export that returned left no temporary file with keys in it.         *)
THEOREM TempsAreRemoved == Spec => []NoTempLeft
<1>1. Inv => NoTempLeft BY DEF Inv
<1> QED BY <1>1, Invariance, PTL

(* The key files of an imported connection are whole and its own, for any  *)
(* ids the hash tells apart.                                               *)
THEOREM BlobsAreOwn == Spec => []OwnBlobs
<1>1. Inv => OwnBlobs BY DEF Inv
<1> QED BY <1>1, Invariance, PTL

(* Retrying a call to a service that is being activated never makes a      *)
(* second configuration or session.                                        *)
THEOREM RetryIsSafe == Spec => []CallAtMostOnce
<1>1. Inv => CallAtMostOnce BY DEF Inv
<1> QED BY <1>1, Invariance, PTL
=============================================================================
