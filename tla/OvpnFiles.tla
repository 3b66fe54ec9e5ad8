----------------------------- MODULE OvpnFiles -----------------------------
(***************************************************************************)
(* The files behind a connection, step by step: exports that write a .ovpn *)
(* file, imports that write the inline blobs of one to key files, and an   *)
(* activation that reads the pinned .ovpn file and hands it to openvpn3.   *)
(* Exports and imports run in the hosts of the properties plugin (nmcli,   *)
(* nm-applet, the settings dialog), several at a time, and a host may be   *)
(* killed between any two steps.                                           *)
(*                                                                         *)
(* A directory maps a name to an inode: unlinking or renaming over a name  *)
(* leaves whoever has the inode open with it.  The inode an export writes  *)
(* is named after the export, the one an import writes for its k-th blob   *)
(* is <<import, k>>.                                                       *)
(***************************************************************************)
EXTENDS Integers, Sequences, FiniteSets

CONSTANTS
    Exports,    \* calls of iface_export_to_file
    Targets,    \* the files they write
    PathOf,     \* export -> its target
    Pinned,     \* the target the activated connection pins
    Imports,    \* calls of iface_import_from_file
    Ids,        \* connection ids (the stem of the imported file's name)
    Stem,       \* id -> its characters, all but letters and digits as '_'
    Disc,       \* id -> its FNV-1a hash
    BlobsOf,    \* import -> the inline blobs of its file, in order
    Old,        \* the inode a target has before any export
    Casts,      \* the sets of processes that take part together (a bound)
    None

ASSUME ExportAssumption ==
    /\ PathOf \in [Exports -> Targets]
    /\ Pinned \in Targets
    /\ Old \notin Exports /\ None \notin Exports /\ Old # None

(* The hash tells apart any two ids whose stems are the same, and a file   *)
(* has a blob once.                                                        *)
ASSUME ImportAssumption ==
    /\ None \notin Imports \X Nat /\ None \notin Ids
    /\ \A x, y \in Ids : Stem[x] = Stem[y] /\ Disc[x] = Disc[y] => x = y
    /\ BlobsOf \in [Imports -> Seq(STRING)]
    /\ \A i \in Imports : \A j, k \in 1..Len(BlobsOf[i]) :
         BlobsOf[i][j] = BlobsOf[i][k] => j = k

VARIABLES
    epc,        \* where each export is
    tmp,        \* target -> the inode of its temporary file, ".name.tmp"
    target,     \* target -> its inode
    size,       \* inode of a .ovpn file -> how much of it is written
    overlapped, \* targets that two exports wrote at the same time (history)
    ipc,        \* where each import is
    id,         \* its connection's id
    at,         \* the blob it is at
    blob,       \* the cert directory: file name -> inode
    complete,   \* the blob inodes that are written to the end
    items,      \* import -> the blobs whose path is in the connection
    shared,     \* imports that another of the same id ran with or after (history)
    apc,        \* where the activation is
    opened,     \* the inode it has open
    profile,    \* how much of a file it read
    tries,      \* failed attempts of the current call
    made        \* call -> the objects it made in openvpn3

exportVars == <<epc, tmp, target, size, overlapped>>
importVars == <<ipc, id, at, blob, complete, items, shared>>
activationVars == <<apc, opened, profile, tries, made>>
vars == <<exportVars, importVars, activationVars>>

-----------------------------------------------------------------------------
(* export_connection_to_path.  The text is taken from the connection       *)
(* first; the file is written under the temporary name, by                 *)
(* write_blob_securely, and moved over the target.                         *)

Exporting(e) == epc[e] \in {"unlink", "create", "write", "rename", "cleanup"}

ExportBegin(e) ==
    /\ epc[e] = "idle"
    /\ epc' = [epc EXCEPT ![e] = "unlink"]
    /\ overlapped' = overlapped \cup
         {t \in {PathOf[e]} : \E f \in Exports : Exporting(f) /\ PathOf[f] = t}
    /\ UNCHANGED <<tmp, target, size>>

(* An error of any step ends in the removal of the temporary file.         *)
ExportFails(e) ==
    /\ epc' = [epc EXCEPT ![e] = "cleanup"]
    /\ UNCHANGED <<tmp, target, overlapped>>

(* write_blob_securely: remove what is there ...                           *)
ExportUnlink(e) ==
    /\ epc[e] = "unlink"
    /\ \/ /\ epc' = [epc EXCEPT ![e] = "create"]
          /\ tmp' = [tmp EXCEPT ![PathOf[e]] = None]
          /\ UNCHANGED <<target, overlapped>>
       \/ ExportFails(e)
    /\ UNCHANGED size

(* ... create a file of our own (O_EXCL) ...                               *)
ExportCreate(e) ==
    /\ epc[e] = "create"
    /\ \/ /\ tmp[PathOf[e]] = None
          /\ epc' = [epc EXCEPT ![e] = "write"]
          /\ tmp' = [tmp EXCEPT ![PathOf[e]] = e]
          /\ size' = [size EXCEPT ![e] = "part"]
          /\ UNCHANGED <<target, overlapped>>
       \/ ExportFails(e) /\ UNCHANGED size

(* ... write and sync it.                                                  *)
ExportWrite(e) ==
    /\ epc[e] = "write"
    /\ \/ /\ epc' = [epc EXCEPT ![e] = "rename"]
          /\ size' = [size EXCEPT ![e] = "whole"]
          /\ UNCHANGED <<tmp, target, overlapped>>
       \/ ExportFails(e) /\ UNCHANGED size

(* Mutant of ExportRename: the temporary file is moved although an error   *)
(* cut it short.                                                           *)
ExportRename_Early(e) ==
    /\ epc[e] \in {"write", "rename"}
    /\ tmp[PathOf[e]] # None
    /\ epc' = [epc EXCEPT ![e] = "done"]
    /\ target' = [target EXCEPT ![PathOf[e]] = tmp[PathOf[e]]]
    /\ tmp' = [tmp EXCEPT ![PathOf[e]] = None]
    /\ UNCHANGED <<size, overlapped>>

ExportRename(e) ==
    /\ epc[e] = "rename"
    /\ \/ /\ tmp[PathOf[e]] # None
          /\ epc' = [epc EXCEPT ![e] = "done"]
          /\ target' = [target EXCEPT ![PathOf[e]] = tmp[PathOf[e]]]
          /\ tmp' = [tmp EXCEPT ![PathOf[e]] = None]
          /\ UNCHANGED overlapped
       \/ ExportFails(e)
    /\ UNCHANGED size

(* Mutant of ExportCleanup: the temporary file stays after an error.       *)
ExportCleanup_Keep(e) ==
    /\ epc[e] = "cleanup"
    /\ epc' = [epc EXCEPT ![e] = "failed"]
    /\ UNCHANGED <<tmp, target, size, overlapped>>

(* let _ = remove_file(tmp), taken to succeed.                             *)
ExportCleanup(e) ==
    /\ epc[e] = "cleanup"
    /\ epc' = [epc EXCEPT ![e] = "failed"]
    /\ tmp' = [tmp EXCEPT ![PathOf[e]] = None]
    /\ UNCHANGED <<target, size, overlapped>>

(* External: the host is killed.                                           *)
ExportKilled(e) ==
    /\ Exporting(e)
    /\ epc' = [epc EXCEPT ![e] = "killed"]
    /\ UNCHANGED <<tmp, target, size, overlapped>>

ExportStep(e) ==
    \/ ExportBegin(e) \/ ExportUnlink(e) \/ ExportCreate(e) \/ ExportWrite(e)
    \/ ExportRename(e) \/ ExportCleanup(e) \/ ExportKilled(e)

-----------------------------------------------------------------------------
(* ovpn_text_to_connection, the loop over the inline blobs.                *)

(* Mutant of BlobName: file names without the hash of the id.              *)
BlobName_StemOnly(x, b) == [stem |-> Stem[x], disc |-> "", blob |-> b]

BlobName(x, b) == [stem |-> Stem[x], disc |-> Disc[x], blob |-> b]

Nodes == Imports \X Nat

CurrentName(i) == BlobName(id[i], BlobsOf[i][at[i]])

Importing(i) == ipc[i] \in {"unlink", "create", "write"}

(* Mutant of NextBlob: the loop runs one blob too far.                     *)
NextBlob_Past(i) ==
    /\ at' = [at EXCEPT ![i] = @ + 1]
    /\ ipc' = [ipc EXCEPT ![i] = IF at[i] <= Len(BlobsOf[i]) THEN "unlink" ELSE "done"]

(* The next blob, or the end of the import.                                *)
NextBlob(i) ==
    /\ at' = [at EXCEPT ![i] = @ + 1]
    /\ ipc' = [ipc EXCEPT ![i] = IF at[i] < Len(BlobsOf[i]) THEN "unlink" ELSE "done"]

ImportBegin(i, x) ==
    /\ ipc[i] = "idle"
    /\ id' = [id EXCEPT ![i] = x]
    /\ ipc' = [ipc EXCEPT ![i] = IF BlobsOf[i] = <<>> THEN "done" ELSE "unlink"]
    /\ LET same == {j \in Imports : id[j] = x}
       IN  shared' = shared \cup same
                       \cup {j \in {i} : \E l \in same : Importing(l)}
    /\ UNCHANGED <<at, blob, complete, items>>

(* A blob that cannot be written is left out of the connection.            *)
Dropped(i) == NextBlob(i) /\ UNCHANGED <<blob, complete, items>>

(* secure_cert_dir and write_blob_securely, as for an export.              *)
ImportUnlink(i) ==
    /\ ipc[i] = "unlink"
    /\ \/ /\ ipc' = [ipc EXCEPT ![i] = "create"]
          /\ blob' = [blob EXCEPT ![CurrentName(i)] = None]
          /\ UNCHANGED <<at, complete, items>>
       \/ Dropped(i)
    /\ UNCHANGED <<id, shared>>

ImportCreate(i) ==
    /\ ipc[i] = "create"
    /\ \/ /\ blob[CurrentName(i)] = None
          /\ ipc' = [ipc EXCEPT ![i] = "write"]
          /\ blob' = [blob EXCEPT ![CurrentName(i)] = <<i, at[i]>>]
          /\ UNCHANGED <<at, complete, items>>
       \/ Dropped(i)
    /\ UNCHANGED <<id, shared>>

(* Only a blob written to the end becomes an item of the connection.       *)
ImportWrite(i) ==
    /\ ipc[i] = "write"
    /\ \/ /\ complete' = complete \cup {<<i, at[i]>>}
          /\ items' = [items EXCEPT ![i] = @ \cup {at[i]}]
          /\ NextBlob(i)
          /\ UNCHANGED blob
       \/ Dropped(i)
    /\ UNCHANGED <<id, shared>>

(* External: the host is killed, and the connection with it.               *)
ImportKilled(i) ==
    /\ Importing(i)
    /\ ipc' = [ipc EXCEPT ![i] = "killed"]
    /\ items' = [items EXCEPT ![i] = {}]
    /\ UNCHANGED <<id, at, blob, complete, shared>>

ImportStep(i) ==
    \/ \E x \in Ids : ImportBegin(i, x)
    \/ ImportUnlink(i) \/ ImportCreate(i) \/ ImportWrite(i) \/ ImportKilled(i)

-----------------------------------------------------------------------------
(* The activation, as do_connect goes about it.                            *)

(* The pinned file is opened, and read from the inode that was opened.     *)
OpenProfile ==
    /\ apc = "idle"
    /\ opened' = target[Pinned]
    /\ apc' \in IF target[Pinned] = None THEN {"failed"} ELSE {"read", "failed"}
    /\ UNCHANGED <<profile, tries, made>>

ReadProfile ==
    /\ apc = "read"
    /\ \/ apc' = "import" /\ profile' = size[opened]
       \/ apc' = "failed" /\ UNCHANGED profile
    /\ UNCHANGED <<opened, tries, made>>

(* What a call can end with.  External: an error raised by the bus, or by  *)
(* a service that has not registered the object yet, comes before the      *)
(* method runs; a lost answer says nothing about it.                       *)
Undelivered ==
    {"ServiceUnknown", "SpawnChildExited", "UnknownObject", "ObjectDoesNotExist"}

Unanswered == {"NoReply", "Timeout", "Disconnected"}

Refused == {"Failed", "UnknownMethod"}

Outcomes == {"ok"} \cup Undelivered \cup Unanswered \cup Refused

TakesEffect(o) ==
    IF o = "ok" THEN {1} ELSE IF o \in Unanswered THEN {0, 1} ELSE {0}

Attempts == 3

(* Mutant of is_pre_dispatch_transient: a lost answer is retried as well.  *)
RetryNoReply(o) == o \in Undelivered \cup {"NoReply"}

is_pre_dispatch_transient(o) ==
    o \in {"ServiceUnknown", "SpawnChildExited", "UnknownObject", "ObjectDoesNotExist"}

(* with_activation_retry                                                   *)
with_activation_retry(call, next) ==
    /\ apc = call
    /\ \E o \in Outcomes : \E n \in TakesEffect(o) :
         /\ made' = [made EXCEPT ![call] = @ + n]
         /\ \/ o = "ok" /\ apc' = next /\ tries' = 0
            \/ /\ o # "ok"
               /\ tries' = tries + 1
               /\ apc' = IF is_pre_dispatch_transient(o) /\ tries + 1 < Attempts
                         THEN call ELSE "failed"
    /\ UNCHANGED <<opened, profile>>

import_config == with_activation_retry("import", "tunnel")

new_tunnel == with_activation_retry("tunnel", "ready")

(* session_wait_ready: Ready is asked again until it succeeds or the       *)
(* deadline has passed.                                                    *)
session_wait_ready ==
    /\ apc = "ready"
    /\ apc' \in {"up", "failed"}
    /\ UNCHANGED <<opened, profile, tries, made>>

ActivationStep ==
    OpenProfile \/ ReadProfile \/ import_config \/ new_tunnel \/ session_wait_ready

-----------------------------------------------------------------------------
Names == {BlobName(x, b) : x \in Ids, b \in UNION {{BlobsOf[i][k] : k \in DOMAIN BlobsOf[i]} :
                                                     i \in Imports}}

(* A process that does not take part never begins.                        *)
InitialPc(cast, p) == IF p \in cast THEN "idle" ELSE "absent"

Init ==
    /\ \E cast \in Casts :
         /\ epc = [e \in Exports |-> InitialPc(cast, e)]
         /\ ipc = [i \in Imports |-> InitialPc(cast, i)]
         /\ apc = InitialPc(cast, "activation")
    /\ tmp = [t \in Targets |-> None]
    /\ target \in [Targets -> {Old, None}]
    /\ size = [n \in Exports \cup {Old} |-> IF n = Old THEN "whole" ELSE "none"]
    /\ overlapped = {}
    /\ id = [i \in Imports |-> None]
    /\ at = [i \in Imports |-> 1]
    /\ blob = [n \in Names |-> None]
    /\ complete = {}
    /\ items = [i \in Imports |-> {}]
    /\ shared = {}
    /\ opened = None
    /\ profile = "none"
    /\ tries = 0
    /\ made = [c \in {"import", "tunnel"} |-> 0]

Next ==
    \/ (\E e \in Exports : ExportStep(e)) /\ UNCHANGED <<importVars, activationVars>>
    \/ (\E i \in Imports : ImportStep(i)) /\ UNCHANGED <<exportVars, activationVars>>
    \/ ActivationStep /\ UNCHANGED <<exportVars, importVars>>

Spec == Init /\ [][Next]_vars

-----------------------------------------------------------------------------
ExportTypeOK ==
    /\ epc \in [Exports -> {"absent", "idle", "unlink", "create", "write", "rename", "cleanup",
                            "done", "failed", "killed"}]
    /\ tmp \in [Targets -> Exports \cup {None}]
    /\ target \in [Targets -> Exports \cup {Old, None}]
    /\ size \in [Exports \cup {Old} -> {"none", "part", "whole"}]
    /\ overlapped \subseteq Targets

ImportTypeOK ==
    /\ ipc \in [Imports -> {"absent", "idle", "unlink", "create", "write", "done", "killed"}]
    /\ id \in [Imports -> Ids \cup {None}]
    /\ at \in [Imports -> Nat]
    /\ \A i \in Imports : Importing(i) => id[i] \in Ids /\ at[i] \in 1..Len(BlobsOf[i])
    /\ \A i \in Imports : ipc[i] \in {"absent", "idle"} => at[i] = 1
    /\ DOMAIN blob = Names
    /\ \A n \in Names : blob[n] = None \/ blob[n] \in Nodes
    /\ complete \subseteq Nodes
    /\ items \in [Imports -> SUBSET Nat]
    /\ \A i \in Imports : items[i] \subseteq 1..Len(BlobsOf[i])
    /\ shared \subseteq Imports

ActivationTypeOK ==
    /\ apc \in {"absent", "idle", "read", "import", "tunnel", "ready", "up", "failed"}
    /\ opened \in Exports \cup {Old, None}
    /\ profile \in {"none", "part", "whole"}
    /\ tries \in 0..Attempts
    /\ made \in [{"import", "tunnel"} -> Nat]

TypeOK == ExportTypeOK /\ ImportTypeOK /\ ActivationTypeOK

Exported(t) == {e \in Exports : PathOf[e] = t /\ epc[e] = "done"}

(* Whatever fails or is killed, and whenever, the file at an export's path *)
(* is a whole one: the one that was there before, or that of an export     *)
(* that succeeded (the last one, once there is one); and the service never *)
(* reads half a profile.  Two exports to the same path at the same time    *)
(* share ".name.tmp" and are excepted.                                     *)
NoTornProfile ==
    /\ \A t \in Targets \ overlapped :
         /\ target[t] # None => size[target[t]] = "whole"
         /\ target[t] \in Exported(t) \/ (Exported(t) = {} /\ target[t] \in {Old, None})
    /\ Pinned \notin overlapped => profile # "part"

(* A temporary file, which holds the keys of a profile, is left only by an *)
(* export that is running or was killed: not by one that returned, however *)
(* exports overlap (the clean-up of export_connection_to_path).  This      *)
(* takes the clean-up's remove_file to succeed: its error is ignored, and  *)
(* the file then stays.                                                    *)
NoTempLeft ==
    \A t \in Targets : tmp[t] # None =>
      /\ PathOf[tmp[t]] = t
      /\ epc[tmp[t]] \in {"write", "rename", "cleanup", "killed"}

(* The key files an imported connection points to are there, are whole and *)
(* are its own: an import that fails half-way leaves the item out, and an  *)
(* import under another id never writes the same file, however alike the   *)
(* ids (the hash in the file name).  Another import under the same id      *)
(* replaces the files, by design.                                          *)
OwnBlobs ==
    \A i \in Imports \ shared : \A k \in items[i] :
      /\ blob[BlobName(id[i], BlobsOf[i][k])] = <<i, k>>
      /\ <<i, k>> \in complete

(* The activation never leaves a second configuration or session behind:   *)
(* a call is repeated only if the last attempt cannot have taken effect    *)
(* (with_activation_retry), and only a whole profile gets that far.        *)
CallAtMostOnce ==
    /\ \A c \in DOMAIN made : made[c] <= 1
    /\ made["tunnel"] <= made["import"]
    /\ apc = "up" => made["tunnel"] = 1
    /\ made["import"] = 1 => profile # "none"
=============================================================================
