------------------------------ MODULE Settings ------------------------------
(***************************************************************************)
(* One connection on its way through the parts that share its vpn.data:    *)
(* the editor, export to and import from a .ovpn file, the auth dialog,    *)
(* and what the service would connect.  It starts as whatever nmcli or     *)
(* another tool made of it.                                                *)
(*                                                                         *)
(* A connection may pin a .ovpn file (nm-openvpn3-profile).  Then the      *)
(* service connects the file and export copies it; otherwise the service   *)
(* builds the profile (build_profile_string) and export writes its own     *)
(* (from_nm_data).  Import pins the file it read.                          *)
(***************************************************************************)
EXTENDS Editor, OvpnImport, AuthDialog

CONSTANTS
    Connections,  \* the connections to start from, as nmcli may have made them
    EditedOnce,   \* those of them that get one change in the editor only (a bound)
    ProfilePath,  \* the .ovpn file's path
    BlobPath,     \* blob name -> the file its body is written to on import
    UserFiles     \* .ovpn files the user may have: sequences of directives

VARIABLE
    file    \* the .ovpn file: [by |-> who wrote it, text |-> its directives]

vars == <<editorVars, file>>

NoFile == [by |-> "nobody", text |-> <<>>]

(* A dictionary of vpn.data, and one whose lists the tables can read.      *)
IsDictionary(d) ==
    d = [k \in DOMAIN d |-> d[k]] /\ "" \notin DOMAIN d /\ IsFiniteSet(DOMAIN d)

Reads(k, v) ==
    /\ k = "remote" => v \in DOMAIN Remotes
    /\ k = "verify-x509-name" => v \in DOMAIN X509Names
    /\ k = "nm-openvpn3-extra-routes" => v \in DOMAIN RouteLines

IsReadable(d) == \A k \in DOMAIN d : Reads(k, d[k])

(* A file whose directives are not empty and whose lists can be spelt.     *)
IsFileText(t) ==
    /\ t \in Seq(Seq(Strings))
    /\ \A i \in DOMAIN t :
         /\ t[i] # <<>>
         /\ IsBlob(t[i]) => Len(t[i]) = 2
         /\ t[i][1] = "verify-x509-name" => Spelled(X509Names, <<Arg1(t[i]), Arg0(t[i])>>)
    /\ LET acc == FoldLeft(ImportDirective, Start, t)
       IN  /\ acc.remotes # <<>> => Spelled(Remotes, acc.remotes)
           /\ acc.routes # <<>> => Spelled(RouteLines, PlainLines(acc.routes))

ASSUME SettingsAssumption ==
    /\ MaxEdits >= 1
    /\ {"stored", "fromfile", "proxyuser", ProfilePath} \subseteq Strings
    /\ ProfilePath # ""
    /\ BlobPath \in [INLINE_BLOB_NAMES -> Strings \ {""}]
    /\ \A b \in INLINE_BLOB_NAMES : BlobPath[b] \notin Pkcs12
    /\ \A c \in Connections \cup {NoItems} : IsItems(c) /\ IsDictionary(c) /\ IsReadable(c)
    /\ \A e \in TextSamples : e[2] # "" => Reads(e[1], e[2])
    /\ \A t \in UserFiles : IsFileText(t)

-----------------------------------------------------------------------------
Pinned(d) == Has(d, "nm-openvpn3-profile")

(* read_profile_securely: the pinned file, when it is there to be read.    *)
Readable(d) == Is(d, "nm-openvpn3-profile", ProfilePath) /\ file # NoFile

(* The profile do_connect hands to openvpn3, as the lines of a file: the   *)
(* pinned file or nothing, else the one it builds.                         *)
Connectable(d) == IF Pinned(d) THEN Readable(d) ELSE build_profile_ok(d)

Connected(d) == IF Pinned(d) THEN file.text ELSE emit(build_profile_string(d))

(* connection_to_ovpn_text: falls back to the structured profile when the  *)
(* pinned file cannot be read.                                             *)
Exported(d) == IF Readable(d) THEN file.text ELSE emit(from_nm_data(d))

(* The items an inline blob becomes, its body written to a file of its     *)
(* own: a PKCS#12 blob stands for ca, cert and key as well.  The blobs of  *)
(* `lost' could not be written and get no item.                            *)
BlobKeys(name) == IF name = "pkcs12" THEN {name, "ca", "cert", "key"} ELSE {name}

AddBlob(d, l, lost) ==
    IF ~IsBlob(l) \/ l[2] \in lost THEN d ELSE WithAll(d, BlobKeys(l[2]), BlobPath[l[2]])

(* ovpn_text_to_connection, from the file's text.  `auth' are the lines    *)
(* found in the proxy's auth file, when it can be read; the file itself is *)
(* pinned.                                                                 *)
ImportedData(text0, lost, auth) ==
    LET d0 == Without(as_nm_data(text0), {"http-proxy-auth-file"})
        d1 == IF "user" \in auth THEN With(d0, "http-proxy-username", "proxyuser") ELSE d0
        d2 == IF "pass" \in auth
              THEN With(d1, "http-proxy-password-flags", AgentOwned) ELSE d1
    IN  With(FoldLeft(LAMBDA d, l : AddBlob(d, l, lost), d2, text0),
             "nm-openvpn3-profile", ProfilePath)

-----------------------------------------------------------------------------
Init ==
    /\ data \in Connections
    /\ secrets = [s \in SecretKeys |-> "stored"]
    /\ EditorInit
    /\ edits = IF data \in EditedOnce THEN MaxEdits - 1 ELSE 0
    /\ file \in {NoFile} \cup {[by |-> "user", text |-> t] : t \in UserFiles}
    /\ file # NoFile => data = NoItems

(* export_connection_to_path, as one step (the steps of writing the file   *)
(* are those of OvpnFiles).                                                *)
Export ==
    /\ ~open
    /\ file' = [by |-> IF Readable(data) THEN file.by ELSE "export", text |-> Exported(data)]
    /\ UNCHANGED editorVars

(* iface_import_from_file: the file becomes the connection.                *)
Import ==
    /\ ~open
    /\ file # NoFile
    /\ parses(file.text)
    /\ \E lost \in SUBSET Blobs(file.text),
          auth \in IF Has(as_nm_data(file.text), "http-proxy-auth-file")
                  THEN SUBSET {"user", "pass"} ELSE {{}} :
         /\ data' = ImportedData(file.text, lost, auth)
         /\ secrets' = IF "pass" \in auth THEN [s \in {"http-proxy-password"} |-> "fromfile"]
                       ELSE [s \in {} |-> ""]
    /\ writer' = "import"
    /\ UNCHANGED <<open, initial, text, spin, switch, typed, announced, touched,
                   picker, pickerRow, edits, file>>

(* External: the file is moved away.                                       *)
LoseFile ==
    /\ file # NoFile
    /\ file' = NoFile
    /\ UNCHANGED editorVars

Next ==
    \/ EditorNext /\ UNCHANGED file
    \/ Export
    \/ Import
    \/ LoseFile

Spec == Init /\ [][Next]_vars

-----------------------------------------------------------------------------
TypeOK ==
    /\ EditorTypeOK
    /\ file.by \in {"nobody", "user", "export"}
    /\ file.text \in Seq(Seq(Strings))

(* Everything the connection type and the stored numbers allow the dialog  *)
(* to show as it is: a known type, and numbers a number row can hold.      *)
Displayable(d) ==
    /\ Has(d, "connection-type") /\ d["connection-type"] \in Contypes
    /\ \A k \in SpinKeys : Has(d, k) =>
         \/ Canonical(d[k]) /\ Number[d[k]] \in 1..SpinMax[k]
         \/ k = "mssfix" /\ d[k] = "yes"

(* Opening a connection and pressing Apply without touching a row leaves   *)
(* the tunnel alone: same profile, same overrides, same secrets.           *)
UntouchedApplyKeepsTunnel ==
    [][(open /\ open' /\ touched = {} /\ data # data' /\ Displayable(data))
         => /\ Connectable(data) => Connected(data') = Connected(data)
            /\ build_profile_string(data) = build_profile_string(data')
            /\ apply_overrides(data') = apply_overrides(data)
            /\ secrets' = secrets]_vars

(* The directives an import does not bring back into vpn.data.             *)
LostOnImport ==
    {"max-routes", "mtu-disc", "http-proxy-retry", "socks-proxy-retry"}

Kept(p) ==
    [remotes |-> p.remotes,
     routes  |-> InOrder([i \in {j \in DOMAIN p.routes : p.routes[j][1] = "route"} |->
                            p.routes[i]]),
     lines   |-> {l \in p.lines : l[1] \notin LostOnImport}]

(* A connection whose credentials are complete for its type.               *)
Complete(d) ==
    /\ Has(d, "connection-type") /\ d["connection-type"] \in Contypes
    /\ NeedsUserCert(d) => Has(d, "cert") /\ Has(d, "key")
    /\ IsStaticKey(d) => Has(d, "static-key")

(* Exporting a complete connection and importing the file again yields the *)
(* same tunnel, but for the directives as_nm_data leaves out: re-emitted   *)
(* from the new vpn.data, with the pin taken off, it is what was exported. *)
ReimportKeepsTunnel ==
    Complete(data) /\ ~Pinned(data) =>
      LET out == from_nm_data(data)
      IN  parses(emit(out)) =>
            Kept(from_nm_data(as_nm_data(emit(out)))) = Kept(out)

(* A line gives a key, a certificate or a bundle by its path or inline;    *)
(* FileOf is where its bytes are to be read once the connection has been   *)
(* imported.                                                               *)
Supplies(l, what) == l[1] = what \/ (IsBlob(l) /\ l[2] = what)

FileOf(l) == IF IsBlob(l) THEN BlobPath[l[2]] ELSE Arg0(l)

(* The secrets openvpn3 will need for the lines of a profile.  A PKCS#12   *)
(* bundle always has a passphrase, a private key when it carries the mark. *)
RequiredSecrets(lines) ==
    LET Given == {lines[i] : i \in DOMAIN lines}
        Locked(l) == FileOf(l) \in Pkcs12
                       \/ (FileOf(l) \in DOMAIN KeyFiles /\ KeyFiles[FileOf(l)])
    IN  (IF \E l \in Given : l[1] = "auth-user-pass" THEN {"password"} ELSE {})
        \cup (IF \E l \in Given : \/ Supplies(l, "pkcs12")
                                  \/ /\ Supplies(l, "key") /\ Locked(l)
                                     /\ \E m \in Given : Supplies(m, "cert")
              THEN {"cert-pass"} ELSE {})
        \cup (IF \E l \in Given : l[1] = "http-proxy" THEN {"http-proxy-password"} ELSE {})

(* Bit 2 of its flags waives a secret (NOT_REQUIRED).                      *)
Waived(d) ==
    {s \in {"password", "http-proxy-password"} :
       Has(d, FlagKey(s)) /\ d[FlagKey(s)] \in Ints /\ Number[d[FlagKey(s)]] % 8 >= 4}

Asked(answer) == {e[1] : e \in {x \in answer : x[2]}}

(* A file openvpn accepts: one private key, given once, and either a       *)
(* static key or the credentials of TLS, never both.                       *)
KeySource(l) == Supplies(l, "key") \/ Supplies(l, "pkcs12")

TlsSource(l) == l[1] = "auth-user-pass" \/ Supplies(l, "cert") \/ KeySource(l)

OneMode(t) ==
    /\ \A i, j \in DOMAIN t : KeySource(t[i]) /\ KeySource(t[j]) => t[i] = t[j]
    /\ \A i \in DOMAIN t :
         t[i][1] \in {"cert", "key", "pkcs12", "http-proxy"} => Arg0(t[i]) # ""
    /\ \A i, j \in DOMAIN t : ~(Supplies(t[i], "secret") /\ TlsSource(t[j]))

(* vpn.data is what an import made of the file, and nothing was lost on    *)
(* the way: a file of the user's own is one openvpn accepts and each of    *)
(* its blobs could be written.                                             *)
ImportedWhole ==
    /\ writer = "import"
    /\ file.by = "user" => OneMode(file.text) /\ \A b \in Blobs(file.text) : Has(data, b)

(* A PKCS#12 bundle that does not look like one: inline (its file is named *)
(* like every blob's), or in a file without the extension.                 *)
HiddenBundle(t) ==
    \E i \in DOMAIN t : Supplies(t[i], "pkcs12") /\ FileOf(t[i]) \notin Pkcs12

(* The first prompt asks for every secret the connected profile will need, *)
(* inline keys included, unless the user marked it as not required; and a  *)
(* prompt for what the service asked for (its hints) shows exactly that.   *)
(* The dialog looks at vpn.data only, so for a pinned file this is about a *)
(* connection as imported, not one pinned to some other file; a connection *)
(* without a type gets no first prompt at all; and the passphrase of a     *)
(* hidden bundle is left to BundlePassphraseAsked.                         *)
DialogAsksEnough ==
    /\ Connectable(data) /\ Has(data, "connection-type")
         /\ (Pinned(data) => ImportedWhole) =>
         {s \in RequiredSecrets(Connected(data)) \ Waived(data) :
            s = "cert-pass" => ~HiddenBundle(Connected(data))}
           \subseteq Asked(run(Details(data, secrets), {}, TRUE))
    /\ \A h \in DOMAIN KnownHints :
         Asked(run(Details(data, secrets), {h, "username"}, TRUE)) = {KnownHints[h]}

(* main.rs, is_encrypted_keyfile_path: PKCS#12 containers "always carry a  *)
(* MAC password, so prompt unconditionally"; so the first prompt for an    *)
(* imported connection whose file has a bundle asks for its passphrase.    *)
BundlePassphraseAsked ==
    Connectable(data) /\ Pinned(data) /\ ImportedWhole
      /\ (\E i \in DOMAIN file.text : Supplies(file.text[i], "pkcs12"))
      => "cert-pass" \in Asked(run(Details(data, secrets), {}, TRUE))
=============================================================================
