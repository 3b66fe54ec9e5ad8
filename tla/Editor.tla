------------------------------- MODULE Editor -------------------------------
(***************************************************************************)
(* The connection editor (nm-openvpn3-editor, editor.rs): a dialog that is *)
(* filled from vpn.data when it opens, edited row by row, and written back *)
(* by Apply (iface_update_connection).  Every row of the dialog stands for *)
(* one key of vpn.data:                                                    *)
(*   text    entry rows, file-picker rows and drop-down rows               *)
(*   spin    number rows                                                   *)
(*   switch  on/off rows                                                   *)
(* "mssfix" has a switch and a number.  The password rows (typed) start    *)
(* blank even when a secret is stored.                                     *)
(*                                                                         *)
(* The file chooser of a path row is asynchronous: it can outlive the      *)
(* editor, and the host can keep the rows a little longer than the editor. *)
(* It answers into the row it was opened for, if that still exists, and    *)
(* the row's handler announces the change to the row's own editor.         *)
(***************************************************************************)
EXTENDS ProfileText

CONSTANTS
    Fractions,      \* the strings that parse::<f64> reads as a number in (0, 1)
    TextSamples,    \* <<key, string>>: what the user may type or pick
    SpinSamples,    \* <<key, number>>
    SwitchSamples,  \* the switches the user may turn
    PickerSamples,  \* the path rows whose file chooser may be opened
    SecretSamples,  \* <<secret key, string>>
    Paths,          \* what the file chooser may return
    MaxEdits        \* bound on the user's changes to the dialog

VARIABLES
    data,       \* vpn.data of the connection
    secrets,    \* vpn.secrets that are stored
    writer,     \* who wrote data last: "apply", "import" or "user" (history)
    open,       \* an editor exists
    initial,    \* initial_data: vpn.data as the editor found it
    text,
    spin,
    switch,
    typed,      \* the password rows
    announced,  \* the editors that emitted "changed": "current", "orphan"
    touched,    \* the rows the user changed in this editor (history)
    picker,     \* the row of the pending file chooser, or "none"
    pickerRow,  \* whether that row is of the "current" editor, an "orphan"
                \* of a freed one, or "gone"
    edits

editorVars ==
    <<data, secrets, writer, open, initial, text, spin, switch, typed, announced,
      touched, picker, pickerRow, edits>>

-----------------------------------------------------------------------------
(* The rows, section by section.                                           *)
ComboKeys ==
    {"connection-type", "static-key-direction", "dev-type", "allow-compression",
     "comp-lzo", "compress", "cipher", "data-ciphers-fallback", "auth",
     "tls-version-min", "tls-version-max", "remote-cert-tls", "ns-cert-type",
     "ta-dir", "proxy-type"}

PickerKeys ==
    {"ca", "cert", "key", "static-key", "nm-openvpn3-profile", "ta", "tls-crypt",
     "tls-crypt-v2"}

EntryKeys ==
    {"remote", "username", "dev", "data-ciphers", "tls-cipher",
     "verify-x509-name", "proxy-server", "http-proxy-username"}

TextKeys == ComboKeys \cup PickerKeys \cup EntryKeys

TIMER_SECS_MAX == 2147483647

(* Number rows and the largest number each one takes.                      *)
SpinMax ==
    [k \in {"port", "tunnel-mtu", "fragment-size", "keysize", "proxy-port",
            "mssfix", "ping", "ping-restart", "reneg-seconds",
            "connect-timeout", "override-log-level"} |->
        CASE k \in {"ping", "ping-restart", "reneg-seconds", "connect-timeout"}
               -> TIMER_SECS_MAX
          [] k = "override-log-level" -> 6
          [] OTHER -> 65535]

SpinKeys == DOMAIN SpinMax

SwitchKeys ==
    {"proto-tcp", "tls-version-min-or-highest", "override-route-nopull",
     "override-force-default-gateway", "override-block-ipv6",
     "override-dns-setup-disabled", "override-dco", "mssfix"}

SecretKeys == {"cert-pass", "password", "http-proxy-password"}

(* Every number a row can hold can be printed.                             *)
NumberRow(max) ==
    /\ 0 \in DOMAIN Decimal
    /\ \A v \in DOMAIN Number :
         (IF Number[v] < 0 THEN 0 ELSE IF Number[v] > max THEN max ELSE Number[v])
           \in DOMAIN Decimal

ASSUME FractionAssumption == \A v \in Fractions : v \in DOMAIN Number /\ Number[v] = 0

ASSUME EditorAssumption ==
    /\ MaxEdits \in Nat
    /\ Paths \subseteq Strings
    /\ TextSamples \subseteq TextKeys \X Strings
    /\ SpinSamples \subseteq SpinKeys \X Int
    /\ SwitchSamples \subseteq SwitchKeys
    /\ SecretSamples \subseteq SecretKeys \X Strings
    /\ PickerSamples \subseteq PickerKeys
    /\ NumberRow(6) /\ NumberRow(65535) /\ NumberRow(TIMER_SECS_MAX)

(* The keys the editor owns; every other item of vpn.data is foreign to it *)
(* and replayed on Apply.                                                  *)
WIDGET_DATA_KEYS ==
    {"connection-type", "remote", "port", "ca", "cert", "key", "static-key",
     "static-key-direction", "username", "nm-openvpn3-profile", "dev",
     "dev-type", "proto-tcp", "tunnel-mtu", "mssfix", "fragment-size", "ping",
     "ping-restart", "reneg-seconds", "connect-timeout", "allow-compression",
     "comp-lzo", "compress", "cipher", "data-ciphers", "data-ciphers-fallback",
     "tls-cipher", "auth", "keysize", "tls-version-min",
     "tls-version-min-or-highest", "tls-version-max", "verify-x509-name",
     "remote-cert-tls", "ns-cert-type", "ta", "ta-dir", "tls-crypt",
     "tls-crypt-v2", "proxy-type", "proxy-server", "proxy-port",
     "http-proxy-username", "override-route-nopull",
     "override-force-default-gateway", "override-block-ipv6",
     "override-dns-setup-disabled", "override-dco", "override-log-level"}

(* The ids of the drop-downs.                                              *)
Vocabulary(k) ==
    CASE k = "connection-type" -> Contypes
      [] k \in {"static-key-direction", "ta-dir"} -> {"", "0", "1"}
      [] k = "dev-type" -> {"", "tun", "tap"}
      [] k = "allow-compression" -> {"", "no", "asym", "yes"}
      [] k = "comp-lzo" -> {"", "yes", "no", "adaptive"}
      [] k = "compress" -> {"", "lzo", "lz4", "lz4-v2"}
      [] k \in {"cipher", "data-ciphers-fallback"} ->
           {"", "AES-256-GCM", "AES-192-GCM", "AES-128-GCM", "CHACHA20-POLY1305",
            "AES-256-CBC", "AES-192-CBC", "AES-128-CBC", "BF-CBC"}
      [] k = "auth" -> {"", "SHA1", "SHA224", "SHA256", "SHA384", "SHA512",
                        "RIPEMD160", "MD5"}
      [] k \in {"tls-version-min", "tls-version-max"} -> {"", "1.0", "1.1", "1.2", "1.3"}
      [] k \in {"remote-cert-tls", "ns-cert-type"} -> {"", "client", "server"}
      [] k = "proxy-type" -> {"", "http", "socks"}

-----------------------------------------------------------------------------
(* Variant of LoadText: a drop-down falls back to its first entry when the  *)
(* stored value is not in its list.                                        *)
LoadTextClamped(d) ==
    [k \in TextKeys |-> IF Has(d, k) /\ (k \in ComboKeys => d[k] \in Vocabulary(k)) THEN d[k]
                        ELSE IF k = "connection-type" THEN "tls" ELSE ""]

(* Filling the rows (build_widget_tree).  A drop-down whose stored value   *)
(* is not in its list gets that value as one more entry, so every text row *)
(* starts at the stored value; the connection type defaults to "tls".      *)
LoadText(d) ==
    [k \in TextKeys |-> IF Has(d, k) THEN d[k]
                        ELSE IF k = "connection-type" THEN "tls" ELSE ""]

(* parse_int_default and the clamping of the number row.                   *)
parse_int_default(d, k) == IF Has(d, k) /\ d[k] \in DOMAIN Number THEN Number[d[k]] ELSE 0

(* Variant of Clamp: a negative number gets into the row.                   *)
ClampAboveOnly(n, max) == IF n > max THEN max ELSE n

Clamp(n, max) == IF n < 0 THEN 0 ELSE IF n > max THEN max ELSE n

LoadSpin(d) == [k \in SpinKeys |-> Clamp(parse_int_default(d, k), SpinMax[k])]

(* mssfix_bytes_initial > 0.0, before the row rounds it.                   *)
Positive(d, k) == parse_int_default(d, k) > 0 \/ (Has(d, k) /\ d[k] \in Fractions)

LoadSwitch(d) ==
    [k \in SwitchKeys |-> Yes(d, k) \/ (k = "mssfix" /\ Positive(d, k))]

-----------------------------------------------------------------------------
(* Reading the rows back (iface_update_connection).                        *)

(* ContypeFlags::from_id: the rows a connection type uses.                 *)
tls_like(ct) == ct \in {"tls", "password", "password-tls"}

needs_user_cert(ct) == ct \in {"tls", "password-tls"}

needs_password(ct) == ct \in {"password", "password-tls"}

is_static_key(ct) == ct = "static-key"

(* cond: a row of a type that is not selected is written as empty.         *)
Applicable(ct, k) ==
    /\ k = "ca" => tls_like(ct)
    /\ k \in {"cert", "key", "cert-pass"} => needs_user_cert(ct)
    /\ k \in {"username", "password"} => needs_password(ct)
    /\ k \in {"static-key", "static-key-direction"} => is_static_key(ct)

int_or_empty(n) == IF n > 0 THEN Decimal[n] ELSE ""

yes_or_empty(b) == IF b THEN "yes" ELSE ""

(* What Apply sets k to; empty removes the item.                           *)
Written(k) ==
    IF k \in TextKeys
    THEN IF Applicable(text["connection-type"], k) THEN text[k] ELSE ""
    ELSE IF k = "mssfix"
    THEN IF ~switch[k] THEN "" ELSE IF spin[k] > 0 THEN Decimal[spin[k]] ELSE "yes"
    ELSE IF k \in SpinKeys THEN int_or_empty(spin[k])
    ELSE yes_or_empty(switch[k])

(* Variant of validate_required_fields: a certificate without its key will  *)
(* do.                                                                     *)
ValidateCertOnly ==
    LET ct == text["connection-type"]
    IN  /\ text["remote"] # ""
        /\ needs_user_cert(ct) => text["ca"] # "" /\ text["cert"] # ""
        /\ needs_password(ct) => text["username"] # ""
        /\ is_static_key(ct) => text["static-key"] # ""

(* validate_required_fields: Apply is refused until the connection type's  *)
(* fields are filled in.                                                   *)
validate_required_fields ==
    LET ct == text["connection-type"]
    IN  /\ text["remote"] # ""
        /\ needs_user_cert(ct) => text["ca"] # "" /\ text["cert"] # "" /\ text["key"] # ""
        /\ needs_password(ct) => text["username"] # ""
        /\ is_static_key(ct) => text["static-key"] # ""

(* Variant of Stored: a blank row is written as well.                       *)
StoredBlank == {s \in SecretKeys : Applicable(text["connection-type"], s)}

(* The secrets Apply stores: a blank row leaves the stored one alone.  The *)
(* flags of a stored secret are an item of vpn.data (libnm).               *)
Stored == {s \in SecretKeys :
             typed[s] # "" /\ Applicable(text["connection-type"], s)}

FlagKey(s) == CASE s = "cert-pass" -> "cert-pass-flags"
                [] s = "password" -> "password-flags"
                [] s = "http-proxy-password" -> "http-proxy-password-flags"

AgentOwned == "1"

(* vpn.data after Apply: the foreign items of the snapshot over those of   *)
(* the connection, the flags of the secrets just stored, and the rows.     *)
Saved ==
    LET flags == {FlagKey(s) : s \in Stored}
        own == {k \in WIDGET_DATA_KEYS : Written(k) # ""}
        foreign == (DOMAIN data \cup DOMAIN initial) \ WIDGET_DATA_KEYS
    IN  [k \in own \cup foreign \cup flags |->
           IF k \in own THEN Written(k)
           ELSE IF k \in flags THEN AgentOwned
           ELSE IF k \in DOMAIN initial THEN initial[k] ELSE data[k]]

-----------------------------------------------------------------------------
BlankText == [k \in TextKeys |-> ""]
BlankSpin == [k \in SpinKeys |-> 0]
BlankSwitch == [k \in SwitchKeys |-> FALSE]
BlankTyped == [s \in SecretKeys |-> ""]
NoItems == [k \in {} |-> ""]

EditorInit ==
    /\ open = FALSE
    /\ writer = "user"
    /\ initial = NoItems
    /\ text = BlankText
    /\ spin = BlankSpin
    /\ switch = BlankSwitch
    /\ typed = BlankTyped
    /\ announced = {}
    /\ touched = {}
    /\ picker = "none"
    /\ pickerRow = "gone"

(* new_editor                                                              *)
OpenEditor ==
    /\ ~open
    /\ open' = TRUE
    /\ initial' = data
    /\ text' = LoadText(data)
    /\ spin' = LoadSpin(data)
    /\ switch' = LoadSwitch(data)
    /\ typed' = BlankTyped
    /\ announced' = {}
    /\ touched' = {}
    /\ UNCHANGED <<data, secrets, writer, picker, pickerRow, edits>>

(* The rows whose change emits "changed" (wire_changed_signals for the     *)
(* drop-downs, entries, numbers, switches and password rows,               *)
(* wire_path_validation for the path rows).                                *)
Wired ==
    ComboKeys \cup EntryKeys \cup PickerKeys \cup SpinKeys \cup SwitchKeys
      \cup SecretKeys

(* Variant of emit_changed: the handler does not look at the editor's      *)
(* `alive' flag.                                                           *)
EmitUngated(row) == announced' = announced \cup {row}

(* emit_changed: the signal is emitted on the editor the row belongs to,   *)
(* unless that has been finalized.                                         *)
emit_changed(row) == announced' = announced \cup ({row} \cap {"current"})

Changed(k) ==
    /\ IF k \in Wired THEN emit_changed("current") ELSE UNCHANGED announced
    /\ touched' = touched \cup {k}

CanEdit == open /\ edits < MaxEdits /\ edits' = edits + 1

(* A drop-down offers its list and the value it was loaded with.           *)
EditText(k, v) ==
    /\ CanEdit
    /\ v # text[k]
    /\ k \in ComboKeys => v \in Vocabulary(k) \cup {LoadText(initial)[k]}
    /\ text' = [text EXCEPT ![k] = v]
    /\ Changed(k)
    /\ UNCHANGED <<data, secrets, writer, open, initial, spin, switch, typed,
                   picker, pickerRow>>

EditSpin(k, n) ==
    /\ CanEdit
    /\ n # spin[k]
    /\ n \in 0..SpinMax[k] /\ n \in DOMAIN Decimal
    /\ spin' = [spin EXCEPT ![k] = n]
    /\ Changed(k)
    /\ UNCHANGED <<data, secrets, writer, open, initial, text, switch, typed,
                   picker, pickerRow>>

EditSwitch(k) ==
    /\ CanEdit
    /\ switch' = [switch EXCEPT ![k] = ~@]
    /\ Changed(k)
    /\ UNCHANGED <<data, secrets, writer, open, initial, text, spin, typed,
                   picker, pickerRow>>

TypeSecret(s, v) ==
    /\ CanEdit
    /\ v # typed[s]
    /\ typed' = [typed EXCEPT ![s] = v]
    /\ Changed(s)
    /\ UNCHANGED <<data, secrets, writer, open, initial, text, spin, switch,
                   picker, pickerRow>>

(* The "Browse" button of a path row: the chooser holds a weak reference   *)
(* to the row.                                                             *)
OpenPicker(k) ==
    /\ CanEdit
    /\ picker = "none"
    /\ picker' = k
    /\ pickerRow' = "current"
    /\ UNCHANGED <<data, secrets, writer, open, initial, text, spin, switch,
                   typed, announced, touched>>

(* The chooser answers: the row is filled if it still exists.              *)
PickerReturn(p) ==
    /\ picker # "none"
    /\ CASE pickerRow = "current" /\ p # text[picker] ->
              text' = [text EXCEPT ![picker] = p] /\ Changed(picker)
         [] pickerRow = "orphan" -> emit_changed("orphan") /\ UNCHANGED <<text, touched>>
         [] OTHER -> UNCHANGED <<text, announced, touched>>
    /\ picker' = "none"
    /\ pickerRow' = "gone"
    /\ UNCHANGED <<data, secrets, writer, open, initial, spin, switch, typed, edits>>

PickerCancel ==
    /\ picker # "none"
    /\ picker' = "none"
    /\ pickerRow' = "gone"
    /\ UNCHANGED <<data, secrets, writer, open, initial, text, spin, switch,
                   typed, announced, touched, edits>>

(* iface_update_connection; a refused Apply changes nothing.               *)
Apply ==
    /\ open
    /\ validate_required_fields
    /\ data' = Saved
    /\ secrets' = [s \in DOMAIN secrets \cup Stored |->
                     IF s \in Stored THEN typed[s] ELSE secrets[s]]
    /\ writer' = "apply"
    /\ UNCHANGED <<open, initial, text, spin, switch, typed, announced, touched,
                   picker, pickerRow, edits>>

(* instance_finalize: the rows are freed; one that a pending chooser would *)
(* fill may be held by the host for longer.                                *)
CloseEditor ==
    /\ open
    /\ open' = FALSE
    /\ initial' = NoItems
    /\ text' = BlankText
    /\ spin' = BlankSpin
    /\ switch' = BlankSwitch
    /\ typed' = BlankTyped
    /\ announced' = {}
    /\ touched' = {}
    /\ pickerRow' \in IF pickerRow = "current" THEN {"orphan", "gone"} ELSE {pickerRow}
    /\ UNCHANGED <<data, secrets, writer, picker, edits>>

EditorNext ==
    \/ OpenEditor
    \/ \E e \in TextSamples : EditText(e[1], e[2])
    \/ \E e \in SpinSamples : EditSpin(e[1], e[2])
    \/ \E k \in SwitchSamples : EditSwitch(k)
    \/ \E e \in SecretSamples : TypeSecret(e[1], e[2])
    \/ \E k \in PickerSamples : OpenPicker(k)
    \/ \E p \in Paths : PickerReturn(p)
    \/ PickerCancel
    \/ Apply
    \/ CloseEditor

-----------------------------------------------------------------------------
IsItems(d) == \A k \in DOMAIN d : d[k] \in Strings /\ d[k] # ""

EditorTypeOK ==
    /\ IsItems(data)
    /\ IsItems(initial)
    /\ IsItems(secrets)
    /\ text \in [TextKeys -> Strings]
    /\ spin \in [SpinKeys -> DOMAIN Decimal]
    /\ \A k \in SpinKeys : spin[k] \in 0..SpinMax[k]
    /\ switch \in [SwitchKeys -> BOOLEAN]
    /\ typed \in [SecretKeys -> Strings]
    /\ touched \subseteq WIDGET_DATA_KEYS \cup SecretKeys
    /\ picker \in PickerKeys \cup {"none"}
    /\ writer \in {"apply", "import", "user"}
    /\ pickerRow \in {"current", "orphan", "gone"}
    /\ announced \subseteq {"current", "orphan"}
    /\ open \in BOOLEAN
    /\ edits \in 0..MaxEdits

(* A row that no longer shows what was loaded is one the user changed in   *)
(* this very editor, and the dialog was told it has something to apply; a  *)
(* file chooser left over from a closed editor changes no row of the next  *)
(* one, and emits nothing on the editor that was freed (the `alive' gate   *)
(* of emit_changed).                                                       *)
OnlyUserEdits ==
    /\ "orphan" \notin announced
    /\ open =>
         LET differs == {k \in TextKeys : text[k] # LoadText(initial)[k]}
                          \cup {k \in SpinKeys : spin[k] # LoadSpin(initial)[k]}
                          \cup {k \in SwitchKeys : switch[k] # LoadSwitch(initial)[k]}
                          \cup {s \in SecretKeys : typed[s] # ""}
         IN  differs \subseteq touched /\ (differs # {} => "current" \in announced)

(* Apply never loses what the dialog does not show: items of vpn.data      *)
(* outside WIDGET_DATA_KEYS keep their values (but for the flags of a      *)
(* secret the user typed), and a stored secret stays unless another was    *)
(* typed for it.                                                           *)
ForeignKept ==
    /\ \A k \in DOMAIN data \ WIDGET_DATA_KEYS :
         k \in DOMAIN data'
           /\ (data'[k] = data[k] \/ \E s \in SecretKeys \cap touched : k = FlagKey(s))
    /\ \A s \in DOMAIN secrets :
         s \in DOMAIN secrets' /\ (secrets'[s] = secrets[s] \/ typed[s] # "")

ApplyKeepsForeign == [][open /\ open' => ForeignKept]_editorVars

(* What Apply accepts can be connected: the profile the service builds     *)
(* from it has the credentials its connection type needs, and the user     *)
(* name openvpn3 will ask for is on hand.  (A gateway of separators only   *)
(* passes the gate of validate_required_fields and yields no remote line.) *)
SavedProfileComplete ==
    writer = "apply" =>
      LET lines == build_profile_string(data).lines
          Has1(name) == \E l \in lines : l[1] = name
      IN  /\ build_profile_ok(data)
          /\ NeedsUserCert(data) => Has1("pkcs12") \/ (Has1("ca") /\ Has1("cert") /\ Has1("key"))
          /\ IsPasswordLike(data) => Has1("auth-user-pass") /\ Has(data, "username")
          /\ IsStaticKey(data) => Has1("secret")

(* The export describes the tunnel that is connected: the two emitters,    *)
(* kept apart in two crates ("the two MUST stay in agreement"), say the    *)
(* same on every dictionary on which they can (Comparable).                *)
EmittersAgree == Comparable(data) => SameProfile(data)

(* The editor alone: nothing else writes the connection.                   *)
EditorSpec ==
    /\ IsItems(data) /\ IsItems(secrets)
    /\ EditorInit
    /\ edits \in 0..MaxEdits
    /\ [][EditorNext]_editorVars
=============================================================================
