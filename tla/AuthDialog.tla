----------------------------- MODULE AuthDialog -----------------------------
(***************************************************************************)
(* The auth dialog (nm-openvpn3-auth-dialog, main.rs) in its external-UI   *)
(* mode: a process that reads the connection from its standard input,      *)
(* decides which secrets to ask for, and writes them out for the agent to  *)
(* show.  It keeps no state, so it is a function from its input.           *)
(***************************************************************************)
EXTENDS VpnData, SequencesExt

CONSTANTS
    KeyFiles    \* path of a readable key file -> it carries an ENCRYPTED mark

-----------------------------------------------------------------------------
(* External: what NetworkManager writes to the dialog.  A line is          *)
(* <<prefix, value>>; a value of several lines continues on lines without  *)
(* a prefix of their own; an empty line ends each of the two blocks.       *)
Pairs(d, key, val) ==
    LET Item(k) == <<<<key, k>>, <<val, d[k]>>>>
                     \o (IF k = "nm-openvpn3-extra-routes" THEN <<<<"", d[k]>>>> ELSE <<>>)
    IN  FoldSet(LAMBDA k, lines : lines \o Item(k), <<>>, DOMAIN d)

Details(d, secs) ==
    Pairs(d, "DATA_KEY", "DATA_VAL") \o <<<<>>>>
      \o Pairs(secs, "SECRET_KEY", "SECRET_VAL") \o <<<<>>, <<"DONE">>>>

-----------------------------------------------------------------------------
(* read_vpn_details: a value belongs to the key line before it, and only   *)
(* when that one announced the same kind; nothing after DONE is read.      *)
ReadLine(acc, l) ==
    IF acc.done THEN acc
    ELSE CASE l = <<"DONE">> -> [acc EXCEPT !.done = TRUE]
           [] l = <<>> -> [acc EXCEPT !.key = <<>>]
           [] OTHER ->
                CASE l[1] \in {"DATA_KEY", "SECRET_KEY"} ->
                       [acc EXCEPT !.key = IF l[2] = "" THEN <<>> ELSE l]
                  [] l[1] = "DATA_VAL" /\ acc.key # <<>> /\ acc.key[1] = "DATA_KEY" ->
                       [acc EXCEPT !.data = With(@, acc.key[2], l[2]), !.key = <<>>]
                  [] l[1] = "SECRET_VAL" /\ acc.key # <<>> /\ acc.key[1] = "SECRET_KEY" ->
                       [acc EXCEPT !.secrets = With(@, acc.key[2], l[2]), !.key = <<>>]
                  [] OTHER -> acc

read_vpn_details(lines) ==
    FoldLeft(ReadLine, [data |-> [k \in {} |-> ""], secrets |-> [k \in {} |-> ""],
                        key |-> <<>>, done |-> FALSE], lines)

(* Variant of secret_required_flag: NOT_SAVED waives the prompt as well.    *)
SecretSavedFlag(d, flagKey) ==
    \/ ~Has(d, flagKey)
    \/ d[flagKey] \notin Ints
    \/ (Number[d[flagKey]] \div 2) % 2 = 0 /\ (Number[d[flagKey]] \div 4) % 2 = 0

(* secret_required_flag: only NOT_REQUIRED (bit 2) waives the prompt; what *)
(* does not parse counts as no flags.                                      *)
secret_required_flag(d, flagKey) ==
    \/ ~Has(d, flagKey)
    \/ d[flagKey] \notin Ints
    \/ (Number[d[flagKey]] \div 4) % 2 = 0

(* is_encrypted_keyfile_path: bundles always, unreadable files to be safe. *)
is_encrypted_keyfile_path(path) ==
    path \in Pkcs12 \/ path \notin DOMAIN KeyFiles \/ KeyFiles[path]

(* needs: with hints the dialog asks for exactly those it knows; without   *)
(* any it infers from vpn.data.                                            *)
KnownHints ==
    [h \in {"password", "cert-pass", "http-proxy-password", "challenge-response",
            "x-dynamic-challenge:challenge-response",
            "x-dynamic-challenge-echo:challenge-response"} |->
        IF h \in {"password", "cert-pass", "http-proxy-password"} THEN h
        ELSE "challenge-response"]

InferredNeeds(d) ==
    IF ~Has(d, "connection-type") THEN {}
    ELSE {s \in {"password", "cert-pass", "http-proxy-password"} :
            \/ /\ s = "password"
               /\ d["connection-type"] \in {"password", "password-tls"}
               /\ secret_required_flag(d, "password-flags")
            \/ /\ s = "cert-pass"
               /\ d["connection-type"] \in {"tls", "password-tls"}
               /\ Has(d, "key") /\ is_encrypted_keyfile_path(d["key"])
            \/ /\ s = "http-proxy-password"
               /\ Has(d, "proxy-server")
               /\ secret_required_flag(d, "http-proxy-password-flags")}

needs(d, hints) ==
    IF hints # {} THEN {KnownHints[h] : h \in hints \cap DOMAIN KnownHints}
    ELSE InferredNeeds(d)

(* run: the entries the agent shows.  The answer has an entry for every    *)
(* secret, marked to be asked when it is needed and NetworkManager allows  *)
(* interaction; nothing needed is the single entry no-secret.              *)
run(lines, hints, allow_interaction) ==
    LET needed == needs(read_vpn_details(lines).data, hints)
    IN  IF needed = {} THEN {<<"no-secret", FALSE>>}
        ELSE {<<s, s \in needed /\ allow_interaction>> :
                s \in {"password", "cert-pass", "http-proxy-password",
                       "challenge-response"}}
=============================================================================
