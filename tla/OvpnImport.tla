----------------------------- MODULE OvpnImport -----------------------------
(***************************************************************************)
(* Reading a .ovpn file back into vpn.data (import_export.rs): the checks  *)
(* of OvpnConfig::validate and the projection as_nm_data, one directive at *)
(* a time in the order of the file, the last one winning.                  *)
(*                                                                         *)
(* A parsed file is a sequence of directives <<name, arg, ...>>; an inline *)
(* blob is <<"<>", name>> (its body is left out).                          *)
(* Quoting is not modelled: emit and tokenize are inverse on a token.      *)
(***************************************************************************)
EXTENDS ProfileText, SequencesExt

(* The route lines of a profile, one after the other.                      *)
InOrder(routes) == FoldLeft(Append, <<>>, routes)

(* emit: the directives of a profile in a file; only remotes and routes    *)
(* have an order that matters.                                             *)
emit(p) ==
    FoldSet(LAMBDA l, listed : Append(listed, l), p.remotes \o InOrder(p.routes), p.lines)

Arg0(d) == IF Len(d) >= 2 THEN d[2] ELSE ""

Arg1(d) == IF Len(d) >= 3 THEN d[3] ELSE ""

(* parse refuses an inline blob of any other name.                         *)
INLINE_BLOB_NAMES ==
    {"ca", "cert", "extra-certs", "crl-verify", "key", "pkcs12", "secret",
     "tls-auth", "tls-crypt", "tls-crypt-v2"}

IsBlob(d) == d[1] = "<>"

Blobs(text) == {text[i][2] : i \in {j \in DOMAIN text : IsBlob(text[j])}}

(* validate: the directives whose argument is checked, and what it may be. *)
(* The suffix of a TLS version is part of the argument when it was quoted. *)
(* (The u32 limit of keepalive's numbers is beyond TLC's integers.)        *)
Checked ==
    {"port", "proxy-port", "key-direction", "static-key-direction",
     "remote-cert-tls", "ns-cert-type", "mtu-disc", "proto",
     "tls-version-min", "tls-version-max"}

UdpProtos ==
    {"udp", "udp4", "udp6", "udp-client", "udp-server", "udp4-client",
     "udp6-client"}

Protos ==
    UdpProtos \cup {"tcp", "tcp4", "tcp6", "tcp-client", "tcp-server",
                    "tcp4-client", "tcp6-client"}

ValidDirective(d) ==
    /\ d[1] \in Checked => Len(d) >= 2
    /\ d[1] \in {"port", "proxy-port"}
         => Arg0(d) \in Ints /\ Number[Arg0(d)] \in 1..65535
    /\ d[1] \in {"key-direction", "static-key-direction"} => Arg0(d) \in {"0", "1"}
    /\ d[1] \in {"remote-cert-tls", "ns-cert-type"} => Arg0(d) \in {"client", "server"}
    /\ d[1] = "mtu-disc" => Arg0(d) \in {"no", "maybe", "yes"}
    /\ d[1] = "comp-lzo" => Len(d) = 1 \/ Arg0(d) \in {"yes", "no", "adaptive"}
    /\ d[1] = "proto" => Arg0(d) \in Protos
    /\ d[1] \in {"tls-version-min", "tls-version-max"}
         => Arg0(d) \in {"1.0", "1.1", "1.2", "1.3", "1.0 or-highest",
                        "1.1 or-highest", "1.2 or-highest", "1.3 or-highest"}
    /\ d[1] = "keepalive"
         => /\ Len(d) >= 3
            /\ \A i \in {2, 3} : d[i] \in Ints /\ Number[d[i]] >= 0

parses(text) ==
    /\ Blobs(text) \subseteq INLINE_BLOB_NAMES
    /\ \A i \in DOMAIN text : IsBlob(text[i]) \/ ValidDirective(text[i])

-----------------------------------------------------------------------------
(* as_nm_data: what the loop over the directives accumulates.  The values  *)
(* it builds up by appending (remote, extra routes) stay lists until the   *)
(* end.                                                                    *)
Start ==
    [data |-> [k \in {} |-> ""], remotes |-> <<>>, routes |-> <<>>,
     have |-> {}, keydir |-> ""]

(* Directives copied under a key of their own when they have an argument.  *)
Copied ==
    [d \in {"dev", "dev-type", "port", "cipher", "data-ciphers",
            "data-ciphers-fallback", "auth", "keysize", "tls-cipher", "ping",
            "ping-exit", "ping-restart", "allow-compression", "ns-cert-type",
            "remote-cert-tls", "tls-remote", "tls-version-max", "tls-crypt",
            "tls-crypt-v2", "extra-certs", "tun-mtu", "fragment", "reneg-sec",
            "connect-timeout", "server-poll-timeout"} |->
        CASE d = "tun-mtu" -> "tunnel-mtu"
          [] d = "fragment" -> "fragment-size"
          [] d = "reneg-sec" -> "reneg-seconds"
          [] d = "server-poll-timeout" -> "connect-timeout"
          [] OTHER -> d]

(* Directives that only say yes.                                           *)
Flags ==
    {"float", "remote-random", "remote-random-hostname", "push-peer-info",
     "tun-ipv6", "allow-pull-fqdn"}

(* The entry a `remote' directive stands for.                              *)
RemoteEntry(d) ==
    [bracketed |-> Arg0(d) \in Ipv6Hosts, host |-> Arg0(d), tail |-> SubSeq(d, 3, Len(d))]

(* Credentials: what was given, for the connection type inferred below.    *)
ImportCredential(acc, d) ==
    LET v == Arg0(d)
        Keep(ks) == WithAll(acc.data, ks, v)
    IN  CASE d[1] = "auth-user-pass" -> [acc EXCEPT !.have = @ \cup {"auth-user-pass"}]
          [] d[1] \in {"ca", "cert", "key"} /\ v # "" ->
               [acc EXCEPT !.data = Keep({d[1]}), !.have = @ \cup {d[1]}]
          [] d[1] = "pkcs12" /\ v # "" ->
               [acc EXCEPT !.data = Keep({"ca", "cert", "key"}),
                           !.have = @ \cup {"ca", "cert", "key"}]
          [] d[1] = "secret" /\ v # "" ->
               [acc EXCEPT !.data = IF Arg1(d) = "" THEN Keep({"static-key"})
                                    ELSE With(Keep({"static-key"}),
                                              "static-key-direction", Arg1(d)),
                           !.have = @ \cup {"secret"}]
          [] d[1] = "tls-auth" ->
               [acc EXCEPT !.data = IF v = "" THEN @
                                    ELSE IF Arg1(d) = "" THEN Keep({"ta"})
                                    ELSE With(Keep({"ta"}), "ta-dir", Arg1(d)),
                           !.have = @ \cup {"tls-auth"}]
          [] d[1] = "key-direction" /\ v # "" -> [acc EXCEPT !.keydir = v]
          [] IsBlob(d) /\ v \in {"ca", "cert", "key", "secret"} ->
               [acc EXCEPT !.have = @ \cup {v}]
          [] OTHER -> acc

(* The rest of the tunnel's options that are not plain copies.             *)
ImportTunnel(acc, d) ==
    LET v == Arg0(d)
        Set(k, x) == [acc EXCEPT !.data = With(@, k, x)]
    IN  CASE d[1] = "proto" /\ v \notin UdpProtos -> Set("proto-tcp", "yes")
          [] d[1] = "remote" ->
               [acc EXCEPT !.remotes = Append(@, RemoteEntry(d))]
          [] d[1] = "route" -> [acc EXCEPT !.routes = Append(@, d)]
          [] d[1] \in {"mssfix", "compress"} -> Set(d[1], IF v = "" THEN "yes" ELSE v)
          [] d[1] = "comp-lzo" -> Set("comp-lzo", IF v = "no" THEN "no-by-default"
                                                  ELSE IF v = "" THEN "yes" ELSE v)
          [] d[1] = "tls-version-min" ->
               [acc EXCEPT !.data =
                  LET withv == IF v = "" THEN @ ELSE With(@, "tls-version-min", v)
                  IN  IF Arg1(d) = "or-highest"
                      THEN With(withv, "tls-version-min-or-highest", "yes") ELSE withv]
          [] d[1] = "verify-x509-name" ->
               Set("verify-x509-name", CHOOSE x \in DOMAIN X509Names :
                                         X509Names[x] = <<Arg1(d), v>>)
          [] d[1] = "crl-verify" /\ v # "" ->
               Set(IF Arg1(d) = "dir" THEN "crl-verify-dir" ELSE "crl-verify-file", v)
          [] d[1] = "ifconfig" /\ Len(d) >= 3 ->
               [acc EXCEPT !.data = With(With(@, "local-ip", v), "remote-ip", d[3])]
          [] d[1] = "keepalive" /\ Len(d) >= 3 ->
               [acc EXCEPT !.data = With(With(@, "ping", v), "ping-restart", d[3])]
          [] OTHER -> acc

(* http-proxy and socks-proxy: type, server, port, and the file that names *)
(* the proxy's user (resolved by the bridge).                              *)
ImportProxy(acc, d) ==
    IF Arg0(d) = "" THEN acc
    ELSE LET typed == With(With(acc.data, "proxy-type",
                                IF d[1] = "http-proxy" THEN "http" ELSE "socks"),
                           "proxy-server", Arg0(d))
             ported == IF Arg1(d) = "" THEN typed ELSE With(typed, "proxy-port", Arg1(d))
         IN  [acc EXCEPT !.data =
                IF d[1] = "http-proxy" /\ Len(d) >= 4
                THEN With(ported, "http-proxy-auth-file", d[4]) ELSE ported]

ImportDirective(acc, d) ==
    IF d[1] \in DOMAIN Copied
    THEN IF Arg0(d) = "" THEN acc
         ELSE [acc EXCEPT !.data = With(@, Copied[d[1]], Arg0(d))]
    ELSE IF d[1] \in Flags THEN [acc EXCEPT !.data = With(@, d[1], "yes")]
    ELSE IF d[1] \in {"http-proxy", "socks-proxy"} THEN ImportProxy(acc, d)
    ELSE ImportCredential(ImportTunnel(acc, d), d)

(* A standalone key-direction goes to tls-auth or else to the static key,  *)
(* unless that one has a direction already.                                *)
ResolveKeyDirection(acc) ==
    LET k == IF "tls-auth" \in acc.have THEN "ta-dir" ELSE "static-key-direction"
    IN  IF acc.keydir # "" /\ {"tls-auth", "secret"} \cap acc.have # {}
             /\ ~Has(acc.data, k)
        THEN With(acc.data, k, acc.keydir) ELSE acc.data

(* Variant of InferContype: a certificate and a key mean "tls" before the   *)
(* password is looked at.                                                  *)
InferCertFirst(have) ==
    IF "secret" \in have THEN "static-key"
    ELSE IF {"cert", "key"} \subseteq have THEN "tls"
    ELSE IF "auth-user-pass" \in have THEN "password"
    ELSE "tls"

InferContype(have) ==
    IF "secret" \in have THEN "static-key"
    ELSE IF {"cert", "key", "auth-user-pass"} \subseteq have THEN "password-tls"
    ELSE IF {"cert", "key"} \subseteq have THEN "tls"
    ELSE IF "auth-user-pass" \in have THEN "password"
    ELSE "tls"

(* The values joined from several lines.                                   *)
Joined(table, parts) == CHOOSE v \in DOMAIN table : table[v] = parts

PlainLines(routes) ==
    [i \in DOMAIN routes |-> [control |-> FALSE, words |-> routes[i], plain |-> TRUE]]

as_nm_data(text) ==
    LET acc == FoldLeft(ImportDirective, Start, text)
        d0 == ResolveKeyDirection(acc)
        d1 == IF acc.remotes = <<>> THEN d0
              ELSE With(d0, "remote", Joined(Remotes, acc.remotes))
        d2 == IF acc.routes = <<>> THEN d1
              ELSE With(d1, "nm-openvpn3-extra-routes",
                        Joined(RouteLines, PlainLines(acc.routes)))
    IN  With(d2, "connection-type", InferContype(acc.have))

-----------------------------------------------------------------------------
(* Some value of the table reads as these parts.                           *)
Spelled(table, parts) == \E v \in DOMAIN table : table[v] = parts

(* The words the emitters write are strings; and what they write for a     *)
(* value of vpn.data, an import can put back together: for any list of     *)
(* servers or routes there is a value that spells it.                      *)
ASSUME ImportAssumption ==
    /\ {"client", "remote-random", "remote-random-hostname", "allow-pull-fqdn", "tun-ipv6",
        "push-peer-info", "pkcs12", "ca", "cert", "key", "auth-user-pass", "secret",
        "reneg-sec", "max-routes", "cipher", "data-ciphers", "data-ciphers-fallback",
        "tls-cipher", "keysize", "allow-compression", "auth", "mtu-disc", "tun-mtu",
        "connect-timeout", "fragment", "port", "ping", "ping-exit", "ping-restart",
        "comp-lzo", "no", "no-by-default", "compress", "float", "mssfix", "ifconfig",
        "verify-x509-name", "tls-auth", "tls-version-min", "or-highest", "tls-crypt",
        "tls-crypt-v2", "remote-cert-tls", "ns-cert-type", "tls-remote", "tls-version-max",
        "extra-certs", "crl-verify", "dir", "dev", "tap", "tun", "proto", "tcp", "udp",
        "dev-type", "http-proxy", "http-proxy-retry", "8080", "socks-proxy",
        "socks-proxy-retry", "1080", "nobind", "auth-nocache", "script-security", "2",
        "persist-key", "persist-tun", "user", "group", "nm-openvpn3", "remote", "1194",
        "http", "socks", "password", "password-tls", "static-key"} \subseteq Strings
    /\ \A v \in DOMAIN Remotes : Remotes[v] # <<>> =>
         Spelled(Remotes, [i \in DOMAIN Remotes[v] |-> RemoteEntry(BuildRemote(Remotes[v][i]))])
    /\ \A v \in DOMAIN RouteLines :
         LET all == RouteLines[v]
             kept == InOrder([i \in {j \in DOMAIN all : ExportSafeRoute(all[j])
                                                        /\ all[j].words[1] = "route"} |->
                                all[i].words])
         IN  kept # <<>> => Spelled(RouteLines, PlainLines(kept))
=============================================================================
