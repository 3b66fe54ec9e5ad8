---------------------------- MODULE ProfileText -----------------------------
(***************************************************************************)
(* The two emitters that turn vpn.data into an OpenVPN profile:            *)
(*   build_profile_string   (service, build_profile.rs): what is connected *)
(*   from_nm_data           (editor plugin, import_export.rs): what is     *)
(*                          exported                                       *)
(* They are separate code in separate crates ("the two MUST stay in        *)
(* agreement") and are translated separately here; only the dictionary     *)
(* access is shared.                                                       *)
(*                                                                         *)
(* A directive is a sequence <<name, arg, ...>>.  A profile keeps the      *)
(* `remote' lines in their order and the route lines under the numbers     *)
(* they had among the lines of vpn.data; every other directive occurs      *)
(* once, in an order that carries no meaning, so the rest is a set.        *)
(***************************************************************************)
EXTENDS VpnData

Profile(remotes, routes, lines) ==
    [remotes |-> remotes, routes |-> routes, lines |-> lines]

-----------------------------------------------------------------------------
(* build_profile.rs                                                        *)

(* parse_remote on one entry host[:port[:proto]]: what follows the host    *)
(* splits into a port and a protocol, an empty one counts as absent.       *)
parse_remote(e) ==
    [host  |-> e.host,
     port  |-> IF 1 \in DOMAIN e.tail THEN e.tail[1] ELSE "",
     proto |-> IF 2 \in DOMAIN e.tail THEN e.tail[2] ELSE ""]

(* The remote line of an entry: a protocol without a port brings 1194.     *)
BuildRemote(e) ==
    LET r == parse_remote(e)
        port == IF r.port = "" /\ r.proto # "" THEN "1194" ELSE r.port
    IN  <<"remote", r.host>>
          \o (IF port = "" THEN <<>> ELSE <<port>>)
          \o (IF r.proto = "" THEN <<>> ELSE <<r.proto>>)

BuildRemotes(data) ==
    [i \in DOMAIN Remotes[data["remote"]] |-> BuildRemote(Remotes[data["remote"]][i])]

BuildFlags(data) ==
    {<<f>> : f \in {g \in {"remote-random", "remote-random-hostname",
                           "allow-pull-fqdn", "tun-ipv6", "push-peer-info"} :
                      Yes(data, g)}}

(* The credentials: one pkcs12 line when cert and key are the same bundle, *)
(* otherwise ca, cert and key as far as the connection type uses them.     *)
BuildCredentials(data) ==
    LET collapse == /\ NeedsUserCert(data) /\ Has(data, "cert") /\ Has(data, "key")
                    /\ data["cert"] = data["key"] /\ data["cert"] \in Pkcs12
    IN  (IF IsTlsLike(data) THEN {<<"client">>} ELSE {})
        \cup (IF collapse THEN {<<"pkcs12", data["cert"]>>}
              ELSE {<<k, data[k]>> : k \in
                      {x \in {"ca", "cert", "key"} :
                         /\ Has(data, x)
                         /\ IF x = "ca" THEN IsTlsLike(data) ELSE NeedsUserCert(data)}})
        \cup (IF IsPasswordLike(data) THEN {<<"auth-user-pass">>} ELSE {})
        \cup (IF IsStaticKey(data) /\ Has(data, "static-key")
              THEN {<<"secret", data["static-key"]>> \o Arg(data, "static-key-direction")}
              ELSE {})

(* line_str and line_int over their <<key, directive>> pairs: line_int     *)
(* skips what does not parse as an integer.                                *)
line_str(data, pairs) ==
    {<<p[2], data[p[1]]>> : p \in {q \in pairs : Has(data, q[1])}}

line_int(data, pairs) ==
    {<<p[2], data[p[1]]>> :
        p \in {q \in pairs : Has(data, q[1]) /\ data[q[1]] \in Ints}}

BuildStrings ==
    {<<"cipher", "cipher">>, <<"data-ciphers", "data-ciphers">>,
     <<"data-ciphers-fallback", "data-ciphers-fallback">>,
     <<"tls-cipher", "tls-cipher">>, <<"auth", "auth">>,
     <<"allow-compression", "allow-compression">>, <<"mtu-disc", "mtu-disc">>}

BuildNumbers ==
    {<<"reneg-seconds", "reneg-sec">>, <<"max-routes", "max-routes">>,
     <<"keysize", "keysize">>, <<"tunnel-mtu", "tun-mtu">>,
     <<"connect-timeout", "connect-timeout">>, <<"fragment-size", "fragment">>,
     <<"port", "port">>, <<"ping", "ping">>, <<"ping-exit", "ping-exit">>,
     <<"ping-restart", "ping-restart">>}

(* comp-lzo and compress, unless allow-compression is "no"; mssfix, whose  *)
(* number is printed again; float.                                         *)
BuildCompression(data) ==
    IF Is(data, "allow-compression", "no") THEN {}
    ELSE (IF Has(data, "comp-lzo")
          THEN {<<"comp-lzo", IF data["comp-lzo"] = "no-by-default" THEN "no"
                              ELSE data["comp-lzo"]>>} ELSE {})
         \cup (IF Has(data, "compress")
               THEN {IF data["compress"] = "yes" THEN <<"compress">>
                     ELSE <<"compress", data["compress"]>>} ELSE {})

BuildMssfix(data) ==
    (IF Yes(data, "float") THEN {<<"float">>} ELSE {})
    \cup (IF Yes(data, "mssfix") THEN {<<"mssfix">>}
          ELSE IF Has(data, "mssfix") /\ data["mssfix"] \in Ints
          THEN {<<"mssfix", Decimal[Number[data["mssfix"]]]>>} ELSE {})

(* Certificate revocation, the device and the transport protocol, static   *)
(* addresses: the last unconditional part before the routes.               *)
BuildDevice(data) ==
    (IF ~IsTlsLike(data) THEN {}
     ELSE IF Has(data, "crl-verify-file")
     THEN {<<"crl-verify", data["crl-verify-file"]>>}
     ELSE IF Has(data, "crl-verify-dir")
     THEN {<<"crl-verify", data["crl-verify-dir"], "dir">>} ELSE {})
    \cup {<<"dev", IF Has(data, "dev") THEN data["dev"]
                   ELSE IF Has(data, "dev-type") THEN data["dev-type"]
                   ELSE IF Yes(data, "tap-dev") THEN "tap" ELSE "tun">>,
          <<"proto", IF Yes(data, "proto-tcp") THEN "tcp" ELSE "udp">>}
    \cup line_str(data, {<<"dev-type", "dev-type">>})
    \cup (IF Has(data, "local-ip") /\ Has(data, "remote-ip")
          THEN {<<"ifconfig", data["local-ip"], data["remote-ip"]>>} ELSE {})

(* Variant of is_safe_route_line: control characters pass.                  *)
SafeRouteAnyChar(l) ==
    /\ l.words # <<>>
    /\ l.words[1] \in {"route", "route-ipv6", "route-gateway", "route-metric",
                       "route-delay"}
    /\ l.plain

(* is_safe_route_line: no control character, a directive of the route      *)
(* table family (never a script hook), and only address-like arguments.    *)
is_safe_route_line(l) ==
    /\ ~l.control
    /\ l.words # <<>>
    /\ l.words[1] \in {"route", "route-ipv6", "route-gateway", "route-metric",
                       "route-delay"}
    /\ l.plain

BuildRoutes(data) ==
    IF ~Has(data, "nm-openvpn3-extra-routes") THEN <<>>
    ELSE LET all == RouteLines[data["nm-openvpn3-extra-routes"]]
         IN  [i \in {j \in DOMAIN all : is_safe_route_line(all[j])} |-> all[i].words]

(* verify-x509-name takes the name first and its type, if any, second.     *)
BuildX509(v) ==
    IF X509Names[v][1] = "" THEN <<"verify-x509-name", X509Names[v][2]>>
    ELSE <<"verify-x509-name", X509Names[v][2], X509Names[v][1]>>

(* The options of the TLS control channel.                                 *)
BuildTls(data) ==
    IF ~IsTlsLike(data) THEN {}
    ELSE line_str(data, {<<k, k>> : k \in
                  {"remote-cert-tls", "ns-cert-type", "tls-remote", "tls-crypt",
                   "tls-crypt-v2", "tls-version-max", "extra-certs"}})
         \cup (IF Has(data, "verify-x509-name")
               THEN {BuildX509(data["verify-x509-name"])} ELSE {})
         \cup (IF Has(data, "ta")
               THEN {<<"tls-auth", data["ta"]>> \o Arg(data, "ta-dir")} ELSE {})
         \cup (IF Has(data, "tls-version-min")
               THEN {<<"tls-version-min", data["tls-version-min"]>>
                       \o (IF Yes(data, "tls-version-min-or-highest")
                           THEN <<"or-highest">> ELSE <<>>)} ELSE {})

(* The proxy, with the port each kind defaults to.                         *)
BuildProxy(data) ==
    LET Proxy(kind, default) ==
          {<<kind, data["proxy-server"],
             IF Has(data, "proxy-port") THEN data["proxy-port"] ELSE default>>}
            \cup (IF Yes(data, "proxy-retry")
                  THEN {<<IF kind = "http-proxy" THEN "http-proxy-retry"
                          ELSE "socks-proxy-retry">>} ELSE {})
    IN  IF ~Has(data, "proxy-server") THEN {}
        ELSE IF Is(data, "proxy-type", "http") THEN Proxy("http-proxy", "8080")
        ELSE IF Is(data, "proxy-type", "socks") THEN Proxy("socks-proxy", "1080")
        ELSE {}

(* The hard-coded end of every synthesised profile.                        *)
BuildTail ==
    {<<"nobind">>, <<"auth-nocache">>, <<"script-security", "2">>,
     <<"persist-key">>, <<"persist-tun">>,
     <<"user", "nm-openvpn3">>, <<"group", "nm-openvpn3">>}

(* build_profile_string refuses a connection without a remote.             *)
build_profile_ok(data) == Has(data, "remote")

build_profile_string(data) ==
    Profile(BuildRemotes(data),
            BuildRoutes(data),
            BuildFlags(data) \cup BuildCredentials(data)
              \cup line_str(data, BuildStrings) \cup line_int(data, BuildNumbers)
              \cup BuildCompression(data) \cup BuildMssfix(data)
              \cup BuildDevice(data) \cup BuildTls(data) \cup BuildProxy(data)
              \cup BuildTail)

(* apply_overrides: what the service sets on the imported configuration    *)
(* besides the profile.                                                    *)
OVERRIDE_BOOLS ==
    {<<"override-route-nopull", "route-nopull">>,
     <<"override-force-default-gateway", "force-default-gateway">>,
     <<"override-block-ipv6", "block-ipv6">>,
     <<"override-dns-setup-disabled", "dns-setup-disabled">>,
     <<"override-dco", "dco">>}

apply_overrides(data) ==
    {<<o[2]>> : o \in {p \in OVERRIDE_BOOLS : Yes(data, p[1])}}
    \cup (IF Has(data, "override-log-level") /\ data["override-log-level"] \in Ints
            /\ Number[data["override-log-level"]] \in 1..6
          THEN {<<"log-level", data["override-log-level"]>>} ELSE {})

-----------------------------------------------------------------------------
(* import_export.rs                                                        *)

(* split_remote: host, port and protocol of an entry, each optional after  *)
(* the host.                                                               *)
split_remote(e) ==
    LET Part(i) == IF i \in DOMAIN e.tail THEN e.tail[i] ELSE ""
    IN  <<e.host, Part(1), Part(2)>>

ExportRemotes(data) ==
    IF ~Has(data, "remote") THEN <<>>
    ELSE LET entries == Remotes[data["remote"]]
             Line(p) == <<"remote", p[1]>>
                          \o (IF p[2] # "" THEN <<p[2]>>
                              ELSE IF p[3] # "" THEN <<"1194">> ELSE <<>>)
                          \o (IF p[3] # "" THEN <<p[3]>> ELSE <<>>)
         IN  [i \in DOMAIN entries |-> Line(split_remote(entries[i]))]

(* client, the flags, ca/cert/key (one pkcs12 line when all three are the  *)
(* same bundle), auth-user-pass and the static key.                        *)
ExportCredentials(data) ==
    LET ca   == IF IsTlsLike(data) THEN Arg(data, "ca") ELSE <<>>
        cert == IF NeedsUserCert(data) THEN Arg(data, "cert") ELSE <<>>
        key  == IF NeedsUserCert(data) THEN Arg(data, "key") ELSE <<>>
        collapse == ca # <<>> /\ ca = cert /\ cert = key /\ cert[1] \in Pkcs12
    IN  {<<f>> : f \in
          {g \in {"remote-random", "remote-random-hostname", "allow-pull-fqdn",
                  "tun-ipv6", "push-peer-info"} : Yes(data, g)}}
        \cup (IF IsTlsLike(data) THEN {<<"client">>} ELSE {})
        \cup (IF collapse THEN {<<"pkcs12">> \o cert}
              ELSE (IF ca # <<>> THEN {<<"ca">> \o ca} ELSE {})
                   \cup (IF cert # <<>> THEN {<<"cert">> \o cert} ELSE {})
                   \cup (IF key # <<>> THEN {<<"key">> \o key} ELSE {}))
        \cup (IF IsPasswordLike(data) THEN {<<"auth-user-pass">>} ELSE {})
        \cup (IF IsStaticKey(data) /\ Has(data, "static-key")
              THEN {<<"secret">> \o Arg(data, "static-key")
                      \o Arg(data, "static-key-direction")} ELSE {})

(* pairs_str: <<key, directive>>, written as they stand.                   *)
pairs_str ==
    {<<"reneg-seconds", "reneg-sec">>, <<"max-routes", "max-routes">>,
     <<"cipher", "cipher">>, <<"data-ciphers", "data-ciphers">>,
     <<"data-ciphers-fallback", "data-ciphers-fallback">>,
     <<"tls-cipher", "tls-cipher">>, <<"keysize", "keysize">>,
     <<"allow-compression", "allow-compression">>, <<"auth", "auth">>,
     <<"mtu-disc", "mtu-disc">>, <<"tunnel-mtu", "tun-mtu">>,
     <<"connect-timeout", "connect-timeout">>, <<"fragment-size", "fragment">>,
     <<"port", "port">>, <<"ping", "ping">>, <<"ping-exit", "ping-exit">>,
     <<"ping-restart", "ping-restart">>}

ExportPairs(data, pairs) ==
    {<<p[2], data[p[1]]>> : p \in {q \in pairs : Has(data, q[1])}}

(* comp-lzo, compress, float, mssfix as it stands, ifconfig.               *)
ExportTunnel(data) ==
    (IF Is(data, "allow-compression", "no") THEN {}
     ELSE (IF Has(data, "comp-lzo")
           THEN {<<"comp-lzo", IF data["comp-lzo"] = "no-by-default" THEN "no"
                               ELSE data["comp-lzo"]>>} ELSE {})
          \cup (IF Yes(data, "compress") THEN {<<"compress">>}
                ELSE ExportPairs(data, {<<"compress", "compress">>})))
    \cup (IF Yes(data, "float") THEN {<<"float">>} ELSE {})
    \cup (IF Yes(data, "mssfix") THEN {<<"mssfix">>}
          ELSE ExportPairs(data, {<<"mssfix", "mssfix">>}))
    \cup (IF Has(data, "local-ip") /\ Has(data, "remote-ip")
          THEN {<<"ifconfig", data["local-ip"], data["remote-ip"]>>} ELSE {})

(* The exporter's own copy of the allow-list for preserved route lines;    *)
(* a safe line tokenises to its words.                                     *)
ExportSafeRoute(l) ==
    l.words # <<>> /\ ~l.control /\ l.plain
      /\ l.words[1] \in {"route", "route-ipv6", "route-gateway",
                         "route-metric", "route-delay"}

ExportRoutes(data) ==
    IF ~Has(data, "nm-openvpn3-extra-routes") THEN <<>>
    ELSE LET all == RouteLines[data["nm-openvpn3-extra-routes"]]
         IN  [i \in {j \in DOMAIN all : ExportSafeRoute(all[j])} |-> all[i].words]

(* The TLS block; crl-verify belongs to it here.                           *)
ExportTls(data) ==
    IF ~IsTlsLike(data) THEN {}
    ELSE (IF Has(data, "verify-x509-name")
          THEN LET x == X509Names[data["verify-x509-name"]]
               IN  {<<"verify-x509-name", x[2]>>
                      \o (IF x[1] = "" THEN <<>> ELSE <<x[1]>>)} ELSE {})
         \cup (IF Has(data, "ta")
               THEN {<<"tls-auth", data["ta"]>> \o Arg(data, "ta-dir")} ELSE {})
         \cup (IF Has(data, "tls-version-min")
               THEN {<<"tls-version-min", data["tls-version-min"]>>
                       \o (IF Yes(data, "tls-version-min-or-highest")
                           THEN <<"or-highest">> ELSE <<>>)} ELSE {})
         \cup ExportPairs(data, {<<k, k>> : k \in
                {"tls-crypt", "tls-crypt-v2", "remote-cert-tls", "ns-cert-type",
                 "tls-remote", "tls-version-max", "extra-certs"}})
         \cup (IF Has(data, "crl-verify-file")
               THEN {<<"crl-verify", data["crl-verify-file"]>>}
               ELSE IF Has(data, "crl-verify-dir")
               THEN {<<"crl-verify", data["crl-verify-dir"], "dir">>} ELSE {})

(* The device, the protocol, the proxy and the hard-coded tail.            *)
ExportTail(data) ==
    LET Proxy(kind, retry, default) ==
          {<<kind, data["proxy-server"],
             IF Has(data, "proxy-port") THEN data["proxy-port"] ELSE default>>}
            \cup (IF Yes(data, "proxy-retry") THEN {<<retry>>} ELSE {})
    IN  {<<"dev", IF Has(data, "dev") THEN data["dev"]
                  ELSE IF Has(data, "dev-type") THEN data["dev-type"]
                  ELSE IF Yes(data, "tap-dev") THEN "tap" ELSE "tun">>,
         <<"proto", IF Yes(data, "proto-tcp") THEN "tcp" ELSE "udp">>}
        \cup ExportPairs(data, {<<"dev-type", "dev-type">>})
        \cup (IF ~Has(data, "proxy-server") THEN {}
              ELSE IF Is(data, "proxy-type", "http")
              THEN Proxy("http-proxy", "http-proxy-retry", "8080")
              ELSE IF Is(data, "proxy-type", "socks")
              THEN Proxy("socks-proxy", "socks-proxy-retry", "1080") ELSE {})
        \cup {<<"nobind">>, <<"auth-nocache">>, <<"script-security", "2">>,
              <<"persist-key">>, <<"persist-tun">>,
              <<"user", "nm-openvpn3">>, <<"group", "nm-openvpn3">>}

from_nm_data(data) ==
    Profile(ExportRemotes(data),
            ExportRoutes(data),
            ExportCredentials(data) \cup ExportPairs(data, pairs_str)
              \cup ExportTunnel(data) \cup ExportTls(data) \cup ExportTail(data))

-----------------------------------------------------------------------------
(* Where the two are allowed to differ.  The exporter writes a number as   *)
(* it stands where the builder drops what is no integer (and prints the    *)
(* MSS again); and the exporter folds ca, cert and key into one pkcs12     *)
(* line only when all three agree, the builder when cert and key do.       *)
NumericKeys == {p[1] : p \in BuildNumbers}

Canonical(v) == v \in Ints /\ Decimal[Number[v]] = v

Comparable(data) ==
    /\ Has(data, "remote")
    /\ \A k \in NumericKeys : Has(data, k) => data[k] \in Ints
    /\ Has(data, "mssfix") => Yes(data, "mssfix") \/ Canonical(data["mssfix"])
    /\ NeedsUserCert(data) /\ Has(data, "cert") /\ data["cert"] \in Pkcs12
         /\ Is(data, "key", data["cert"])
       => Is(data, "ca", data["cert"])

(* The emitters say the same thing about a dictionary: the tunnel that is  *)
(* exported is the tunnel that is connected.                               *)
SameProfile(data) == build_profile_string(data) = from_nm_data(data)
=============================================================================
