--------------------------- MODULE ProfileProofs ---------------------------
(***************************************************************************)
(* The two emitters agree on every dictionary on which they can: section   *)
(* by section of the profile, for all values.                              *)
(***************************************************************************)
EXTENDS ProfileText, SequenceTheorems, TLAPS

-----------------------------------------------------------------------------
(* The directives are put together in different ways.                      *)

LEMMA Joined2 == ASSUME NEW a, NEW b PROVE <<a>> \o <<b>> = <<a, b>>
<1> DEFINE S == {a, b}
           w == <<a>> \o <<b>>
<1>1. <<a>> \in Seq(S) /\ <<b>> \in Seq(S) /\ <<a, b>> \in Seq(S) OBVIOUS
<1>2. Len(w) = 2 /\ w[1] = a /\ w[2] = b /\ w \in Seq(S) BY <1>1
<1> HIDE DEF S, w
<1>3. w = <<a, b>> BY <1>1, <1>2, SeqEqual
<1> QED BY <1>3 DEF w

LEMMA Joined3 == ASSUME NEW a, NEW b, NEW c PROVE <<a, b>> \o <<c>> = <<a, b, c>>
<1> DEFINE S == {a, b, c}
           w == <<a, b>> \o <<c>>
<1>1. <<a, b>> \in Seq(S) /\ <<c>> \in Seq(S) /\ <<a, b, c>> \in Seq(S) OBVIOUS
<1>2. Len(w) = 3 /\ w[1] = a /\ w[2] = b /\ w[3] = c /\ w \in Seq(S) BY <1>1
<1> HIDE DEF S, w
<1>3. w = <<a, b, c>> BY <1>1, <1>2, SeqEqual
<1> QED BY <1>3 DEF w

LEMMA JoinedNothing == ASSUME NEW a, NEW b PROVE <<a, b>> \o <<>> = <<a, b>>
OBVIOUS

-----------------------------------------------------------------------------
LEMMA SameRemotes ==
    ASSUME NEW data, Has(data, "remote")
    PROVE  BuildRemotes(data) = ExportRemotes(data)
<1> DEFINE Line(p) == <<"remote", p[1]>>
                        \o (IF p[2] # "" THEN <<p[2]>>
                            ELSE IF p[3] # "" THEN <<"1194">> ELSE <<>>)
                        \o (IF p[3] # "" THEN <<p[3]>> ELSE <<>>)
<1>1. ASSUME NEW e PROVE BuildRemote(e) = Line(split_remote(e))
  <2> DEFINE port == IF 1 \in DOMAIN e.tail THEN e.tail[1] ELSE ""
             proto == IF 2 \in DOMAIN e.tail THEN e.tail[2] ELSE ""
  <2>1. split_remote(e) = <<e.host, port, proto>> BY DEF split_remote
  <2>2. parse_remote(e).host = e.host /\ parse_remote(e).port = port
          /\ parse_remote(e).proto = proto
    BY DEF parse_remote
  <2> HIDE DEF port, proto
  <2>3. BuildRemote(e) =
          <<"remote", e.host>>
            \o (IF (IF port = "" /\ proto # "" THEN "1194" ELSE port) = "" THEN <<>>
                ELSE <<IF port = "" /\ proto # "" THEN "1194" ELSE port>>)
            \o (IF proto = "" THEN <<>> ELSE <<proto>>)
    BY <2>2 DEF BuildRemote
  <2>4. Line(split_remote(e)) =
          <<"remote", e.host>>
            \o (IF port # "" THEN <<port>> ELSE IF proto # "" THEN <<"1194">> ELSE <<>>)
            \o (IF proto # "" THEN <<proto>> ELSE <<>>)
    <3>1. split_remote(e)[1] = e.host /\ split_remote(e)[2] = port
            /\ split_remote(e)[3] = proto
      BY <2>1
    <3> QED BY <3>1, Zenon
  <2>5. (IF (IF port = "" /\ proto # "" THEN "1194" ELSE port) = "" THEN <<>>
         ELSE <<IF port = "" /\ proto # "" THEN "1194" ELSE port>>)
        = (IF port # "" THEN <<port>> ELSE IF proto # "" THEN <<"1194">> ELSE <<>>)
    <3>1. CASE port # "" BY <3>1
    <3>2. CASE port = "" /\ proto # "" BY <3>2, "1194" # ""
    <3>3. CASE port = "" /\ proto = "" BY <3>3
    <3> QED BY <3>1, <3>2, <3>3
  <2>6. (IF proto = "" THEN <<>> ELSE <<proto>>) = (IF proto # "" THEN <<proto>> ELSE <<>>)
    OBVIOUS
  <2> QED BY <2>3, <2>4, <2>5, <2>6
<1> QED BY <1>1 DEF BuildRemotes, ExportRemotes

LEMMA SameRoutes == ASSUME NEW data PROVE BuildRoutes(data) = ExportRoutes(data)
<1>1. ASSUME NEW l PROVE is_safe_route_line(l) <=> ExportSafeRoute(l)
  BY DEF is_safe_route_line, ExportSafeRoute
<1> QED BY <1>1 DEF BuildRoutes, ExportRoutes

LEMMA SamePairs ==
    ASSUME NEW data, Comparable(data)
    PROVE  line_str(data, BuildStrings) \cup line_int(data, BuildNumbers)
             = ExportPairs(data, pairs_str)
<1>1. pairs_str = BuildStrings \cup BuildNumbers
  BY DEF pairs_str, BuildStrings, BuildNumbers
<1>2. \A q \in BuildNumbers : Has(data, q[1]) => data[q[1]] \in Ints
  BY DEF Comparable, NumericKeys
<1>3. line_int(data, BuildNumbers) = line_str(data, BuildNumbers)
  BY <1>2 DEF line_int, line_str
<1>4. ExportPairs(data, BuildStrings \cup BuildNumbers)
        = line_str(data, BuildStrings) \cup line_str(data, BuildNumbers)
  BY DEF ExportPairs, line_str
<1> QED BY <1>1, <1>3, <1>4

LEMMA SameLines ==
    ASSUME NEW data, NEW pairs PROVE line_str(data, pairs) = ExportPairs(data, pairs)
BY DEF line_str, ExportPairs

LEMMA OneLine ==
    ASSUME NEW data, NEW k, NEW n
    PROVE  ExportPairs(data, {<<k, n>>}) = IF Has(data, k) THEN {<<n, data[k]>>} ELSE {}
<1>1. <<k, n>>[1] = k /\ <<k, n>>[2] = n OBVIOUS
<1>2. CASE Has(data, k)
  <2>1. {q \in {<<k, n>>} : Has(data, q[1])} = {<<k, n>>} BY <1>1, <1>2
  <2>2. {<<p[2], data[p[1]]>> : p \in {<<k, n>>}} = {<<n, data[k]>>} BY <1>1
  <2> QED BY <1>2, <2>1, <2>2 DEF ExportPairs
<1>3. CASE ~Has(data, k)
  <2>1. {q \in {<<k, n>>} : Has(data, q[1])} = {} BY <1>1, <1>3
  <2> QED BY <1>3, <2>1 DEF ExportPairs
<1> QED BY <1>2, <1>3

LEMMA SameCompression ==
    ASSUME NEW data, Comparable(data)
    PROVE  ExportTunnel(data) =
             BuildCompression(data) \cup BuildMssfix(data)
               \cup (IF Has(data, "local-ip") /\ Has(data, "remote-ip")
                     THEN {<<"ifconfig", data["local-ip"], data["remote-ip"]>>} ELSE {})
<1>1. (IF Yes(data, "compress") THEN {<<"compress">>}
       ELSE ExportPairs(data, {<<"compress", "compress">>}))
      = (IF Has(data, "compress")
         THEN {IF data["compress"] = "yes" THEN <<"compress">>
               ELSE <<"compress", data["compress"]>>} ELSE {})
  BY OneLine DEF Yes, Is, Has
<1>2. (IF Yes(data, "mssfix") THEN {<<"mssfix">>}
       ELSE ExportPairs(data, {<<"mssfix", "mssfix">>}))
      = (IF Yes(data, "mssfix") THEN {<<"mssfix">>}
         ELSE IF Has(data, "mssfix") /\ data["mssfix"] \in Ints
         THEN {<<"mssfix", Decimal[Number[data["mssfix"]]]>>} ELSE {})
  <2>1. CASE Yes(data, "mssfix") BY <2>1
  <2>2. CASE ~Yes(data, "mssfix") /\ Has(data, "mssfix")
    <3>1. data["mssfix"] \in Ints /\ Decimal[Number[data["mssfix"]]] = data["mssfix"]
      BY <2>2 DEF Comparable, Canonical
    <3> QED BY <2>2, <3>1, OneLine
  <2>3. CASE ~Yes(data, "mssfix") /\ ~Has(data, "mssfix") BY <2>3, OneLine
  <2> QED BY <2>1, <2>2, <2>3
<1> QED BY <1>1, <1>2 DEF ExportTunnel, BuildCompression, BuildMssfix

LEMMA SameX509 ==
    ASSUME NEW v
    PROVE  BuildX509(v) = <<"verify-x509-name", X509Names[v][2]>>
                            \o (IF X509Names[v][1] = "" THEN <<>> ELSE <<X509Names[v][1]>>)
BY Joined3, JoinedNothing DEF BuildX509

LEMMA SameTls ==
    ASSUME NEW data
    PROVE  ExportTls(data) =
             BuildTls(data)
               \cup (IF ~IsTlsLike(data) THEN {}
                     ELSE IF Has(data, "crl-verify-file")
                     THEN {<<"crl-verify", data["crl-verify-file"]>>}
                     ELSE IF Has(data, "crl-verify-dir")
                     THEN {<<"crl-verify", data["crl-verify-dir"], "dir">>} ELSE {})
<1> DEFINE P == {<<k, k>> : k \in {"remote-cert-tls", "ns-cert-type", "tls-remote", "tls-crypt",
                                   "tls-crypt-v2", "tls-version-max", "extra-certs"}}
           Q == {<<k, k>> : k \in {"tls-crypt", "tls-crypt-v2", "remote-cert-tls",
                                   "ns-cert-type", "tls-remote", "tls-version-max",
                                   "extra-certs"}}
<1>1. P = Q
  <2>1. {"remote-cert-tls", "ns-cert-type", "tls-remote", "tls-crypt", "tls-crypt-v2",
         "tls-version-max", "extra-certs"}
        = {"tls-crypt", "tls-crypt-v2", "remote-cert-tls", "ns-cert-type", "tls-remote",
           "tls-version-max", "extra-certs"}
    OBVIOUS
  <2> QED BY <2>1
<1>2. line_str(data, P) = ExportPairs(data, Q) BY <1>1, SameLines
<1>3. CASE ~IsTlsLike(data) BY <1>3 DEF ExportTls, BuildTls
<1>4. CASE IsTlsLike(data)
  BY <1>2, <1>4, SameX509 DEF ExportTls, BuildTls
<1> QED BY <1>3, <1>4

LEMMA SameTail ==
    ASSUME NEW data
    PROVE  ExportTail(data) =
             {<<"dev", IF Has(data, "dev") THEN data["dev"]
                       ELSE IF Has(data, "dev-type") THEN data["dev-type"]
                       ELSE IF Yes(data, "tap-dev") THEN "tap" ELSE "tun">>,
              <<"proto", IF Yes(data, "proto-tcp") THEN "tcp" ELSE "udp">>}
             \cup line_str(data, {<<"dev-type", "dev-type">>})
             \cup BuildProxy(data) \cup BuildTail
<1>1. line_str(data, {<<"dev-type", "dev-type">>})
        = ExportPairs(data, {<<"dev-type", "dev-type">>})
  BY SameLines
<1>2. "http-proxy" # "socks-proxy" OBVIOUS
<1> QED BY <1>1, <1>2 DEF ExportTail, BuildProxy, BuildTail

(* ca, cert and key, or the bundle: on a comparable dictionary the         *)
(* emitters fold them on the same condition.                               *)
LEMMA SameFiles ==
    ASSUME NEW data, Comparable(data)
    PROVE  LET collapse == /\ NeedsUserCert(data) /\ Has(data, "cert") /\ Has(data, "key")
                           /\ data["cert"] = data["key"] /\ data["cert"] \in Pkcs12
               ca   == IF IsTlsLike(data) THEN Arg(data, "ca") ELSE <<>>
               cert == IF NeedsUserCert(data) THEN Arg(data, "cert") ELSE <<>>
               key  == IF NeedsUserCert(data) THEN Arg(data, "key") ELSE <<>>
               fold == ca # <<>> /\ ca = cert /\ cert = key /\ cert[1] \in Pkcs12
           IN  (IF collapse THEN {<<"pkcs12", data["cert"]>>}
                ELSE {<<k, data[k]>> : k \in
                        {x \in {"ca", "cert", "key"} :
                           /\ Has(data, x)
                           /\ IF x = "ca" THEN IsTlsLike(data) ELSE NeedsUserCert(data)}})
               = (IF fold THEN {<<"pkcs12">> \o cert}
                  ELSE (IF ca # <<>> THEN {<<"ca">> \o ca} ELSE {})
                       \cup (IF cert # <<>> THEN {<<"cert">> \o cert} ELSE {})
                       \cup (IF key # <<>> THEN {<<"key">> \o key} ELSE {}))
<1> DEFINE collapse == /\ NeedsUserCert(data) /\ Has(data, "cert") /\ Has(data, "key")
                       /\ data["cert"] = data["key"] /\ data["cert"] \in Pkcs12
           ca   == IF IsTlsLike(data) THEN Arg(data, "ca") ELSE <<>>
           cert == IF NeedsUserCert(data) THEN Arg(data, "cert") ELSE <<>>
           key  == IF NeedsUserCert(data) THEN Arg(data, "key") ELSE <<>>
           fold == ca # <<>> /\ ca = cert /\ cert = key /\ cert[1] \in Pkcs12
           own == {x \in {"ca", "cert", "key"} :
                     /\ Has(data, x)
                     /\ IF x = "ca" THEN IsTlsLike(data) ELSE NeedsUserCert(data)}
<1>1. NeedsUserCert(data) => IsTlsLike(data) BY DEF NeedsUserCert, IsTlsLike
<1>2. \A k : Arg(data, k) = (IF Has(data, k) THEN <<data[k]>> ELSE <<>>) BY DEF Arg
<1>3. \A v : <<v>> # <<>> /\ <<v>>[1] = v OBVIOUS
<1>4. collapse <=> fold
  <2>1. CASE NeedsUserCert(data)
    <3>1. collapse => fold
      <4>1. SUFFICES ASSUME collapse PROVE fold OBVIOUS
      <4>2. Has(data, "ca") /\ data["ca"] = data["cert"]
        BY <4>1 DEF Comparable, Is, Has
      <4> QED BY <1>1, <1>2, <1>3, <2>1, <4>1, <4>2
    <3>2. fold => collapse BY <1>1, <1>2, <1>3, <2>1
    <3> QED BY <3>1, <3>2
  <2>2. CASE ~NeedsUserCert(data) BY <2>2
  <2> QED BY <2>1, <2>2
<1>5. CASE collapse
  <2>1. cert = <<data["cert"]>> BY <1>2, <1>5
  <2>2. <<"pkcs12">> \o cert = <<"pkcs12", data["cert"]>> BY <2>1, Joined2
  <2> QED BY <1>4, <1>5, <2>2
<1>6. CASE ~collapse
  <2>1. /\ ca # <<>> <=> "ca" \in own
        /\ cert # <<>> <=> "cert" \in own
        /\ key # <<>> <=> "key" \in own
    BY <1>2, <1>3
  <2>2. /\ ca # <<>> => <<"ca">> \o ca = <<"ca", data["ca"]>>
        /\ cert # <<>> => <<"cert">> \o cert = <<"cert", data["cert"]>>
        /\ key # <<>> => <<"key">> \o key = <<"key", data["key"]>>
    BY <1>2, Joined2
  <2>3. own \subseteq {"ca", "cert", "key"} OBVIOUS
  <2> HIDE DEF ca, cert, key, own
  <2>4. {<<k, data[k]>> : k \in own} =
          (IF "ca" \in own THEN {<<"ca", data["ca"]>>} ELSE {})
          \cup (IF "cert" \in own THEN {<<"cert", data["cert"]>>} ELSE {})
          \cup (IF "key" \in own THEN {<<"key", data["key"]>>} ELSE {})
    BY <2>3
  <2>5. {<<k, data[k]>> : k \in own} =
          (IF ca # <<>> THEN {<<"ca">> \o ca} ELSE {})
          \cup (IF cert # <<>> THEN {<<"cert">> \o cert} ELSE {})
          \cup (IF key # <<>> THEN {<<"key">> \o key} ELSE {})
    BY <2>1, <2>2, <2>4
  <2> QED BY <1>4, <1>6, <2>5 DEF ca, cert, key, own
<1> QED BY <1>5, <1>6

(* The static key's directive, put together from one or from two pieces.   *)
LEMMA SameSecret ==
    ASSUME NEW data, Has(data, "static-key")
    PROVE  <<"secret">> \o Arg(data, "static-key") \o Arg(data, "static-key-direction")
             = <<"secret", data["static-key"]>> \o Arg(data, "static-key-direction")
<1>1. Arg(data, "static-key") = <<data["static-key"]>> BY DEF Arg
<1>2. <<"secret">> \o Arg(data, "static-key") = <<"secret", data["static-key"]>>
  BY <1>1, Joined2
<1> QED BY <1>2

LEMMA SameCredentials ==
    ASSUME NEW data, Comparable(data)
    PROVE  ExportCredentials(data) = BuildFlags(data) \cup BuildCredentials(data)
<1> DEFINE secretB == IF IsStaticKey(data) /\ Has(data, "static-key")
                      THEN {<<"secret", data["static-key"]>>
                              \o Arg(data, "static-key-direction")} ELSE {}
           secretE == IF IsStaticKey(data) /\ Has(data, "static-key")
                      THEN {<<"secret">> \o Arg(data, "static-key")
                              \o Arg(data, "static-key-direction")} ELSE {}
<1>1. secretB = secretE BY SameSecret
<1> HIDE DEF secretB, secretE
<1> DEFINE fB == IF (/\ NeedsUserCert(data) /\ Has(data, "cert") /\ Has(data, "key")
                     /\ data["cert"] = data["key"] /\ data["cert"] \in Pkcs12)
                 THEN {<<"pkcs12", data["cert"]>>}
                 ELSE {<<k, data[k]>> : k \in
                        {x \in {"ca", "cert", "key"} :
                           /\ Has(data, x)
                           /\ IF x = "ca" THEN IsTlsLike(data) ELSE NeedsUserCert(data)}}
           ca   == IF IsTlsLike(data) THEN Arg(data, "ca") ELSE <<>>
           cert == IF NeedsUserCert(data) THEN Arg(data, "cert") ELSE <<>>
           key  == IF NeedsUserCert(data) THEN Arg(data, "key") ELSE <<>>
           fE == IF ca # <<>> /\ ca = cert /\ cert = key /\ cert[1] \in Pkcs12
                 THEN {<<"pkcs12">> \o cert}
                 ELSE (IF ca # <<>> THEN {<<"ca">> \o ca} ELSE {})
                       \cup (IF cert # <<>> THEN {<<"cert">> \o cert} ELSE {})
                       \cup (IF key # <<>> THEN {<<"key">> \o key} ELSE {})
<1>2. fB = fE BY SameFiles, Zenon
<1> HIDE DEF fB, fE
<1> DEFINE c == IF IsTlsLike(data) THEN {<<"client">>} ELSE {}
           u == IF IsPasswordLike(data) THEN {<<"auth-user-pass">>} ELSE {}
<1>3. BuildCredentials(data) = c \cup fB \cup u \cup secretB
  BY Zenon DEF BuildCredentials, fB, secretB
<1>4. BuildFlags(data) = {<<f>> : f \in
          {g \in {"remote-random", "remote-random-hostname", "allow-pull-fqdn",
                  "tun-ipv6", "push-peer-info"} : Yes(data, g)}}
  BY Zenon DEF BuildFlags
<1>5. ExportCredentials(data) = BuildFlags(data) \cup c \cup fE \cup u \cup secretE
  BY <1>4, Zenon DEF ExportCredentials, fE, secretE
<1> HIDE DEF c, u
<1> QED BY <1>1, <1>2, <1>3, <1>5

(* The builder of the service and the exporter of the editor plugin, kept  *)
(* apart in two crates, describe the same tunnel whatever vpn.data says,   *)
(* as long as its numbers are integers, mssfix is spelt the way it is      *)
(* printed and a PKCS#12 bundle is given for all three files.              *)
THEOREM EmittersAlwaysAgree ==
    ASSUME NEW data, Comparable(data)
    PROVE  SameProfile(data)
<1> DEFINE crl == IF ~IsTlsLike(data) THEN {}
                  ELSE IF Has(data, "crl-verify-file")
                  THEN {<<"crl-verify", data["crl-verify-file"]>>}
                  ELSE IF Has(data, "crl-verify-dir")
                  THEN {<<"crl-verify", data["crl-verify-dir"], "dir">>} ELSE {}
           dev == {<<"dev", IF Has(data, "dev") THEN data["dev"]
                            ELSE IF Has(data, "dev-type") THEN data["dev-type"]
                            ELSE IF Yes(data, "tap-dev") THEN "tap" ELSE "tun">>,
                   <<"proto", IF Yes(data, "proto-tcp") THEN "tcp" ELSE "udp">>}
           addr == IF Has(data, "local-ip") /\ Has(data, "remote-ip")
                   THEN {<<"ifconfig", data["local-ip"], data["remote-ip"]>>} ELSE {}
           type == line_str(data, {<<"dev-type", "dev-type">>})
<1>1. BuildDevice(data) = crl \cup dev \cup type \cup addr BY Zenon DEF BuildDevice
<1>2. ExportTls(data) = BuildTls(data) \cup crl BY SameTls, Zenon
<1>3. ExportTail(data) = dev \cup type \cup BuildProxy(data) \cup BuildTail
  BY SameTail, Zenon
<1>4. ExportTunnel(data) = BuildCompression(data) \cup BuildMssfix(data) \cup addr
  BY SameCompression, Zenon
<1> HIDE DEF crl, dev, addr, type
<1>5. from_nm_data(data).lines = build_profile_string(data).lines
  BY <1>1, <1>2, <1>3, <1>4, SamePairs, SameCredentials
  DEF from_nm_data, build_profile_string, Profile
<1>6. from_nm_data(data).remotes = build_profile_string(data).remotes
  BY SameRemotes DEF Comparable, from_nm_data, build_profile_string, Profile
<1>7. from_nm_data(data).routes = build_profile_string(data).routes
  BY SameRoutes DEF from_nm_data, build_profile_string, Profile
<1> QED BY <1>5, <1>6, <1>7 DEF SameProfile, from_nm_data, build_profile_string, Profile
=============================================================================
