----------------------------- MODULE MCSettings -----------------------------
(* Settings for TLC: the strings that occur and what the code reads in     *)
(* them, one connection per type and shape, and the changes made to it.    *)
EXTENDS Settings

MCStrings == STRING

MCNumber ==
    ("0" :> 0) @@ ("1" :> 1) @@ ("2" :> 2) @@ ("3" :> 3) @@ ("4" :> 4) @@ ("6" :> 6)
    @@ ("7" :> 7) @@ ("443" :> 443) @@ ("1194" :> 1194) @@ ("8080" :> 8080)
    @@ ("1400" :> 1400) @@ ("01400" :> 1400) @@ ("1400.5" :> 1400) @@ ("0.5" :> 0)
    @@ ("-1" :> -1) @@ ("65535" :> 65535) @@ ("70000" :> 70000)

MCFractions == {"0.5"}

MCInts == DOMAIN MCNumber \ {"1400.5", "0.5"}

MCDecimal ==
    [n \in {MCNumber[v] : v \in DOMAIN MCNumber} |->
        CHOOSE v \in MCInts \ {"01400"} : MCNumber[v] = n]

MCPkcs12 == {"/p/bundle.p12"}

MCIpv6Hosts == {"2001:db8::1"}

Entry(b, host, tail) == [bracketed |-> b, host |-> host, tail |-> tail]

MCRemotes ==
    ("gw" :> <<Entry(FALSE, "gw", <<>>)>>)
    @@ ("gw:443" :> <<Entry(FALSE, "gw", <<"443">>)>>)
    @@ ("gw::tcp" :> <<Entry(FALSE, "gw", <<"", "tcp">>)>>)
    @@ ("gw:1194:tcp" :> <<Entry(FALSE, "gw", <<"1194", "tcp">>)>>)
    @@ ("gw,[2001:db8::1]:443" :>
          <<Entry(FALSE, "gw", <<>>), Entry(TRUE, "2001:db8::1", <<"443">>)>>)
    @@ ("," :> <<>>)

MCX509Names ==
    ("CN=gw" :> <<"", "CN=gw">>) @@ ("CN=a:b" :> <<"", "CN=a:b">>)
    @@ ("name:gw" :> <<"name", "gw">>)

Route(words) == [control |-> FALSE, words |-> words, plain |-> TRUE]

MCRouteLines ==
    ("route 10.0.0.0" :> <<Route(<<"route", "10.0.0.0">>)>>)
    @@ ("route 10.0.0.0;route-metric 5" :>
          <<Route(<<"route", "10.0.0.0">>), Route(<<"route-metric", "5">>)>>)
    @@ ("route 10.0.0.0;route-up x" :>
          <<Route(<<"route", "10.0.0.0">>), Route(<<"route-up", "x">>)>>)
    @@ ("route 10.0.0.0 CR up" :>
          <<[control |-> TRUE, words |-> <<"route", "10.0.0.0", "up">>, plain |-> TRUE]>>)
    @@ ("route 'a b'" :>
          <<[control |-> FALSE, words |-> <<"route", "'a", "b'">>, plain |-> FALSE]>>)

MCKeyFiles ==
    ("/p/key.pem" :> FALSE) @@ ("/p/locked.pem" :> TRUE)
    @@ ("/c/id-key.pem" :> TRUE) @@ ("/c/id-pkcs12.pem" :> FALSE)

MCBlobPath ==
    [b \in INLINE_BLOB_NAMES |->
        CASE b = "ca" -> "/c/id-ca.pem" [] b = "cert" -> "/c/id-cert.pem"
          [] b = "key" -> "/c/id-key.pem" [] b = "pkcs12" -> "/c/id-pkcs12.pem"
          [] b = "secret" -> "/c/id-secret.pem" [] OTHER -> "/c/id-other.pem"]

-----------------------------------------------------------------------------
Items(ct) == ("connection-type" :> ct) @@ ("remote" :> "gw")

Tls == ("ca" :> "/p/ca.pem") @@ ("cert" :> "/p/cert.pem") @@ ("key" :> "/p/key.pem")

MCBases ==
    {Items("tls") @@ Tls,
     Items("password") @@ ("ca" :> "/p/ca.pem") @@ ("username" :> "u"),
     Items("password-tls") @@ Tls @@ ("username" :> "u") @@ ("proxy-type" :> "http")
       @@ ("proxy-server" :> "px") @@ ("tls-version-min" :> "1.2") @@ ("ta" :> "/p/ta.key")
       @@ ("password-flags" :> "1"),
     Items("static-key") @@ ("static-key" :> "/p/static.key") @@ ("local-ip" :> "10.0.0.2")
       @@ ("remote-cert-tls" :> "server") @@ ("crl-verify-file" :> "/p/crl.pem"),
     Items("tls") @@ ("ca" :> "/p/bundle.p12") @@ ("cert" :> "/p/bundle.p12")
       @@ ("key" :> "/p/bundle.p12") @@ ("comp-lzo" :> "no-by-default")
       @@ ("proxy-type" :> "socks"),
     Items("weird") @@ Tls,
     ("remote" :> "gw") @@ Tls,
     NoItems}

(* Items set from outside: every key some part reads, with the values that *)
(* make a difference.                                                      *)
MCItems ==
    {"connection-type"} \X {"tls", "password", "static-key"}
    \cup {"remote"} \X {"", "gw:443", "gw::tcp", "gw,[2001:db8::1]:443", ","}
    \cup {"ca", "cert", "key"} \X {"", "/p/bundle.p12"}
    \cup {<<"key", "/p/locked.pem">>, <<"static-key", "">>, <<"static-key-direction", "1">>,
          <<"username", "">>, <<"nm-openvpn3-profile", "/p/vpn.ovpn">>,
          <<"nm-openvpn3-profile", "/p/other.ovpn">>}
    \cup {"remote-random", "tun-ipv6", "float", "tap-dev", "proto-tcp", "proxy-retry",
          "tls-version-min-or-highest", "override-dco", "compress"} \X {"yes"}
    \cup {"port", "tunnel-mtu", "ping-exit", "mssfix"} \X
           {"0", "1400", "01400", "1400.5", "-1", "junk", "70000"}
    \cup {"reneg-seconds", "max-routes", "ping", "override-log-level"} \X {"0", "7", "junk"}
    \cup {<<"mssfix", "yes">>, <<"mssfix", "0.5">>, <<"compress", "lz4">>, <<"comp-lzo", "no">>,
          <<"comp-lzo", "adaptive">>, <<"allow-compression", "no">>,
          <<"cipher", "CAMELLIA-256-CBC">>, <<"auth", "SHA256">>, <<"mtu-disc", "maybe">>,
          <<"crl-verify-file", "/p/crl.pem">>, <<"crl-verify-dir", "/p/crl.d">>,
          <<"dev", "tun7">>, <<"dev-type", "tap">>, <<"remote-ip", "10.0.0.1">>,
          <<"remote-cert-tls", "server">>, <<"ta-dir", "1">>, <<"extra-certs", "/p/x.pem">>,
          <<"proxy-type", "http">>, <<"proxy-server", "px">>, <<"proxy-port", "443">>,
          <<"password-flags", "2">>, <<"password-flags", "4">>,
          <<"http-proxy-password-flags", "4">>}
    \cup {"verify-x509-name"} \X DOMAIN MCX509Names
    \cup {"nm-openvpn3-extra-routes"} \X DOMAIN MCRouteLines

MCConnections ==
    MCBases \cup {With(b, i[1], i[2]) : b \in {x \in MCBases : x # NoItems /\ Complete(x)},
                                        i \in MCItems}

MCEditedOnce == MCConnections \ MCBases

MCTextSamples ==
    {"connection-type"} \X Contypes
    \cup {"remote", "username", "static-key", "nm-openvpn3-profile"} \X {""}
    \cup {<<"static-key", "/p/static.key">>, <<"proxy-server", "px">>, <<"comp-lzo", "">>}

MCSpinSamples == {<<"port", 443>>, <<"mssfix", 0>>, <<"reneg-seconds", 70000>>}

MCSwitchSamples == {"mssfix", "proto-tcp"}

MCPickerSamples == {"ca", "key"}

MCSecretSamples == {<<"password", "new">>, <<"cert-pass", "new">>}

MCPaths == {"/p/bundle.p12"}

MCUserFiles ==
    {<<<<"remote", "gw", "443">>, <<"<>", "ca">>, <<"<>", "cert">>, <<"<>", "key">>,
       <<"tls-auth", "/p/ta.key">>, <<"key-direction", "1">>, <<"keepalive", "7", "443">>>>,
     <<<<"remote", "gw">>, <<"auth-user-pass">>, <<"http-proxy", "px", "8080", "auth.txt">>,
       <<"<>", "pkcs12">>, <<"proto", "udp4-client">>, <<"comp-lzo">>>>,
     <<<<"remote", "gw">>, <<"auth-user-pass">>, <<"pkcs12", "/p/bundle.p12">>>>,
     <<<<"remote", "gw">>, <<"<>", "cert">>, <<"key", "/p/locked.pem">>,
       <<"secret", "/p/static.key">>>>,
     <<<<"remote", "gw">>, <<"<>", "secret">>, <<"key-direction", "0">>,
       <<"server-poll-timeout", "7">>, <<"port", "70000">>>>}

(* For the bundle: no connection but the one imported from this file.      *)
MCNoConnection == {NoItems}

MCBundleFile ==
    {<<<<"remote", "gw">>, <<"auth-user-pass">>, <<"<>", "pkcs12">>>>}
=============================================================================
