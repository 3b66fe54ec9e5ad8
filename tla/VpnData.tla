------------------------------ MODULE VpnData -------------------------------
(***************************************************************************)
(* The vpn.data dictionary of a NetworkManager connection, as the service, *)
(* the exporter, the importer, the editor and the auth dialog share it: a  *)
(* partial function from keys to strings.  An item whose value is the      *)
(* empty string counts as unset everywhere (arg_is_set), so it is left out *)
(* of the domain.                                                          *)
(*                                                                         *)
(* Values are strings; what the code finds INSIDE one (a number, a list of *)
(* servers, route lines, a name type) is given by the constants below, so  *)
(* that no string is taken apart character by character.                   *)
(***************************************************************************)
EXTENDS Integers, Sequences

CONSTANTS
    Strings,    \* the strings an item or a row can hold
    Number,     \* string -> the integer it reads as (parse::<i64> or f64)
    Ints,       \* the strings that parse::<i64> accepts
    Decimal,    \* integer -> how format! prints it
    Pkcs12,     \* the paths that end in .p12 or .pfx
    Ipv6Hosts,  \* the host names that contain a colon
    Remotes,    \* a `remote' value -> its entries [bracketed, host, tail]
    X509Names,  \* a `verify-x509-name' value -> <<type, name>>, type "" if none
    RouteLines  \* an `extra-routes' value -> its lines [control, words, plain]

ASSUME StringAssumption ==
    /\ {"", "yes", "tls", "1"} \subseteq Strings
    /\ Ints \subseteq DOMAIN Number \cap Strings
    /\ "" \notin Ints
    /\ "yes" \notin DOMAIN Number
    /\ \A v \in DOMAIN Number : Number[v] \in Int
    /\ \A n \in DOMAIN Decimal : Decimal[n] \in Ints /\ Number[Decimal[n]] = n

ASSUME TableAssumption ==
    /\ \A v \in DOMAIN Remotes :
         /\ v \in Strings /\ v # ""
         /\ Remotes[v] \in Seq([bracketed : BOOLEAN, host : Strings, tail : Seq(Strings)])
    /\ \A v \in DOMAIN X509Names :
         /\ v \in Strings /\ v # ""
         /\ X509Names[v] \in Strings \X Strings
    /\ \A v \in DOMAIN RouteLines :
         /\ v \in Strings /\ v # ""
         /\ RouteLines[v] \in Seq([control : BOOLEAN, words : Seq(Strings), plain : BOOLEAN])

-----------------------------------------------------------------------------
(* data.get(k) filtered by arg_is_set, and get(k) == Some(v).              *)
Has(data, k) == k \in DOMAIN data

Is(data, k, v) == k \in DOMAIN data /\ data[k] = v

Yes(data, k) == Is(data, k, "yes")

(* An optional argument of a directive: nothing when the key is unset.     *)
Arg(data, k) == IF Has(data, k) THEN <<data[k]>> ELSE <<>>

(* data without the keys of ks; with all of them set to v; and with k set  *)
(* to v (unset when v is empty).                                           *)
Without(data, ks) == [k \in DOMAIN data \ ks |-> data[k]]

WithAll(data, ks, v) ==
    [k \in DOMAIN data \cup ks |-> IF k \in ks THEN v ELSE data[k]]

With(data, k, v) == IF v = "" THEN Without(data, {k}) ELSE WithAll(data, {k}, v)

-----------------------------------------------------------------------------
(* The connection types, as every emitter and the editor classify them.    *)
Contypes == {"tls", "password", "password-tls", "static-key"}

IsTlsLike(data) ==
    Has(data, "connection-type")
      /\ data["connection-type"] \in {"tls", "password", "password-tls"}

IsPasswordLike(data) ==
    Has(data, "connection-type")
      /\ data["connection-type"] \in {"password", "password-tls"}

NeedsUserCert(data) ==
    Has(data, "connection-type")
      /\ data["connection-type"] \in {"tls", "password-tls"}

IsStaticKey(data) == Is(data, "connection-type", "static-key")
=============================================================================
