------------------------------- MODULE Status -------------------------------
(***************************************************************************)
(* The typed view of openvpn3's status codes                               *)
(* (nm-openvpn3-service/src/status.rs).  A status is the wire pair         *)
(* <<major, minor>>; a pair the dispatcher has no name for is skipped.     *)
(***************************************************************************)
EXTENDS Naturals

(* StatusMajor *)
Connection == 2
Session    == 3

(* ConnectionMinor and SessionMinor, paired with their major. *)
Connecting      == <<Connection, 6>>
Connected       == <<Connection, 7>>
Disconnecting   == <<Connection, 8>>
Disconnected    == <<Connection, 9>>
Failed          == <<Connection, 10>>
ConnAuthFailed  == <<Connection, 11>>
Reconnecting    == <<Connection, 12>>
Done            == <<Connection, 16>>
SessAuthFailed  == <<Session, 11>>

(* The state NM expects for a status: from_wire followed by to_nm_state.   *)
(* "None" covers the pairs from_wire rejects and Disconnecting.            *)
to_nm_state(w) ==
    CASE w \in {Connecting, Reconnecting} -> "Starting"
      [] w = Connected -> "Started"
      [] w \in {Disconnected, Failed, ConnAuthFailed, Done, SessAuthFailed} -> "Stopped"
      [] OTHER -> "None"

(* The reason NM is given with a Stopped state. *)
failure_reason(w) ==
    IF w \in {ConnAuthFailed, SessAuthFailed} THEN "LoginFailed" ELSE "ConnectFailed"
=============================================================================
