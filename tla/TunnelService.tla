--------------------------- MODULE TunnelService ----------------------------
(***************************************************************************)
(* What the plugin promises NetworkManager about overlapping calls: each   *)
(* Connect and Disconnect takes effect at one instant between its call and *)
(* its return, at most one tunnel is owned, and a Connect returns without  *)
(* reporting anything only if a Disconnect is pending that will.           *)
(***************************************************************************)
CONSTANTS Connects, Disconnects, None

VARIABLES
    call,    \* what NM knows of each call
    owned,   \* the Connect whose tunnel the plugin owns
    alive    \* the process is running

Init ==
    /\ call = [h \in Connects \cup Disconnects |-> "idle"]
    /\ owned = None
    /\ alive = TRUE

Begin(h) ==
    /\ call[h] = "idle"
    /\ call' = [call EXCEPT ![h] = "pending"]
    /\ UNCHANGED <<owned, alive>>

End(h, result) ==
    /\ call[h] = "pending"
    /\ call' = [call EXCEPT ![h] = result]

(* A Connect that succeeds takes over a plugin that owned nothing. *)
ConnectOk(c) == owned = None /\ End(c, "ok") /\ owned' = c /\ UNCHANGED alive

(* A Connect that fails, or is refused, leaves the owned tunnel alone. *)
ConnectFailed(c) == End(c, "failed") /\ UNCHANGED <<owned, alive>>

ConnectAborted(c) ==
    /\ \E d \in Disconnects : call[d] = "pending"
    /\ End(c, "aborted")
    /\ UNCHANGED <<owned, alive>>

(* A pending Disconnect lets go of the tunnel, and returns owning nothing. *)
Release(d) == call[d] = "pending" /\ owned' = None /\ UNCHANGED <<call, alive>>

DisconnectOk(d) == owned = None /\ End(d, "ok") /\ UNCHANGED <<owned, alive>>

Die == alive' = FALSE /\ UNCHANGED <<call, owned>>

Next ==
    /\ alive
    /\ \/ \E c \in Connects :
            Begin(c) \/ ConnectOk(c) \/ ConnectFailed(c) \/ ConnectAborted(c)
       \/ \E d \in Disconnects : Begin(d) \/ Release(d) \/ DisconnectOk(d)
       \/ Die

vars == <<call, owned, alive>>
Spec == Init /\ [][Next]_vars
=============================================================================
