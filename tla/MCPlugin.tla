------------------------------ MODULE MCPlugin ------------------------------
(* Plugin for TLC: the calls are model values. *)
EXTENDS Plugin

SafetySpec == Init /\ [][Next]_vars
=============================================================================
