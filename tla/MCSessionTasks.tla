--------------------------- MODULE MCSessionTasks ---------------------------
(* SessionTasks for TLC: the backend goes through one status of each kind  *)
(* the tasks tell apart.                                                   *)
EXTENDS SessionTasks

MCEvents == {Connecting, Connected, Failed, SessAuthFailed}

\* For the temporal properties one terminal status stands for all.
MCFewEvents == {Connecting, Connected, Failed}

SafetySpec == Init /\ [][Next]_vars
=============================================================================
