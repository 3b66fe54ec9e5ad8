---------------------------- MODULE PluginProofs ----------------------------
(***************************************************************************)
(* Proofs about Plugin, for any sets of calls: the inductive invariant     *)
(* IInv, the safety invariants and step properties that follow from it,    *)
(* and the refinement of TunnelService.                                    *)
(***************************************************************************)
EXTENDS Plugin, TLAPS

Body == ConnectBody \cup DisconnectBody

(* A handler is inside its body exactly while it holds the lock. *)
LockInv ==
    /\ \A c \in Connects : pc[c] \in {"idle", "lock"} \cup ConnectBody \cup Returned
    /\ \A d \in Disconnects : pc[d] \in {"idle", "lock"} \cup DisconnectBody \cup {"ok"}
    /\ \A h \in Handlers : pc[h] \in Body <=> lock = h

(* Where a Connect's session is stored, and where it only is in a local.   *)
StoredPc == {"check1", "ready", "check2", "connect", "arm", "cleanup"}
EmptyPc == {"profile", "preimport", "import", "tunnel", "stash", "disc1", "disc2", "rm", "stop"}

(* The stored paths belong together and to a Connect past its Stash. *)
PathInv ==
    /\ config_path = session_path
    /\ \A c \in Connects : pc[c] \in StoredPc => session_path = c
    /\ \A c \in Connects : session_path = c => pc[c] \in StoredPc \cup {"ok"}
    /\ \A h \in Handlers : pc[h] \in EmptyPc => session_path = None

(* What the handlers' locals hold at each await. *)
LocalInv ==
    /\ \A c \in Connects :
         sessLocal[c] = IF pc[c] \in StoredPc \cup {"stash", "disc1", "disc2"} THEN c ELSE None
    /\ \A d \in Disconnects : pc[d] \notin {"disc1", "disc2"} <=> sessLocal[d] = None
    /\ \A h \in Handlers : pc[h] \notin {"tunnel", "stash", "disc1", "disc2", "rm"} => cfgLocal[h] = None
    /\ \A c \in Connects : pc[c] \in {"tunnel", "stash"} => cfgLocal[c] = c

(* The flag is set only while a Disconnect is queued or about to take the  *)
(* session, or when there is nothing left to tear down.                    *)
TeardownInv ==
    teardown =>
        \/ \E d \in Disconnects : pc[d] \in {"lock", "take"}
        \/ session_path = None /\ \A c \in Connects : pc[c] \notin ConnectBody \ {"gate"}

(* NM sees an activation in progress only while somebody can end it. *)
StateInv ==
    state \in {"Starting", "Started"} =>
        session_path # None \/ lock # None \/ \E d \in Disconnects : pc[d] = "lock"

IInv ==
    /\ TypeOK
    /\ LockInv
    /\ PathInv
    /\ LocalInv
    /\ TeardownInv
    /\ StateInv
    /\ TasksOwned
    /\ SessionsAccounted
    /\ ConfigsAccounted

(* Types are preserved; LocalInv tells what a teardown step disconnects.   *)
LEMMA TypeStep == TypeOK /\ LocalInv /\ [Next]_vars => TypeOK'
<1> SUFFICES ASSUME TypeOK, LocalInv, [Next]_vars PROVE TypeOK'
  OBVIOUS
<1> USE CallsAssumption, ReportsAssumption DEF TypeOK, LocalInv, ConnectBody, DisconnectBody,
      Returned, TaskNames, NMVpnServiceState, Goto, Handlers, coordVars, pathVars, localVars,
      backendVars, procVars
<1>1. ASSUME NEW c \in Connects, ConnectCall(c) PROVE TypeOK'
  BY <1>1 DEF ConnectCall
<1>2. ASSUME NEW c \in Connects, lock_connect(c) PROVE TypeOK'
  BY <1>2 DEF lock_connect, Acquire
<1>3. ASSUME NEW c \in Connects, Refuse(c) PROVE TypeOK'
  BY <1>3 DEF Refuse
<1>4. ASSUME NEW c \in Connects, Accept(c) PROVE TypeOK'
  BY <1>4 DEF Accept
<1>5. ASSUME NEW c \in Connects, Profile(c) PROVE TypeOK'
  BY <1>5 DEF Profile
<1>6. ASSUME NEW c \in Connects, PreImportCheck(c) PROVE TypeOK'
  BY <1>6 DEF PreImportCheck
<1>7. ASSUME NEW c \in Connects, Import(c) PROVE TypeOK'
  BY <1>7 DEF Import
<1>8. ASSUME NEW c \in Connects, NewTunnel(c) PROVE TypeOK'
  BY <1>8 DEF NewTunnel
<1>9. ASSUME NEW c \in Connects, Stash(c) PROVE TypeOK'
  BY <1>9 DEF Stash
<1>10. ASSUME NEW c \in Connects, TeardownCheck(c) PROVE TypeOK'
  BY <1>10 DEF TeardownCheck
<1>11. ASSUME NEW c \in Connects, WaitReady(c) PROVE TypeOK'
  BY <1>11 DEF WaitReady
<1>12. ASSUME NEW c \in Connects, FinalCheck(c) PROVE TypeOK'
  BY <1>12 DEF FinalCheck
<1>13. ASSUME NEW c \in Connects, SessionConnect(c) PROVE TypeOK'
  BY <1>13 DEF SessionConnect, Live
<1>14. ASSUME NEW c \in Connects, Arm(c) PROVE TypeOK'
  BY <1>14 DEF Arm, Return
<1>15. ASSUME NEW c \in Connects, ConnectError(c) PROVE TypeOK'
  BY <1>15 DEF ConnectError, Return
<1>16. ASSUME NEW c \in Connects, Cleanup(c) PROVE TypeOK'
  BY <1>16 DEF Cleanup, AbortTasks
<1>17. ASSUME NEW h \in Handlers, SessionDisconnect(h) PROVE TypeOK'
  BY <1>17 DEF SessionDisconnect, Live
<1>18. ASSUME NEW h \in Handlers, RemoveConfig(h) PROVE TypeOK'
  BY <1>18 DEF RemoveConfig
<1>19. ASSUME NEW d \in Disconnects, DisconnectCall(d) PROVE TypeOK'
  BY <1>19 DEF DisconnectCall
<1>20. ASSUME NEW d \in Disconnects, lock_disconnect(d) PROVE TypeOK'
  BY <1>20 DEF lock_disconnect, Acquire
<1>21. ASSUME NEW d \in Disconnects, Take(d) PROVE TypeOK'
  BY <1>21 DEF Take, AbortTasks
<1>22. ASSUME NEW d \in Disconnects, Stop(d) PROVE TypeOK'
  BY <1>22 DEF Stop, Return
<1>23. ASSUME NEW c \in Connects, TaskReport(c) PROVE TypeOK'
  BY <1>23 DEF TaskReport
<1>24. ASSUME NEW c \in Connects, BackendFetch(c) PROVE TypeOK'
  BY <1>24 DEF BackendFetch, Live
<1>25. ASSUME NEW c \in Connects, BackendDies(c) PROVE TypeOK'
  BY <1>25 DEF BackendDies, Live
<1>26. CASE Exit
  BY <1>26 DEF Exit
<1>27. CASE UNCHANGED vars
  BY <1>27 DEF vars
<1>. QED
  BY <1>1, <1>2, <1>3, <1>4, <1>5, <1>6, <1>7, <1>8, <1>9, <1>10, <1>11, <1>12, <1>13, <1>14,
     <1>15, <1>16, <1>17, <1>18, <1>19, <1>20, <1>21, <1>22, <1>23, <1>24, <1>25, <1>26, <1>27
     DEF Next, ConnectStep, DisconnectStep, TearDownStep, Environment

(* Entering and leaving a body go with taking and dropping the lock.       *)
LEMMA LockStep == TypeOK /\ LockInv /\ [Next]_vars => LockInv'
<1> SUFFICES ASSUME TypeOK, LockInv, [Next]_vars PROVE LockInv'
  OBVIOUS
<1> USE CallsAssumption DEF TypeOK, LockInv, Body, ConnectBody, DisconnectBody, Returned, Goto,
      Handlers, coordVars, pathVars, localVars, backendVars, procVars
<1>1. ASSUME NEW c \in Connects, ConnectCall(c) PROVE LockInv'
  BY <1>1 DEF ConnectCall
<1>2. ASSUME NEW c \in Connects, lock_connect(c) PROVE LockInv'
  BY <1>2 DEF lock_connect, Acquire
<1>3. ASSUME NEW c \in Connects, Refuse(c) PROVE LockInv'
  BY <1>3 DEF Refuse
<1>4. ASSUME NEW c \in Connects, Accept(c) PROVE LockInv'
  BY <1>4 DEF Accept
<1>5. ASSUME NEW c \in Connects, Profile(c) PROVE LockInv'
  BY <1>5 DEF Profile
<1>6. ASSUME NEW c \in Connects, PreImportCheck(c) PROVE LockInv'
  BY <1>6 DEF PreImportCheck
<1>7. ASSUME NEW c \in Connects, Import(c) PROVE LockInv'
  BY <1>7 DEF Import
<1>8. ASSUME NEW c \in Connects, NewTunnel(c) PROVE LockInv'
  BY <1>8 DEF NewTunnel
<1>9. ASSUME NEW c \in Connects, Stash(c) PROVE LockInv'
  BY <1>9 DEF Stash
<1>10. ASSUME NEW c \in Connects, TeardownCheck(c) PROVE LockInv'
  BY <1>10 DEF TeardownCheck
<1>11. ASSUME NEW c \in Connects, WaitReady(c) PROVE LockInv'
  BY <1>11 DEF WaitReady
<1>12. ASSUME NEW c \in Connects, FinalCheck(c) PROVE LockInv'
  BY <1>12 DEF FinalCheck
<1>13. ASSUME NEW c \in Connects, SessionConnect(c) PROVE LockInv'
  BY <1>13 DEF SessionConnect, Live
<1>14. ASSUME NEW c \in Connects, Arm(c) PROVE LockInv'
  BY <1>14 DEF Arm, Return
<1>15. ASSUME NEW c \in Connects, ConnectError(c) PROVE LockInv'
  BY <1>15 DEF ConnectError, Return
<1>16. ASSUME NEW c \in Connects, Cleanup(c) PROVE LockInv'
  BY <1>16 DEF Cleanup, AbortTasks
<1>17. ASSUME NEW h \in Handlers, SessionDisconnect(h) PROVE LockInv'
  BY <1>17 DEF SessionDisconnect, Live
<1>18. ASSUME NEW h \in Handlers, RemoveConfig(h) PROVE LockInv'
  BY <1>18 DEF RemoveConfig
<1>19. ASSUME NEW d \in Disconnects, DisconnectCall(d) PROVE LockInv'
  BY <1>19 DEF DisconnectCall
<1>20. ASSUME NEW d \in Disconnects, lock_disconnect(d) PROVE LockInv'
  BY <1>20 DEF lock_disconnect, Acquire
<1>21. ASSUME NEW d \in Disconnects, Take(d) PROVE LockInv'
  BY <1>21 DEF Take, AbortTasks
<1>22. ASSUME NEW d \in Disconnects, Stop(d) PROVE LockInv'
  BY <1>22 DEF Stop, Return
<1>23. ASSUME NEW c \in Connects, TaskReport(c) PROVE LockInv'
  BY <1>23 DEF TaskReport
<1>24. ASSUME NEW c \in Connects, BackendFetch(c) PROVE LockInv'
  BY <1>24 DEF BackendFetch, Live
<1>25. ASSUME NEW c \in Connects, BackendDies(c) PROVE LockInv'
  BY <1>25 DEF BackendDies, Live
<1>26. CASE Exit
  BY <1>26 DEF Exit
<1>27. CASE UNCHANGED vars
  BY <1>27 DEF vars
<1>. QED
  BY <1>1, <1>2, <1>3, <1>4, <1>5, <1>6, <1>7, <1>8, <1>9, <1>10, <1>11, <1>12, <1>13, <1>14,
     <1>15, <1>16, <1>17, <1>18, <1>19, <1>20, <1>21, <1>22, <1>23, <1>24, <1>25, <1>26, <1>27
     DEF Next, ConnectStep, DisconnectStep, TearDownStep, Environment

(* The stored paths change only at Stash, Cleanup and Take.                *)
LEMMA PathStep == TypeOK /\ LockInv /\ LocalInv /\ PathInv /\ [Next]_vars => PathInv'
<1> SUFFICES ASSUME TypeOK, LockInv, LocalInv, PathInv, [Next]_vars PROVE PathInv'
  OBVIOUS
<1> USE CallsAssumption DEF TypeOK, LockInv, LocalInv, PathInv, StoredPc, EmptyPc, Body,
      ConnectBody, DisconnectBody, Returned, Goto, Handlers, coordVars, pathVars, localVars,
      backendVars, procVars
<1>1. ASSUME NEW c \in Connects, ConnectCall(c) PROVE PathInv'
  BY <1>1 DEF ConnectCall
<1>2. ASSUME NEW c \in Connects, lock_connect(c) PROVE PathInv'
  BY <1>2 DEF lock_connect, Acquire
<1>3. ASSUME NEW c \in Connects, Refuse(c) PROVE PathInv'
  BY <1>3 DEF Refuse
<1>4. ASSUME NEW c \in Connects, Accept(c) PROVE PathInv'
  BY <1>4 DEF Accept
<1>5. ASSUME NEW c \in Connects, Profile(c) PROVE PathInv'
  BY <1>5 DEF Profile
<1>6. ASSUME NEW c \in Connects, PreImportCheck(c) PROVE PathInv'
  BY <1>6 DEF PreImportCheck
<1>7. ASSUME NEW c \in Connects, Import(c) PROVE PathInv'
  BY <1>7 DEF Import
<1>8. ASSUME NEW c \in Connects, NewTunnel(c) PROVE PathInv'
  BY <1>8 DEF NewTunnel
<1>9. ASSUME NEW c \in Connects, Stash(c) PROVE PathInv'
  BY <1>9 DEF Stash
<1>10. ASSUME NEW c \in Connects, TeardownCheck(c) PROVE PathInv'
  BY <1>10 DEF TeardownCheck
<1>11. ASSUME NEW c \in Connects, WaitReady(c) PROVE PathInv'
  BY <1>11 DEF WaitReady
<1>12. ASSUME NEW c \in Connects, FinalCheck(c) PROVE PathInv'
  BY <1>12 DEF FinalCheck
<1>13. ASSUME NEW c \in Connects, SessionConnect(c) PROVE PathInv'
  BY <1>13 DEF SessionConnect, Live
<1>14. ASSUME NEW c \in Connects, Arm(c) PROVE PathInv'
  BY <1>14 DEF Arm, Return
<1>15. ASSUME NEW c \in Connects, ConnectError(c) PROVE PathInv'
  BY <1>15 DEF ConnectError, Return
<1>16. ASSUME NEW c \in Connects, Cleanup(c) PROVE PathInv'
  BY <1>16 DEF Cleanup, AbortTasks
<1>17. ASSUME NEW h \in Handlers, SessionDisconnect(h) PROVE PathInv'
  BY <1>17 DEF SessionDisconnect, Live
<1>18. ASSUME NEW h \in Handlers, RemoveConfig(h) PROVE PathInv'
  BY <1>18 DEF RemoveConfig
<1>19. ASSUME NEW d \in Disconnects, DisconnectCall(d) PROVE PathInv'
  BY <1>19 DEF DisconnectCall
<1>20. ASSUME NEW d \in Disconnects, lock_disconnect(d) PROVE PathInv'
  BY <1>20 DEF lock_disconnect, Acquire
<1>21. ASSUME NEW d \in Disconnects, Take(d) PROVE PathInv'
  BY <1>21 DEF Take, AbortTasks
<1>22. ASSUME NEW d \in Disconnects, Stop(d) PROVE PathInv'
  BY <1>22 DEF Stop, Return
<1>23. ASSUME NEW c \in Connects, TaskReport(c) PROVE PathInv'
  BY <1>23 DEF TaskReport
<1>24. ASSUME NEW c \in Connects, BackendFetch(c) PROVE PathInv'
  BY <1>24 DEF BackendFetch, Live
<1>25. ASSUME NEW c \in Connects, BackendDies(c) PROVE PathInv'
  BY <1>25 DEF BackendDies, Live
<1>26. CASE Exit
  BY <1>26 DEF Exit
<1>27. CASE UNCHANGED vars
  BY <1>27 DEF vars
<1>. QED
  BY <1>1, <1>2, <1>3, <1>4, <1>5, <1>6, <1>7, <1>8, <1>9, <1>10, <1>11, <1>12, <1>13, <1>14,
     <1>15, <1>16, <1>17, <1>18, <1>19, <1>20, <1>21, <1>22, <1>23, <1>24, <1>25, <1>26, <1>27
     DEF Next, ConnectStep, DisconnectStep, TearDownStep, Environment

(* A handler's locals follow its own steps only.                           *)
LEMMA LocalStep == TypeOK /\ LockInv /\ PathInv /\ LocalInv /\ [Next]_vars => LocalInv'
<1> SUFFICES ASSUME TypeOK, LockInv, PathInv, LocalInv, [Next]_vars PROVE LocalInv'
  OBVIOUS
<1> USE CallsAssumption DEF TypeOK, LockInv, PathInv, LocalInv, StoredPc, EmptyPc, Body,
      ConnectBody, DisconnectBody, Returned, Goto, Handlers, coordVars, pathVars, localVars,
      backendVars, procVars
<1>1. ASSUME NEW c \in Connects, ConnectCall(c) PROVE LocalInv'
  BY <1>1 DEF ConnectCall
<1>2. ASSUME NEW c \in Connects, lock_connect(c) PROVE LocalInv'
  BY <1>2 DEF lock_connect, Acquire
<1>3. ASSUME NEW c \in Connects, Refuse(c) PROVE LocalInv'
  BY <1>3 DEF Refuse
<1>4. ASSUME NEW c \in Connects, Accept(c) PROVE LocalInv'
  BY <1>4 DEF Accept
<1>5. ASSUME NEW c \in Connects, Profile(c) PROVE LocalInv'
  <2>1. CASE Goto(c, "profile", "preimport")
    BY <1>5, <2>1 DEF Profile
  <2>2. CASE Goto(c, "profile", "err")
    BY <1>5, <2>2 DEF Profile
  <2>. QED
    BY <1>5, <2>1, <2>2 DEF Profile
<1>6. ASSUME NEW c \in Connects, PreImportCheck(c) PROVE LocalInv'
  BY <1>6 DEF PreImportCheck
<1>7. ASSUME NEW c \in Connects, Import(c) PROVE LocalInv'
  BY <1>7 DEF Import
<1>8. ASSUME NEW c \in Connects, NewTunnel(c) PROVE LocalInv'
  BY <1>8 DEF NewTunnel
<1>9. ASSUME NEW c \in Connects, Stash(c) PROVE LocalInv'
  BY <1>9 DEF Stash
<1>10. ASSUME NEW c \in Connects, TeardownCheck(c) PROVE LocalInv'
  BY <1>10 DEF TeardownCheck
<1>11. ASSUME NEW c \in Connects, WaitReady(c) PROVE LocalInv'
  BY <1>11 DEF WaitReady
<1>12. ASSUME NEW c \in Connects, FinalCheck(c) PROVE LocalInv'
  BY <1>12 DEF FinalCheck
<1>13. ASSUME NEW c \in Connects, SessionConnect(c) PROVE LocalInv'
  BY <1>13 DEF SessionConnect, Live
<1>14. ASSUME NEW c \in Connects, Arm(c) PROVE LocalInv'
  BY <1>14 DEF Arm, Return
<1>15. ASSUME NEW c \in Connects, ConnectError(c) PROVE LocalInv'
  BY <1>15 DEF ConnectError, Return
<1>16. ASSUME NEW c \in Connects, Cleanup(c) PROVE LocalInv'
  BY <1>16 DEF Cleanup, AbortTasks
<1>17. ASSUME NEW h \in Handlers, SessionDisconnect(h) PROVE LocalInv'
  <2>1. \/ pc[h] \in {"disc1", "disc2"} /\ pc' = [pc EXCEPT ![h] = "rm"]
           /\ sessLocal' = [sessLocal EXCEPT ![h] = None]
        \/ pc[h] = "disc1" /\ pc' = [pc EXCEPT ![h] = "disc2"] /\ UNCHANGED sessLocal
    BY <1>17 DEF SessionDisconnect
  <2>2. UNCHANGED <<lock, config_path, session_path, cfgLocal, configs, leakedConfigs>>
    BY <1>17 DEF SessionDisconnect
  <2>. QED
    BY <2>1, <2>2
<1>18. ASSUME NEW h \in Handlers, RemoveConfig(h) PROVE LocalInv'
  BY <1>18 DEF RemoveConfig
<1>19. ASSUME NEW d \in Disconnects, DisconnectCall(d) PROVE LocalInv'
  BY <1>19 DEF DisconnectCall
<1>20. ASSUME NEW d \in Disconnects, lock_disconnect(d) PROVE LocalInv'
  BY <1>20 DEF lock_disconnect, Acquire
<1>21. ASSUME NEW d \in Disconnects, Take(d) PROVE LocalInv'
  BY <1>21 DEF Take, AbortTasks
<1>22. ASSUME NEW d \in Disconnects, Stop(d) PROVE LocalInv'
  BY <1>22 DEF Stop, Return
<1>23. ASSUME NEW c \in Connects, TaskReport(c) PROVE LocalInv'
  BY <1>23 DEF TaskReport
<1>24. ASSUME NEW c \in Connects, BackendFetch(c) PROVE LocalInv'
  BY <1>24 DEF BackendFetch, Live
<1>25. ASSUME NEW c \in Connects, BackendDies(c) PROVE LocalInv'
  BY <1>25 DEF BackendDies, Live
<1>26. CASE Exit
  BY <1>26 DEF Exit
<1>27. CASE UNCHANGED vars
  BY <1>27 DEF vars
<1>. QED
  BY <1>1, <1>2, <1>3, <1>4, <1>5, <1>6, <1>7, <1>8, <1>9, <1>10, <1>11, <1>12, <1>13, <1>14,
     <1>15, <1>16, <1>17, <1>18, <1>19, <1>20, <1>21, <1>22, <1>23, <1>24, <1>25, <1>26, <1>27
     DEF Next, ConnectStep, DisconnectStep, TearDownStep, Environment

(* A set flag always has a Disconnect behind it, or nothing to tear down.  *)
LEMMA TeardownStep == TypeOK /\ LockInv /\ PathInv /\ TeardownInv /\ [Next]_vars => TeardownInv'
<1> SUFFICES ASSUME TypeOK, LockInv, PathInv, TeardownInv, [Next]_vars PROVE TeardownInv'
  OBVIOUS
<1> USE CallsAssumption DEF TypeOK, LockInv, PathInv, TeardownInv, StoredPc, EmptyPc, Body,
      ConnectBody, DisconnectBody, Returned, Goto, Handlers, coordVars, pathVars, localVars,
      backendVars, procVars
<1>1. ASSUME NEW c \in Connects, ConnectCall(c) PROVE TeardownInv'
  BY <1>1 DEF ConnectCall
<1>2. ASSUME NEW c \in Connects, lock_connect(c) PROVE TeardownInv'
  BY <1>2 DEF lock_connect, Acquire
<1>3. ASSUME NEW c \in Connects, Refuse(c) PROVE TeardownInv'
  BY <1>3 DEF Refuse
<1>4. ASSUME NEW c \in Connects, Accept(c) PROVE TeardownInv'
  BY <1>4 DEF Accept
<1>5. ASSUME NEW c \in Connects, Profile(c) PROVE TeardownInv'
  BY <1>5 DEF Profile
<1>6. ASSUME NEW c \in Connects, PreImportCheck(c) PROVE TeardownInv'
  BY <1>6 DEF PreImportCheck
<1>7. ASSUME NEW c \in Connects, Import(c) PROVE TeardownInv'
  BY <1>7 DEF Import
<1>8. ASSUME NEW c \in Connects, NewTunnel(c) PROVE TeardownInv'
  BY <1>8 DEF NewTunnel
<1>9. ASSUME NEW c \in Connects, Stash(c) PROVE TeardownInv'
  BY <1>9 DEF Stash
<1>10. ASSUME NEW c \in Connects, TeardownCheck(c) PROVE TeardownInv'
  BY <1>10 DEF TeardownCheck
<1>11. ASSUME NEW c \in Connects, WaitReady(c) PROVE TeardownInv'
  BY <1>11 DEF WaitReady
<1>12. ASSUME NEW c \in Connects, FinalCheck(c) PROVE TeardownInv'
  BY <1>12 DEF FinalCheck
<1>13. ASSUME NEW c \in Connects, SessionConnect(c) PROVE TeardownInv'
  BY <1>13 DEF SessionConnect, Live
<1>14. ASSUME NEW c \in Connects, Arm(c) PROVE TeardownInv'
  BY <1>14 DEF Arm, Return
<1>15. ASSUME NEW c \in Connects, ConnectError(c) PROVE TeardownInv'
  BY <1>15 DEF ConnectError, Return
<1>16. ASSUME NEW c \in Connects, Cleanup(c) PROVE TeardownInv'
  BY <1>16 DEF Cleanup, AbortTasks
<1>17. ASSUME NEW h \in Handlers, SessionDisconnect(h) PROVE TeardownInv'
  BY <1>17 DEF SessionDisconnect, Live
<1>18. ASSUME NEW h \in Handlers, RemoveConfig(h) PROVE TeardownInv'
  BY <1>18 DEF RemoveConfig
<1>19. ASSUME NEW d \in Disconnects, DisconnectCall(d) PROVE TeardownInv'
  BY <1>19 DEF DisconnectCall
<1>20. ASSUME NEW d \in Disconnects, lock_disconnect(d) PROVE TeardownInv'
  BY <1>20 DEF lock_disconnect, Acquire
<1>21. ASSUME NEW d \in Disconnects, Take(d) PROVE TeardownInv'
  BY <1>21 DEF Take, AbortTasks
<1>22. ASSUME NEW d \in Disconnects, Stop(d) PROVE TeardownInv'
  BY <1>22 DEF Stop, Return
<1>23. ASSUME NEW c \in Connects, TaskReport(c) PROVE TeardownInv'
  BY <1>23 DEF TaskReport
<1>24. ASSUME NEW c \in Connects, BackendFetch(c) PROVE TeardownInv'
  BY <1>24 DEF BackendFetch, Live
<1>25. ASSUME NEW c \in Connects, BackendDies(c) PROVE TeardownInv'
  BY <1>25 DEF BackendDies, Live
<1>26. CASE Exit
  BY <1>26 DEF Exit
<1>27. CASE UNCHANGED vars
  BY <1>27 DEF vars
<1>. QED
  BY <1>1, <1>2, <1>3, <1>4, <1>5, <1>6, <1>7, <1>8, <1>9, <1>10, <1>11, <1>12, <1>13, <1>14,
     <1>15, <1>16, <1>17, <1>18, <1>19, <1>20, <1>21, <1>22, <1>23, <1>24, <1>25, <1>26, <1>27
     DEF Next, ConnectStep, DisconnectStep, TearDownStep, Environment

(* An activation in progress always has somebody to end it.                *)
LEMMA StateStep ==
    TypeOK /\ LockInv /\ PathInv /\ TeardownInv /\ TasksOwned /\ StateInv /\ [Next]_vars
    => StateInv'
<1> SUFFICES ASSUME TypeOK, LockInv, PathInv, TeardownInv, TasksOwned, StateInv, [Next]_vars
             PROVE StateInv'
  OBVIOUS
<1> USE CallsAssumption DEF TypeOK, LockInv, PathInv, TeardownInv, TasksOwned, StateInv,
      StoredPc, EmptyPc, Body, ConnectBody, DisconnectBody, Returned, Goto, Handlers, coordVars,
      pathVars, localVars, backendVars, procVars
<1>1. ASSUME NEW c \in Connects, ConnectCall(c) PROVE StateInv'
  BY <1>1 DEF ConnectCall
<1>2. ASSUME NEW c \in Connects, lock_connect(c) PROVE StateInv'
  BY <1>2 DEF lock_connect, Acquire
<1>3. ASSUME NEW c \in Connects, Refuse(c) PROVE StateInv'
  BY <1>3 DEF Refuse
<1>4. ASSUME NEW c \in Connects, Accept(c) PROVE StateInv'
  BY <1>4 DEF Accept
<1>5. ASSUME NEW c \in Connects, Profile(c) PROVE StateInv'
  BY <1>5 DEF Profile
<1>6. ASSUME NEW c \in Connects, PreImportCheck(c) PROVE StateInv'
  BY <1>6 DEF PreImportCheck
<1>7. ASSUME NEW c \in Connects, Import(c) PROVE StateInv'
  BY <1>7 DEF Import
<1>8. ASSUME NEW c \in Connects, NewTunnel(c) PROVE StateInv'
  BY <1>8 DEF NewTunnel
<1>9. ASSUME NEW c \in Connects, Stash(c) PROVE StateInv'
  BY <1>9 DEF Stash
<1>10. ASSUME NEW c \in Connects, TeardownCheck(c) PROVE StateInv'
  BY <1>10 DEF TeardownCheck
<1>11. ASSUME NEW c \in Connects, WaitReady(c) PROVE StateInv'
  BY <1>11 DEF WaitReady
<1>12. ASSUME NEW c \in Connects, FinalCheck(c) PROVE StateInv'
  BY <1>12 DEF FinalCheck
<1>13. ASSUME NEW c \in Connects, SessionConnect(c) PROVE StateInv'
  BY <1>13 DEF SessionConnect, Live
<1>14. ASSUME NEW c \in Connects, Arm(c) PROVE StateInv'
  BY <1>14 DEF Arm, Return
<1>15. ASSUME NEW c \in Connects, ConnectError(c) PROVE StateInv'
  BY <1>15 DEF ConnectError, Return
<1>16. ASSUME NEW c \in Connects, Cleanup(c) PROVE StateInv'
  BY <1>16 DEF Cleanup, AbortTasks
<1>17. ASSUME NEW h \in Handlers, SessionDisconnect(h) PROVE StateInv'
  BY <1>17 DEF SessionDisconnect, Live
<1>18. ASSUME NEW h \in Handlers, RemoveConfig(h) PROVE StateInv'
  BY <1>18 DEF RemoveConfig
<1>19. ASSUME NEW d \in Disconnects, DisconnectCall(d) PROVE StateInv'
  BY <1>19 DEF DisconnectCall
<1>20. ASSUME NEW d \in Disconnects, lock_disconnect(d) PROVE StateInv'
  BY <1>20 DEF lock_disconnect, Acquire
<1>21. ASSUME NEW d \in Disconnects, Take(d) PROVE StateInv'
  BY <1>21 DEF Take, AbortTasks
<1>22. ASSUME NEW d \in Disconnects, Stop(d) PROVE StateInv'
  BY <1>22 DEF Stop, Return
<1>23. ASSUME NEW c \in Connects, TaskReport(c) PROVE StateInv'
  BY <1>23 DEF TaskReport
<1>24. ASSUME NEW c \in Connects, BackendFetch(c) PROVE StateInv'
  BY <1>24 DEF BackendFetch, Live
<1>25. ASSUME NEW c \in Connects, BackendDies(c) PROVE StateInv'
  BY <1>25 DEF BackendDies, Live
<1>26. CASE Exit
  BY <1>26 DEF Exit
<1>27. CASE UNCHANGED vars
  BY <1>27 DEF vars
<1>. QED
  BY <1>1, <1>2, <1>3, <1>4, <1>5, <1>6, <1>7, <1>8, <1>9, <1>10, <1>11, <1>12, <1>13, <1>14,
     <1>15, <1>16, <1>17, <1>18, <1>19, <1>20, <1>21, <1>22, <1>23, <1>24, <1>25, <1>26, <1>27
     DEF Next, ConnectStep, DisconnectStep, TearDownStep, Environment

(* Tasks start for the stored session and are aborted when it is cleared.  *)
LEMMA TasksStep == TypeOK /\ LockInv /\ PathInv /\ TasksOwned /\ [Next]_vars => TasksOwned'
<1> SUFFICES ASSUME TypeOK, LockInv, PathInv, TasksOwned, [Next]_vars PROVE TasksOwned'
  OBVIOUS
<1> USE CallsAssumption DEF TypeOK, LockInv, PathInv, TasksOwned, StoredPc, EmptyPc, Body,
      ConnectBody, DisconnectBody, Returned, Goto, Handlers, coordVars, pathVars, localVars,
      backendVars, procVars
<1>1. ASSUME NEW c \in Connects, ConnectCall(c) PROVE TasksOwned'
  BY <1>1 DEF ConnectCall
<1>2. ASSUME NEW c \in Connects, lock_connect(c) PROVE TasksOwned'
  BY <1>2 DEF lock_connect, Acquire
<1>3. ASSUME NEW c \in Connects, Refuse(c) PROVE TasksOwned'
  BY <1>3 DEF Refuse
<1>4. ASSUME NEW c \in Connects, Accept(c) PROVE TasksOwned'
  BY <1>4 DEF Accept
<1>5. ASSUME NEW c \in Connects, Profile(c) PROVE TasksOwned'
  BY <1>5 DEF Profile
<1>6. ASSUME NEW c \in Connects, PreImportCheck(c) PROVE TasksOwned'
  BY <1>6 DEF PreImportCheck
<1>7. ASSUME NEW c \in Connects, Import(c) PROVE TasksOwned'
  BY <1>7 DEF Import
<1>8. ASSUME NEW c \in Connects, NewTunnel(c) PROVE TasksOwned'
  BY <1>8 DEF NewTunnel
<1>9. ASSUME NEW c \in Connects, Stash(c) PROVE TasksOwned'
  BY <1>9 DEF Stash
<1>10. ASSUME NEW c \in Connects, TeardownCheck(c) PROVE TasksOwned'
  BY <1>10 DEF TeardownCheck
<1>11. ASSUME NEW c \in Connects, WaitReady(c) PROVE TasksOwned'
  BY <1>11 DEF WaitReady
<1>12. ASSUME NEW c \in Connects, FinalCheck(c) PROVE TasksOwned'
  BY <1>12 DEF FinalCheck
<1>13. ASSUME NEW c \in Connects, SessionConnect(c) PROVE TasksOwned'
  BY <1>13 DEF SessionConnect, Live
<1>14. ASSUME NEW c \in Connects, Arm(c) PROVE TasksOwned'
  BY <1>14 DEF Arm, Return
<1>15. ASSUME NEW c \in Connects, ConnectError(c) PROVE TasksOwned'
  BY <1>15 DEF ConnectError, Return
<1>16. ASSUME NEW c \in Connects, Cleanup(c) PROVE TasksOwned'
  BY <1>16 DEF Cleanup, AbortTasks
<1>17. ASSUME NEW h \in Handlers, SessionDisconnect(h) PROVE TasksOwned'
  BY <1>17 DEF SessionDisconnect, Live
<1>18. ASSUME NEW h \in Handlers, RemoveConfig(h) PROVE TasksOwned'
  BY <1>18 DEF RemoveConfig
<1>19. ASSUME NEW d \in Disconnects, DisconnectCall(d) PROVE TasksOwned'
  BY <1>19 DEF DisconnectCall
<1>20. ASSUME NEW d \in Disconnects, lock_disconnect(d) PROVE TasksOwned'
  BY <1>20 DEF lock_disconnect, Acquire
<1>21. ASSUME NEW d \in Disconnects, Take(d) PROVE TasksOwned'
  BY <1>21 DEF Take, AbortTasks
<1>22. ASSUME NEW d \in Disconnects, Stop(d) PROVE TasksOwned'
  BY <1>22 DEF Stop, Return
<1>23. ASSUME NEW c \in Connects, TaskReport(c) PROVE TasksOwned'
  BY <1>23 DEF TaskReport
<1>24. ASSUME NEW c \in Connects, BackendFetch(c) PROVE TasksOwned'
  BY <1>24 DEF BackendFetch, Live
<1>25. ASSUME NEW c \in Connects, BackendDies(c) PROVE TasksOwned'
  BY <1>25 DEF BackendDies, Live
<1>26. CASE Exit
  BY <1>26 DEF Exit
<1>27. CASE UNCHANGED vars
  BY <1>27 DEF vars
<1>. QED
  BY <1>1, <1>2, <1>3, <1>4, <1>5, <1>6, <1>7, <1>8, <1>9, <1>10, <1>11, <1>12, <1>13, <1>14,
     <1>15, <1>16, <1>17, <1>18, <1>19, <1>20, <1>21, <1>22, <1>23, <1>24, <1>25, <1>26, <1>27
     DEF Next, ConnectStep, DisconnectStep, TearDownStep, Environment

(* A live session passes from a local to the store and back, or is leaked. *)
LEMMA SessionsStep ==
    TypeOK /\ LockInv /\ PathInv /\ LocalInv /\ SessionsAccounted /\ [Next]_vars
    => SessionsAccounted'
<1> SUFFICES ASSUME TypeOK, LockInv, PathInv, LocalInv, SessionsAccounted, [Next]_vars
             PROVE SessionsAccounted'
  OBVIOUS
<1> USE CallsAssumption DEF TypeOK, LockInv, PathInv, LocalInv, SessionsAccounted, StoredPc,
      EmptyPc, Body, Live, ConnectBody, DisconnectBody, Returned, Goto, Handlers, coordVars,
      pathVars, localVars, backendVars, procVars
<1>1. ASSUME NEW c \in Connects, ConnectCall(c) PROVE SessionsAccounted'
  BY <1>1 DEF ConnectCall
<1>2. ASSUME NEW c \in Connects, lock_connect(c) PROVE SessionsAccounted'
  BY <1>2 DEF lock_connect, Acquire
<1>3. ASSUME NEW c \in Connects, Refuse(c) PROVE SessionsAccounted'
  BY <1>3 DEF Refuse
<1>4. ASSUME NEW c \in Connects, Accept(c) PROVE SessionsAccounted'
  BY <1>4 DEF Accept
<1>5. ASSUME NEW c \in Connects, Profile(c) PROVE SessionsAccounted'
  BY <1>5 DEF Profile
<1>6. ASSUME NEW c \in Connects, PreImportCheck(c) PROVE SessionsAccounted'
  BY <1>6 DEF PreImportCheck
<1>7. ASSUME NEW c \in Connects, Import(c) PROVE SessionsAccounted'
  BY <1>7 DEF Import
<1>8. ASSUME NEW c \in Connects, NewTunnel(c) PROVE SessionsAccounted'
  BY <1>8 DEF NewTunnel
<1>9. ASSUME NEW c \in Connects, Stash(c) PROVE SessionsAccounted'
  BY <1>9 DEF Stash
<1>10. ASSUME NEW c \in Connects, TeardownCheck(c) PROVE SessionsAccounted'
  BY <1>10 DEF TeardownCheck
<1>11. ASSUME NEW c \in Connects, WaitReady(c) PROVE SessionsAccounted'
  BY <1>11 DEF WaitReady
<1>12. ASSUME NEW c \in Connects, FinalCheck(c) PROVE SessionsAccounted'
  BY <1>12 DEF FinalCheck
<1>13. ASSUME NEW c \in Connects, SessionConnect(c) PROVE SessionsAccounted'
  BY <1>13 DEF SessionConnect, Live
<1>14. ASSUME NEW c \in Connects, Arm(c) PROVE SessionsAccounted'
  BY <1>14 DEF Arm, Return
<1>15. ASSUME NEW c \in Connects, ConnectError(c) PROVE SessionsAccounted'
  BY <1>15 DEF ConnectError, Return
<1>16. ASSUME NEW c \in Connects, Cleanup(c) PROVE SessionsAccounted'
  BY <1>16 DEF Cleanup, AbortTasks
<1>17. ASSUME NEW h \in Handlers, SessionDisconnect(h) PROVE SessionsAccounted'
  BY <1>17 DEF SessionDisconnect, Live
<1>18. ASSUME NEW h \in Handlers, RemoveConfig(h) PROVE SessionsAccounted'
  BY <1>18 DEF RemoveConfig
<1>19. ASSUME NEW d \in Disconnects, DisconnectCall(d) PROVE SessionsAccounted'
  BY <1>19 DEF DisconnectCall
<1>20. ASSUME NEW d \in Disconnects, lock_disconnect(d) PROVE SessionsAccounted'
  BY <1>20 DEF lock_disconnect, Acquire
<1>21. ASSUME NEW d \in Disconnects, Take(d) PROVE SessionsAccounted'
  BY <1>21 DEF Take, AbortTasks
<1>22. ASSUME NEW d \in Disconnects, Stop(d) PROVE SessionsAccounted'
  BY <1>22 DEF Stop, Return
<1>23. ASSUME NEW c \in Connects, TaskReport(c) PROVE SessionsAccounted'
  BY <1>23 DEF TaskReport
<1>24. ASSUME NEW c \in Connects, BackendFetch(c) PROVE SessionsAccounted'
  BY <1>24 DEF BackendFetch, Live
<1>25. ASSUME NEW c \in Connects, BackendDies(c) PROVE SessionsAccounted'
  BY <1>25 DEF BackendDies, Live
<1>26. CASE Exit
  BY <1>26 DEF Exit
<1>27. CASE UNCHANGED vars
  BY <1>27 DEF vars
<1>. QED
  BY <1>1, <1>2, <1>3, <1>4, <1>5, <1>6, <1>7, <1>8, <1>9, <1>10, <1>11, <1>12, <1>13, <1>14,
     <1>15, <1>16, <1>17, <1>18, <1>19, <1>20, <1>21, <1>22, <1>23, <1>24, <1>25, <1>26, <1>27
     DEF Next, ConnectStep, DisconnectStep, TearDownStep, Environment

(* So does a configuration.                                                *)
LEMMA ConfigsStep ==
    TypeOK /\ LockInv /\ PathInv /\ LocalInv /\ ConfigsAccounted /\ [Next]_vars
    => ConfigsAccounted'
<1> SUFFICES ASSUME TypeOK, LockInv, PathInv, LocalInv, ConfigsAccounted, [Next]_vars
             PROVE ConfigsAccounted'
  OBVIOUS
<1> USE CallsAssumption DEF TypeOK, LockInv, PathInv, LocalInv, ConfigsAccounted, StoredPc,
      EmptyPc, Body, ConnectBody, DisconnectBody, Returned, Goto, Handlers, coordVars, pathVars,
      localVars, backendVars, procVars
<1>1. ASSUME NEW c \in Connects, ConnectCall(c) PROVE ConfigsAccounted'
  BY <1>1 DEF ConnectCall
<1>2. ASSUME NEW c \in Connects, lock_connect(c) PROVE ConfigsAccounted'
  BY <1>2 DEF lock_connect, Acquire
<1>3. ASSUME NEW c \in Connects, Refuse(c) PROVE ConfigsAccounted'
  BY <1>3 DEF Refuse
<1>4. ASSUME NEW c \in Connects, Accept(c) PROVE ConfigsAccounted'
  BY <1>4 DEF Accept
<1>5. ASSUME NEW c \in Connects, Profile(c) PROVE ConfigsAccounted'
  BY <1>5 DEF Profile
<1>6. ASSUME NEW c \in Connects, PreImportCheck(c) PROVE ConfigsAccounted'
  BY <1>6 DEF PreImportCheck
<1>7. ASSUME NEW c \in Connects, Import(c) PROVE ConfigsAccounted'
  BY <1>7 DEF Import
<1>8. ASSUME NEW c \in Connects, NewTunnel(c) PROVE ConfigsAccounted'
  BY <1>8 DEF NewTunnel
<1>9. ASSUME NEW c \in Connects, Stash(c) PROVE ConfigsAccounted'
  BY <1>9 DEF Stash
<1>10. ASSUME NEW c \in Connects, TeardownCheck(c) PROVE ConfigsAccounted'
  BY <1>10 DEF TeardownCheck
<1>11. ASSUME NEW c \in Connects, WaitReady(c) PROVE ConfigsAccounted'
  BY <1>11 DEF WaitReady
<1>12. ASSUME NEW c \in Connects, FinalCheck(c) PROVE ConfigsAccounted'
  BY <1>12 DEF FinalCheck
<1>13. ASSUME NEW c \in Connects, SessionConnect(c) PROVE ConfigsAccounted'
  BY <1>13 DEF SessionConnect, Live
<1>14. ASSUME NEW c \in Connects, Arm(c) PROVE ConfigsAccounted'
  BY <1>14 DEF Arm, Return
<1>15. ASSUME NEW c \in Connects, ConnectError(c) PROVE ConfigsAccounted'
  BY <1>15 DEF ConnectError, Return
<1>16. ASSUME NEW c \in Connects, Cleanup(c) PROVE ConfigsAccounted'
  BY <1>16 DEF Cleanup, AbortTasks
<1>17. ASSUME NEW h \in Handlers, SessionDisconnect(h) PROVE ConfigsAccounted'
  <2>1. \/ pc[h] \in {"disc1", "disc2"} /\ pc' = [pc EXCEPT ![h] = "rm"]
           /\ sessLocal' = [sessLocal EXCEPT ![h] = None]
        \/ pc[h] = "disc1" /\ pc' = [pc EXCEPT ![h] = "disc2"] /\ UNCHANGED sessLocal
    BY <1>17 DEF SessionDisconnect
  <2>2. UNCHANGED <<lock, config_path, session_path, cfgLocal, configs, leakedConfigs>>
    BY <1>17 DEF SessionDisconnect
  <2>. QED
    BY <2>1, <2>2
<1>18. ASSUME NEW h \in Handlers, RemoveConfig(h) PROVE ConfigsAccounted'
  BY <1>18 DEF RemoveConfig
<1>19. ASSUME NEW d \in Disconnects, DisconnectCall(d) PROVE ConfigsAccounted'
  BY <1>19 DEF DisconnectCall
<1>20. ASSUME NEW d \in Disconnects, lock_disconnect(d) PROVE ConfigsAccounted'
  BY <1>20 DEF lock_disconnect, Acquire
<1>21. ASSUME NEW d \in Disconnects, Take(d) PROVE ConfigsAccounted'
  BY <1>21 DEF Take, AbortTasks
<1>22. ASSUME NEW d \in Disconnects, Stop(d) PROVE ConfigsAccounted'
  BY <1>22 DEF Stop, Return
<1>23. ASSUME NEW c \in Connects, TaskReport(c) PROVE ConfigsAccounted'
  BY <1>23 DEF TaskReport
<1>24. ASSUME NEW c \in Connects, BackendFetch(c) PROVE ConfigsAccounted'
  BY <1>24 DEF BackendFetch, Live
<1>25. ASSUME NEW c \in Connects, BackendDies(c) PROVE ConfigsAccounted'
  BY <1>25 DEF BackendDies, Live
<1>26. CASE Exit
  BY <1>26 DEF Exit
<1>27. CASE UNCHANGED vars
  BY <1>27 DEF vars
<1>. QED
  BY <1>1, <1>2, <1>3, <1>4, <1>5, <1>6, <1>7, <1>8, <1>9, <1>10, <1>11, <1>12, <1>13, <1>14,
     <1>15, <1>16, <1>17, <1>18, <1>19, <1>20, <1>21, <1>22, <1>23, <1>24, <1>25, <1>26, <1>27
     DEF Next, ConnectStep, DisconnectStep, TearDownStep, Environment

(* Every reachable state satisfies the inductive invariant. *)
THEOREM Invariance == Spec => []IInv
<1>1. Init => IInv
  <2> SUFFICES ASSUME Init PROVE IInv
    OBVIOUS
  <2>1. TypeOK
    <3>1. waiters \in Seq(Handlers)
      BY DEF Init
    <3>. QED
      BY <3>1 DEF Init, TypeOK, TaskNames, NMVpnServiceState
  <2>2. LockInv /\ PathInv /\ LocalInv
    BY CallsAssumption DEF Init, LockInv, PathInv, LocalInv, Handlers, Body, ConnectBody,
         DisconnectBody, Returned, StoredPc, EmptyPc
  <2>3. TeardownInv /\ StateInv /\ TasksOwned /\ SessionsAccounted /\ ConfigsAccounted
    BY DEF Init, TeardownInv, StateInv, TasksOwned, SessionsAccounted, ConfigsAccounted, Live
  <2>. QED
    BY <2>1, <2>2, <2>3 DEF IInv
<1>2. IInv /\ [Next]_vars => IInv'
  <2> SUFFICES ASSUME IInv, [Next]_vars PROVE IInv'
    OBVIOUS
  <2>1. TypeOK' /\ LockInv' /\ LocalInv'
    BY TypeStep, LockStep, LocalStep DEF IInv
  <2>2. PathInv' /\ TeardownInv'
    BY PathStep, TeardownStep DEF IInv
  <2>3. StateInv' /\ TasksOwned'
    BY StateStep, TasksStep DEF IInv
  <2>4. SessionsAccounted' /\ ConfigsAccounted'
    BY SessionsStep, ConfigsStep DEF IInv
  <2>. QED
    BY <2>1, <2>2, <2>3, <2>4 DEF IInv
<1>. QED
  BY <1>1, <1>2, PTL DEF Spec

(* The variables keep their types, for any sets of calls. *)
THEOREM TypeCorrect == Spec => []TypeOK
BY Invariance, PTL DEF IInv

(* No session of any Connect is lost, however the handlers interleave and  *)
(* whichever D-Bus calls fail.                                             *)
THEOREM NoSessionLost == Spec => []SessionsAccounted
BY Invariance, PTL DEF IInv

(* No imported configuration is lost either. *)
THEOREM NoConfigLost == Spec => []ConfigsAccounted
BY Invariance, PTL DEF IInv

(* Only the owned session has background tasks. *)
THEOREM OnlyOwnedTasks == Spec => []TasksOwned
BY Invariance, PTL DEF IInv

(* NM is never left at Starting with nobody to end the activation. *)
THEOREM NeverStuckStarting == Spec => []NotStuckStarting
<1>1. IInv => NotStuckStarting
  BY DEF IInv, TypeOK, StateInv, NotStuckStarting, NMVpnServiceState
<1>. QED
  BY <1>1, Invariance, PTL

(* A Connect that returns silently leaves a queued Disconnect behind it:   *)
(* by TeardownInv the flag it saw was not stale.                           *)
THEOREM NoSilentAbort == Spec => SilentAbortHasOwner
<1> DEFINE Owner == \A c \in Connects : pc[c] # "aborted" /\ pc'[c] = "aborted" =>
                      \E d \in Disconnects : pc'[d] = "lock"
<1>1. IInv /\ [Next]_vars => [Owner]_vars
  <2> SUFFICES ASSUME IInv, Next, NEW c \in Connects,
                      pc[c] # "aborted", pc'[c] = "aborted"
               PROVE  \E d \in Disconnects : pc'[d] = "lock"
    BY DEF vars
  <2>1. ConnectError(c) /\ teardown
    <3> USE DEF IInv, TypeOK, Handlers, Goto
    <3>1. ASSUME NEW x \in Connects, ConnectCall(x) \/ lock_connect(x) \/ Refuse(x)
                 \/ Accept(x) \/ Profile(x) \/ PreImportCheck(x) \/ Import(x)
                 \/ NewTunnel(x) \/ Stash(x) \/ TeardownCheck(x)
          PROVE FALSE
      BY <3>1 DEF ConnectCall, lock_connect, Acquire, Refuse, Accept, Profile,
           PreImportCheck, Import, NewTunnel, Stash, TeardownCheck
    <3>2. ASSUME NEW x \in Connects, WaitReady(x) \/ FinalCheck(x) \/ SessionConnect(x)
                 \/ Arm(x) \/ Cleanup(x) \/ Environment(x)
          PROVE FALSE
      BY <3>2 DEF WaitReady, FinalCheck, SessionConnect, Arm, Return, Cleanup,
           Environment, TaskReport, BackendFetch, BackendDies
    <3>3. ASSUME NEW h \in Handlers, TearDownStep(h) PROVE FALSE
      BY <3>3 DEF TearDownStep, SessionDisconnect, RemoveConfig
    <3>4. ASSUME NEW d \in Disconnects, DisconnectCall(d) \/ lock_disconnect(d) \/ Take(d) \/ Stop(d)
          PROVE FALSE
      BY <3>4, CallsAssumption DEF DisconnectCall, lock_disconnect, Acquire, Take, Stop, Return
    <3>5. ~Exit
      BY DEF Exit
    <3>6. PICK x \in Connects : ConnectError(x)
      BY <3>1, <3>2, <3>3, <3>4, <3>5 DEF Next, ConnectStep, DisconnectStep
    <3>. QED
      BY <3>6 DEF ConnectError, Return
  <2>2. lock = c /\ pc[c] = "err"
    BY <2>1 DEF IInv, LockInv, ConnectError, Return, Goto, Body, ConnectBody, Handlers
  <2>3. PICK d \in Disconnects : pc[d] \in {"lock", "take"}
    BY <2>1, <2>2 DEF IInv, TeardownInv, ConnectBody
  <2>4. pc[d] = "lock" /\ d # c
    BY <2>2, <2>3, CallsAssumption DEF IInv, LockInv, Body, DisconnectBody, Handlers
  <2>. QED
    BY <2>1, <2>4 DEF IInv, TypeOK, ConnectError, Return, Goto, Handlers
<1>2. Spec => [][Owner]_vars
  BY <1>1, Invariance, PTL DEF Spec
<1>. QED
  BY <1>2 DEF SilentAbortHasOwner

(* A Disconnect returns with nothing of the plugin's left at openvpn3. *)
THEOREM DisconnectComplete == Spec => DisconnectLeavesNothing
<1> DEFINE Clean == \A d \in Disconnects : pc[d] = "stop" /\ pc'[d] = "ok" =>
                      /\ \A c \in Connects : Live(c) => c \in leakedSessions
                      /\ configs \subseteq leakedConfigs
<1>1. IInv /\ [Next]_vars => [Clean]_vars
  <2> SUFFICES ASSUME IInv, NEW d \in Disconnects, pc[d] = "stop"
               PROVE  /\ \A c \in Connects : Live(c) => c \in leakedSessions
                      /\ configs \subseteq leakedConfigs
    OBVIOUS
  <2>1. session_path = None /\ config_path = None
    BY DEF IInv, PathInv, EmptyPc, Handlers
  <2>2. ASSUME NEW h \in Handlers PROVE sessLocal[h] = None /\ cfgLocal[h] = None
    BY CallsAssumption DEF IInv, LockInv, LocalInv, Body, ConnectBody, DisconnectBody,
         StoredPc, Handlers
  <2>. QED
    BY <2>1, <2>2, CallsAssumption DEF IInv, TypeOK, SessionsAccounted, ConfigsAccounted, Handlers
<1>2. Spec => [][Clean]_vars
  BY <1>1, Invariance, PTL DEF Spec
<1>. QED
  BY <1>2 DEF DisconnectLeavesNothing

(* Steps that TunnelService does not see: a handler moves between awaits   *)
(* of its body without storing or taking a session that was returned.      *)
LEMMA QuietStep ==
    ASSUME TypeOK, NEW h \in Handlers, NEW to \in Body, pc[h] \in Body \cup {"lock"},
           pc' = [pc EXCEPT ![h] = to],
           \/ UNCHANGED session_path
           \/ /\ session_path \in Connects => pc[session_path] # "ok"
              /\ session_path' \in Connects => pc'[session_path'] # "ok"
    PROVE  UNCHANGED <<callView, ownedView>>
<1> USE DEF TypeOK, Handlers, Body, ConnectBody, DisconnectBody
<1>1. callView' = callView
  BY DEF callView, Returned
<1>2. ownedView' = ownedView
  BY DEF ownedView
<1>. QED
  BY <1>1, <1>2

(* The interleaved handlers implement atomic calls: Connect takes effect   *)
(* when it returns, Disconnect when it takes the stored session.           *)
THEOREM AtomicCalls == Spec => CallsAreAtomic
<1>1. Init => TS!Init
  BY CallsAssumption DEF Init, TS!Init, callView, ownedView, Handlers
<1>2. IInv /\ [Next]_vars => [TS!Next]_(TS!vars)
  <2> SUFFICES ASSUME IInv, [Next]_vars PROVE TS!Next \/ UNCHANGED <<callView, ownedView, running>>
    BY DEF TS!vars
  <2> USE CallsAssumption DEF Handlers, Body, ConnectBody, DisconnectBody
  <2>typ. TypeOK /\ LockInv /\ PathInv
    BY DEF IInv
  <2>1. ASSUME NEW c \in Connects, running,
               \/ lock_connect(c) \/ Refuse(c) \/ Accept(c) \/ Profile(c) \/ PreImportCheck(c)
               \/ Import(c) \/ NewTunnel(c) \/ TeardownCheck(c)
        PROVE  UNCHANGED <<callView, ownedView, running>>
    BY <2>1, <2>typ, QuietStep DEF lock_connect, Acquire, Refuse, Accept, Profile, PreImportCheck,
         Import, NewTunnel, TeardownCheck, Goto, pathVars, procVars
  <2>2. ASSUME NEW c \in Connects, running,
               WaitReady(c) \/ FinalCheck(c) \/ SessionConnect(c)
        PROVE  UNCHANGED <<callView, ownedView, running>>
    BY <2>2, <2>typ, QuietStep DEF WaitReady, FinalCheck, SessionConnect, Goto, pathVars, procVars
  <2>3. ASSUME NEW c \in Connects, running, Stash(c) \/ Cleanup(c)
        PROVE  UNCHANGED <<callView, ownedView, running>>
    <3>1. CASE Stash(c)
      <4>1. session_path = None /\ session_path' = c /\ pc'[c] = "check1"
        BY <3>1 DEF Stash, Goto, IInv, TypeOK, PathInv, LocalInv, EmptyPc
      <4>. QED
        BY <3>1, <4>1, <2>typ, QuietStep DEF Stash, Goto, procVars
    <3>2. CASE Cleanup(c)
      <4>1. session_path = c /\ pc[c] = "cleanup" /\ session_path' = None
        BY <3>2 DEF Cleanup, Goto, IInv, PathInv, StoredPc
      <4>. QED
        BY <3>2, <4>1, <2>typ, QuietStep DEF Cleanup, Goto, procVars
    <3>. QED
      BY <2>3, <3>1, <3>2
  <2>4. ASSUME NEW h \in Handlers, running, TearDownStep(h)
        PROVE  UNCHANGED <<callView, ownedView, running>>
    BY <2>4, <2>typ, QuietStep DEF TearDownStep, SessionDisconnect, RemoveConfig, Goto,
       pathVars, procVars
  <2>5. ASSUME NEW d \in Disconnects, running, lock_disconnect(d)
        PROVE  UNCHANGED <<callView, ownedView, running>>
    BY <2>5, <2>typ, QuietStep DEF lock_disconnect, Acquire, Goto, pathVars, procVars
  <2>6. ASSUME NEW h \in Handlers, pc[h] = "idle", pc' = [pc EXCEPT ![h] = "lock"],
               UNCHANGED <<session_path, running>>
        PROVE  TS!Begin(h)
    <3>1. callView[h] = "idle" /\ callView' = [callView EXCEPT ![h] = "pending"]
      BY <2>6, <2>typ DEF TypeOK, callView, Returned
    <3>2. ownedView' = ownedView
      BY <2>6, <2>typ DEF TypeOK, ownedView
    <3>. QED
      BY <2>6, <3>1, <3>2 DEF TS!Begin
  <2>7. ASSUME NEW c \in Connects, Arm(c) PROVE TS!ConnectOk(c)
    <3>1. session_path = c /\ pc[c] = "arm" /\ pc' = [pc EXCEPT ![c] = "ok"] /\ session_path' = c
      BY <2>7 DEF Arm, Return, Goto, pathVars, IInv, PathInv, StoredPc
    <3>2. callView[c] = "pending" /\ callView' = [callView EXCEPT ![c] = "ok"]
      BY <3>1, <2>typ DEF TypeOK, callView, Returned
    <3>3. ownedView = None /\ ownedView' = c
      BY <3>1, <2>typ DEF TypeOK, ownedView
    <3>. QED
      BY <2>7, <3>2, <3>3 DEF TS!ConnectOk, TS!End, Arm, procVars
  <2>8. ASSUME NEW c \in Connects, ConnectError(c)
        PROVE  TS!ConnectFailed(c) \/ TS!ConnectAborted(c)
    <3>1. /\ lock = c /\ pc[c] = "err"
          /\ pc' = [pc EXCEPT ![c] = IF teardown THEN "aborted" ELSE "failed"]
          /\ UNCHANGED <<session_path, running>>
      BY <2>8, <2>typ DEF ConnectError, Return, Goto, pathVars, procVars, LockInv, TypeOK
    <3>2. /\ callView[c] = "pending"
          /\ callView' = [callView EXCEPT ![c] = IF teardown THEN "aborted" ELSE "failed"]
      BY <3>1, <2>typ DEF TypeOK, callView, Returned
    <3>3. ownedView' = ownedView
      BY <3>1, <2>typ DEF TypeOK, ownedView
    <3>4. teardown => \E d \in Disconnects : callView[d] = "pending"
      BY <3>1 DEF IInv, TeardownInv, callView, Returned
    <3>. QED
      BY <3>1, <3>2, <3>3, <3>4, <2>typ DEF TypeOK, TS!ConnectFailed, TS!ConnectAborted, TS!End
  <2>9. ASSUME NEW d \in Disconnects, Take(d) PROVE TS!Release(d)
    <3>1. /\ pc[d] = "take" /\ session_path' = None /\ UNCHANGED running
          /\ pc' = [pc EXCEPT ![d] = IF session_path = None THEN "rm" ELSE "disc1"]
      BY <2>9 DEF Take, Goto, procVars
    <3>2. callView[d] = "pending" /\ callView' = callView
      BY <3>1, <2>typ DEF TypeOK, callView, Returned
    <3>3. ownedView' = None
      BY <3>1 DEF ownedView
    <3>. QED
      BY <3>1, <3>2, <3>3 DEF TS!Release
  <2>10. ASSUME NEW d \in Disconnects, Stop(d) PROVE TS!DisconnectOk(d)
    <3>1. /\ pc[d] = "stop" /\ session_path = None /\ session_path' = None /\ UNCHANGED running
          /\ pc' = [pc EXCEPT ![d] = "ok"]
      BY <2>10 DEF Stop, Return, Goto, pathVars, IInv, PathInv, EmptyPc
    <3>2. callView[d] = "pending" /\ callView' = [callView EXCEPT ![d] = "ok"]
      BY <3>1, <2>typ DEF TypeOK, callView, Returned
    <3>3. ownedView = None /\ ownedView' = None
      BY <3>1 DEF ownedView
    <3>. QED
      BY <3>1, <3>2, <3>3 DEF TS!DisconnectOk, TS!End
  <2>11. ASSUME NEW c \in Connects, Environment(c)
         PROVE  UNCHANGED <<callView, ownedView, running>>
    BY <2>11 DEF Environment, TaskReport, BackendFetch, BackendDies, callView, ownedView,
         pathVars, procVars
  <2>12. ASSUME Exit PROVE TS!Die
    BY <2>12 DEF Exit, callView, ownedView, pathVars, TS!Die
  <2>13. CASE UNCHANGED vars
    BY <2>13 DEF vars, callView, ownedView, pathVars, procVars
  <2>14. ASSUME NEW c \in Connects, running, ConnectCall(c) \/ ConnectStep(c)
         PROVE  TS!Next \/ UNCHANGED <<callView, ownedView, running>>
    <3>1. ConnectCall(c) => TS!Begin(c)
      BY <2>6 DEF ConnectCall, Goto, pathVars, procVars
    <3>. QED
      BY <2>1, <2>2, <2>3, <2>4, <2>7, <2>8, <2>14, <3>1 DEF ConnectStep, TS!Next
  <2>15. ASSUME NEW d \in Disconnects, running, DisconnectCall(d) \/ DisconnectStep(d)
         PROVE  TS!Next \/ UNCHANGED <<callView, ownedView, running>>
    <3>1. DisconnectCall(d) => TS!Begin(d)
      BY <2>6 DEF DisconnectCall, Goto, pathVars, procVars
    <3>. QED
      BY <2>4, <2>5, <2>9, <2>10, <2>15, <3>1 DEF DisconnectStep, TS!Next
  <2>. QED
    BY <2>11, <2>12, <2>13, <2>14, <2>15 DEF Next, TS!Next
<1>3. QED
  BY <1>1, <1>2, Invariance, PTL DEF Spec, CallsAreAtomic, TS!Spec

=============================================================================
