------------------------------- MODULE Plugin -------------------------------
(***************************************************************************)
(* The VPN plugin's method handlers Connect and Disconnect                 *)
(* (nm-openvpn3-service/src/plugin.rs), the coordinator that serialises    *)
(* them (connect_coord.rs) and the objects they create at openvpn3.        *)
(*                                                                         *)
(* zbus runs every method call on its own task, so a handler may be        *)
(* suspended at each of its awaits.  pc[h] names the await the handler of  *)
(* call h is suspended at; an action runs it from there to the next one.   *)
(* Each Connect imports at most one configuration and starts at most one   *)
(* session, so both objects are named by the call that created them.       *)
(***************************************************************************)
EXTENDS Sequences

CONSTANTS
    Connects,     \* the Connect (or ConnectInteractive) calls NM makes
    Disconnects,  \* the Disconnect calls NM makes
    None,         \* Option::None
    Persist,      \* --persist: the process survives a Disconnect
    Signals,      \* whether SIGTERM / SIGINT may arrive
    Reports       \* the states the tasks of a session may publish

ASSUME CallsAssumption ==
    /\ Connects \cap Disconnects = {}
    /\ None \notin Connects \cup Disconnects

ASSUME FlagsAssumption == Persist \in BOOLEAN /\ Signals \in BOOLEAN

ASSUME ReportsAssumption == Reports \subseteq {"Starting", "Started", "Stopped"}

VARIABLES
    pc,             \* where each handler is suspended
    lock,           \* ConnectCoordinator.lock: the call holding the guard
    waiters,        \* the calls queued on that lock (tokio's Mutex is FIFO)
    teardown,       \* ConnectCoordinator.teardown
    config_path,    \* SessionState.config_path
    session_path,   \* SessionState.session_path
    tasks,          \* SessionState.tasks: handles not yet aborted, per session
    state,          \* Plugin.state, the state NM was last told
    cfgLocal,       \* the configuration a handler holds in a local variable
    sessLocal,      \* the session a handler holds in a local variable
    configs,        \* configuration objects that exist at openvpn3
    sessions,       \* what openvpn3 holds of each session
    leakedConfigs,  \* history: configurations the code gave up on
    leakedSessions, \* history: sessions the code gave up on
    quit,           \* a message was sent on quit_tx
    running         \* the process has not exited

coordVars == <<lock, waiters, teardown>>
pathVars  == <<config_path, session_path>>
localVars == <<cfgLocal, sessLocal>>
backendVars == <<configs, sessions, leakedConfigs, leakedSessions>>
procVars == <<quit, running>>
vars == <<pc, coordVars, pathVars, tasks, state, localVars, backendVars, procVars>>

Handlers == Connects \cup Disconnects

\* The awaits of do_connect, in the order the code reaches them; the last
\* four belong to cleanup_session and to the error arm of connect().
ConnectBody == {"gate", "profile", "preimport", "import", "tunnel", "stash",
                "check1", "ready", "check2", "connect", "arm",
                "cleanup", "disc1", "disc2", "rm", "err"}
DisconnectBody == {"take", "disc1", "disc2", "rm", "stop"}
Returned == {"ok", "failed", "aborted"}

TaskNames == {"listener", "attention", "poller", "stats"}
NMVpnServiceState == {"Init", "Starting", "Started", "Stopped"}

Live(s) == sessions[s] \in {"created", "up"}

-----------------------------------------------------------------------------
(* Plugin::new: an empty session, state Init, nothing at the backend. *)
Init ==
    /\ pc = [h \in Handlers |-> "idle"]
    /\ lock = None
    /\ waiters = <<>>
    /\ teardown = FALSE
    /\ config_path = None
    /\ session_path = None
    /\ tasks = [c \in Connects |-> {}]
    /\ state = "Init"
    /\ cfgLocal = [h \in Handlers |-> None]
    /\ sessLocal = [h \in Handlers |-> None]
    /\ configs = {}
    /\ sessions = [c \in Connects |-> "none"]
    /\ leakedConfigs = {}
    /\ leakedSessions = {}
    /\ quit = FALSE
    /\ running = TRUE

Goto(h, from, to) == pc[h] = from /\ pc' = [pc EXCEPT ![h] = to]

(* Returning from a handler drops its guard and its locals. *)
Return(h, from, result) ==
    /\ Goto(h, from, result)
    /\ lock' = None
    /\ cfgLocal' = [cfgLocal EXCEPT ![h] = None]
    /\ sessLocal' = [sessLocal EXCEPT ![h] = None]

-----------------------------------------------------------------------------
(* ConnectCoordinator *)

(* NM calls Connect; the handler queues on the coordinator's lock. *)
ConnectCall(c) ==
    /\ Goto(c, "idle", "lock")
    /\ waiters' = Append(waiters, c)
    /\ UNCHANGED <<lock, teardown, pathVars, tasks, state, localVars, backendVars, procVars>>

Acquire(h, next) ==
    /\ lock = None
    /\ waiters # <<>> /\ Head(waiters) = h
    /\ Goto(h, "lock", next)
    /\ lock' = h
    /\ waiters' = Tail(waiters)
    /\ UNCHANGED <<teardown, pathVars, tasks, state, localVars, backendVars, procVars>>

lock_connect(c) == Acquire(c, "gate")

(* lock_disconnect stores the flag before it queues on the lock. *)
DisconnectCall(d) ==
    /\ Goto(d, "idle", "lock")
    /\ teardown' = TRUE
    /\ waiters' = Append(waiters, d)
    /\ UNCHANGED <<lock, pathVars, tasks, state, localVars, backendVars, procVars>>

\* Mutant: the flag without the lock.
lock_disconnect_FlagOnly(d) ==
    /\ Goto(d, "lock", "take")
    /\ UNCHANGED <<coordVars, pathVars, tasks, state, localVars, backendVars, procVars>>

lock_disconnect(d) == Acquire(d, "take")

-----------------------------------------------------------------------------
(* do_connect *)

(* A Connect that finds a live session is refused before the flag is cleared. *)
Refuse(c) ==
    /\ session_path # None
    /\ Goto(c, "gate", "err")
    /\ UNCHANGED <<coordVars, pathVars, tasks, state, localVars, backendVars, procVars>>

\* Mutant: the check for a live session is missing.
Accept_Unguarded(c) ==
    /\ Goto(c, "gate", "profile")
    /\ teardown' = FALSE
    /\ UNCHANGED <<lock, waiters, pathVars, tasks, state, localVars, backendVars, procVars>>

\* Mutant: clear_teardown is forgotten.
Accept_StaleFlag(c) ==
    /\ session_path = None
    /\ Goto(c, "gate", "profile")
    /\ UNCHANGED <<coordVars, pathVars, tasks, state, localVars, backendVars, procVars>>

(* clear_teardown, then vpn_data, which may fail at once. *)
Accept(c) ==
    /\ session_path = None
    /\ Goto(c, "gate", "profile") \/ Goto(c, "gate", "err")
    /\ teardown' = FALSE
    /\ UNCHANGED <<lock, waiters, pathVars, tasks, state, localVars, backendVars, procVars>>

(* The profile is read from disk or built from vpn.data. *)
Profile(c) ==
    /\ \/ Goto(c, "profile", "preimport") /\ state' = "Starting"
       \/ Goto(c, "profile", "err") /\ UNCHANGED state
    /\ UNCHANGED <<coordVars, pathVars, tasks, localVars, backendVars, procVars>>

(* The checkpoint before anything is created at the backend. *)
PreImportCheck(c) ==
    /\ Goto(c, "preimport", IF teardown THEN "err" ELSE "import")
    /\ UNCHANGED <<coordVars, pathVars, tasks, state, localVars, backendVars, procVars>>

(* Import, then the overrides (best effort).  An error reply may hide an    *)
(* import that took effect: the reply was lost.                             *)
Import(c) ==
    /\ \/ /\ Goto(c, "import", "tunnel")
          /\ configs' = configs \cup {c}
          /\ cfgLocal' = [cfgLocal EXCEPT ![c] = c]
          /\ UNCHANGED leakedConfigs
       \/ /\ Goto(c, "import", "err")
          /\ \E lost \in {{}, {c}} : /\ configs' = configs \cup lost
                                     /\ leakedConfigs' = leakedConfigs \cup lost
          /\ UNCHANGED cfgLocal
    /\ UNCHANGED <<coordVars, pathVars, tasks, state, sessLocal, sessions,
                   leakedSessions, procVars>>

(* NewTunnel; on an error the imported configuration is removed ("rm"). *)
NewTunnel(c) ==
    /\ \/ /\ Goto(c, "tunnel", "stash")
          /\ sessions' = [sessions EXCEPT ![c] = "created"]
          /\ sessLocal' = [sessLocal EXCEPT ![c] = c]
          /\ UNCHANGED leakedSessions
       \/ /\ Goto(c, "tunnel", "rm")
          /\ \/ UNCHANGED <<sessions, leakedSessions>>
             \/ /\ sessions' = [sessions EXCEPT ![c] = "created"]
                /\ leakedSessions' = leakedSessions \cup {c}
          /\ UNCHANGED sessLocal
    /\ UNCHANGED <<coordVars, pathVars, tasks, state, cfgLocal, configs,
                   leakedConfigs, procVars>>

(* The session is stored before anything else can fail; the configuration   *)
(* moves into it, the session path is cloned.                               *)
Stash(c) ==
    /\ Goto(c, "stash", "check1")
    /\ config_path' = cfgLocal[c]
    /\ session_path' = sessLocal[c]
    /\ cfgLocal' = [cfgLocal EXCEPT ![c] = None]
    /\ UNCHANGED <<coordVars, tasks, state, sessLocal, backendVars, procVars>>

TeardownCheck(c) ==
    /\ Goto(c, "check1", IF teardown THEN "cleanup" ELSE "ready")
    /\ UNCHANGED <<coordVars, pathVars, tasks, state, localVars, backendVars, procVars>>

(* session_wait_ready; when it succeeds the two signal listeners are       *)
(* spawned and access is granted (best effort).                            *)
WaitReady(c) ==
    /\ \/ /\ Goto(c, "ready", "check2")
          /\ tasks' = [tasks EXCEPT ![c] = @ \cup {"listener", "attention"}]
       \/ /\ Goto(c, "ready", "cleanup")
          /\ UNCHANGED tasks
    /\ UNCHANGED <<coordVars, pathVars, state, localVars, backendVars, procVars>>

FinalCheck(c) ==
    /\ Goto(c, "check2", IF teardown THEN "cleanup" ELSE "connect")
    /\ UNCHANGED <<coordVars, pathVars, tasks, state, localVars, backendVars, procVars>>

(* session.Connect; an error reply may hide a call that took effect, or a  *)
(* session that died meanwhile.                                            *)
SessionConnect(c) ==
    /\ \/ /\ Goto(c, "connect", "arm")
          /\ Live(c)
          /\ sessions' = [sessions EXCEPT ![c] = "up"]
       \/ /\ Goto(c, "connect", "cleanup")
          /\ \/ UNCHANGED sessions
             \/ Live(c) /\ sessions' = [sessions EXCEPT ![c] = "up"]
    /\ UNCHANGED <<coordVars, pathVars, tasks, state, localVars, configs,
                   leakedConfigs, leakedSessions, procVars>>

(* The poller and the stats timer start, and Connect returns. *)
Arm(c) ==
    /\ Return(c, "arm", "ok")
    /\ tasks' = [tasks EXCEPT ![c] = @ \cup {"poller", "stats"}]
    /\ UNCHANGED <<waiters, teardown, pathVars, state, backendVars, procVars>>

\* Mutant: the error arm reports the failure and forgets Stopped.
ConnectError_NoStopped(c) ==
    /\ Return(c, "err", IF teardown THEN "aborted" ELSE "failed")
    /\ UNCHANGED <<waiters, teardown, pathVars, tasks, state, backendVars, procVars>>

(* The error arm of connect(): silent when a Disconnect asked for it. *)
ConnectError(c) ==
    /\ \/ /\ teardown
          /\ Return(c, "err", "aborted")
          /\ UNCHANGED state
       \/ /\ ~teardown
          /\ Return(c, "err", "failed")
          /\ state' = "Stopped"
    /\ UNCHANGED <<waiters, teardown, pathVars, tasks, backendVars, procVars>>

-----------------------------------------------------------------------------
(* Teardown, shared by cleanup_session and disconnect() *)

\* Mutant: the handles are dropped, which detaches the tasks.
AbortTasks_Detach == UNCHANGED tasks

(* Aborting the tasks of the stored session. *)
AbortTasks == tasks' = [c \in Connects |-> IF c = session_path THEN {} ELSE tasks[c]]

\* Mutant: the configuration path is cleared, not taken.
Cleanup_DropConfig(c) ==
    /\ Goto(c, "cleanup", "disc1")
    /\ AbortTasks
    /\ config_path' = None
    /\ session_path' = None
    /\ UNCHANGED <<coordVars, state, localVars, backendVars, procVars>>

(* cleanup_session, first half: under the session lock. *)
Cleanup(c) ==
    /\ Goto(c, "cleanup", "disc1")
    /\ AbortTasks
    /\ cfgLocal' = [cfgLocal EXCEPT ![c] = config_path]
    /\ config_path' = None
    /\ session_path' = None
    /\ UNCHANGED <<coordVars, state, sessLocal, backendVars, procVars>>

\* Mutant: the session is cloned, not taken.
Take_Clone(d) ==
    /\ Goto(d, "take", IF session_path = None THEN "rm" ELSE "disc1")
    /\ AbortTasks
    /\ cfgLocal' = [cfgLocal EXCEPT ![d] = config_path]
    /\ sessLocal' = [sessLocal EXCEPT ![d] = session_path]
    /\ UNCHANGED <<coordVars, pathVars, state, backendVars, procVars>>

(* disconnect(): mem::take of the session, under the session lock. *)
Take(d) ==
    /\ Goto(d, "take", IF session_path = None THEN "rm" ELSE "disc1")
    /\ AbortTasks
    /\ cfgLocal' = [cfgLocal EXCEPT ![d] = config_path]
    /\ sessLocal' = [sessLocal EXCEPT ![d] = session_path]
    /\ config_path' = None
    /\ session_path' = None
    /\ UNCHANGED <<coordVars, state, backendVars, procVars>>

\* Mutant: session.Disconnect is retried until it succeeds.
SessionDisconnect_Forever(h) ==
    LET s == sessLocal[h] IN
    /\ \/ /\ Goto(h, "disc1", "rm")
          /\ sessions' = [sessions EXCEPT ![s] = "gone"]
          /\ sessLocal' = [sessLocal EXCEPT ![h] = None]
       \/ /\ Goto(h, "disc1", "disc2") \/ Goto(h, "disc2", "disc1")
          /\ UNCHANGED <<sessions, sessLocal>>
    /\ UNCHANGED <<coordVars, pathVars, tasks, state, cfgLocal, configs,
                   leakedConfigs, leakedSessions, procVars>>

(* session.Disconnect with one retry; a second error leaves the session    *)
(* for openvpn3 to collect.                                                *)
SessionDisconnect(h) ==
    LET s == sessLocal[h] IN
    /\ \/ /\ \/ Goto(h, "disc1", "rm")
             \/ Goto(h, "disc2", "rm")
          /\ sessions' = [sessions EXCEPT ![s] = "gone"]
          /\ sessLocal' = [sessLocal EXCEPT ![h] = None]
          /\ UNCHANGED leakedSessions
       \/ /\ Goto(h, "disc1", "disc2")
          /\ UNCHANGED <<sessions, sessLocal, leakedSessions>>
       \/ /\ Goto(h, "disc2", "rm")
          /\ leakedSessions' = leakedSessions \cup {x \in {s} : Live(x)}
          /\ sessLocal' = [sessLocal EXCEPT ![h] = None]
          /\ UNCHANGED sessions
    /\ UNCHANGED <<coordVars, pathVars, tasks, state, cfgLocal, configs,
                   leakedConfigs, procVars>>

\* Mutant: the optional path is not unwrapped.
RemoveConfig_Unwrapped(h) ==
    /\ Goto(h, "rm", IF h \in Connects THEN "err" ELSE "stop")
    /\ cfgLocal' = [cfgLocal EXCEPT ![h] = None]
    /\ leakedConfigs' = leakedConfigs \cup {cfgLocal[h]}
    /\ UNCHANGED <<coordVars, pathVars, tasks, state, sessLocal, sessions, configs,
                   leakedSessions, procVars>>

(* remove_config, best effort: an error is taken to mean "already gone". *)
RemoveConfig(h) ==
    LET cp == {cfgLocal[h]} \ {None} IN
    /\ Goto(h, "rm", IF h \in Connects THEN "err" ELSE "stop")
    /\ cfgLocal' = [cfgLocal EXCEPT ![h] = None]
    /\ \/ configs' = configs \ cp /\ UNCHANGED leakedConfigs
       \/ leakedConfigs' = leakedConfigs \cup (cp \cap configs) /\ UNCHANGED configs
    /\ UNCHANGED <<coordVars, pathVars, tasks, state, sessLocal, sessions,
                   leakedSessions, procVars>>

(* disconnect() publishes Stopped and, without --persist, asks main to quit. *)
Stop(d) ==
    /\ Return(d, "stop", "ok")
    /\ state' = "Stopped"
    /\ quit' = (quit \/ ~Persist)
    /\ UNCHANGED <<waiters, teardown, pathVars, tasks, backendVars, running>>

-----------------------------------------------------------------------------
(* The environment *)

(* A listener or the poller of a session publishes a state (set_state_via). *)
TaskReport(c) ==
    /\ tasks[c] \cap {"listener", "poller"} # {}
    /\ state' \in Reports
    /\ UNCHANGED <<pc, coordVars, pathVars, tasks, localVars, backendVars, procVars>>

(* openvpn3: the backend fetches, and so consumes, the single-use config. *)
BackendFetch(c) ==
    /\ c \in configs
    /\ Live(c)
    /\ configs' = configs \ {c}
    /\ UNCHANGED <<pc, coordVars, pathVars, tasks, state, localVars, sessions,
                   leakedConfigs, leakedSessions, procVars>>

(* openvpn3: a session ends by itself, or another client disconnects it. *)
BackendDies(c) ==
    /\ Live(c)
    /\ sessions' = [sessions EXCEPT ![c] = "gone"]
    /\ UNCHANGED <<pc, coordVars, pathVars, tasks, state, localVars, configs,
                   leakedConfigs, leakedSessions, procVars>>

(* main returns on the first of a quit message and a signal; handlers and  *)
(* tasks are dropped where they are suspended.                             *)
Exit ==
    /\ quit \/ Signals
    /\ running' = FALSE
    /\ UNCHANGED <<pc, coordVars, pathVars, tasks, state, localVars, backendVars, quit>>

-----------------------------------------------------------------------------
TearDownStep(h) == SessionDisconnect(h) \/ RemoveConfig(h)

ConnectStep(c) ==
    \/ lock_connect(c) \/ Refuse(c) \/ Accept(c) \/ Profile(c)
    \/ PreImportCheck(c) \/ Import(c) \/ NewTunnel(c) \/ Stash(c)
    \/ TeardownCheck(c) \/ WaitReady(c) \/ FinalCheck(c) \/ SessionConnect(c)
    \/ Arm(c) \/ Cleanup(c) \/ TearDownStep(c) \/ ConnectError(c)

DisconnectStep(d) ==
    \/ lock_disconnect(d) \/ Take(d) \/ TearDownStep(d) \/ Stop(d)

Environment(c) == TaskReport(c) \/ BackendFetch(c) \/ BackendDies(c)

Next ==
    /\ running
    /\ \/ \E c \in Connects : ConnectCall(c) \/ ConnectStep(c) \/ Environment(c)
       \/ \E d \in Disconnects : DisconnectCall(d) \/ DisconnectStep(d)
       \/ Exit

(* The awaits that wait for openvpn3 to answer.  zbus is given no method    *)
(* timeout, and the deadline of session_wait_ready is looked at only after  *)
(* an error reply: such a call may never return.  The other awaits are a    *)
(* lock, a file read or a signal sent to NM.  Removing a configuration      *)
(* makes a call only when there is one to remove.                           *)
OpenVpn3Calls == {"import", "tunnel", "ready", "connect", "disc1", "disc2", "rm"}

AwaitsOpenVpn3(h) ==
    /\ pc[h] \in OpenVpn3Calls
    /\ pc[h] = "rm" => cfgLocal[h] # None

(* A handler that can run does run (tokio polls every ready task), but      *)
(* openvpn3 owes it no answer, and neither do NM and the signals.           *)
Fairness ==
    /\ \A c \in Connects :
          WF_vars(running /\ ~AwaitsOpenVpn3(c) /\ ConnectStep(c))
    /\ \A d \in Disconnects :
          WF_vars(running /\ ~AwaitsOpenVpn3(d) /\ DisconnectStep(d))

Spec == Init /\ [][Next]_vars /\ Fairness

-----------------------------------------------------------------------------
(* Properties *)

TypeOK ==
    /\ pc \in [Handlers -> {"idle", "lock"} \cup ConnectBody \cup DisconnectBody \cup Returned]
    /\ lock \in Handlers \cup {None}
    /\ waiters \in Seq(Handlers)
    /\ teardown \in BOOLEAN
    /\ config_path \in Connects \cup {None}
    /\ session_path \in Connects \cup {None}
    /\ tasks \in [Connects -> SUBSET TaskNames]
    /\ state \in NMVpnServiceState
    /\ cfgLocal \in [Handlers -> Connects \cup {None}]
    /\ sessLocal \in [Handlers -> Connects \cup {None}]
    /\ configs \subseteq Connects
    /\ sessions \in [Connects -> {"none", "created", "up", "gone"}]
    /\ leakedConfigs \subseteq Connects
    /\ leakedSessions \subseteq Connects
    /\ quit \in BOOLEAN
    /\ running \in BOOLEAN

(* No session is ever lost: one that lives at openvpn3 is the stored one,  *)
(* or a handler still running holds its path, or the code reported that it *)
(* gave up on it (a lost NewTunnel reply, a Disconnect that failed twice). *)
SessionsAccounted ==
    \A s \in Connects : Live(s) =>
        \/ session_path = s
        \/ \E h \in Handlers : sessLocal[h] = s /\ pc[h] \notin Returned
        \/ s \in leakedSessions

(* No imported configuration is ever lost, in the same sense: the local    *)
(* path, the stored path or a reported failure accounts for it.            *)
ConfigsAccounted ==
    \A s \in configs :
        \/ config_path = s
        \/ \E h \in Handlers : cfgLocal[h] = s /\ pc[h] \notin Returned
        \/ s \in leakedConfigs

(* Background tasks run only for the session the plugin owns: every path   *)
(* that clears session_path aborts that session's tasks, and a new Connect *)
(* never starts beside the tasks of an old one.                            *)
TasksOwned == \A c \in Connects : tasks[c] # {} => session_path = c

(* When Connect returns without telling NM anything (connect()'s teardown  *)
(* arm), a Disconnect is queued behind it that will publish Stopped: the   *)
(* flag that silences the error is never a stale one.                      *)
SilentAbortHasOwner ==
    [][\A c \in Connects : pc[c] # "aborted" /\ pc'[c] = "aborted" =>
          \E d \in Disconnects : pc'[d] = "lock"]_vars

(* When Disconnect returns, no session and no configuration the plugin     *)
(* created is left at openvpn3 unless the code reported giving up on it,   *)
(* whatever Connect was in progress or queued when it arrived.             *)
DisconnectLeavesNothing ==
    [][\A d \in Disconnects : pc[d] = "stop" /\ pc'[d] = "ok" =>
          /\ \A c \in Connects : Live(c) => c \in leakedSessions
          /\ configs \subseteq leakedConfigs]_vars

(* With no session, no handler running and no Disconnect queued, NM was    *)
(* last told Init or Stopped: an activation never stays at Starting with   *)
(* nobody left to end it.                                                  *)
NotStuckStarting ==
    /\ running
    /\ session_path = None
    /\ lock = None
    /\ \A d \in Disconnects : pc[d] # "lock"
    => state \in {"Init", "Stopped"}

(* The only thing that can keep a Connect or a Disconnect from returning   *)
(* is one call to openvpn3 that is never answered, made by the handler     *)
(* that holds the coordinator's lock: without it every call returns or the *)
(* process exits, so nobody waits forever on the lock, on the retry of     *)
(* session.Disconnect or on another handler.  (Behind such a call          *)
(* everybody waits: do_connect looks at the teardown flag between its      *)
(* calls, never during one.)                                               *)
OnlyOpenVpn3Blocks ==
    \/ \E g \in Handlers, p \in OpenVpn3Calls : <>[](lock = g /\ pc[g] = p)
    \/ \A h \in Handlers : pc[h] = "lock" ~> (pc[h] \in Returned \/ ~running)

(* What NM knows of a call: not made, pending, or its result. *)
callView ==
    [h \in Handlers |-> IF pc[h] \in {"idle"} \cup Returned THEN pc[h] ELSE "pending"]

(* The tunnel the plugin owns: the stored one, once its Connect returned. *)
ownedView ==
    IF session_path \in Connects /\ pc[session_path] = "ok" THEN session_path ELSE None

TS == INSTANCE TunnelService WITH call <- callView, owned <- ownedView, alive <- running

(* The handlers, suspended and interleaved at every await, implement calls *)
(* that take effect at one instant: the promise of TunnelService.          *)
CallsAreAtomic == TS!Spec

(* A session that is up, and of which no task reported otherwise, is not   *)
(* Stopped to NM: refusing a second Connect leaves the first one alone.    *)
LiveSessionNotStopped ==
    \A c \in Connects :
        session_path = c /\ pc[c] = "ok" /\ sessions[c] = "up" => state # "Stopped"

=============================================================================
