---------------------------- MODULE SessionTasks ----------------------------
(***************************************************************************)
(* The background tasks of one session (nm-openvpn3-service/src/plugin.rs):*)
(* the StatusChange listener, the status poller, the AttentionRequired     *)
(* listener and the stats timer.  They share three flags, publish the      *)
(* service state and the Failure and Ip4Config signals to NM, and race     *)
(* with each other, with the handlers that start and abort them and with   *)
(* the session they watch.                                                 *)
(*                                                                         *)
(* The module begins where do_connect has spawned the two listeners and    *)
(* its session.Connect call is under way.  Each location of a task is one  *)
(* of its awaits, or a point where another thread may run before it acts   *)
(* on a reply.                                                             *)
(***************************************************************************)
EXTENDS Status, Sequences

CONSTANTS
    MaxTicks,      \* max_ticks_pre_started (100 in the code)
    ErrBudget,     \* post_started_err_budget (6 in the code)
    Events,        \* the status changes the backend may go through
    Devices,       \* the names a tunnel device may get
    MaxEvents,     \* bound: status changes of the backend
    MaxReadErrors, \* bound: reads that fail though the session exists
    ProxyMayFail   \* whether the poller may fail to build its proxy

NoDevice == ""                    \* device_name before the device exists
Wire == Nat \X Nat                \* a status as it is read from the bus

ASSUME BoundsAssumption ==
    /\ MaxTicks \in Nat \ {0}
    /\ ErrBudget \in Nat \ {0}
    /\ MaxEvents \in Nat
    /\ MaxReadErrors \in Nat
    /\ ProxyMayFail \in BOOLEAN
    /\ NoDevice \notin Devices
    /\ Events \subseteq Wire

VARIABLES
    handler,    \* where the Connect, then the Disconnect, of the session is
    listener,   \* [pc, reason] of the StatusChange listener
    poller,     \* [pc, reason, ticks, ip4, errs, target] of the status poller
    attention,  \* pc of the AttentionRequired listener
    stats,      \* pc of the stats timer
    ip4_emitted, disconnect_requested, failure_emitted, \* the shared flags
    state,      \* Plugin.state, the state NM was last told
    failures,   \* the Failure signals the tasks sent
    rawFailure, \* the Failure signal connect() sent by itself
    ip4sent,    \* how many Ip4Config signals were sent
    conn,       \* the status the backend is in
    prop,       \* the status property of the session object
    device,     \* its device_name property
    present,    \* the session object exists
    queue,      \* StatusChange signals the listener has yet to read
    events, readErrors  \* counters for the bounds

taskVars == <<listener, poller, attention, stats>>
flagVars == <<ip4_emitted, disconnect_requested, failure_emitted>>
nmVars == <<state, failures, rawFailure, ip4sent>>
backendVars == <<conn, prop, device, present, queue, events, readErrors>>
vars == <<handler, taskVars, flagVars, nmVars, backendVars>>

Terminal(w) == to_nm_state(w) = "Stopped"
NoStatus == <<Connection, 2>>     \* a pair the dispatcher ignores

-----------------------------------------------------------------------------
(* The locals of a task that has not begun, or is over. *)
NewListener(pc) == [pc |-> pc, reason |-> "None"]

NewPoller(pc) == [pc |-> pc, reason |-> "None", ticks |-> 0, ip4 |-> FALSE,
                  errs |-> 0, target |-> "None"]

Init ==
    /\ handler = "connecting"
    /\ listener = NewListener("attach")
    /\ poller = NewPoller("off")
    /\ attention = "attach"
    /\ stats = "off"
    /\ ip4_emitted = FALSE
    /\ disconnect_requested = FALSE
    /\ failure_emitted = FALSE
    /\ state = "Starting"
    /\ failures = <<>>
    /\ rawFailure = FALSE
    /\ ip4sent = 0
    /\ conn = NoStatus
    /\ prop = NoStatus
    /\ device = NoDevice
    /\ present = TRUE
    /\ queue = <<>>
    /\ events = 0
    /\ readErrors = 0

-----------------------------------------------------------------------------
(* What the tasks do to the shared state *)

\* Mutant: the flag is set, not compared.
emit_failure_once_Store(reason) ==
    /\ failure_emitted' = TRUE
    /\ failures' = Append(failures, reason)

(* compare_exchange(false, true): the first Failure of a session is sent,  *)
(* a later one is suppressed.                                              *)
emit_failure_once(reason) ==
    /\ failure_emitted' = TRUE
    /\ failures' = IF failure_emitted THEN failures ELSE Append(failures, reason)

(* The last step of a task that gives up: Stopped is already published.    *)
(* From "fail" the Failure is unconditional, from "stopped" it is left out *)
(* when a teardown was requested.                                          *)
GiveUp(pc, reason) ==
    /\ \/ /\ pc = "fail" \/ (pc = "stopped" /\ ~disconnect_requested)
          /\ emit_failure_once(reason)
       \/ /\ pc = "stopped" /\ disconnect_requested
          /\ UNCHANGED <<failure_emitted, failures>>
    /\ UNCHANGED <<ip4_emitted, disconnect_requested, state, rawFailure, ip4sent>>

\* Mutant: the guard is not asked.
WinsIp4_Always == TRUE

(* compare_exchange(false, true) on ip4_emitted: whether the caller emits. *)
WinsIp4 == ~ip4_emitted

(* ip4::emit up to its signals: it reads the device, its address and the   *)
(* gateway; every one of them may be missing.                              *)
EmitReads == present /\ device # NoDevice

(* The rest of it: Config and Ip4Config are sent, then Started. *)
Publish ==
    /\ ip4sent' = ip4sent + 1
    /\ state' = "Started"
    /\ UNCHANGED <<flagVars, failures, rawFailure>>

(* Its error path rolls the guard back and publishes Stopped. *)
RollBack ==
    /\ ip4_emitted' = FALSE
    /\ state' = "Stopped"
    /\ UNCHANGED <<disconnect_requested, failure_emitted, failures, rawFailure, ip4sent>>

set_state(s) ==
    /\ state' = s
    /\ UNCHANGED <<flagVars, failures, rawFailure, ip4sent>>

-----------------------------------------------------------------------------
(* spawn_status_listener *)

ListenerGoto(from, to) ==
    /\ listener.pc = from
    /\ listener' = [listener EXCEPT !.pc = to]

(* The subscription; signals sent before it are not seen. *)
ListenerAttach ==
    /\ ListenerGoto("attach", "wait") \/ ListenerGoto("attach", "done")
    /\ UNCHANGED <<handler, poller, attention, stats, flagVars, nmVars, backendVars>>

(* One signal: no transition, Started (won or lost the race for Ip4Config), *)
(* Stopped, or another state.                                               *)
ListenerSignal ==
    /\ queue # <<>>
    /\ queue' = Tail(queue)
    /\ LET status == Head(queue)
           target == to_nm_state(status)
       IN  \/ /\ target = "None"
              /\ ListenerGoto("wait", "wait")
              /\ UNCHANGED <<flagVars, nmVars>>
           \/ /\ target = "Started" /\ WinsIp4
              /\ ListenerGoto("wait", "emit")
              /\ ip4_emitted' = TRUE
              /\ UNCHANGED <<disconnect_requested, failure_emitted, nmVars>>
           \/ /\ target = "Started" /\ ~WinsIp4
              /\ ListenerGoto("wait", "wait")
              /\ set_state(target)
           \/ /\ target = "Stopped"
              /\ listener.pc = "wait"
              /\ listener' = [pc |-> "stopped", reason |-> failure_reason(status)]
              /\ set_state(target)
           \/ /\ target = "Starting"
              /\ ListenerGoto("wait", "wait")
              /\ set_state(target)
    /\ UNCHANGED <<handler, poller, attention, stats, conn, prop, device, present,
                   events, readErrors>>

\* Mutant: the error path leaves out the Failure.
ListenerEmit_NoFailure ==
    /\ \/ /\ EmitReads
          /\ ListenerGoto("emit", "publish")
          /\ UNCHANGED <<flagVars, nmVars>>
       \/ /\ ListenerGoto("emit", "done")
          /\ RollBack
    /\ UNCHANGED <<handler, poller, attention, stats, backendVars>>

ListenerEmit ==
    /\ \/ /\ EmitReads
          /\ ListenerGoto("emit", "publish")
          /\ UNCHANGED <<flagVars, nmVars>>
       \/ /\ listener.pc = "emit"
          /\ listener' = [pc |-> "fail", reason |-> "BadIpConfig"]
          /\ RollBack
    /\ UNCHANGED <<handler, poller, attention, stats, backendVars>>

ListenerPublish ==
    /\ ListenerGoto("publish", "wait")
    /\ Publish
    /\ UNCHANGED <<handler, poller, attention, stats, backendVars>>

ListenerGiveUp ==
    /\ GiveUp(listener.pc, listener.reason)
    /\ listener' = NewListener("done")
    /\ queue' = <<>>
    /\ UNCHANGED <<handler, poller, attention, stats, conn, prop, device, present,
                   events, readErrors>>

ListenerStep ==
    ListenerAttach \/ ListenerSignal \/ ListenerEmit \/ ListenerPublish \/ ListenerGiveUp

-----------------------------------------------------------------------------
(* spawn_status_poller *)

PollerGoto(from, to) ==
    /\ poller.pc = from
    /\ poller' = [poller EXCEPT !.pc = to]

(* Back to the top of the loop: the iteration's locals are dropped. *)
NextTick == [poller EXCEPT !.pc = "tick", !.target = "None", !.reason = "None"]

\* Mutant: the poller ends once the session is up.
SlowTick_Exit == NewPoller("done")

(* From then on the poller is a slow watchdog. *)
SlowTick == [NextTick EXCEPT !.ip4 = TRUE, !.ticks = 0]

PollerFails(reason) == [poller EXCEPT !.pc = "fail", !.reason = reason]

PollerProxy ==
    /\ PollerGoto("proxy", "tick") \/ (ProxyMayFail /\ PollerGoto("proxy", "done"))
    /\ UNCHANGED <<handler, listener, attention, stats, flagVars, nmVars, backendVars>>

\* Mutant: off by one.
Capped_Late(ticks) == ~poller.ip4 /\ ticks > MaxTicks

(* The cap on polling before Started. *)
Capped(ticks) == ~poller.ip4 /\ ticks >= MaxTicks

\* Mutant: no cap.
PollerTick_NoCap ==
    /\ PollerGoto("tick", "read")
    /\ UNCHANGED <<handler, listener, attention, stats, flagVars, nmVars, backendVars>>

(* The top of the loop, after the sleep.  Past Started the tick counter is *)
(* not read again.                                                         *)
PollerTick ==
    LET ticks == IF poller.ip4 THEN poller.ticks ELSE poller.ticks + 1
    IN  /\ poller.pc = "tick"
        /\ \/ /\ ~Capped(ticks)
              /\ poller' = [poller EXCEPT !.pc = "read", !.ticks = ticks]
              /\ UNCHANGED <<flagVars, nmVars>>
           \/ /\ Capped(ticks)
              /\ poller' = PollerFails("ConnectFailed")
              /\ set_state("Stopped")
        /\ UNCHANGED <<handler, listener, attention, stats, backendVars>>

(* A property read succeeds when the session exists, a bounded number of   *)
(* transient errors apart.                                                 *)
ReadOk == present /\ UNCHANGED readErrors

ReadErr ==
    \/ ~present /\ UNCHANGED readErrors
    \/ present /\ readErrors < MaxReadErrors /\ readErrors' = readErrors + 1

\* Mutant: the errors are not counted.
NextErrs_Stuck == poller.errs

\* Mutant: the first failed read uses up the budget.
NextErrs_Full == ErrBudget

(* One more consecutive failed read past Started. *)
NextErrs == poller.errs + 1

(* proxy.status(): before Started the device name is read too, unless the  *)
(* session stopped.                                                        *)
PollerRead ==
    LET target == to_nm_state(prop)
        next == IF ~poller.ip4 /\ target # "Stopped" THEN "device" ELSE "apply"
        errs == NextErrs
    IN  /\ poller.pc = "read"
        /\ \/ /\ ReadOk
              /\ poller' = [poller EXCEPT !.pc = next, !.errs = 0, !.target = target,
                                          !.reason = failure_reason(prop)]
              /\ UNCHANGED <<flagVars, nmVars>>
           \/ /\ ReadErr /\ poller.ip4 /\ errs < ErrBudget
              /\ poller' = [NextTick EXCEPT !.errs = errs]
              /\ UNCHANGED <<flagVars, nmVars>>
           \/ /\ ReadErr /\ poller.ip4 /\ errs >= ErrBudget
              /\ poller' = PollerFails("ConnectFailed")
              /\ set_state("Stopped")
           \/ /\ ReadErr /\ ~poller.ip4
              /\ poller' = NextTick
              /\ UNCHANGED <<flagVars, nmVars>>
        /\ UNCHANGED <<handler, listener, attention, stats, conn, prop, device,
                       present, queue, events>>

(* proxy.device_name(): a tun device means Started, whatever the status.   *)
PollerDevice ==
    /\ poller.pc = "device"
    /\ \/ /\ ReadOk /\ device = "tun"
          /\ poller' = [poller EXCEPT !.pc = "apply", !.target = "Started"]
       \/ /\ (ReadOk /\ device # "tun") \/ ReadErr
          /\ PollerGoto("device", "apply")
    /\ UNCHANGED <<handler, listener, attention, stats, flagVars, nmVars, conn, prop,
                   device, present, queue, events>>

(* The match on the target.  Losing the race for Ip4Config only slows the  *)
(* poller down; past Started only Stopped is acted on.                     *)
PollerApply ==
    /\ poller.pc = "apply"
    /\ \/ /\ poller.target = "Started" /\ ~poller.ip4 /\ WinsIp4
          /\ PollerGoto("apply", "emit")
          /\ ip4_emitted' = TRUE
          /\ UNCHANGED <<disconnect_requested, failure_emitted, nmVars>>
       \/ /\ poller.target = "Started" /\ ~poller.ip4 /\ ~WinsIp4
          /\ poller' = SlowTick
          /\ UNCHANGED <<flagVars, nmVars>>
       \/ /\ poller.target = "Stopped"
          /\ PollerGoto("apply", "stopped")
          /\ set_state("Stopped")
       \/ /\ poller.target = "Starting" /\ ~poller.ip4
          /\ poller' = NextTick
          /\ set_state("Starting")
       \/ /\ poller.target = "None" \/ (poller.ip4 /\ poller.target # "Stopped")
          /\ poller' = NextTick
          /\ UNCHANGED <<flagVars, nmVars>>
    /\ UNCHANGED <<handler, listener, attention, stats, backendVars>>

PollerEmit ==
    /\ \/ /\ EmitReads
          /\ PollerGoto("emit", "publish")
          /\ UNCHANGED <<flagVars, nmVars>>
       \/ /\ poller.pc = "emit"
          /\ poller' = PollerFails("BadIpConfig")
          /\ RollBack
    /\ UNCHANGED <<handler, listener, attention, stats, backendVars>>

PollerPublish ==
    /\ poller.pc = "publish"
    /\ poller' = SlowTick
    /\ Publish
    /\ UNCHANGED <<handler, listener, attention, stats, backendVars>>

PollerGiveUp ==
    /\ GiveUp(poller.pc, poller.reason)
    /\ poller' = NewPoller("done")
    /\ UNCHANGED <<handler, listener, attention, stats, backendVars>>

PollerStep ==
    \/ PollerProxy \/ PollerTick \/ PollerRead \/ PollerDevice \/ PollerApply
    \/ PollerEmit \/ PollerPublish \/ PollerGiveUp

-----------------------------------------------------------------------------
(* spawn_attention_listener and spawn_stats_timer *)

AttentionGoto(from, to) == attention = from /\ attention' = to

AttentionAttach ==
    /\ AttentionGoto("attach", "wait") \/ AttentionGoto("attach", "done")
    /\ UNCHANGED <<handler, listener, poller, stats, flagVars, nmVars, backendVars>>

(* An AttentionRequired signal arrives; handle_attention talks to the      *)
(* session and to NM, and may fail.                                        *)
AttentionSignal ==
    /\ present
    /\ AttentionGoto("wait", "handle")
    /\ UNCHANGED <<handler, listener, poller, stats, flagVars, nmVars, backendVars>>

(* Unlike the other tasks this one sends a Failure without Stopped. *)
AttentionHandle ==
    /\ \/ AttentionGoto("handle", "wait") /\ UNCHANGED <<flagVars, nmVars>>
       \/ /\ AttentionGoto("handle", "done")
          /\ GiveUp("stopped", "LoginFailed")
    /\ UNCHANGED <<handler, listener, poller, stats, backendVars>>

\* Mutant: the timer ends when the session cannot be read.
StatsTick_Unreadable ==
    /\ stats = "run"
    /\ ~present
    /\ stats' = "done"
    /\ UNCHANGED <<handler, listener, poller, attention, flagVars, nmVars, backendVars>>

(* The stats timer wakes up: it ends once a Failure was sent. *)
StatsTick ==
    /\ stats = "run"
    /\ failure_emitted
    /\ stats' = "done"
    /\ UNCHANGED <<handler, listener, poller, attention, flagVars, nmVars, backendVars>>

-----------------------------------------------------------------------------
(* The handlers that start and end the tasks *)

(* session.Connect returned Ok: the poller and the stats timer start. *)
Arm ==
    /\ handler = "connecting"
    /\ handler' = "up"
    /\ poller' = [poller EXCEPT !.pc = "proxy"]
    /\ stats' = "run"
    /\ UNCHANGED <<listener, attention, flagVars, nmVars, backendVars>>

(* session.Connect failed (cleanup_session) or NM called Disconnect: the   *)
(* flag is raised first ...                                                *)
RequestTeardown ==
    /\ \/ handler = "connecting" /\ handler' = "cleanup"
       \/ handler = "up" /\ handler' = "disconnect"
    /\ disconnect_requested' = TRUE
    /\ UNCHANGED <<taskVars, ip4_emitted, failure_emitted, nmVars, backendVars>>

\* Mutant: the handles are dropped, which detaches the tasks.
AbortTasks_Detach ==
    /\ \/ handler = "cleanup" /\ handler' = "failing"
       \/ handler = "disconnect" /\ handler' = "stopping"
    /\ UNCHANGED <<taskVars, flagVars, nmVars, backendVars>>

(* ... then the tasks are aborted.  An aborted task never runs again: what  *)
(* it was doing on another thread is over before the next D-Bus reply.     *)
AbortTasks ==
    /\ \/ handler = "cleanup" /\ handler' = "failing"
       \/ handler = "disconnect" /\ handler' = "stopping"
    /\ listener' = NewListener("done")
    /\ poller' = NewPoller("done")
    /\ attention' = "done"
    /\ stats' = "done"
    /\ queue' = <<>>
    /\ UNCHANGED <<flagVars, nmVars, conn, prop, device, present, events, readErrors>>

(* session.Disconnect, which may fail twice and leave the session. *)
SessionDisconnect ==
    /\ present' \in {FALSE, present}
    /\ UNCHANGED <<conn, prop, device, queue, events, readErrors>>

(* The error arm of connect(): Stopped and a Failure sent directly, or     *)
(* nothing when a Disconnect is waiting.                                   *)
ConnectError ==
    /\ handler = "failing"
    /\ handler' = "failed"
    /\ SessionDisconnect
    /\ \/ state' = "Stopped" /\ rawFailure' = TRUE
       \/ UNCHANGED <<state, rawFailure>>
    /\ UNCHANGED <<taskVars, flagVars, failures, ip4sent>>

(* disconnect() ends with Stopped; after a failed Connect it finds nothing *)
(* to tear down.                                                           *)
Stop ==
    /\ \/ handler = "stopping" /\ SessionDisconnect
       \/ handler = "failed" /\ UNCHANGED backendVars
    /\ handler' = "stopped"
    /\ state' = "Stopped"
    /\ UNCHANGED <<taskVars, flagVars, failures, rawFailure, ip4sent>>

-----------------------------------------------------------------------------
(* openvpn3 *)

(* The backend changes status.  The listener gets the signal if it is      *)
(* attached.  Of Connected the session manager may miss its own copy: then *)
(* the property does not change, the signal is not sent, or both.          *)
BackendStatus(w) ==
    LET attached == listener.pc \notin {"attach", "done"}
        sent == IF attached THEN Append(queue, w) ELSE queue
        missed == w = Connected
    IN  /\ present /\ ~Terminal(conn)
        /\ events < MaxEvents
        /\ events' = events + 1
        /\ conn' = w
        /\ prop' = w \/ (missed /\ UNCHANGED prop)
        /\ queue' = sent \/ (missed /\ UNCHANGED queue)
        /\ UNCHANGED <<handler, taskVars, flagVars, nmVars, device, present, readErrors>>

(* The tunnel device appears while the backend connects. *)
BackendDevice ==
    /\ present /\ device = NoDevice
    /\ to_nm_state(conn) \in {"Starting", "Started"}
    /\ device' \in Devices
    /\ UNCHANGED <<handler, taskVars, flagVars, nmVars, conn, prop, present, queue,
                   events, readErrors>>

(* The session object goes away: the session ended, another client         *)
(* disconnected it, or openvpn3 crashed.                                   *)
BackendVanishes ==
    /\ present
    /\ present' = FALSE
    /\ UNCHANGED <<handler, taskVars, flagVars, nmVars, conn, prop, device, queue,
                   events, readErrors>>

-----------------------------------------------------------------------------
HandlerStep == Arm \/ RequestTeardown \/ AbortTasks \/ ConnectError \/ Stop
AttentionStep == AttentionAttach \/ AttentionSignal \/ AttentionHandle
Backend == (\E w \in Events : BackendStatus(w)) \/ BackendDevice \/ BackendVanishes

Next ==
    ListenerStep \/ PollerStep \/ AttentionStep \/ StatsTick \/ HandlerStep \/ Backend

(* The runtime runs every task that can run, and the property reads and    *)
(* the teardown calls it makes come back with a value or an error; NM may  *)
(* never call Disconnect, no signal need arrive and no status change.      *)
Fairness ==
    /\ WF_vars(ListenerStep)
    /\ WF_vars(PollerStep)
    /\ WF_vars(StatsTick)
    /\ WF_vars(AttentionHandle)
    /\ WF_vars(Arm \/ (handler = "connecting" /\ RequestTeardown))
    /\ WF_vars(AbortTasks \/ ConnectError \/ (handler = "stopping" /\ Stop))

Spec == Init /\ [][Next]_vars /\ Fairness

-----------------------------------------------------------------------------
(* Properties *)

Reasons == {"None", "LoginFailed", "ConnectFailed", "BadIpConfig"}
Targets == {"None", "Starting", "Started", "Stopped"}
Handlers == {"connecting", "up", "cleanup", "failing", "failed",
             "disconnect", "stopping", "stopped"}
ListenerPcs == {"attach", "wait", "emit", "publish", "stopped", "fail", "done"}
PollerPcs == {"off", "proxy", "tick", "read", "device", "apply",
              "emit", "publish", "stopped", "fail", "done"}

ListenerType == [pc : ListenerPcs, reason : Reasons]
PollerType == [pc : PollerPcs, reason : Reasons, ticks : 0 .. (MaxTicks - 1),
               ip4 : BOOLEAN, errs : 0 .. (ErrBudget - 1), target : Targets]

TypeOK ==
    /\ handler \in Handlers
    /\ listener \in ListenerType
    /\ poller \in PollerType
    /\ attention \in {"attach", "wait", "handle", "done"}
    /\ stats \in {"off", "run", "done"}
    /\ ip4_emitted \in BOOLEAN
    /\ disconnect_requested \in BOOLEAN
    /\ failure_emitted \in BOOLEAN
    /\ state \in Targets \ {"None"}
    /\ failures \in Seq(Reasons)
    /\ rawFailure \in BOOLEAN
    /\ ip4sent \in Nat
    /\ conn \in Wire
    /\ prop \in Wire
    /\ device \in Devices \cup {NoDevice}
    /\ present \in BOOLEAN
    /\ queue \in Seq(Wire)
    /\ events \in 0 .. MaxEvents
    /\ readErrors \in 0 .. MaxReadErrors

(* The listener and the poller both wait for the tunnel, by a signal and   *)
(* by polling: between them NM gets at most one Ip4Config for a session,   *)
(* rolled-back attempts included.                                          *)
Ip4ConfigOnce == ip4sent <= 1

(* Three tasks watch for the end of a session: between them they send NM   *)
(* at most one Failure (emit_failure_once).                                *)
TaskFailureOnce == Len(failures) <= 1

(* Once the tasks were aborted, by Disconnect or by a failing Connect, none *)
(* of them sends NM a Failure or an Ip4Config for the session that is being *)
(* torn down, though one may have been about to; and the Stopped that      *)
(* Disconnect publishes is the last word.                                  *)
TeardownIsSilent ==
    [][/\ handler \in {"stopping", "failing", "failed", "stopped"}
             => UNCHANGED <<failures, ip4sent>>
       /\ handler = "stopped" => UNCHANGED state]_vars

(* A session that ended or vanished while NM believes it up is reported:   *)
(* a Failure is sent, unless NM disconnects first.                         *)
DeadSessionReported ==
    (handler = "up" /\ (Terminal(conn) \/ ~present))
        ~> (failures # <<>> \/ disconnect_requested)

(* And the state NM was last told agrees: a terminal status ends, for      *)
(* good, in Stopped, in whatever order the tasks saw it and however stale  *)
(* what they publish is.                                                   *)
TerminalEndsStopped ==
    (handler = "up" /\ Terminal(conn)) ~> [](state = "Stopped" \/ disconnect_requested)

(* Every activation is decided: NM gets the Ip4Config or a Failure, or     *)
(* disconnects, though signals may be missed and the backend may hang.     *)
ActivationDecided ==
    handler = "up" ~> (ip4sent > 0 \/ failures # <<>> \/ disconnect_requested)

(* A task that publishes Stopped for a session NM did not disconnect also  *)
(* gives the reason: Stopped is followed by a Failure.                     *)
StoppedIsExplained ==
    (state = "Stopped") ~> (failures # <<>> \/ disconnect_requested)

(* The poller survives a blip: reads that fail though the session exists   *)
(* (suspend, a bus restart) end an activation that came up only when there *)
(* were as many of them as post_started_err_budget allows; fewer, before   *)
(* or after Started, never do.                                             *)
BlipTolerated ==
    [][poller.pc = "read" /\ poller'.pc = "fail"
         => ~present \/ readErrors' >= ErrBudget]_vars

(* Nothing keeps querying a dead session: after one ended or vanished, the *)
(* two tasks that poll it, the status poller and the stats timer, end by   *)
(* themselves, unless NM disconnects first.  The timer looks only at the   *)
(* failure flag, so it ends because some other task noticed the end, by a  *)
(* status, by the error budget or by the cap, and sent its Failure.        *)
PollingEnds ==
    (handler = "up" /\ (Terminal(conn) \/ ~present))
        ~> ((poller.pc = "done" /\ stats = "done") \/ disconnect_requested)

(* plugin.rs, emit_failure_once: "Emit a Failure to NM at most once per    *)
(* session", whoever sends it.                                             *)
FailureOncePerSession == Len(failures) + (IF rawFailure THEN 1 ELSE 0) <= 1

(* plugin.rs, spawn_status_poller: the cap is on "pre-Started polling" and *)
(* reports a session that "never reached Started"; so it never ends one    *)
(* that is connected and that NM was told is Started.                      *)
CapSparesStarted ==
    [][poller.pc = "tick" /\ poller'.pc = "fail"
         => ~(state = "Started" /\ present /\ conn = Connected)]_vars
=============================================================================
