------------------------- MODULE SessionTasksProofs -------------------------
(***************************************************************************)
(* What SessionTasks promises NM, proved for every cap, error budget, set  *)
(* of backend statuses and device names.                                   *)
(***************************************************************************)
EXTENDS SessionTasks, TLAPS

(* A task that won the guard and has not sent, or given up, its Ip4Config. *)
Emitting(pc) == pc \in {"emit", "publish"}

(* Whoever holds the guard is alone, and nothing was sent before; once an  *)
(* Ip4Config was sent the guard stays taken.                               *)
Ip4Inv ==
    /\ ip4sent = 0 \/ (ip4sent = 1 /\ ip4_emitted)
    /\ Emitting(listener.pc) => ip4_emitted /\ ip4sent = 0 /\ ~Emitting(poller.pc)
    /\ Emitting(poller.pc) => ip4_emitted /\ ip4sent = 0 /\ ~Emitting(listener.pc)

(* The flag counts the Failure signals of the tasks. *)
FailureInv == Len(failures) = IF failure_emitted THEN 1 ELSE 0

(* Past the abort no task is left to run. *)
QuietInv ==
    handler \in {"stopping", "failing", "failed", "stopped"} =>
        listener.pc = "done" /\ poller.pc = "done" /\ attention = "done" /\ stats = "done"

(* The errors the poller counted while the session exists are errors that  *)
(* happened.                                                               *)
BlipInv == present => poller.errs <= readErrors

TInv == TypeOK /\ Ip4Inv /\ FailureInv /\ QuietInv /\ BlipInv

-----------------------------------------------------------------------------
(* The records the tasks keep: what a change of location leaves in them. *)

LEMMA WirePairs ==
    /\ NoStatus \in Wire
    /\ \A w : to_nm_state(w) \in Targets
    /\ \A w : failure_reason(w) \in Reasons
BY DEF NoStatus, Wire, Connection, Targets, to_nm_state, failure_reason, Reasons

LEMMA ListenerRecords ==
    ASSUME listener \in ListenerType, NEW x \in ListenerPcs, NEW r \in Reasons
    PROVE  /\ [listener EXCEPT !.pc = x] \in ListenerType
           /\ [listener EXCEPT !.pc = x].pc = x
           /\ [pc |-> x, reason |-> r] \in ListenerType
           /\ NewListener(x) \in ListenerType
           /\ NewListener(x).pc = x
           /\ listener.reason \in Reasons
BY DEF NewListener, ListenerType, Reasons

LEMMA PollerRecords ==
    ASSUME poller \in PollerType, NEW x \in PollerPcs, NEW r \in Reasons,
           NEW t \in Targets
    PROVE  /\ [poller EXCEPT !.pc = x] \in PollerType
           /\ [poller EXCEPT !.pc = x].pc = x
           /\ [poller EXCEPT !.pc = x, !.target = t] \in PollerType
           /\ [poller EXCEPT !.pc = x, !.errs = 0, !.target = t, !.reason = r] \in PollerType
           /\ NewPoller(x) \in PollerType
           /\ NewPoller(x).pc = x
           /\ PollerFails(r) \in PollerType
           /\ NextTick \in PollerType
           /\ SlowTick \in PollerType
           /\ NextErrs < ErrBudget => [NextTick EXCEPT !.errs = NextErrs] \in PollerType
           /\ poller.reason \in Reasons
           /\ poller.target \in Targets
<1> USE BoundsAssumption DEF PollerType
<1>1. /\ [poller EXCEPT !.pc = x] \in PollerType
      /\ [poller EXCEPT !.pc = x].pc = x
      /\ [poller EXCEPT !.pc = x, !.target = t] \in PollerType
      /\ poller.reason \in Reasons
      /\ poller.target \in Targets
  OBVIOUS
<1>0. 0 \in 0 .. (MaxTicks - 1) /\ 0 \in 0 .. (ErrBudget - 1)
  OBVIOUS
<1>2. [poller EXCEPT !.pc = x, !.errs = 0, !.target = t, !.reason = r] \in PollerType
  <2>1. \A q \in PollerType, e \in 0 .. (ErrBudget - 1) : [q EXCEPT !.errs = e] \in PollerType
    OBVIOUS
  <2>2. [poller EXCEPT !.pc = x, !.target = t, !.reason = r] \in PollerType
    OBVIOUS
  <2>3. [[poller EXCEPT !.pc = x, !.target = t, !.reason = r] EXCEPT !.errs = 0]
            = [poller EXCEPT !.pc = x, !.errs = 0, !.target = t, !.reason = r]
    OBVIOUS
  <2> QED
    BY <1>0, <2>1, <2>2, <2>3
<1>3. NewPoller(x) \in PollerType /\ NewPoller(x).pc = x
  BY DEF NewPoller, Reasons, Targets
<1>4. PollerFails(r) \in PollerType
  BY DEF PollerFails, PollerPcs
<1>5. NextTick \in PollerType
  BY DEF NextTick, PollerPcs, Reasons, Targets
<1>6. SlowTick \in PollerType
  <2>1. \A q \in PollerType, k \in 0 .. (MaxTicks - 1) :
            [q EXCEPT !.ip4 = TRUE, !.ticks = k] \in PollerType
    OBVIOUS
  <2> QED
    BY ZenonT(60), <1>0, <1>5, <2>1 DEF SlowTick
<1>7. ASSUME NextErrs < ErrBudget
      PROVE  [NextTick EXCEPT !.errs = NextErrs] \in PollerType
  <2>1. NextErrs \in 0 .. (ErrBudget - 1)
    BY <1>7 DEF NextErrs
  <2> QED
    BY <1>5, <2>1
<1> QED
  BY <1>1, <1>2, <1>3, <1>4, <1>5, <1>6, <1>7

(* Appending to the Failure signals. *)
LEMMA EmitFailure ==
    ASSUME failures \in Seq(Reasons), NEW r \in Reasons, emit_failure_once(r)
    PROVE  /\ failures' \in Seq(Reasons)
           /\ failure_emitted' = TRUE
           /\ Len(failures') = IF failure_emitted THEN Len(failures) ELSE Len(failures) + 1
BY DEF emit_failure_once

-----------------------------------------------------------------------------
(* TypeOK is preserved by every step: one case per action. *)
LEMMA TypeStep == TypeOK /\ [Next]_vars => TypeOK'
<1> SUFFICES ASSUME TypeOK, [Next]_vars PROVE TypeOK'
  OBVIOUS
<1> USE BoundsAssumption DEF TypeOK, taskVars, flagVars, nmVars, backendVars
<1>1. CASE ListenerAttach
  BY ZenonT(60), <1>1, ListenerRecords DEF ListenerAttach, ListenerGoto, ListenerPcs, Reasons
<1>2. CASE ListenerSignal
  <2>1. queue' \in Seq(Wire)
    BY <1>2 DEF ListenerSignal
  <2>2. listener' \in ListenerType
    <3>1. \/ \E x \in {"wait", "emit"} : listener' = [listener EXCEPT !.pc = x]
          \/ listener' = [pc |-> "stopped", reason |-> failure_reason(Head(queue))]
      BY <1>2 DEF ListenerSignal, ListenerGoto
    <3>2. failure_reason(Head(queue)) \in Reasons
      BY WirePairs
    <3>3. \A x \in {"wait", "emit"} : [listener EXCEPT !.pc = x] \in ListenerType
      BY ListenerRecords DEF ListenerPcs, Reasons
    <3>4. [pc |-> "stopped", reason |-> failure_reason(Head(queue))] \in ListenerType
      BY <3>2, ListenerRecords DEF ListenerPcs
    <3> QED
      BY <3>1, <3>3, <3>4
  <2>3. /\ state' \in Targets \ {"None"}
        /\ ip4_emitted' \in BOOLEAN
        /\ UNCHANGED <<disconnect_requested, failure_emitted, failures, rawFailure, ip4sent>>
    BY <1>2 DEF ListenerSignal, set_state, Targets
  <2> QED
    BY <1>2, <2>1, <2>2, <2>3 DEF ListenerSignal
<1>3. CASE ListenerEmit
  <2>1. listener' \in ListenerType
    BY <1>3, ListenerRecords DEF ListenerEmit, ListenerGoto, ListenerPcs, Reasons
  <2> QED
    <3>1. state' \in Targets \ {"None"} /\ ip4_emitted' \in BOOLEAN
      BY <1>3 DEF ListenerEmit, RollBack, Targets
    <3>2. UNCHANGED <<disconnect_requested, failure_emitted, failures, rawFailure, ip4sent>>
      BY <1>3 DEF ListenerEmit, RollBack
    <3> QED
      BY <1>3, <2>1, <3>1, <3>2 DEF ListenerEmit
<1>4. CASE ListenerPublish
  <2>1. listener' \in ListenerType
    BY <1>4, ListenerRecords DEF ListenerPublish, ListenerGoto, ListenerPcs, Reasons
  <2> QED
    BY <1>4, <2>1 DEF ListenerPublish, Publish, Targets
<1>5. CASE ListenerGiveUp
  <2>1. listener' \in ListenerType /\ listener.reason \in Reasons
    BY <1>5, ListenerRecords DEF ListenerGiveUp, ListenerPcs, Reasons
  <2>2. failures' \in Seq(Reasons) /\ failure_emitted' \in BOOLEAN
    BY ZenonT(60), <1>5, <2>1, EmitFailure DEF ListenerGiveUp, GiveUp
  <2> QED
    BY <1>5, <2>1, <2>2 DEF ListenerGiveUp, GiveUp
<1>6. CASE PollerProxy
  <2>1. poller' \in PollerType
    BY ZenonT(60), <1>6, PollerRecords DEF PollerProxy, PollerGoto, PollerPcs, Reasons, Targets
  <2> QED
    BY <1>6, <2>1 DEF PollerProxy
<1>7. CASE PollerTick
  <2>1. CASE poller' = PollerFails("ConnectFailed")
    <3>1. poller' \in PollerType
      BY ZenonT(60), <2>1, PollerRecords DEF PollerPcs, Reasons, Targets
    <3> QED
      BY <1>7, <3>1 DEF PollerTick, set_state, Targets
  <2>2. CASE poller' # PollerFails("ConnectFailed")
    <3> DEFINE k == IF poller.ip4 THEN poller.ticks ELSE poller.ticks + 1
    <3>1. k \in 0 .. (MaxTicks - 1)
      BY <1>7, <2>2 DEF PollerTick, Capped, PollerType
    <3>2. poller' = [poller EXCEPT !.pc = "read", !.ticks = k]
      BY <1>7, <2>2 DEF PollerTick
    <3>3. "read" \in PollerPcs
      BY DEF PollerPcs
    <3>4. poller' \in PollerType
      BY <3>1, <3>2, <3>3 DEF PollerType
    <3> QED
      BY <1>7, <2>2, <3>4 DEF PollerTick
  <2> QED
    BY <2>1, <2>2
<1>8. CASE PollerRead
  <2>1. poller' \in PollerType
    <3> DEFINE t == to_nm_state(prop)
               r == failure_reason(prop)
    <3>1. t \in Targets /\ r \in Reasons /\ "ConnectFailed" \in Reasons
      BY WirePairs DEF Reasons
    <3> HIDE DEF t, r
    <3>2. \/ \E x \in {"device", "apply"} :
               poller' = [poller EXCEPT !.pc = x, !.errs = 0, !.target = t, !.reason = r]
          \/ poller' = NextTick
          \/ NextErrs < ErrBudget /\ poller' = [NextTick EXCEPT !.errs = NextErrs]
          \/ poller' = PollerFails("ConnectFailed")
      BY <1>8 DEF PollerRead, t, r
    <3>3. {"device", "apply"} \subseteq PollerPcs
      BY DEF PollerPcs
    <3>4. \A x \in {"device", "apply"} :
            [poller EXCEPT !.pc = x, !.errs = 0, !.target = t, !.reason = r] \in PollerType
      BY ZenonT(60), <3>1, <3>3, PollerRecords
    <3>5. /\ NextTick \in PollerType
          /\ NextErrs < ErrBudget => [NextTick EXCEPT !.errs = NextErrs] \in PollerType
          /\ PollerFails("ConnectFailed") \in PollerType
      BY ZenonT(60), <3>1, <3>3, PollerRecords
    <3> QED
      BY <3>2, <3>4, <3>5
  <2>2. readErrors' \in 0 .. MaxReadErrors
    BY <1>8 DEF PollerRead, ReadOk, ReadErr
  <2> QED
    BY <1>8, <2>1, <2>2 DEF PollerRead, set_state, Targets
<1>9. CASE PollerDevice
  <2>1. poller' \in PollerType
    BY ZenonT(60), <1>9, PollerRecords DEF PollerDevice, PollerGoto, PollerPcs, Reasons, Targets
  <2>2. readErrors' \in 0 .. MaxReadErrors
    BY <1>9 DEF PollerDevice, ReadOk, ReadErr
  <2> QED
    BY <1>9, <2>1, <2>2 DEF PollerDevice
<1>10. CASE PollerApply
  <2>1. poller' \in PollerType
    BY ZenonT(60), <1>10, PollerRecords DEF PollerApply, PollerGoto, PollerPcs, Reasons, Targets
  <2>2. /\ state' \in Targets \ {"None"}
        /\ ip4_emitted' \in BOOLEAN
        /\ UNCHANGED <<disconnect_requested, failure_emitted, failures, rawFailure, ip4sent>>
    BY <1>10 DEF PollerApply, set_state, Targets
  <2> QED
    BY <1>10, <2>1, <2>2 DEF PollerApply
<1>11. CASE PollerEmit
  <2>1. poller' \in PollerType
    BY ZenonT(60), <1>11, PollerRecords DEF PollerEmit, PollerGoto, PollerPcs, Reasons, Targets
  <2> QED
    <3>1. state' \in Targets \ {"None"} /\ ip4_emitted' \in BOOLEAN
      BY <1>11 DEF PollerEmit, RollBack, Targets
    <3>2. UNCHANGED <<disconnect_requested, failure_emitted, failures, rawFailure, ip4sent>>
      BY <1>11 DEF PollerEmit, RollBack
    <3> QED
      BY <1>11, <2>1, <3>1, <3>2 DEF PollerEmit
<1>12. CASE PollerPublish
  <2>1. poller' \in PollerType
    BY ZenonT(60), <1>12, PollerRecords DEF PollerPublish, PollerPcs, Reasons, Targets
  <2> QED
    BY <1>12, <2>1 DEF PollerPublish, Publish, Targets
<1>13. CASE PollerGiveUp
  <2>1. poller' \in PollerType /\ poller.reason \in Reasons
    BY ZenonT(60), <1>13, PollerRecords DEF PollerGiveUp, PollerPcs, Reasons, Targets
  <2>2. failures' \in Seq(Reasons) /\ failure_emitted' \in BOOLEAN
    BY <1>13, <2>1, EmitFailure DEF PollerGiveUp, GiveUp
  <2> QED
    BY <1>13, <2>1, <2>2 DEF PollerGiveUp, GiveUp
<1>14. CASE AttentionStep
  <2>1. failures' \in Seq(Reasons) /\ failure_emitted' \in BOOLEAN
    BY ZenonT(60), <1>14, EmitFailure DEF AttentionStep, AttentionAttach, AttentionSignal,
          AttentionHandle, GiveUp, Reasons
  <2> QED
    BY <1>14, <2>1 DEF AttentionStep, AttentionAttach, AttentionSignal, AttentionHandle,
          AttentionGoto, GiveUp
<1>15. CASE StatsTick
  BY <1>15 DEF StatsTick
<1>16. CASE HandlerStep
  <2>1. CASE Arm
    <3>1. poller' \in PollerType
      BY ZenonT(60), <2>1, PollerRecords DEF Arm, PollerPcs, Reasons, Targets
    <3> QED
      BY <2>1, <3>1 DEF Arm, Handlers
  <2>2. CASE RequestTeardown
    BY <2>2 DEF RequestTeardown, Handlers
  <2>3. CASE AbortTasks
    <3>1. poller' \in PollerType /\ listener' \in ListenerType
      BY ZenonT(60), <2>3, PollerRecords, ListenerRecords DEF AbortTasks, PollerPcs, ListenerPcs, Reasons, Targets
    <3> QED
      BY <2>3, <3>1 DEF AbortTasks, Handlers
  <2>4. CASE ConnectError
    <3>1. state' \in Targets \ {"None"} /\ rawFailure' \in BOOLEAN
      BY <2>4 DEF ConnectError, Targets
    <3>2. present' \in BOOLEAN /\ handler' \in Handlers
      BY <2>4 DEF ConnectError, SessionDisconnect, Handlers
    <3> QED
      BY <2>4, <3>1, <3>2 DEF ConnectError, SessionDisconnect
  <2>5. CASE Stop
    BY <2>5 DEF Stop, SessionDisconnect, Handlers, Targets
  <2> QED
    BY <1>16, <2>1, <2>2, <2>3, <2>4, <2>5 DEF HandlerStep
<1>17. CASE Backend
  <2>1. ASSUME NEW w \in Events, BackendStatus(w) PROVE TypeOK'
    <3>1. w \in Wire
      OBVIOUS
    <3>2. queue' \in Seq(Wire) /\ prop' \in Wire /\ conn' \in Wire
      BY <2>1, <3>1 DEF BackendStatus
    <3>3. events' \in 0 .. MaxEvents
      BY <2>1 DEF BackendStatus
    <3> QED
      BY <2>1, <3>2, <3>3 DEF BackendStatus
  <2>2. CASE BackendDevice
    BY <2>2 DEF BackendDevice
  <2>3. CASE BackendVanishes
    BY <2>3 DEF BackendVanishes
  <2> QED
    BY <1>17, <2>1, <2>2, <2>3 DEF Backend
<1>18. CASE UNCHANGED vars
  BY <1>18 DEF vars
<1> QED
  BY <1>1, <1>2, <1>3, <1>4, <1>5, <1>6, <1>7, <1>8, <1>9, <1>10, <1>11, <1>12, <1>13,
     <1>14, <1>15, <1>16, <1>17, <1>18 DEF Next, ListenerStep, PollerStep

-----------------------------------------------------------------------------
(* The race for Ip4Config: only the listener and the poller touch it, and  *)
(* the handlers end both.                                                  *)
LEMMA Ip4Step == TypeOK /\ Ip4Inv /\ [Next]_vars => Ip4Inv'
<1> SUFFICES ASSUME TypeOK, Ip4Inv, [Next]_vars PROVE Ip4Inv'
  OBVIOUS
<1> USE DEF Ip4Inv, Emitting, taskVars, flagVars, nmVars, backendVars
<1>0. listener \in ListenerType /\ poller \in PollerType /\ ip4sent \in Nat
  BY DEF TypeOK
<1>1. CASE ListenerAttach
  BY <1>0, <1>1 DEF ListenerAttach, ListenerGoto, ListenerType
<1>2. CASE ListenerSignal
  <2>1. \/ listener'.pc \in {"wait", "stopped"} /\ UNCHANGED ip4_emitted
        \/ ~ip4_emitted /\ ip4_emitted' /\ listener'.pc = "emit"
    BY <1>0, <1>2 DEF ListenerSignal, ListenerGoto, ListenerType, WinsIp4, set_state
  <2>2. UNCHANGED <<poller, ip4sent>>
    BY <1>2 DEF ListenerSignal, set_state
  <2> QED
    BY <1>0, <2>1, <2>2
<1>3. CASE ListenerEmit
  <2>1. listener.pc = "emit" /\ UNCHANGED <<poller, ip4sent>>
    BY <1>3 DEF ListenerEmit, ListenerGoto, RollBack
  <2>2. listener'.pc = "fail" \/ (listener'.pc = "publish" /\ UNCHANGED ip4_emitted)
    BY <1>0, <1>3 DEF ListenerEmit, ListenerGoto, RollBack, ListenerType
  <2> QED
    BY <2>1, <2>2
<1>4. CASE ListenerPublish
  BY <1>0, <1>4 DEF ListenerPublish, ListenerGoto, Publish, ListenerType
<1>5. CASE ListenerGiveUp
  BY <1>0, <1>5 DEF ListenerGiveUp, GiveUp, NewListener
<1>6. CASE PollerProxy
  BY <1>0, <1>6 DEF PollerProxy, PollerGoto, PollerType
<1>7. CASE PollerTick
  <2>1. poller'.pc \in {"read", "fail"}
    BY <1>0, <1>7 DEF PollerTick, PollerFails, PollerType
  <2> QED
    BY <1>7, <2>1 DEF PollerTick, set_state
<1>8. CASE PollerRead
  <2>1. poller'.pc \in {"device", "apply", "tick", "fail"}
    BY <1>0, <1>8 DEF PollerRead, PollerFails, NextTick, PollerType
  <2> QED
    BY <1>8, <2>1 DEF PollerRead, set_state
<1>9. CASE PollerDevice
  <2>1. poller'.pc = "apply"
    BY <1>0, <1>9 DEF PollerDevice, PollerGoto, PollerType
  <2> QED
    BY <1>9, <2>1 DEF PollerDevice
<1>10. CASE PollerApply
  <2>1. \/ poller'.pc \in {"tick", "stopped"} /\ UNCHANGED ip4_emitted
        \/ ~ip4_emitted /\ ip4_emitted' /\ poller'.pc = "emit"
    BY <1>0, <1>10 DEF PollerApply, PollerGoto, NextTick, SlowTick, PollerType, WinsIp4, set_state
  <2>2. UNCHANGED <<listener, ip4sent>>
    BY <1>10 DEF PollerApply, set_state
  <2> QED
    BY <1>0, <2>1, <2>2
<1>11. CASE PollerEmit
  <2>1. poller.pc = "emit" /\ UNCHANGED <<listener, ip4sent>>
    BY <1>11 DEF PollerEmit, PollerGoto, RollBack
  <2>2. poller'.pc = "fail" \/ (poller'.pc = "publish" /\ UNCHANGED ip4_emitted)
    BY <1>0, <1>11 DEF PollerEmit, PollerGoto, PollerFails, RollBack, PollerType
  <2> QED
    BY <2>1, <2>2
<1>12. CASE PollerPublish
  <2>1. poller'.pc = "tick"
    BY <1>0, <1>12 DEF PollerPublish, SlowTick, NextTick, PollerType
  <2> QED
    BY <1>0, <1>12, <2>1 DEF PollerPublish, Publish
<1>13. CASE PollerGiveUp
  BY <1>0, <1>13 DEF PollerGiveUp, GiveUp, NewPoller
<1>14. CASE AttentionStep
  BY <1>14 DEF AttentionStep, AttentionAttach, AttentionSignal, AttentionHandle, GiveUp
<1>15. CASE StatsTick
  BY <1>15 DEF StatsTick
<1>16. CASE HandlerStep
  <2>1. CASE Arm
    BY <1>0, <2>1 DEF Arm, PollerType
  <2>2. CASE AbortTasks
    BY <2>2 DEF AbortTasks, NewListener, NewPoller
  <2>3. CASE RequestTeardown \/ ConnectError \/ Stop
    BY <2>3 DEF RequestTeardown, ConnectError, Stop
  <2> QED
    BY <1>16, <2>1, <2>2, <2>3 DEF HandlerStep
<1>17. CASE Backend
  BY <1>17 DEF Backend, BackendStatus, BackendDevice, BackendVanishes
<1>18. CASE UNCHANGED vars
  BY <1>18 DEF vars
<1> QED
  BY <1>1, <1>2, <1>3, <1>4, <1>5, <1>6, <1>7, <1>8, <1>9, <1>10, <1>11, <1>12, <1>13,
     <1>14, <1>15, <1>16, <1>17, <1>18 DEF Next, ListenerStep, PollerStep

(* Every Failure of a task goes through emit_failure_once: a step either   *)
(* leaves the flag and the signals alone or is one of its three callers.   *)
LEMMA FailureStep == TypeOK /\ FailureInv /\ [Next]_vars => FailureInv'
<1> SUFFICES ASSUME TypeOK, FailureInv, [Next]_vars PROVE FailureInv'
  OBVIOUS
<1> USE DEF taskVars, flagVars, nmVars, backendVars
<1>0. failures \in Seq(Reasons) /\ listener \in ListenerType /\ poller \in PollerType
  BY DEF TypeOK
<1>1. \/ UNCHANGED <<failures, failure_emitted>>
      \/ \E r \in Reasons : emit_failure_once(r)
  <2>1. CASE ListenerStep
    BY <1>0, <2>1 DEF ListenerStep, ListenerAttach, ListenerSignal, ListenerEmit,
       ListenerPublish, ListenerGiveUp, GiveUp, RollBack, Publish, set_state, ListenerType
  <2>2. CASE PollerStep
    BY <1>0, <2>2 DEF PollerStep, PollerProxy, PollerTick, PollerRead, PollerDevice,
       PollerApply, PollerEmit, PollerPublish, PollerGiveUp, GiveUp, RollBack, Publish,
       set_state, PollerType
  <2>3. CASE AttentionStep
    BY <2>3 DEF AttentionStep, AttentionAttach, AttentionSignal, AttentionHandle, GiveUp, Reasons
  <2>4. CASE StatsTick \/ HandlerStep
    BY <2>4 DEF StatsTick, HandlerStep, Arm, RequestTeardown, AbortTasks, ConnectError, Stop
  <2>5. CASE Backend
    BY <2>5 DEF Backend, BackendStatus, BackendDevice, BackendVanishes
  <2>6. CASE UNCHANGED vars
    BY <2>6 DEF vars
  <2> QED
    BY <2>1, <2>2, <2>3, <2>4, <2>5, <2>6 DEF Next
<1>2. CASE UNCHANGED <<failures, failure_emitted>>
  BY <1>2 DEF FailureInv
<1>3. ASSUME NEW r \in Reasons, emit_failure_once(r) PROVE FailureInv'
  <2>1. /\ failure_emitted'
        /\ Len(failures') = IF failure_emitted THEN Len(failures) ELSE Len(failures) + 1
    BY <1>0, <1>3, EmitFailure
  <2>2. Len(failures') = 1
    BY <2>1 DEF FailureInv
  <2> QED
    BY <2>1, <2>2 DEF FailureInv
<1> QED
  BY <1>1, <1>2, <1>3

(* After the abort only the handlers and openvpn3 move. *)
LEMMA QuietStep == TypeOK /\ QuietInv /\ [Next]_vars => QuietInv'
<1> SUFFICES ASSUME TypeOK, QuietInv, [Next]_vars PROVE QuietInv'
  OBVIOUS
<1> USE DEF QuietInv, taskVars, flagVars, nmVars, backendVars
<1>1. CASE ListenerStep
  BY <1>1 DEF ListenerStep, ListenerAttach, ListenerSignal, ListenerEmit, ListenerPublish,
     ListenerGiveUp, ListenerGoto, GiveUp
<1>2. CASE PollerStep
  BY <1>2 DEF PollerStep, PollerProxy, PollerTick, PollerRead, PollerDevice, PollerApply,
     PollerEmit, PollerPublish, PollerGiveUp, PollerGoto, GiveUp
<1>3. CASE AttentionStep \/ StatsTick
  BY <1>3 DEF AttentionStep, AttentionAttach, AttentionSignal, AttentionHandle,
     AttentionGoto, StatsTick
<1>4. CASE HandlerStep
  BY <1>4 DEF HandlerStep, Arm, RequestTeardown, AbortTasks, ConnectError, Stop,
     NewListener, NewPoller
<1>5. CASE Backend
  BY <1>5 DEF Backend, BackendStatus, BackendDevice, BackendVanishes
<1>6. CASE UNCHANGED vars
  BY <1>6 DEF vars
<1> QED
  BY <1>1, <1>2, <1>3, <1>4, <1>5, <1>6 DEF Next

(* What a status read does to the poller's error count. *)
LEMMA PollerReads ==
    ASSUME TypeOK, PollerRead
    PROVE  \/ ReadOk /\ poller'.errs = 0 /\ poller'.pc # "fail"
           \/ ReadErr /\ poller'.errs \in {poller.errs, poller.errs + 1}
                     /\ (poller'.pc = "fail" => NextErrs >= ErrBudget)
<1>0. poller \in PollerType /\ poller.pc = "read"
  BY DEF TypeOK, PollerRead
<1> DEFINE target == to_nm_state(prop)
           next == IF ~poller.ip4 /\ target # "Stopped" THEN "device" ELSE "apply"
<1>1. CASE /\ ReadOk
           /\ poller' = [poller EXCEPT !.pc = next, !.errs = 0, !.target = target,
                                       !.reason = failure_reason(prop)]
  <2>1. next # "fail"
    OBVIOUS
  <2> HIDE DEF next, target
  <2> QED
    BY <1>0, <1>1, <2>1 DEF PollerType
<1>2. CASE ReadErr /\ poller' = [NextTick EXCEPT !.errs = NextErrs]
  BY <1>0, <1>2 DEF PollerType, NextTick, NextErrs
<1>3. CASE ReadErr /\ NextErrs >= ErrBudget /\ poller' = PollerFails("ConnectFailed")
  BY <1>0, <1>3 DEF PollerType, PollerFails
<1>4. CASE ReadErr /\ poller' = NextTick
  BY <1>0, <1>4 DEF PollerType, NextTick
<1> QED
  BY <1>1, <1>2, <1>3, <1>4 DEF PollerRead

(* A session that is gone does not come back, and a read of one that       *)
(* exists raises both counters or clears the poller's.                     *)
LEMMA BlipStep == TypeOK /\ BlipInv /\ [Next]_vars => BlipInv'
<1> SUFFICES ASSUME TypeOK, BlipInv, [Next]_vars PROVE BlipInv'
  OBVIOUS
<1> USE DEF taskVars, flagVars, nmVars, backendVars
<1>0. /\ poller \in PollerType
      /\ poller.errs \in Nat /\ readErrors \in Nat /\ present \in BOOLEAN
  BY BoundsAssumption DEF TypeOK, PollerType
<1>1. ASSUME UNCHANGED <<poller, readErrors>>, present' => present PROVE BlipInv'
  BY <1>1 DEF BlipInv
<1>2. ASSUME UNCHANGED <<present, readErrors>>, poller'.errs = poller.errs PROVE BlipInv'
  BY <1>2 DEF BlipInv
<1>3. ASSUME poller'.errs = 0, readErrors' \in Nat PROVE BlipInv'
  BY <1>3 DEF BlipInv
<1>4. CASE ListenerStep
  BY <1>1, <1>4 DEF ListenerStep, ListenerAttach, ListenerSignal, ListenerEmit,
     ListenerPublish, ListenerGiveUp
<1>5. CASE PollerStep
  <2>1. CASE PollerRead
    <3>1. CASE ReadOk /\ poller'.errs = 0
      BY <1>0, <3>1 DEF ReadOk, BlipInv
    <3>2. CASE ReadErr /\ poller'.errs \in {poller.errs, poller.errs + 1}
      <4>1. present' = present
        BY <2>1 DEF PollerRead
      <4>2. ASSUME present PROVE readErrors' = readErrors + 1
        BY <3>2, <4>2 DEF ReadErr
      <4> QED
        BY <1>0, <3>2, <4>1, <4>2 DEF BlipInv
    <3> QED
      BY <2>1, <3>1, <3>2, PollerReads
  <2>2. CASE PollerDevice
    <3>1. poller'.errs = poller.errs
      BY <1>0, <2>2 DEF PollerDevice, PollerGoto, PollerType
    <3>2. present' = present /\ (readErrors' = readErrors \/ readErrors' = readErrors + 1)
      BY <2>2 DEF PollerDevice, ReadOk, ReadErr
    <3> QED
      BY <1>0, <3>1, <3>2 DEF BlipInv
  <2>3. CASE PollerProxy \/ PollerTick \/ PollerApply \/ PollerEmit \/ PollerPublish
    <3>1. poller'.errs = poller.errs
      BY <1>0, <2>3 DEF PollerProxy, PollerTick, PollerApply, PollerEmit, PollerPublish,
         PollerGoto, NextTick, SlowTick, PollerFails, PollerType
    <3> QED
      BY <1>2, <2>3, <3>1 DEF PollerProxy, PollerTick, PollerApply, PollerEmit, PollerPublish
  <2>4. CASE PollerGiveUp
    BY <1>0, <1>3, <2>4 DEF PollerGiveUp, NewPoller
  <2> QED
    BY <1>5, <2>1, <2>2, <2>3, <2>4 DEF PollerStep
<1>6. CASE AttentionStep \/ StatsTick
  BY <1>1, <1>6 DEF AttentionStep, AttentionAttach, AttentionSignal, AttentionHandle, StatsTick
<1>7. CASE HandlerStep
  <2>1. CASE Arm
    BY <1>0, <1>2, <2>1 DEF Arm, PollerType
  <2>2. CASE AbortTasks
    BY <1>0, <1>3, <2>2 DEF AbortTasks, NewPoller
  <2>3. CASE RequestTeardown \/ ConnectError \/ Stop
    BY <1>0, <1>1, <2>3 DEF RequestTeardown, ConnectError, Stop, SessionDisconnect
  <2> QED
    BY <1>7, <2>1, <2>2, <2>3 DEF HandlerStep
<1>8. CASE Backend
  BY <1>1, <1>8 DEF Backend, BackendStatus, BackendDevice, BackendVanishes
<1>9. CASE UNCHANGED vars
  BY <1>1, <1>9 DEF vars
<1> QED
  BY <1>4, <1>5, <1>6, <1>7, <1>8, <1>9 DEF Next

-----------------------------------------------------------------------------
(* The inductive invariant. *)
THEOREM TasksInvariance == Spec => []TInv
<1>1. Init => TInv
  <2> SUFFICES ASSUME Init PROVE TInv
    OBVIOUS
  <2>1. NewListener("attach") \in ListenerType
    BY DEF NewListener, ListenerType, ListenerPcs, Reasons
  <2>2. NewPoller("off") \in PollerType
    BY BoundsAssumption DEF NewPoller, PollerType, PollerPcs, Reasons, Targets
  <2>3. TypeOK
    <3>1. <<>> \in Seq(Reasons) /\ <<>> \in Seq(Wire)
      OBVIOUS
    <3>2. 0 \in 0 .. MaxEvents /\ 0 \in 0 .. MaxReadErrors /\ 0 \in Nat
      BY BoundsAssumption
    <3>3. "connecting" \in Handlers /\ "Starting" \in Targets \ {"None"}
      BY DEF Handlers, Targets
    <3>4. NoStatus \in Wire
      BY WirePairs
    <3> QED
      BY <2>1, <2>2, <3>1, <3>2, <3>3, <3>4 DEF Init, TypeOK
  <2>4. Ip4Inv /\ FailureInv /\ QuietInv
    BY DEF Init, Ip4Inv, FailureInv, QuietInv, Emitting, NewListener, NewPoller
  <2>5. BlipInv
    BY DEF Init, BlipInv, NewPoller
  <2> QED
    BY <2>3, <2>4, <2>5 DEF TInv
<1>2. TInv /\ [Next]_vars => TInv'
  BY TypeStep, Ip4Step, FailureStep, QuietStep, BlipStep DEF TInv
<1> QED
  BY <1>1, <1>2, PTL DEF Spec

(* The shared variables and the locals of the tasks keep their types; the  *)
(* tick and error counters stay below their limits.                        *)
THEOREM TasksTypeCorrect == Spec => []TypeOK
<1>1. TInv => TypeOK
  BY DEF TInv
<1> QED
  BY <1>1, TasksInvariance, PTL

(* NM gets at most one Ip4Config per session, however the listener and the *)
(* poller interleave and however often an attempt is rolled back.          *)
THEOREM OneIp4Config == Spec => []Ip4ConfigOnce
<1>1. TInv => Ip4ConfigOnce
  BY DEF TInv, Ip4Inv, Ip4ConfigOnce
<1> QED
  BY <1>1, TasksInvariance, PTL

(* NM gets at most one Failure per session from its background tasks. *)
THEOREM OneTaskFailure == Spec => []TaskFailureOnce
<1>1. TInv => TaskFailureOnce
  BY DEF TInv, FailureInv, TaskFailureOnce
<1> QED
  BY <1>1, TasksInvariance, PTL

(* No task speaks for a session whose teardown has aborted it. *)
THEOREM SilentTeardown == Spec => TeardownIsSilent
<1> USE DEF taskVars, flagVars, nmVars, backendVars
<1>1. TInv /\ [Next]_vars =>
        [/\ handler \in {"stopping", "failing", "failed", "stopped"}
               => UNCHANGED <<failures, ip4sent>>
         /\ handler = "stopped" => UNCHANGED state]_vars
  <2> SUFFICES ASSUME QuietInv, Next,
                      handler \in {"stopping", "failing", "failed", "stopped"}
               PROVE  /\ UNCHANGED <<failures, ip4sent>>
                      /\ handler = "stopped" => UNCHANGED state
    BY DEF TInv
  <2>0. listener.pc = "done" /\ poller.pc = "done" /\ attention = "done" /\ stats = "done"
    BY DEF QuietInv
  <2>1. ~ListenerStep
    BY <2>0 DEF ListenerStep, ListenerAttach, ListenerSignal, ListenerEmit, ListenerPublish,
       ListenerGiveUp, ListenerGoto, GiveUp
  <2>2. ~PollerStep
    BY <2>0 DEF PollerStep, PollerProxy, PollerTick, PollerRead, PollerDevice, PollerApply,
       PollerEmit, PollerPublish, PollerGiveUp, PollerGoto, GiveUp
  <2>3. ~AttentionStep /\ ~StatsTick
    BY <2>0 DEF AttentionStep, AttentionAttach, AttentionSignal, AttentionHandle,
       AttentionGoto, StatsTick
  <2>4. CASE HandlerStep
    BY <2>4 DEF HandlerStep, Arm, RequestTeardown, AbortTasks, ConnectError, Stop
  <2>5. CASE Backend
    BY <2>5 DEF Backend, BackendStatus, BackendDevice, BackendVanishes
  <2> QED
    BY <2>1, <2>2, <2>3, <2>4, <2>5 DEF Next
<1> QED
  BY <1>1, TasksInvariance, PTL DEF Spec, TeardownIsSilent

(* Fewer failed reads than the budget never end a session that exists, for *)
(* every budget.                                                           *)
THEOREM BlipsAreTolerated == Spec => BlipTolerated
<1>1. TInv /\ [Next]_vars =>
        [poller.pc = "read" /\ poller'.pc = "fail"
           => ~present \/ readErrors' >= ErrBudget]_vars
  <2> SUFFICES ASSUME TypeOK, BlipInv, Next, present,
                      poller.pc = "read", poller'.pc = "fail"
               PROVE  readErrors' >= ErrBudget
    BY DEF TInv
  <2>0. poller \in PollerType /\ poller.errs \in Nat /\ readErrors \in Nat
    BY BoundsAssumption DEF TypeOK, PollerType
  <2>1. poller' # poller
    OBVIOUS
  <2>2. PollerStep \/ AbortTasks
    BY <2>0, <2>1 DEF Next, ListenerStep, ListenerAttach, ListenerSignal, ListenerEmit,
       ListenerPublish, ListenerGiveUp, AttentionStep, AttentionAttach, AttentionSignal,
       AttentionHandle, StatsTick, HandlerStep, Arm, RequestTeardown, ConnectError, Stop,
       Backend, BackendStatus, BackendDevice, BackendVanishes, taskVars, PollerType
  <2>3. ~AbortTasks
    <3>1. NewPoller("done").pc = "done"
      BY DEF NewPoller
    <3>2. AbortTasks => poller' = NewPoller("done")
      BY DEF AbortTasks
    <3> QED
      BY <3>1, <3>2
  <2>4. PollerRead
    <3>1. ~PollerGiveUp
      BY DEF PollerGiveUp, GiveUp
    <3> QED
      BY <2>2, <2>3, <3>1 DEF PollerStep, PollerProxy, PollerTick, PollerDevice,
         PollerApply, PollerEmit, PollerPublish, PollerGoto
  <2>5. ReadErr /\ NextErrs >= ErrBudget
    BY <2>4, PollerReads
  <2>6. readErrors' = readErrors + 1
    BY <2>5 DEF ReadErr
  <2> QED
    BY <2>0, <2>5, <2>6, BoundsAssumption DEF NextErrs, BlipInv
<1> QED
  BY <1>1, TasksInvariance, PTL DEF Spec, BlipTolerated
=============================================================================
