----------------------------- MODULE InputSlots -----------------------------
(***************************************************************************)
(* Interactive authentication (nm-openvpn3-service/src/plugin.rs,          *)
(* secrets.rs; ovpn3-client/src/lib.rs).  openvpn3 queues input slots and  *)
(* raises AttentionRequired; the attention task of the session drains the  *)
(* queue (handle_attention), answers the slots it has values for and       *)
(* leaves the others in SessionState.pending_slots, asking NM for them;    *)
(* NM answers with NewSecrets, whose handler takes the pending slots.      *)
(* NewSecrets does not take the coordinator's lock, so it runs beside      *)
(* Connect and Disconnect, which replace the session under it.             *)
(*                                                                         *)
(* The module is about a process that outlives a session (--persist, or a  *)
(* Connect that failed).  A Vec of slots is a set: openvpn3 chooses the    *)
(* order.  A slot carries, for the properties, the session it came from;   *)
(* the code sees only its coordinates, which sessions reuse.               *)
(***************************************************************************)
EXTENDS Naturals

CONSTANTS
    Sessions,    \* the sessions Connects create
    Names,       \* the names of the slots openvpn3 may ask for
    Calls,       \* the NewSecrets calls NM makes
    Settings,    \* [data, secrets]: the keys with a value that NM may send
    None,        \* Option::None
    MaxSignals   \* bound: AttentionRequired signals queued for a task

Keys == {"username", "password", "cert-pass", "challenge-response",
         "http-proxy-username", "http-proxy-password"}

ASSUME SlotsAssumption ==
    /\ None \notin Sessions \cup [from : Sessions, name : Names]
    /\ Settings \subseteq [data : SUBSET Keys, secrets : SUBSET Keys]
    /\ MaxSignals \in Nat

VARIABLES
    session_path, pending_slots, current,  \* SessionState
    teardown,     \* ConnectCoordinator.teardown
    connect,      \* where the Connect or Disconnect holding the lock is
    disconnecting,\* a Disconnect has set the flag and waits for the lock
    requested,    \* the sessions whose disconnect_requested is set
    task,         \* [pc, slots, known] of each session's attention task
    call,         \* [pc, path, batch, slot, missing, known] of each NewSecrets
    asked,        \* NM has yet to answer a SecretsRequired signal
    alive,        \* the sessions that exist at openvpn3
    queue,        \* the names of the unanswered slots of each session
    signals,      \* AttentionRequired signals each task has yet to read
    announced,    \* history: queued slots an attached task was told of
    excused,      \* history: those of them that were skipped or reported
    failed        \* history: sessions a Failure was sent for

stateVars == <<session_path, pending_slots, current>>
handlerVars == <<connect, disconnecting, requested>>
backendVars == <<alive, queue, signals>>
historyVars == <<announced, excused, failed>>
vars == <<stateVars, teardown, handlerVars, task, call, asked, backendVars, historyVars>>

NoSettings == [data |-> {}, secrets |-> {}]
Slot == [from : Sessions, name : Names]

TaskAt(pc, slots, known) == [pc |-> pc, slots |-> slots, known |-> known]
IdleTask(pc) == TaskAt(pc, {}, NoSettings)

CallAt(pc, path, batch, slot, missing, known) ==
    [pc |-> pc, path |-> path, batch |-> batch, slot |-> slot, missing |-> missing,
     known |-> known]
IdleCall(pc) == CallAt(pc, None, {}, None, {}, NoSettings)

Attached(s) == task[s].pc \notin {"off", "attach", "done"}

Init ==
    /\ session_path = None /\ pending_slots = {} /\ current = NoSettings
    /\ teardown = FALSE
    /\ connect = "idle"
    /\ disconnecting = FALSE
    /\ requested = {}
    /\ task = [s \in Sessions |-> IdleTask("off")]
    /\ call = [n \in Calls |-> IdleCall("idle")]
    /\ asked = FALSE
    /\ alive = {}
    /\ queue = [s \in Sessions |-> {}]
    /\ signals = [s \in Sessions |-> 0]
    /\ announced = {} /\ excused = {} /\ failed = {}

-----------------------------------------------------------------------------
(* secrets.rs *)

slot_to_vpn_key(name) ==
    CASE name = "username" -> "username"
      [] name \in {"static_challenge", "auth_response"} -> "challenge-response"
      [] name \in {"private_key", "key_pass"} -> "cert-pass"
      [] name = "http_proxy_user" -> "http-proxy-username"
      [] name = "http_proxy_pass" -> "http-proxy-password"
      [] OTHER -> "password"

(* Whether lookup_value finds a non-empty value: the two user names are    *)
(* looked up in vpn.data, every other key in vpn.secrets.                  *)
lookup_value(key, known) ==
    key \in IF key \in {"username", "http-proxy-username"} THEN known.data ELSE known.secrets

Answerable(slots, known) == {x \in slots : lookup_value(slot_to_vpn_key(x.name), known)}

(* session_provide_input: the slot's coordinates, whichever session they   *)
(* came from, name a queued slot of the session it is sent to, or not.     *)
Accepted(s, slot) ==
    /\ s \in alive /\ slot.name \in queue[s]
    /\ queue' = [queue EXCEPT ![s] = @ \ {slot.name}]
    /\ announced' = announced \ {[from |-> s, name |-> slot.name]}
    /\ excused' = excused \ {[from |-> s, name |-> slot.name]}

(* It returns an error: the slot was refused, or the answer got through    *)
(* and only the reply is lost.                                             *)
Rejected(s, slot) == UNCHANGED <<queue, announced, excused>> \/ Accepted(s, slot)

-----------------------------------------------------------------------------
(* The attention task of a session *)

Task(s, from, to) == task[s].pc = from /\ task' = [task EXCEPT ![s] = to]

(* The subscription, which may fail and leave the session without a task. *)
TaskAttach(s) ==
    /\ Task(s, "attach", IdleTask("wait")) \/ Task(s, "attach", IdleTask("done"))
    /\ UNCHANGED <<stateVars, teardown, handlerVars, call, asked, backendVars, historyVars>>

TaskSignal(s) ==
    /\ signals[s] > 0
    /\ signals' = [signals EXCEPT ![s] = @ - 1]
    /\ Task(s, "wait", IdleTask("fetch"))
    /\ UNCHANGED <<stateVars, teardown, handlerVars, call, asked, alive, queue, historyVars>>

\* Mutant: a failed GetTypeGroup is taken for an empty queue.
FetchFails_Empty(s) == Task(s, "fetch", IdleTask("wait"))

FetchFails(s) == Task(s, "fetch", IdleTask("fail"))

(* session_fetch_input_slots: a failed GetTypeGroup fails the handler, a   *)
(* failed Check or Fetch only skips what it was about.                     *)
TaskFetch(s) ==
    /\ \/ FetchFails(s) /\ UNCHANGED excused
       \/ /\ s \in alive
          /\ \E names \in SUBSET queue[s] :
               LET slots == [from : {s}, name : names]
                   skipped == [from : {s}, name : queue[s] \ names]
                   next == IF slots = {} THEN "wait" ELSE "snapshot"
               IN  /\ excused' = excused \cup skipped
                   /\ Task(s, "fetch", TaskAt(next, slots, NoSettings))
    /\ UNCHANGED <<stateVars, teardown, handlerVars, call, asked, backendVars, announced, failed>>

(* The stored settings are copied, if the session is still the stored one. *)
TaskSnapshot(s) ==
    /\ \/ session_path = s /\ Task(s, "snapshot", TaskAt("feed", task[s].slots, current))
       \/ session_path # s /\ Task(s, "snapshot", IdleTask("wait"))
    /\ UNCHANGED <<stateVars, teardown, handlerVars, call, asked, backendVars, historyVars>>

(* One ProvideInput for a slot there is a value for; it may fail because   *)
(* the slot was answered meanwhile, the session is gone or the bus fails.  *)
TaskFeed(s) ==
    /\ \E slot \in Answerable(task[s].slots, task[s].known) :
         \/ Accepted(s, slot) /\ Task(s, "feed", TaskAt("feed", task[s].slots \ {slot}, task[s].known))
         \/ Rejected(s, slot) /\ Task(s, "feed", IdleTask("fail"))
    /\ UNCHANGED <<stateVars, teardown, handlerVars, call, asked, alive, signals, failed>>

\* Mutant: slots of an earlier signal are kept instead of replaced.
NewPending_Keep(need) == IF pending_slots = {} THEN need ELSE pending_slots

NewPending(need) == IF need = {} THEN pending_slots ELSE need

(* The slots left over replace the pending ones, before NM is asked. *)
TaskStash(s) ==
    LET need == task[s].slots IN
    /\ Answerable(need, task[s].known) = {}
    /\ Task(s, "feed", IdleTask(IF need = {} THEN "wait" ELSE "ask"))
    /\ pending_slots' = NewPending(need)
    /\ UNCHANGED <<session_path, current, teardown, handlerVars, call, asked, backendVars,
                   historyVars>>

TaskAsk(s) ==
    /\ \/ Task(s, "ask", IdleTask("wait")) /\ asked' = TRUE
       \/ Task(s, "ask", IdleTask("fail")) /\ UNCHANGED asked
    /\ UNCHANGED <<stateVars, teardown, handlerVars, call, backendVars, historyVars>>

(* The handler failed: a Failure, unless a teardown was requested, and the *)
(* task is over and drops its stream.                                      *)
TaskFail(s) ==
    /\ Task(s, "fail", IdleTask("done"))
    /\ signals' = [signals EXCEPT ![s] = 0]
    /\ failed' = failed \cup ({s} \ requested)
    /\ UNCHANGED <<stateVars, teardown, handlerVars, call, asked, alive, queue,
                   announced, excused>>

TaskStep(s) ==
    \/ TaskSignal(s) \/ TaskFetch(s) \/ TaskSnapshot(s) \/ TaskFeed(s)
    \/ TaskStash(s) \/ TaskAsk(s) \/ TaskFail(s)

-----------------------------------------------------------------------------
(* NewSecrets *)

\* Mutant: the settings are stored whether or not there is a session.
Refresh_Always(known) == current' = known

(* The stored settings are refreshed only while a session is stored. *)
Refresh(known) == current' = IF session_path = None THEN current ELSE known

\* Mutant: the missing session is noticed only when the slots are fed.
Begins_Unchecked == pending_slots # {}

(* Whether there is anything to do: pending slots and a session for them. *)
Begins == pending_slots # {} /\ session_path # None

(* NM answers the last SecretsRequired.  Under one lock the path is copied,*)
(* the settings are refreshed and the pending slots are taken.             *)
new_secrets(n, known) ==
    /\ call[n].pc = "idle"
    /\ asked
    /\ asked' = FALSE
    /\ Refresh(known)
    /\ pending_slots' = {}
    /\ call' = [call EXCEPT ![n] =
                  IF Begins
                  THEN CallAt("check", session_path, pending_slots, None, {}, known)
                  ELSE IdleCall("done")]
    /\ UNCHANGED <<session_path, teardown, handlerVars, task, backendVars, historyVars>>

CallTo(n, pc, batch, slot, missing) ==
    call' = [call EXCEPT ![n] =
               CallAt(pc, call[n].path, batch, slot, missing, call[n].known)]

Unanswered(n) == call[n].batch \cup call[n].missing

(* The call returns, with an error if slots are missing. *)
CallReturns(n, missing) ==
    /\ call' = [call EXCEPT ![n] = IdleCall("done")]
    /\ excused' = excused \cup (missing \cap announced)

(* The top of the loop: a teardown ends the call without an error while    *)
(* slots are left; the next slot with a value is sent; when there is none, *)
(* those without a value and those that failed are missing.                *)
CallCheck(n) ==
    /\ call[n].pc = "check"
    /\ LET can == Answerable(call[n].batch, call[n].known) IN
         \/ teardown /\ call[n].batch # {} /\ CallReturns(n, {})
         \/ can = {} /\ CallReturns(n, Unanswered(n))
         \/ /\ ~teardown
            /\ \E slot \in can :
                 CallTo(n, "provide", call[n].batch \ {slot}, slot, call[n].missing)
            /\ UNCHANGED excused
    /\ UNCHANGED <<stateVars, teardown, handlerVars, task, asked, backendVars, announced, failed>>

(* ProvideInput returns. *)
CallProvide(n) ==
    /\ call[n].pc = "provide"
    /\ \/ /\ Accepted(call[n].path, call[n].slot)
          /\ CallTo(n, "check", call[n].batch, None, call[n].missing)
       \/ /\ Rejected(call[n].path, call[n].slot)
          /\ CallTo(n, "judge", call[n].batch, call[n].slot, call[n].missing)
    /\ UNCHANGED <<stateVars, teardown, handlerVars, task, asked, alive, signals, failed>>

(* An error counts the slot as missing, unless a teardown explains it. *)
CallJudge(n) ==
    /\ call[n].pc = "judge"
    /\ \/ teardown /\ call' = [call EXCEPT ![n] = IdleCall("done")]
       \/ /\ ~teardown
          /\ CallTo(n, "check", call[n].batch, None, call[n].missing \cup {call[n].slot})
    /\ UNCHANGED <<stateVars, teardown, handlerVars, task, asked, backendVars, historyVars>>

CallStep(n) == CallCheck(n) \/ CallProvide(n) \/ CallJudge(n)

-----------------------------------------------------------------------------
(* Connect and Disconnect, as far as they touch what the two above share.  *)
(* The coordinator runs one of them at a time (module Plugin).             *)

(* A Connect that is not refused clears the flag ... *)
ConnectBegin ==
    /\ connect = "idle" /\ session_path = None
    /\ connect' = "begun"
    /\ teardown' = FALSE
    /\ UNCHANGED <<stateVars, disconnecting, requested, task, call, asked, backendVars,
                   historyVars>>

(* ... and stores the session NewTunnel returned, ... *)
Stash(s, known) ==
    /\ connect = "begun"
    /\ s \notin alive \cup requested
    /\ session_path' = s
    /\ current' = known
    /\ alive' = alive \cup {s}
    /\ connect' = "stashed"
    /\ UNCHANGED <<pending_slots, teardown, disconnecting, requested, task, call, asked,
                   queue, signals, historyVars>>

(* ... spawns the attention task, after which session.Connect runs, ... *)
Spawn ==
    /\ connect = "stashed"
    /\ connect' = "connecting"
    /\ task' = [task EXCEPT ![session_path] = IdleTask("attach")]
    /\ UNCHANGED <<stateVars, teardown, disconnecting, requested, call, asked, backendVars,
                   historyVars>>

(* ... and returns: with an error before the session is stored, or with    *)
(* success.                                                                *)
ConnectReturns ==
    /\ connect \in {"begun", "connecting"}
    /\ connect' = "idle"
    /\ UNCHANGED <<stateVars, teardown, disconnecting, requested, task, call, asked,
                   backendVars, historyVars>>

(* Aborting a task drops its stream, too. *)
Abort(S) ==
    /\ task' = [s \in Sessions |-> IF s \in S THEN IdleTask("done") ELSE task[s]]
    /\ signals' = [s \in Sessions |-> IF s \in S THEN 0 ELSE signals[s]]

(* cleanup_session, under one lock: the tasks are aborted, the path and    *)
(* the settings cleared.  The pending slots stay.                          *)
cleanup_session ==
    /\ connect \in {"stashed", "connecting"}
    /\ connect' = "ending"
    /\ requested' = requested \cup {session_path}
    /\ Abort({session_path})
    /\ session_path' = None
    /\ current' = NoSettings
    /\ UNCHANGED <<pending_slots, teardown, disconnecting, call, asked, alive, queue,
                   historyVars>>

(* lock_disconnect sets the flag and queues for the lock. *)
DisconnectCall ==
    /\ ~disconnecting
    /\ disconnecting' = TRUE
    /\ teardown' = TRUE
    /\ UNCHANGED <<stateVars, connect, requested, task, call, asked, backendVars, historyVars>>

(* Disconnect has the lock: SessionState is replaced by an empty one; the  *)
(* tasks are aborted after its own lock is released.                       *)
Take ==
    /\ connect = "idle" /\ disconnecting
    /\ connect' = "aborting"
    /\ disconnecting' = FALSE
    /\ requested' = requested \cup ({session_path} \ {None})
    /\ session_path' = None
    /\ pending_slots' = {}
    /\ current' = NoSettings
    /\ UNCHANGED <<teardown, task, call, asked, backendVars, historyVars>>

AbortTasks ==
    /\ connect = "aborting"
    /\ connect' = "ending"
    /\ Abort(requested)
    /\ UNCHANGED <<stateVars, teardown, disconnecting, requested, call, asked, alive, queue,
                   historyVars>>

(* A session that is gone waits for no answer. *)
Gone(S) ==
    /\ alive' = alive \ S
    /\ queue' = [s \in Sessions |-> IF s \in S THEN {} ELSE queue[s]]
    /\ announced' = {slot \in announced : slot.from \notin S}
    /\ excused' = {slot \in excused : slot.from \notin S}
    /\ failed' = failed \ S

(* session.Disconnect, and the handler returns.  A session that survives   *)
(* it (module Plugin) is gone as far as this process is concerned.         *)
EndSession ==
    /\ connect = "ending"
    /\ connect' = "idle"
    /\ Gone(requested)
    /\ UNCHANGED <<stateVars, teardown, disconnecting, requested, task, call, asked, signals>>

HandlerStep ==
    \/ (\E s \in Sessions, known \in Settings : Stash(s, known))
    \/ Spawn \/ ConnectReturns \/ cleanup_session
    \/ Take \/ AbortTasks \/ EndSession

-----------------------------------------------------------------------------
(* openvpn3 *)

(* AttentionRequired reaches the task if it is attached; what it is about  *)
(* is owed an answer from then on.                                         *)
Announce(s, names) ==
    LET slots == [from : {s}, name : names] IN
    IF Attached(s)
    THEN /\ signals' = [signals EXCEPT ![s] = @ + 1]
         /\ announced' = announced \cup slots
         /\ excused' = excused \ slots
    ELSE UNCHANGED <<signals, announced, excused>>

(* A slot is queued and announced, or what is queued is announced again.   *)
(* A session the plugin gave up on asks nobody.                            *)
BackendAsks(s) ==
    /\ s \in alive \ requested
    /\ signals[s] < MaxSignals
    /\ \/ \E name \in Names \ queue[s] : queue' = [queue EXCEPT ![s] = @ \cup {name}]
       \/ queue[s] # {} /\ UNCHANGED queue
    /\ Announce(s, queue'[s])
    /\ UNCHANGED <<stateVars, teardown, handlerVars, task, call, asked, alive, failed>>

BackendEnds(s) ==
    /\ s \in alive
    /\ Gone({s})
    /\ UNCHANGED <<stateVars, teardown, handlerVars, task, call, asked, signals>>

-----------------------------------------------------------------------------
Next ==
    \/ \E s \in Sessions : TaskAttach(s) \/ TaskStep(s) \/ BackendAsks(s) \/ BackendEnds(s)
    \/ \E n \in Calls : (\E known \in Settings : new_secrets(n, known)) \/ CallStep(n)
    \/ ConnectBegin \/ DisconnectCall \/ HandlerStep

(* Tasks and handlers that can run do run.  A step that awaits a D-Bus     *)
(* call is among them: the calls are assumed to return, with a value or an *)
(* error, which is openvpn3's part (no call has a time limit here).  NM    *)
(* need not answer a prompt, nor openvpn3 ask or end.                      *)
Fairness ==
    /\ \A s \in Sessions : WF_vars(TaskStep(s))
    /\ \A n \in Calls : WF_vars(CallStep(n))
    /\ WF_vars(HandlerStep)

Spec == Init /\ [][Next]_vars /\ Fairness

-----------------------------------------------------------------------------
(* Properties *)

Known == [data : SUBSET Keys, secrets : SUBSET Keys]
TaskPcs == {"off", "attach", "wait", "fetch", "snapshot", "feed", "ask", "fail", "done"}
TaskType == [pc : TaskPcs, slots : SUBSET Slot, known : Known]
CallPcs == {"idle", "check", "provide", "judge", "done"}
CallType == [pc : CallPcs, path : Sessions \cup {None}, batch : SUBSET Slot,
             slot : Slot \cup {None}, missing : SUBSET Slot, known : Known]

\* A call that feeds slots has a session to feed them to, and one in hand.
Feeding(r) ==
    /\ r.pc \in {"check", "provide", "judge"} => r.path \in Sessions
    /\ r.pc \in {"provide", "judge"} => r.slot \in Slot

TypeOK ==
    /\ session_path \in Sessions \cup {None}
    /\ pending_slots \subseteq Slot
    /\ current \in Known
    /\ teardown \in BOOLEAN
    /\ connect \in {"idle", "begun", "stashed", "connecting", "aborting", "ending"}
    /\ disconnecting \in BOOLEAN
    /\ requested \subseteq Sessions
    /\ task \in [Sessions -> TaskType]
    /\ call \in [Calls -> CallType]
    /\ \A n \in Calls : Feeding(call[n])
    /\ asked \in BOOLEAN
    /\ alive \subseteq Sessions
    /\ queue \in [Sessions -> SUBSET Names]
    /\ signals \in [Sessions -> 0 .. MaxSignals]
    /\ announced \subseteq Slot
    /\ excused \subseteq Slot
    /\ failed \subseteq Sessions

(* Who is still going to deal with a slot: a signal not yet read, the task *)
(* that is draining the queue, NM, or a NewSecrets call.                   *)
InHand(slot) ==
    LET s == slot.from IN
    \/ signals[s] > 0
    \/ task[s].pc \in {"fetch", "fail"}
    \/ slot \in task[s].slots
    \/ slot \in pending_slots
    \/ \E n \in Calls : call[n].path = s /\ slot \in Unanswered(n) \cup {call[n].slot}

(* No prompt is forgotten: a slot openvpn3 announced and still waits for,  *)
(* of a session that is not being torn down, is in somebody's hands, or NM *)
(* was told (a Failure, an error from NewSecrets), or the code skipped it  *)
(* because Check or Fetch failed for it.                                   *)
PromptsAccounted ==
    \A slot \in announced :
        slot.from = session_path /\ ~teardown
        => InHand(slot) \/ slot \in excused \/ slot.from \in failed

(* Credentials are kept only while there is a session they are for, though *)
(* NewSecrets, which refreshes them, runs beside the calls that end it.    *)
SecretsNeedSession == session_path = None => current = NoSettings

(* A prompt does not get stuck on the way to NM: it is answered, given to  *)
(* NM, given up with a report, or its session is torn down.                *)
PromptSettled ==
    \A slot \in Slot :
        slot \in announced
            ~> \/ slot \notin announced
               \/ slot \in pending_slots \cup excused
               \/ slot.from \in failed \cup requested
               \/ teardown

(* The comment on cleanup_session says that it clears the state cached for *)
(* the session; so NewSecrets only answers slots of the session it answers *)
(* them to.                                                                *)
OwnPromptsOnly ==
    \A n \in Calls : call[n].pc = "provide" => call[n].slot.from = call[n].path
=============================================================================
