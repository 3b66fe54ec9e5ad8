-------------------------- MODULE InputSlotsProofs --------------------------
(***************************************************************************)
(* Proofs about InputSlots, for any sets of sessions, slots, NewSecrets    *)
(* calls and settings: the inductive invariant SInv, from which types,     *)
(* PromptsAccounted and SecretsNeedSession follow.                         *)
(***************************************************************************)
EXTENDS InputSlots, TLAPS

(* Which session the handler works on, and which tasks may run: those of   *)
(* the stored session, and those a Disconnect has yet to abort.            *)
OwnerInv ==
    /\ connect \in {"begun", "aborting", "ending"} => session_path = None
    /\ connect \in {"stashed", "connecting"} => session_path # None
    /\ connect = "stashed" => task[session_path].pc = "off"
    /\ session_path \notin requested
    /\ \A s \in Sessions : task[s].pc # "off" => s = session_path \/ s \in requested
    /\ \A s \in Sessions : task[s].pc \notin {"off", "done"} => s = session_path \/ connect = "aborting"

(* A task holds slots only between the fetch and the stash, a call has a   *)
(* path only while it runs and a current slot only while it is provided.   *)
ShapeInv ==
    /\ \A s \in Sessions : task[s].pc \notin {"snapshot", "feed"} => task[s].slots = {}
    /\ \A n \in Calls : call[n].pc \in {"idle", "done"} => call[n].path = None
    /\ \A n \in Calls : call[n].pc = "check" => call[n].slot = None

(* What was announced is still queued, and was announced to a task that    *)
(* had attached.                                                           *)
QueuedInv ==
    \A x \in announced : x.name \in queue[x.from] /\ task[x.from].pc \notin {"off", "attach"}

(* A task that has fetched holds every announced slot of its session,      *)
(* skipped the slot, or has a later signal to read: why it may replace the *)
(* pending slots.                                                          *)
FetchedInv ==
    \A x \in announced :
        task[x.from].pc \in {"snapshot", "feed"} =>
            x \in task[x.from].slots \/ x \in excused \/ signals[x.from] > 0

SInv == TypeOK /\ OwnerInv /\ ShapeInv /\ QueuedInv /\ FetchedInv
        /\ PromptsAccounted /\ SecretsNeedSession

-----------------------------------------------------------------------------
(* The records the steps build, and their fields. *)
LEMMA TaskRecord ==
    ASSUME NEW pc \in TaskPcs, NEW slots \in SUBSET Slot, NEW known \in Known
    PROVE  /\ TaskAt(pc, slots, known) \in TaskType
           /\ TaskAt(pc, slots, known).pc = pc
           /\ TaskAt(pc, slots, known).slots = slots
           /\ TaskAt(pc, slots, known).known = known
BY DEF TaskAt, TaskType

(* The same for the locals of a call. *)
LEMMA CallRecord ==
    ASSUME NEW pc \in CallPcs, NEW path \in Sessions \cup {None}, NEW batch \in SUBSET Slot,
           NEW slot \in Slot \cup {None}, NEW missing \in SUBSET Slot, NEW known \in Known
    PROVE  LET r == CallAt(pc, path, batch, slot, missing, known) IN
           /\ r \in CallType
           /\ r.pc = pc /\ r.path = path /\ r.batch = batch
           /\ r.slot = slot /\ r.missing = missing /\ r.known = known
BY DEF CallAt, CallType

(* The types of the fields, and what a slot is made of. *)
LEMMA Fields ==
    /\ \A r \in TaskType : r.pc \in TaskPcs /\ r.slots \in SUBSET Slot /\ r.known \in Known
    /\ \A r \in CallType :
          /\ r.pc \in CallPcs /\ r.path \in Sessions \cup {None} /\ r.batch \in SUBSET Slot
          /\ r.slot \in Slot \cup {None} /\ r.missing \in SUBSET Slot /\ r.known \in Known
    /\ \A x \in Slot : /\ x.from \in Sessions /\ x.name \in Names
                       /\ x = [from |-> x.from, name |-> x.name]
    /\ \A s \in Sessions, name \in Names :
          /\ [from |-> s, name |-> name] \in Slot
          /\ [from |-> s, name |-> name].from = s
          /\ [from |-> s, name |-> name].name = name
    /\ None \notin Slot /\ None \notin Sessions
    /\ NoSettings \in Known
    /\ Settings \subseteq Known
BY SlotsAssumption DEF TaskType, CallType, Slot, NoSettings, Known

(* The locals of a task and of a call that hold nothing. *)
LEMMA IdleRecords ==
    /\ \A pc \in TaskPcs : IdleTask(pc) \in TaskType /\ IdleTask(pc).pc = pc
                            /\ IdleTask(pc).slots = {}
    /\ \A pc \in CallPcs : IdleCall(pc) \in CallType /\ IdleCall(pc).pc = pc
                            /\ IdleCall(pc).path = None /\ IdleCall(pc).slot = None
BY TaskRecord, CallRecord, Fields DEF IdleTask, IdleCall

(* A set of slots of one session. *)
LEMMA SlotSet ==
    ASSUME NEW s \in Sessions, NEW names \in SUBSET Names
    PROVE  /\ [from : {s}, name : names] \in SUBSET Slot
           /\ \A x \in Slot : x \in [from : {s}, name : names] <=> x.from = s /\ x.name \in names
BY DEF Slot

(* The initial state satisfies the invariant. *)
LEMMA InitSInv == Init => SInv
<1> SUFFICES ASSUME Init PROVE SInv
    OBVIOUS
<1> USE DEF Init
<1>1. TypeOK
    <2>1. /\ task \in [Sessions -> TaskType]
          /\ call \in [Calls -> CallType]
          /\ \A n \in Calls : Feeding(call[n])
        BY IdleRecords DEF TaskPcs, CallPcs, Feeding
    <2>2. signals \in [Sessions -> 0 .. MaxSignals]
        BY SlotsAssumption
    <2> QED BY <2>1, <2>2, Fields DEF TypeOK
<1>2. OwnerInv /\ ShapeInv
    BY IdleRecords DEF OwnerInv, ShapeInv, TaskPcs, CallPcs
<1>3. QueuedInv /\ FetchedInv /\ PromptsAccounted /\ SecretsNeedSession
    BY DEF QueuedInv, FetchedInv, PromptsAccounted, SecretsNeedSession
<1> QED BY <1>1, <1>2, <1>3 DEF SInv

-----------------------------------------------------------------------------
(* Every step of a task keeps the types. *)
LEMMA TaskTypeStep ==
    ASSUME TypeOK, NEW s \in Sessions, TaskAttach(s) \/ TaskStep(s)
    PROVE  TypeOK'
<1> USE DEF TypeOK, stateVars, handlerVars, backendVars, historyVars, Task
<1>1. CASE TaskAttach(s)
    BY <1>1, IdleRecords DEF TaskAttach, TaskPcs
<1>2. CASE TaskSignal(s)
    BY <1>2, IdleRecords, SlotsAssumption DEF TaskSignal, TaskPcs
<1>3. CASE TaskFetch(s)
    <2>1. CASE FetchFails(s) /\ UNCHANGED excused
        BY <1>3, <2>1, IdleRecords DEF TaskFetch, FetchFails, TaskPcs
    <2>2. ASSUME NEW names \in SUBSET queue[s], NEW next \in {"wait", "snapshot"},
                 excused' = excused \cup [from : {s}, name : queue[s] \ names],
                 Task(s, "fetch", TaskAt(next, [from : {s}, name : names], NoSettings))
          PROVE  TypeOK'
        <3>1. names \in SUBSET Names /\ queue[s] \ names \in SUBSET Names
            OBVIOUS
        <3>2. TaskAt(next, [from : {s}, name : names], NoSettings) \in TaskType
            BY <3>1, SlotSet, TaskRecord, Fields DEF TaskPcs
        <3> QED BY <1>3, <2>2, <3>1, <3>2, SlotSet DEF TaskFetch
    <2> QED BY <1>3, <2>1, <2>2 DEF TaskFetch
<1>4. CASE TaskSnapshot(s)
    <2>1. TaskAt("feed", task[s].slots, current) \in TaskType
        BY TaskRecord, Fields DEF TaskPcs, Known
    <2> QED BY <1>4, <2>1, IdleRecords DEF TaskSnapshot, TaskPcs
<1>5. CASE TaskFeed(s)
    <2>1. PICK slot \in Answerable(task[s].slots, task[s].known) :
             \/ Accepted(s, slot)
                /\ Task(s, "feed", TaskAt("feed", task[s].slots \ {slot}, task[s].known))
             \/ Rejected(s, slot) /\ Task(s, "feed", IdleTask("fail"))
        BY <1>5 DEF TaskFeed
    <2>2. TaskAt("feed", task[s].slots \ {slot}, task[s].known) \in TaskType
        BY TaskRecord, Fields DEF TaskPcs
    <2> QED BY <1>5, <2>1, <2>2, IdleRecords DEF TaskFeed, Accepted, Rejected, TaskPcs
<1>6. CASE TaskStash(s)
    BY <1>6, Fields, IdleRecords DEF TaskStash, NewPending, TaskPcs
<1>7. CASE TaskAsk(s)
    BY <1>7, IdleRecords DEF TaskAsk, TaskPcs
<1>8. CASE TaskFail(s)
    BY <1>8, IdleRecords, SlotsAssumption DEF TaskFail, TaskPcs
<1> QED BY <1>1, <1>2, <1>3, <1>4, <1>5, <1>6, <1>7, <1>8 DEF TaskStep

(* A call that gets a well-formed record. *)
LEMMA CallUpdate ==
    ASSUME TypeOK, NEW n \in Calls, NEW r \in CallType, Feeding(r),
           call' = [call EXCEPT ![n] = r]
    PROVE  call' \in [Calls -> CallType] /\ \A m \in Calls : Feeding(call'[m])
<1>1. call' \in [Calls -> CallType] /\ \A m \in Calls : call'[m] = IF m = n THEN r ELSE call[m]
    BY DEF TypeOK
<1> QED BY <1>1 DEF TypeOK, Feeding

(* Every step of a NewSecrets call keeps the types. *)
LEMMA CallTypeStep ==
    ASSUME TypeOK, NEW n \in Calls,
           (\E known \in Settings : new_secrets(n, known)) \/ CallStep(n)
    PROVE  TypeOK'
<1> DEFINE CallsOK == call' \in [Calls -> CallType] /\ \A m \in Calls : Feeding(call'[m])
           c == call[n]
<1>0. /\ c.pc \in CallPcs /\ c.path \in Sessions \cup {None}
      /\ c.batch \in SUBSET Slot /\ c.missing \in SUBSET Slot
      /\ c.slot \in Slot \cup {None} /\ c.known \in Known
    BY Fields DEF TypeOK
<1>a. c.pc \in {"check", "provide", "judge"} => c.path \in Sessions
    BY DEF TypeOK, Feeding
<1>b. c.pc \in {"provide", "judge"} => c.slot \in Slot
    BY DEF TypeOK, Feeding
<1>c. IdleCall("done") \in CallType /\ Feeding(IdleCall("done"))
    BY IdleRecords DEF Feeding, CallPcs
<1> HIDE DEF c
<1>1. ASSUME NEW known \in Settings, new_secrets(n, known) PROVE TypeOK'
    <2> DEFINE r == CallAt("check", session_path, pending_slots, None, {}, known)
    <2>1. r \in CallType /\ r.pc = "check" /\ r.path = session_path
        BY CallRecord, Fields DEF CallPcs, TypeOK
    <2>2. call' = [call EXCEPT ![n] = r] \/ call' = [call EXCEPT ![n] = IdleCall("done")]
        BY <1>1 DEF new_secrets
    <2>3. call' = [call EXCEPT ![n] = r] => Feeding(r) \/ call' = [call EXCEPT ![n] = IdleCall("done")]
        BY <1>1, <2>1 DEF new_secrets, Begins, Feeding, TypeOK
    <2> HIDE DEF r
    <2>4. CallsOK
        BY <1>c, <2>1, <2>2, <2>3, CallUpdate
    <2> QED BY <1>1, <2>4, Fields
            DEF new_secrets, Refresh, TypeOK, handlerVars, backendVars, historyVars
<1>2. CASE CallCheck(n)
    <2>1. CASE \E missing : CallReturns(n, missing)
        <3>1. CallsOK
            BY <1>c, <2>1, CallUpdate DEF CallReturns
        <3> QED BY <1>2, <2>1, <3>1
                DEF CallCheck, CallReturns, TypeOK, stateVars, handlerVars, backendVars
    <2>2. ASSUME NEW slot \in Answerable(c.batch, c.known),
                 CallTo(n, "provide", c.batch \ {slot}, slot, c.missing),
                 UNCHANGED excused
          PROVE  TypeOK'
        <3>1. slot \in Slot
            BY <1>0 DEF Answerable
        <3> DEFINE r == CallAt("provide", c.path, c.batch \ {slot}, slot, c.missing, c.known)
        <3>2. r \in CallType /\ r.path = c.path /\ r.slot = slot
            BY <1>0, <3>1, CallRecord DEF CallPcs
        <3>3. call' = [call EXCEPT ![n] = r]
            BY <2>2 DEF CallTo, c
        <3>4. c.path \in Sessions
            BY <1>2, <1>a DEF CallCheck, c
        <3> HIDE DEF r
        <3>5. CallsOK
            BY <3>1, <3>2, <3>3, <3>4, CallUpdate DEF Feeding
        <3> QED BY <1>2, <2>2, <3>5 DEF CallCheck, TypeOK, stateVars, handlerVars, backendVars
    <2> QED BY <1>2, <2>1, <2>2 DEF CallCheck, c
<1>3. CASE CallProvide(n)
    <2> DEFINE r1 == CallAt("check", c.path, c.batch, None, c.missing, c.known)
               r2 == CallAt("judge", c.path, c.batch, c.slot, c.missing, c.known)
    <2>0. c.path \in Sessions /\ c.slot \in Slot
        BY <1>3, <1>a, <1>b DEF CallProvide, c
    <2>1. /\ r1 \in CallType /\ r1.pc = "check" /\ r1.path = c.path
          /\ r2 \in CallType /\ r2.path = c.path /\ r2.slot = c.slot
        BY <1>0, CallRecord DEF CallPcs
    <2>2. call' = [call EXCEPT ![n] = r1] \/ call' = [call EXCEPT ![n] = r2]
        BY <1>3 DEF CallProvide, CallTo, c
    <2>3. queue' \in [Sessions -> SUBSET Names] /\ announced' \subseteq Slot /\ excused' \subseteq Slot
        BY <1>3 DEF CallProvide, Accepted, Rejected, TypeOK
    <2> HIDE DEF r1, r2
    <2>4. CallsOK
        BY <2>0, <2>1, <2>2, CallUpdate DEF Feeding
    <2> QED BY <1>3, <2>3, <2>4 DEF CallProvide, TypeOK, stateVars, handlerVars
<1>4. CASE CallJudge(n)
    <2> DEFINE r == CallAt("check", c.path, c.batch, None, c.missing \cup {c.slot}, c.known)
    <2>0. c.path \in Sessions /\ c.slot \in Slot
        BY <1>4, <1>a, <1>b DEF CallJudge, c
    <2>1. r \in CallType /\ r.path = c.path /\ r.pc = "check"
        BY <1>0, <2>0, CallRecord DEF CallPcs
    <2>2. call' = [call EXCEPT ![n] = r] \/ call' = [call EXCEPT ![n] = IdleCall("done")]
        BY <1>4 DEF CallJudge, CallTo, c
    <2> HIDE DEF r
    <2>3. CallsOK
        BY <1>c, <2>0, <2>1, <2>2, CallUpdate DEF Feeding
    <2> QED BY <1>4, <2>3
            DEF CallJudge, TypeOK, stateVars, handlerVars, backendVars, historyVars
<1> QED BY <1>1, <1>2, <1>3, <1>4 DEF CallStep

(* So do the steps of Connect and Disconnect. *)
LEMMA HandlerTypeStep ==
    ASSUME TypeOK, OwnerInv, ConnectBegin \/ DisconnectCall \/ HandlerStep
    PROVE  TypeOK'
<1> USE DEF TypeOK, stateVars, handlerVars, backendVars, historyVars
<1>1. CASE ConnectBegin BY <1>1 DEF ConnectBegin
<1>2. CASE DisconnectCall BY <1>2 DEF DisconnectCall
<1>3. ASSUME NEW s \in Sessions, NEW known \in Settings, Stash(s, known) PROVE TypeOK'
    BY <1>3, Fields DEF Stash
<1>4. CASE Spawn BY <1>4, IdleRecords DEF Spawn, TaskPcs
<1>5. CASE ConnectReturns BY <1>5 DEF ConnectReturns
<1>6. CASE cleanup_session
    BY <1>6, IdleRecords, SlotsAssumption, Fields DEF cleanup_session, Abort, TaskPcs, OwnerInv
<1>7. CASE Take BY <1>7, Fields DEF Take
<1>8. CASE AbortTasks
    BY <1>8, IdleRecords, SlotsAssumption DEF AbortTasks, Abort, TaskPcs
<1>9. CASE EndSession BY <1>9 DEF EndSession, Gone
<1> QED BY <1>1, <1>2, <1>3, <1>4, <1>5, <1>6, <1>7, <1>8, <1>9 DEF HandlerStep

(* openvpn3's own steps keep the types, too. *)
LEMMA BackendTypeStep ==
    ASSUME TypeOK, NEW s \in Sessions, BackendAsks(s) \/ BackendEnds(s)
    PROVE  TypeOK'
<1> USE DEF TypeOK, stateVars, handlerVars, backendVars, historyVars
<1>1. CASE BackendAsks(s)
    <2>1. queue' \in [Sessions -> SUBSET Names]
        BY <1>1 DEF BackendAsks
    <2>2. [from : {s}, name : queue'[s]] \in SUBSET Slot
        BY <2>1, SlotSet
    <2>3. signals' \in [Sessions -> 0 .. MaxSignals]
        BY <1>1, SlotsAssumption DEF BackendAsks, Announce
    <2> QED BY <1>1, <2>1, <2>2, <2>3 DEF BackendAsks, Announce
<1>2. CASE BackendEnds(s)
    BY <1>2 DEF BackendEnds, Gone
<1> QED BY <1>1, <1>2

-----------------------------------------------------------------------------
(* What every step of a task does to the task variables. *)
LEMMA TaskMove ==
    ASSUME TypeOK, NEW s \in Sessions, TaskAttach(s) \/ TaskStep(s)
    PROVE  /\ UNCHANGED <<session_path, current, teardown, handlerVars, call>>
           /\ task[s].pc \notin {"off", "done"}
           /\ \A u \in Sessions \ {s} : task'[u] = task[u]
           /\ task'[s].pc \notin {"off", "attach"}
           /\ task'[s].pc \notin {"snapshot", "feed"} => task'[s].slots = {}
<1> DEFINE Moved == /\ task[s].pc \notin {"off", "done"}
                    /\ \A u \in Sessions \ {s} : task'[u] = task[u]
                    /\ task'[s].pc \notin {"off", "attach"}
                    /\ task'[s].pc \notin {"snapshot", "feed"} => task'[s].slots = {}
<1>0. UNCHANGED <<session_path, current, teardown, handlerVars, call>>
    BY DEF TaskStep, TaskAttach, TaskSignal, TaskFetch, TaskSnapshot, TaskFeed, TaskStash,
           TaskAsk, TaskFail, stateVars
<1> SUFFICES Moved
    BY <1>0
<1>t. task \in [Sessions -> TaskType]
    BY DEF TypeOK
<1>a. \A pc \in TaskPcs \ {"off", "attach"} :
        task[s].pc \notin {"off", "done"} /\ task' = [task EXCEPT ![s] = IdleTask(pc)] => Moved
    BY <1>t, IdleRecords
<1>b. \A pc \in {"snapshot", "feed"}, slots \in SUBSET Slot, known \in Known :
        task[s].pc \notin {"off", "done"} /\ task' = [task EXCEPT ![s] = TaskAt(pc, slots, known)]
        => Moved
    BY <1>t, TaskRecord DEF TaskPcs
<1>c. task[s].slots \in SUBSET Slot /\ task[s].known \in Known /\ current \in Known
    BY Fields DEF TypeOK
<1> HIDE DEF Moved
<1>1. CASE TaskAttach(s) BY <1>1, <1>a DEF TaskAttach, Task, TaskPcs
<1>2. CASE TaskSignal(s) BY <1>2, <1>a DEF TaskSignal, Task, TaskPcs
<1>3. CASE TaskFetch(s)
    <2>1. CASE FetchFails(s)
        BY <2>1, <1>a DEF FetchFails, Task, TaskPcs
    <2>2. ASSUME NEW names \in SUBSET queue[s],
                 Task(s, "fetch", TaskAt(IF [from : {s}, name : names] = {} THEN "wait" ELSE "snapshot",
                                         [from : {s}, name : names], NoSettings))
          PROVE  Moved
        <3>1. [from : {s}, name : names] \in SUBSET Slot
            BY SlotSet DEF TypeOK
        <3>2. CASE [from : {s}, name : names] = {}
            BY <2>2, <3>2, <1>a DEF Task, TaskPcs, IdleTask
        <3>3. CASE [from : {s}, name : names] # {}
            BY <2>2, <3>1, <3>3, <1>b, Fields DEF Task
        <3> QED BY <3>2, <3>3
    <2> QED BY <1>3, <2>1, <2>2 DEF TaskFetch
<1>4. CASE TaskSnapshot(s) BY <1>4, <1>a, <1>b, <1>c DEF TaskSnapshot, Task, TaskPcs
<1>5. CASE TaskFeed(s)
    <2>1. PICK slot \in Answerable(task[s].slots, task[s].known) :
             \/ Task(s, "feed", TaskAt("feed", task[s].slots \ {slot}, task[s].known))
             \/ Task(s, "feed", IdleTask("fail"))
        BY <1>5 DEF TaskFeed
    <2> QED BY <2>1, <1>a, <1>b, <1>c DEF Task, TaskPcs
<1>6. CASE TaskStash(s) BY <1>6, <1>a DEF TaskStash, Task, TaskPcs
<1>7. CASE TaskAsk(s) BY <1>7, <1>a DEF TaskAsk, Task, TaskPcs
<1>8. CASE TaskFail(s) BY <1>8, <1>a DEF TaskFail, Task, TaskPcs
<1> QED BY <1>1, <1>2, <1>3, <1>4, <1>5, <1>6, <1>7, <1>8 DEF TaskStep

(* What every step of a NewSecrets call does to the calls. *)
LEMMA CallMove ==
    ASSUME TypeOK, NEW n \in Calls,
           (\E known \in Settings : new_secrets(n, known)) \/ CallStep(n)
    PROVE  /\ UNCHANGED <<session_path, teardown, handlerVars, task>>
           /\ \A m \in Calls \ {n} : call'[m] = call[m]
           /\ call'[n].pc \in {"idle", "done"} => call'[n].path = None
           /\ call'[n].pc = "check" => call'[n].slot = None
<1> DEFINE Moved == /\ \A m \in Calls \ {n} : call'[m] = call[m]
                    /\ call'[n].pc \in {"idle", "done"} => call'[n].path = None
                    /\ call'[n].pc = "check" => call'[n].slot = None
           c == call[n]
<1>0. UNCHANGED <<session_path, teardown, handlerVars, task>>
    BY DEF CallStep, new_secrets, CallCheck, CallProvide, CallJudge, stateVars
<1> SUFFICES Moved
    BY <1>0
<1>t. call \in [Calls -> CallType]
    BY DEF TypeOK
<1>a. call' = [call EXCEPT ![n] = IdleCall("done")] => Moved
    BY <1>t, IdleRecords DEF CallPcs
<1>b. \A path \in Sessions \cup {None}, batch \in SUBSET Slot, missing \in SUBSET Slot,
         known \in Known :
        call' = [call EXCEPT ![n] = CallAt("check", path, batch, None, missing, known)] => Moved
    BY <1>t, CallRecord DEF CallPcs
<1>c. \A pc \in {"provide", "judge"}, path \in Sessions \cup {None}, batch \in SUBSET Slot,
         slot \in Slot \cup {None}, missing \in SUBSET Slot, known \in Known :
        call' = [call EXCEPT ![n] = CallAt(pc, path, batch, slot, missing, known)] => Moved
    BY <1>t, CallRecord DEF CallPcs
<1>d. /\ c.path \in Sessions \cup {None} /\ c.known \in Known
      /\ c.batch \in SUBSET Slot /\ c.missing \in SUBSET Slot /\ c.slot \in Slot \cup {None}
    BY Fields DEF TypeOK
<1>e. c.pc = "judge" => c.slot \in Slot
    BY DEF TypeOK, Feeding
<1> HIDE DEF Moved
<1>1. ASSUME NEW known \in Settings, new_secrets(n, known) PROVE Moved
    BY <1>1, <1>a, <1>b, Fields DEF new_secrets, TypeOK
<1>2. CASE CallCheck(n)
    <2>1. CASE \E missing : CallReturns(n, missing)
        BY <2>1, <1>a DEF CallReturns
    <2>2. ASSUME NEW slot \in Answerable(c.batch, c.known),
                 CallTo(n, "provide", c.batch \ {slot}, slot, c.missing)
          PROVE  Moved
        <3>1. slot \in Slot /\ c.batch \ {slot} \in SUBSET Slot
            BY <1>d DEF Answerable
        <3> QED BY <2>2, <3>1, <1>c, <1>d DEF CallTo
    <2> QED BY <1>2, <2>1, <2>2 DEF CallCheck
<1>3. CASE CallProvide(n) BY <1>3, <1>b, <1>c, <1>d DEF CallProvide, CallTo
<1>4. CASE CallJudge(n)
    <2>1. CASE call' = [call EXCEPT ![n] = IdleCall("done")]
        BY <2>1, <1>a
    <2>2. CASE CallTo(n, "check", c.batch, None, c.missing \cup {c.slot})
        <3>1. c.missing \cup {c.slot} \in SUBSET Slot
            BY <1>4, <1>d, <1>e DEF CallJudge
        <3> QED BY <2>2, <3>1, <1>b, <1>d DEF CallTo
    <2> QED BY <1>4, <2>1, <2>2 DEF CallJudge
<1> QED BY <1>1, <1>2, <1>3, <1>4 DEF CallStep

-----------------------------------------------------------------------------
(* The sessions that own tasks, and the shape of the locals, in every step.*)
LEMMA ShapeStep ==
    ASSUME SInv, [Next]_vars
    PROVE  OwnerInv' /\ ShapeInv'
<1> USE DEF SInv
<1>0. task \in [Sessions -> TaskType] /\ call \in [Calls -> CallType] /\ None \notin Sessions
    BY SlotsAssumption DEF TypeOK
<1>1. CASE UNCHANGED vars
    BY <1>1 DEF vars, stateVars, handlerVars, OwnerInv, ShapeInv
<1>2. ASSUME NEW s \in Sessions, TaskAttach(s) \/ TaskStep(s) PROVE OwnerInv' /\ ShapeInv'
    <2>1. /\ UNCHANGED <<session_path, handlerVars, call>>
          /\ task[s].pc \notin {"off", "done"}
          /\ \A u \in Sessions \ {s} : task'[u] = task[u]
          /\ task'[s].pc \notin {"off", "attach"}
          /\ task'[s].pc \notin {"snapshot", "feed"} => task'[s].slots = {}
        BY <1>2, TaskMove
    <2>4. OwnerInv'
        BY <1>0, <2>1 DEF OwnerInv, handlerVars, TypeOK
    <2>5. ShapeInv'
        BY <2>1 DEF ShapeInv
    <2> QED BY <2>4, <2>5
<1>3. ASSUME NEW n \in Calls, (\E known \in Settings : new_secrets(n, known)) \/ CallStep(n)
      PROVE  OwnerInv' /\ ShapeInv'
    <2>1. /\ UNCHANGED <<session_path, handlerVars, task>>
          /\ \A m \in Calls \ {n} : call'[m] = call[m]
          /\ call'[n].pc \in {"idle", "done"} => call'[n].path = None
          /\ call'[n].pc = "check" => call'[n].slot = None
        BY <1>3, CallMove
    <2> QED BY <2>1 DEF OwnerInv, ShapeInv, handlerVars
<1>4. ASSUME NEW s \in Sessions, BackendAsks(s) \/ BackendEnds(s) PROVE OwnerInv' /\ ShapeInv'
    BY <1>4 DEF BackendAsks, BackendEnds, stateVars, handlerVars, OwnerInv, ShapeInv
<1>5. CASE ConnectBegin \/ DisconnectCall \/ HandlerStep
    <2> USE DEF stateVars, backendVars
    <2>1. CASE ConnectBegin BY <2>1, <1>0 DEF ConnectBegin, OwnerInv, ShapeInv
    <2>2. CASE DisconnectCall BY <2>2 DEF DisconnectCall, OwnerInv, ShapeInv
    <2>3. ASSUME NEW s \in Sessions, NEW known \in Settings, Stash(s, known)
          PROVE  OwnerInv' /\ ShapeInv'
        BY <2>3, <1>0 DEF Stash, OwnerInv, ShapeInv
    <2>4. CASE Spawn
        <3>1. session_path \in Sessions
            BY <2>4 DEF Spawn, OwnerInv, TypeOK
        <3>2. \A u \in Sessions : task'[u] = IF u = session_path THEN IdleTask("attach") ELSE task[u]
            BY <2>4, <1>0, <3>1 DEF Spawn
        <3>3. IdleTask("attach").pc = "attach" /\ IdleTask("attach").slots = {}
            BY IdleRecords DEF TaskPcs
        <3> QED BY <2>4, <1>0, <3>1, <3>2, <3>3 DEF Spawn, OwnerInv, ShapeInv
    <2>5. CASE ConnectReturns BY <2>5, <1>0 DEF ConnectReturns, OwnerInv, ShapeInv
    <2>6. CASE cleanup_session
        <3>1. session_path \in Sessions
            BY <2>6 DEF cleanup_session, OwnerInv, TypeOK
        <3>2. \A u \in Sessions : task'[u] = IF u = session_path THEN IdleTask("done") ELSE task[u]
            BY <2>6 DEF cleanup_session, Abort
        <3>3. IdleTask("done").pc = "done" /\ IdleTask("done").slots = {}
            BY IdleRecords DEF TaskPcs
        <3> QED BY <2>6, <1>0, <3>1, <3>2, <3>3 DEF cleanup_session, OwnerInv, ShapeInv, TypeOK
    <2>7. CASE Take BY <2>7, <1>0 DEF Take, OwnerInv, ShapeInv, TypeOK
    <2>8. CASE AbortTasks
        <3>1. \A u \in Sessions : task'[u] = IF u \in requested THEN IdleTask("done") ELSE task[u]
            BY <2>8 DEF AbortTasks, Abort
        <3>2. IdleTask("done").pc = "done" /\ IdleTask("done").slots = {}
            BY IdleRecords DEF TaskPcs
        <3> QED BY <2>8, <1>0, <3>1, <3>2 DEF AbortTasks, OwnerInv, ShapeInv, TypeOK
    <2>9. CASE EndSession BY <2>9, <1>0 DEF EndSession, OwnerInv, ShapeInv, TypeOK
    <2> QED BY <1>5, <2>1, <2>2, <2>3, <2>4, <2>5, <2>6, <2>7, <2>8, <2>9 DEF HandlerStep
<1> QED BY <1>1, <1>2, <1>3, <1>4, <1>5 DEF Next

-----------------------------------------------------------------------------
(* What is announced stays queued. *)
LEMMA QueuedStep ==
    ASSUME SInv, [Next]_vars
    PROVE  QueuedInv'
<1> USE DEF SInv
<1>0. /\ task \in [Sessions -> TaskType] /\ queue \in [Sessions -> SUBSET Names]
      /\ announced \subseteq Slot
    BY DEF TypeOK
<1>a. ASSUME NEW s \in Sessions, NEW slot \in Slot, Accepted(s, slot)
      PROVE  /\ announced' \subseteq announced
             /\ \A x \in announced' : x.name \in queue'[x.from]
    <2> SUFFICES ASSUME NEW x \in announced' PROVE x \in announced /\ x.name \in queue'[x.from]
        OBVIOUS
    <2>1. x \in announced /\ x # [from |-> s, name |-> slot.name]
          /\ queue' = [queue EXCEPT ![s] = @ \ {slot.name}]
        BY <1>a DEF Accepted
    <2>2. x.from # s \/ x.name # slot.name
        BY <2>1, <1>0, Fields
    <2>3. x.from \in Sessions /\ x.name \in queue[x.from]
        BY <2>1, <1>0, Fields DEF QueuedInv
    <2> QED BY <2>1, <2>2, <2>3, <1>0
<1>1. CASE UNCHANGED vars
    BY <1>1 DEF vars, backendVars, historyVars, QueuedInv
<1>2. ASSUME NEW s \in Sessions, TaskAttach(s) \/ TaskStep(s) PROVE QueuedInv'
    <2>1. /\ \A u \in Sessions \ {s} : task'[u] = task[u]
          /\ task'[s].pc \notin {"off", "attach"}
        BY <1>2, TaskMove
    <2>2. CASE TaskFeed(s)
        <3>1. PICK slot \in task[s].slots : Accepted(s, slot) \/ Rejected(s, slot)
            BY <2>2 DEF TaskFeed, Answerable
        <3>2. slot \in Slot
            BY <1>0, <3>1, Fields
        <3>3. CASE Accepted(s, slot)
            BY <1>0, <1>a, <2>1, <3>2, <3>3, Fields DEF QueuedInv
        <3>4. CASE UNCHANGED <<announced, queue>>
            BY <1>0, <2>1, <3>4, Fields DEF QueuedInv
        <3> QED BY <3>1, <3>3, <3>4 DEF Rejected
    <2>3. CASE UNCHANGED <<announced, queue>>
        BY <1>0, <2>1, <2>3, Fields DEF QueuedInv
    <2> QED BY <1>2, <2>2, <2>3
            DEF TaskStep, TaskAttach, TaskSignal, TaskFetch, TaskSnapshot, TaskStash, TaskAsk,
                TaskFail, backendVars, historyVars
<1>3. ASSUME NEW n \in Calls, (\E known \in Settings : new_secrets(n, known)) \/ CallStep(n)
      PROVE  QueuedInv'
    <2>1. task' = task
        BY <1>3, CallMove
    <2>2. CASE CallProvide(n)
        <3>1. call[n].path \in Sessions /\ call[n].slot \in Slot
            BY <2>2 DEF CallProvide, TypeOK, Feeding
        <3>2. CASE Accepted(call[n].path, call[n].slot)
            BY <1>0, <1>a, <2>1, <3>1, <3>2, Fields DEF QueuedInv
        <3>3. CASE UNCHANGED <<announced, queue>>
            BY <2>1, <3>3 DEF QueuedInv
        <3> QED BY <2>2, <3>2, <3>3 DEF CallProvide, Rejected
    <2>3. CASE UNCHANGED <<announced, queue>>
        BY <2>1, <2>3 DEF QueuedInv
    <2> QED BY <1>3, <2>2, <2>3
            DEF CallStep, new_secrets, CallCheck, CallJudge, backendVars, historyVars
<1>4. ASSUME NEW s \in Sessions, BackendAsks(s) \/ BackendEnds(s) PROVE QueuedInv'
    <2>1. CASE BackendAsks(s)
        <3>1. task' = task
            BY <2>1 DEF BackendAsks
        <3>2. queue' \in [Sessions -> SUBSET Names] /\ \A u \in Sessions : queue[u] \subseteq queue'[u]
            BY <2>1, <1>0 DEF BackendAsks
        <3>3. CASE ~Attached(s)
            BY <2>1, <3>1, <3>2, <3>3, <1>0, Fields DEF BackendAsks, Announce, QueuedInv
        <3>4. CASE Attached(s)
            <4>1. announced' = announced \cup [from : {s}, name : queue'[s]]
                BY <2>1, <3>4 DEF BackendAsks, Announce
            <4>2. \A x \in [from : {s}, name : queue'[s]] : x.from = s /\ x.name \in queue'[s]
                OBVIOUS
            <4> QED BY <3>1, <3>2, <3>4, <4>1, <4>2, <1>0, Fields DEF QueuedInv, Attached
        <3> QED BY <3>3, <3>4
    <2>2. CASE BackendEnds(s)
        BY <2>2, <1>0, Fields DEF BackendEnds, Gone, QueuedInv
    <2> QED BY <1>4, <2>1, <2>2
<1>5. CASE ConnectBegin \/ DisconnectCall \/ HandlerStep
    <2>1. CASE Spawn
        <3>1. session_path \in Sessions /\ task[session_path].pc = "off"
            BY <2>1 DEF Spawn, OwnerInv, TypeOK
        <3> QED BY <2>1, <3>1, <1>0, Fields DEF Spawn, QueuedInv, backendVars, historyVars
    <2>2. CASE cleanup_session \/ AbortTasks
        <3>1. \A u \in Sessions : task'[u] \in {task[u], IdleTask("done")}
            BY <2>2 DEF cleanup_session, AbortTasks, Abort
        <3>2. UNCHANGED <<announced, queue>>
            BY <2>2 DEF cleanup_session, AbortTasks, historyVars
        <3>3. IdleTask("done").pc = "done"
            BY IdleRecords DEF TaskPcs
        <3> QED BY <3>1, <3>2, <3>3, <1>0, Fields DEF QueuedInv
    <2>3. CASE EndSession
        BY <2>3, <1>0, Fields DEF EndSession, Gone, QueuedInv
    <2>4. CASE UNCHANGED <<announced, queue, task>>
        BY <2>4 DEF QueuedInv
    <2> QED BY <1>5, <2>1, <2>2, <2>3, <2>4
            DEF ConnectBegin, DisconnectCall, HandlerStep, Stash, ConnectReturns, Take,
                backendVars, historyVars
<1> QED BY <1>1, <1>2, <1>3, <1>4, <1>5 DEF Next

(* A fetch returns every announced slot of the session, or skips it. *)
LEMMA FetchHolds ==
    ASSUME TypeOK, QueuedInv, NEW s \in Sessions, TaskFetch(s), NEW x \in announced, x.from = s
    PROVE  task'[s].pc = "fail" \/ x \in task'[s].slots \/ x \in excused'
<1>0. /\ task \in [Sessions -> TaskType] /\ queue \in [Sessions -> SUBSET Names]
      /\ x \in Slot /\ x.name \in queue[s]
    BY DEF TypeOK, QueuedInv
<1>1. CASE FetchFails(s)
    BY <1>1, <1>0, IdleRecords DEF FetchFails, Task, TaskPcs
<1>2. ASSUME NEW names \in SUBSET queue[s], NEW next \in {"wait", "snapshot"},
             excused' = excused \cup [from : {s}, name : queue[s] \ names],
             Task(s, "fetch", TaskAt(next, [from : {s}, name : names], NoSettings))
      PROVE  x \in task'[s].slots \/ x \in excused'
    <2> DEFINE S == [from : {s}, name : names]
               r == TaskAt(next, S, NoSettings)
    <2>1. names \in SUBSET Names /\ queue[s] \ names \in SUBSET Names
        BY <1>0
    <2>2. S \in SUBSET Slot
        BY <2>1, SlotSet
    <2>3. x \in S \/ x \in [from : {s}, name : queue[s] \ names]
        BY <1>0, <2>1, SlotSet
    <2> HIDE DEF S
    <2>4. r \in TaskType /\ r.slots = S
        BY <2>2, TaskRecord, Fields DEF TaskPcs
    <2>5. task' = [task EXCEPT ![s] = r]
        BY <1>2 DEF Task, S
    <2> HIDE DEF r
    <2>6. task'[s].slots = S
        BY <1>0, <2>4, <2>5
    <2> QED BY <1>2, <2>3, <2>6
<1> QED BY <1>1, <1>2 DEF TaskFetch

(* A task that has fetched holds what was announced before it did. *)
LEMMA FetchedStep ==
    ASSUME SInv, [Next]_vars
    PROVE  FetchedInv'
<1> USE DEF SInv
<1>0. /\ task \in [Sessions -> TaskType] /\ queue \in [Sessions -> SUBSET Names]
      /\ announced \subseteq Slot /\ signals \in [Sessions -> 0 .. MaxSignals]
    BY DEF TypeOK
<1>a. ASSUME NEW s \in Sessions, NEW slot \in Slot, Accepted(s, slot)
      PROVE  announced' \subseteq announced /\ \A x \in announced' : x \in excused => x \in excused'
    BY <1>a DEF Accepted
<1>1. CASE UNCHANGED vars
    BY <1>1 DEF vars, backendVars, historyVars, FetchedInv
<1>2. ASSUME NEW s \in Sessions, TaskAttach(s) \/ TaskStep(s) PROVE FetchedInv'
    <2>1. \A u \in Sessions \ {s} : task'[u] = task[u]
        BY <1>2, TaskMove
    <2>2. CASE TaskFetch(s)
        <3>1. /\ UNCHANGED <<announced, signals>> /\ excused \subseteq excused'
            BY <2>2 DEF TaskFetch, backendVars
        <3>2. \A x \in announced : x.from = s /\ task'[s].pc \in {"snapshot", "feed"}
                                    => x \in task'[s].slots \/ x \in excused'
            BY <2>2, FetchHolds
        <3> QED BY <1>0, <2>1, <3>1, <3>2, Fields DEF FetchedInv
    <2>3. CASE TaskSnapshot(s)
        <3>1. UNCHANGED <<announced, excused, signals>>
            BY <2>3 DEF TaskSnapshot, backendVars, historyVars
        <3>2. \/ task[s].pc = "snapshot" /\ task'[s].slots = task[s].slots
              \/ task'[s].pc = "wait"
            BY <2>3, <1>0, TaskRecord, IdleRecords, Fields DEF TaskSnapshot, Task, TaskPcs, TypeOK
        <3> QED BY <1>0, <2>1, <3>1, <3>2, Fields DEF FetchedInv
    <2>4. CASE TaskFeed(s)
        <3>1. PICK slot \in task[s].slots :
                 \/ Accepted(s, slot)
                    /\ Task(s, "feed", TaskAt("feed", task[s].slots \ {slot}, task[s].known))
                 \/ Rejected(s, slot) /\ Task(s, "feed", IdleTask("fail"))
            BY <2>4 DEF TaskFeed, Answerable
        <3>2. slot \in Slot /\ signals' = signals
            BY <1>0, <2>4, <3>1, Fields DEF TaskFeed
        <3>3. CASE Accepted(s, slot)
                   /\ Task(s, "feed", TaskAt("feed", task[s].slots \ {slot}, task[s].known))
            <4>1. task[s].pc = "feed" /\ task'[s].slots = task[s].slots \ {slot}
                BY <1>0, <3>3, TaskRecord, Fields DEF Task, TaskPcs
            <4>2. \A x \in announced' : x.from = s => x # slot
                BY <1>0, <3>2, <3>3, Fields DEF Accepted
            <4> QED BY <1>0, <1>a, <2>1, <3>2, <3>3, <4>1, <4>2, Fields DEF FetchedInv
        <3>4. CASE Rejected(s, slot) /\ Task(s, "feed", IdleTask("fail"))
            <4>1. task'[s].pc = "fail"
                BY <1>0, <3>4, IdleRecords DEF Task, TaskPcs
            <4>2. CASE Accepted(s, slot)
                BY <1>0, <1>a, <2>1, <3>2, <4>1, <4>2, Fields DEF FetchedInv
            <4>3. CASE UNCHANGED <<announced, excused>>
                BY <1>0, <2>1, <3>2, <4>1, <4>3, Fields DEF FetchedInv
            <4> QED BY <3>4, <4>2, <4>3 DEF Rejected
        <3> QED BY <3>1, <3>3, <3>4
    <2>5. CASE TaskAttach(s) \/ TaskSignal(s) \/ TaskStash(s) \/ TaskAsk(s) \/ TaskFail(s)
        <3>1. task'[s].pc \notin {"snapshot", "feed"}
            BY <2>5, <1>0, IdleRecords
            DEF TaskAttach, TaskSignal, TaskStash, TaskAsk, TaskFail, Task, TaskPcs
        <3>2. UNCHANGED <<announced, excused>> /\ \A u \in Sessions \ {s} : signals'[u] = signals[u]
            BY <2>5, <1>0
            DEF TaskAttach, TaskSignal, TaskStash, TaskAsk, TaskFail, backendVars, historyVars
        <3> QED BY <1>0, <2>1, <3>1, <3>2, Fields DEF FetchedInv
    <2> QED BY <1>2, <2>2, <2>3, <2>4, <2>5 DEF TaskStep
<1>3. ASSUME NEW n \in Calls, (\E known \in Settings : new_secrets(n, known)) \/ CallStep(n)
      PROVE  FetchedInv'
    <2>1. task' = task /\ signals' = signals
        BY <1>3, CallMove
        DEF CallStep, new_secrets, CallCheck, CallProvide, CallJudge, backendVars
    <2>2. CASE CallProvide(n)
        <3>1. call[n].path \in Sessions /\ call[n].slot \in Slot
            BY <2>2 DEF CallProvide, TypeOK, Feeding
        <3> QED BY <1>a, <2>1, <2>2, <3>1 DEF CallProvide, Rejected, FetchedInv
    <2>3. CASE announced' = announced /\ excused \subseteq excused'
        BY <2>1, <2>3 DEF FetchedInv
    <2> QED BY <1>3, <2>2, <2>3
            DEF CallStep, new_secrets, CallCheck, CallReturns, CallJudge, historyVars
<1>4. ASSUME NEW s \in Sessions, BackendAsks(s) \/ BackendEnds(s) PROVE FetchedInv'
    <2>1. CASE BackendAsks(s)
        <3>1. task' = task
            BY <2>1 DEF BackendAsks
        <3>2. CASE ~Attached(s)
            BY <2>1, <3>1, <3>2 DEF BackendAsks, Announce, FetchedInv
        <3>3. CASE Attached(s)
            <4>1. /\ announced' = announced \cup [from : {s}, name : queue'[s]]
                  /\ excused' = excused \ [from : {s}, name : queue'[s]]
                  /\ signals' = [signals EXCEPT ![s] = @ + 1]
                BY <2>1, <3>3 DEF BackendAsks, Announce
            <4>2. \A x \in [from : {s}, name : queue'[s]] : x.from = s
                OBVIOUS
            <4>3. signals'[s] > 0 /\ \A u \in Sessions \ {s} : signals'[u] = signals[u]
                BY <4>1, <1>0, SlotsAssumption
            <4> QED BY <3>1, <4>1, <4>2, <4>3, <1>0, Fields DEF FetchedInv
        <3> QED BY <3>2, <3>3
    <2>2. CASE BackendEnds(s)
        BY <2>2 DEF BackendEnds, Gone, FetchedInv
    <2> QED BY <1>4, <2>1, <2>2
<1>5. CASE ConnectBegin \/ DisconnectCall \/ HandlerStep
    <2>1. CASE Spawn
        <3>1. session_path \in Sessions /\ IdleTask("attach").pc = "attach"
            BY <2>1, IdleRecords DEF Spawn, OwnerInv, TypeOK, TaskPcs
        <3> QED BY <2>1, <3>1, <1>0, Fields DEF Spawn, FetchedInv, backendVars, historyVars
    <2>2. CASE cleanup_session \/ AbortTasks
        <3>1. \A u \in Sessions : \/ task'[u] = IdleTask("done")
                                  \/ task'[u] = task[u] /\ signals'[u] = signals[u]
            BY <2>2 DEF cleanup_session, AbortTasks, Abort
        <3>2. UNCHANGED <<announced, excused>>
            BY <2>2 DEF cleanup_session, AbortTasks, historyVars
        <3>3. IdleTask("done").pc = "done"
            BY IdleRecords DEF TaskPcs
        <3> QED BY <3>1, <3>2, <3>3, <1>0, Fields DEF FetchedInv
    <2>3. CASE EndSession
        BY <2>3 DEF EndSession, Gone, FetchedInv
    <2>4. CASE UNCHANGED <<announced, excused, signals, task>>
        BY <2>4 DEF FetchedInv
    <2> QED BY <1>5, <2>1, <2>2, <2>3, <2>4
            DEF ConnectBegin, DisconnectCall, HandlerStep, Stash, ConnectReturns, Take,
                backendVars, historyVars
<1> QED BY <1>1, <1>2, <1>3, <1>4, <1>5 DEF Next

(* No step stores settings without a session, or drops the session alone. *)
LEMMA SecretsStep ==
    ASSUME SInv, [Next]_vars
    PROVE  SecretsNeedSession'
<1> USE DEF SInv, SecretsNeedSession
<1>1. CASE UNCHANGED vars
    BY <1>1 DEF vars, stateVars
<1>2. ASSUME NEW s \in Sessions, TaskAttach(s) \/ TaskStep(s) PROVE SecretsNeedSession'
    BY <1>2, TaskMove
<1>3. ASSUME NEW n \in Calls, (\E known \in Settings : new_secrets(n, known)) \/ CallStep(n)
      PROVE  SecretsNeedSession'
    BY <1>3 DEF new_secrets, Refresh, CallStep, CallCheck, CallProvide, CallJudge, stateVars
<1>4. ASSUME NEW s \in Sessions, BackendAsks(s) \/ BackendEnds(s) PROVE SecretsNeedSession'
    BY <1>4 DEF BackendAsks, BackendEnds, stateVars
<1>5. CASE ConnectBegin \/ DisconnectCall \/ HandlerStep
    BY <1>5, SlotsAssumption
    DEF ConnectBegin, DisconnectCall, HandlerStep, Stash, Spawn, ConnectReturns,
        cleanup_session, Take, AbortTasks, EndSession, stateVars
<1> QED BY <1>1, <1>2, <1>3, <1>4, <1>5 DEF Next

-----------------------------------------------------------------------------
(* No step of the session's own task forgets a slot. *)
LEMMA TaskAccounted ==
    ASSUME SInv, NEW s \in Sessions, TaskAttach(s) \/ TaskStep(s)
    PROVE  PromptsAccounted'
<1> USE DEF SInv
<1>0. /\ task \in [Sessions -> TaskType] /\ announced \subseteq Slot
      /\ signals \in [Sessions -> 0 .. MaxSignals]
    BY DEF TypeOK
<1> SUFFICES ASSUME NEW x \in announced', x.from = session_path', ~teardown',
                    x \notin excused', x.from \notin failed'
             PROVE  InHand(x)'
    BY DEF PromptsAccounted
<1>1. /\ UNCHANGED <<session_path, teardown, call, connect>>
      /\ task[s].pc \notin {"off", "done"}
    BY TaskMove DEF handlerVars
<1>2. x \in announced /\ failed \subseteq failed'
    BY DEF TaskStep, TaskAttach, TaskSignal, TaskFetch, TaskSnapshot, TaskFeed, TaskStash,
           TaskAsk, TaskFail, Accepted, Rejected, historyVars
<1>3. x \in Slot /\ x.from \in Sessions /\ x.from = session_path
    BY <1>0, <1>1, <1>2, Fields
<1>4. x.from = s
    <2>1. None \notin Sessions
        BY Fields
    <2> QED BY <1>1, <1>3, <2>1 DEF OwnerInv
<1>5. x \notin excused => InHand(x)
    BY <1>1, <1>2, <1>3 DEF PromptsAccounted
<1>6. \A pc \in TaskPcs : task' = [task EXCEPT ![s] = IdleTask(pc)] => task'[s].pc = pc
    BY <1>0, IdleRecords
<1>7. CASE TaskAttach(s)
    BY <1>7, <1>2, <1>4 DEF TaskAttach, Task, QueuedInv
<1>8. CASE TaskSignal(s) \/ FetchFails(s) \/ Task(s, "feed", IdleTask("fail"))
    BY <1>8, <1>4, <1>6 DEF TaskSignal, FetchFails, Task, TaskPcs, InHand
<1>9. CASE TaskFetch(s)
    BY <1>9, <1>2, <1>4, FetchHolds DEF InHand
<1>10. CASE TaskSnapshot(s)
    <2>1. UNCHANGED <<signals, pending_slots, excused>> /\ task[s].pc = "snapshot"
        BY <1>10 DEF TaskSnapshot, Task, stateVars, backendVars, historyVars
    <2>2. task'[s].slots = task[s].slots
        BY <1>10, <1>0, <1>3, <1>4, TaskRecord, Fields DEF TaskSnapshot, Task, TaskPcs, TypeOK
    <2> QED BY <1>1, <1>4, <1>5, <2>1, <2>2 DEF InHand, Unanswered
<1>11. CASE TaskFeed(s)
    <2>1. PICK slot \in task[s].slots :
             \/ Accepted(s, slot)
                /\ Task(s, "feed", TaskAt("feed", task[s].slots \ {slot}, task[s].known))
             \/ Rejected(s, slot) /\ Task(s, "feed", IdleTask("fail"))
        BY <1>11 DEF TaskFeed, Answerable
    <2>2. CASE Rejected(s, slot) /\ Task(s, "feed", IdleTask("fail"))
        BY <2>2, <1>8
    <2>3. CASE Accepted(s, slot)
               /\ Task(s, "feed", TaskAt("feed", task[s].slots \ {slot}, task[s].known))
        <3>1. task[s].pc = "feed" /\ task'[s].slots = task[s].slots \ {slot}
            BY <1>0, <2>3, TaskRecord, Fields DEF Task, TaskPcs
        <3>2. x # slot /\ x \notin excused
            BY <1>3, <1>4, <2>3, Fields DEF Accepted
        <3>3. UNCHANGED <<signals, pending_slots>>
            BY <1>11 DEF TaskFeed, stateVars
        <3> QED BY <1>1, <1>4, <1>5, <3>1, <3>2, <3>3 DEF InHand, Unanswered
    <2> QED BY <2>1, <2>2, <2>3
<1>12. CASE TaskStash(s)
    <2>1. task[s].pc = "feed" /\ UNCHANGED <<signals, excused>>
        BY <1>12 DEF TaskStash, Task, backendVars, historyVars
    <2>2. x \in task[s].slots \/ signals[s] > 0
        BY <1>2, <1>4, <2>1 DEF FetchedInv
    <2>3. x \in task[s].slots => x \in pending_slots'
        BY <1>12 DEF TaskStash, NewPending
    <2> QED BY <1>4, <2>1, <2>2, <2>3 DEF InHand
<1>13. CASE TaskAsk(s)
    <2>1. task[s].pc = "ask" /\ UNCHANGED <<signals, excused, pending_slots>>
        BY <1>13 DEF TaskAsk, Task, stateVars, backendVars, historyVars
    <2>2. task[s].slots = {}
        BY <2>1 DEF ShapeInv
    <2> QED BY <1>1, <1>4, <1>5, <2>1, <2>2 DEF InHand, Unanswered
<1>14. CASE TaskFail(s)
    BY <1>14, <1>3, <1>4 DEF TaskFail, OwnerInv
<1> QED BY <1>7, <1>8, <1>9, <1>10, <1>11, <1>12, <1>13, <1>14 DEF TaskStep

(* No step of a NewSecrets call forgets a slot it has taken. *)
LEMMA CallAccounted ==
    ASSUME SInv, NEW n \in Calls,
           (\E known \in Settings : new_secrets(n, known)) \/ CallStep(n)
    PROVE  PromptsAccounted'
<1> USE DEF SInv
<1> SUFFICES ASSUME NEW x \in announced', x.from = session_path', ~teardown',
                    x \notin excused', x.from \notin failed'
             PROVE  InHand(x)'
    BY DEF PromptsAccounted
<1> DEFINE c == call[n]
           Held(m) == call[m].path = x.from /\ x \in Unanswered(m) \cup {call[m].slot}
           Elsewhere == \/ signals[x.from] > 0
                        \/ task[x.from].pc \in {"fetch", "fail"}
                        \/ x \in task[x.from].slots
<1>1. /\ UNCHANGED <<session_path, teardown, task>>
      /\ \A m \in Calls \ {n} : call'[m] = call[m]
    BY CallMove
<1>2. x \in announced /\ failed' = failed /\ signals' = signals
    BY DEF new_secrets, CallStep, CallCheck, CallProvide, CallJudge, Accepted, Rejected,
           backendVars, historyVars
<1>3. x \in Slot /\ x.from \in Sessions /\ x.from = session_path
    BY <1>1, <1>2, Fields DEF TypeOK
<1>4. x \notin excused
    BY DEF new_secrets, CallStep, CallCheck, CallReturns, CallProvide, CallJudge, Accepted,
           Rejected, historyVars
<1>5. Elsewhere \/ x \in pending_slots \/ \E m \in Calls : Held(m)
    BY <1>1, <1>2, <1>3, <1>4 DEF PromptsAccounted, InHand
<1>6. CASE Elsewhere
    BY <1>6, <1>1, <1>2 DEF InHand
<1>7. ASSUME NEW m \in Calls \ {n}, Held(m) PROVE InHand(x)'
    BY <1>7, <1>1 DEF InHand, Unanswered
<1>8. call \in [Calls -> CallType] /\ None \notin Sessions /\ None \notin Slot
    BY Fields DEF TypeOK
<1>c. /\ c.path \in Sessions \cup {None} /\ c.known \in Known
      /\ c.batch \in SUBSET Slot /\ c.missing \in SUBSET Slot /\ c.slot \in Slot \cup {None}
    BY <1>8, Fields
<1>m. (call'[n].path = x.from /\ x \in call'[n].batch \cup call'[n].missing \cup {call'[n].slot})
      => InHand(x)'
    BY DEF InHand, Unanswered
<1> HIDE DEF Elsewhere
<1>9. ASSUME NEW known \in Settings, new_secrets(n, known) PROVE InHand(x)'
    <2>1. ~Held(n)
        BY <1>3, <1>8, <1>9 DEF new_secrets, ShapeInv
    <2>2. CASE x \in pending_slots
        <3> DEFINE r == CallAt("check", session_path, pending_slots, None, {}, known)
        <3>1. r \in CallType /\ r.path = session_path /\ r.batch = pending_slots
            BY CallRecord, Fields DEF CallPcs, TypeOK
        <3>2. call' = [call EXCEPT ![n] = r]
            BY <1>3, <1>8, <1>9, <2>2 DEF new_secrets, Begins
        <3> HIDE DEF r
        <3> QED BY <1>3, <1>8, <1>m, <2>2, <3>1, <3>2
    <2> QED BY <1>5, <1>6, <1>7, <2>1, <2>2
<1>10. CASE CallStep(n)
    <2>1. CASE x \in pending_slots
        <3>1. pending_slots' = pending_slots
            BY <1>10 DEF CallStep, CallCheck, CallProvide, CallJudge, stateVars
        <3> QED BY <2>1, <3>1 DEF InHand
    <2>2. CASE Held(n)
        <3>0. c.path = x.from /\ x \in c.batch \cup c.missing \cup {c.slot}
            BY <2>2 DEF Unanswered
        <3>1. CASE CallCheck(n)
            <4>1. c.pc = "check" /\ c.slot = None
                BY <3>1 DEF CallCheck, ShapeInv
            <4>2. x \in Unanswered(n)
                BY <2>2, <4>1, <1>3, <1>8
            <4>3. ~CallReturns(n, Unanswered(n))
                BY <1>2, <4>2 DEF CallReturns
            <4>4. PICK slot \in Answerable(c.batch, c.known) :
                    CallTo(n, "provide", c.batch \ {slot}, slot, c.missing)
                BY <3>1, <4>3, <1>1 DEF CallCheck
            <4>5. slot \in Slot /\ slot \in c.batch
                BY <4>4, <1>c DEF Answerable
            <4> DEFINE r == CallAt("provide", c.path, c.batch \ {slot}, slot, c.missing, c.known)
            <4>6. /\ r \in CallType /\ r.path = c.path /\ r.slot = slot
                  /\ r.batch = c.batch \ {slot} /\ r.missing = c.missing
                BY <1>c, <4>5, CallRecord DEF CallPcs
            <4>7. call' = [call EXCEPT ![n] = r]
                BY <4>4 DEF CallTo
            <4> HIDE DEF r
            <4>8. call'[n] = r
                BY <4>7, <1>8
            <4> QED BY <1>m, <3>0, <4>1, <4>6, <4>8, <1>3, <1>8
        <3>2. CASE CallProvide(n)
            <4> DEFINE r1 == CallAt("check", c.path, c.batch, None, c.missing, c.known)
                       r2 == CallAt("judge", c.path, c.batch, c.slot, c.missing, c.known)
            <4>1. /\ r1.path = c.path /\ r1.batch = c.batch /\ r1.missing = c.missing
                  /\ r2.path = c.path /\ r2.batch = c.batch /\ r2.missing = c.missing
                  /\ r2.slot = c.slot
                BY <1>c, CallRecord DEF CallPcs
            <4>2. \/ Accepted(c.path, c.slot) /\ call' = [call EXCEPT ![n] = r1]
                  \/ call' = [call EXCEPT ![n] = r2]
                BY <3>2 DEF CallProvide, CallTo
            <4> HIDE DEF r1, r2
            <4>3. CASE Accepted(c.path, c.slot) /\ call' = [call EXCEPT ![n] = r1]
                <5>1. x # c.slot
                    BY <4>3, <3>0, <1>3, Fields DEF Accepted
                <5>2. call'[n] = r1
                    BY <4>3, <1>8
                <5> QED BY <1>m, <3>0, <4>1, <5>1, <5>2
            <4>4. CASE call' = [call EXCEPT ![n] = r2]
                <5>1. call'[n] = r2
                    BY <4>4, <1>8
                <5> QED BY <1>m, <3>0, <4>1, <5>1
            <4> QED BY <4>2, <4>3, <4>4
        <3>3. CASE CallJudge(n)
            <4> DEFINE r == CallAt("check", c.path, c.batch, None, c.missing \cup {c.slot}, c.known)
            <4>1. c.slot \in Slot
                BY <3>3 DEF CallJudge, TypeOK, Feeding
            <4>2. r.path = c.path /\ r.batch = c.batch /\ r.missing = c.missing \cup {c.slot}
                BY <1>c, <4>1, CallRecord DEF CallPcs
            <4>3. call' = [call EXCEPT ![n] = r]
                BY <3>3, <1>1 DEF CallJudge, CallTo
            <4> HIDE DEF r
            <4>4. call'[n] = r
                BY <4>3, <1>8
            <4> QED BY <1>m, <3>0, <4>2, <4>4
        <3> QED BY <1>10, <3>1, <3>2, <3>3 DEF CallStep
    <2> QED BY <1>5, <1>6, <1>7, <2>1, <2>2
<1> QED BY <1>9, <1>10

(* Connect, Disconnect and openvpn3 forget no slot either: they change the *)
(* session, or leave what is in hand alone.                                *)
LEMMA OthersAccounted ==
    ASSUME SInv,
           \/ ConnectBegin \/ DisconnectCall \/ HandlerStep
           \/ \E s \in Sessions : BackendAsks(s) \/ BackendEnds(s)
    PROVE  PromptsAccounted'
<1> USE DEF SInv
<1>0. /\ task \in [Sessions -> TaskType] /\ announced \subseteq Slot
      /\ signals \in [Sessions -> 0 .. MaxSignals] /\ None \notin Sessions
    BY Fields DEF TypeOK
<1> SUFFICES ASSUME NEW x \in announced', x.from = session_path', ~teardown',
                    x \notin excused', x.from \notin failed'
             PROVE  InHand(x)'
    BY DEF PromptsAccounted
<1>a. ASSUME NEW s \in Sessions, BackendAsks(s) PROVE InHand(x)'
    <2>1. UNCHANGED <<session_path, teardown, task, call, pending_slots, failed>>
        BY <1>a DEF BackendAsks, stateVars
    <2>2. CASE Attached(s)
        <3> DEFINE new == [from : {s}, name : queue'[s]]
        <3>1. /\ signals' = [signals EXCEPT ![s] = @ + 1]
              /\ announced' = announced \cup new
              /\ excused' = excused \ new
            BY <1>a, <2>2 DEF BackendAsks, Announce
        <3>2. \A y \in new : y.from = s
            OBVIOUS
        <3> HIDE DEF new
        <3>3. /\ signals'[s] > 0
              /\ \A u \in Sessions : signals[u] > 0 => signals'[u] > 0
            BY <1>0, <3>1, SlotsAssumption
        <3>4. CASE x \in new
            BY <3>2, <3>3, <3>4 DEF InHand
        <3>5. CASE x \notin new
            <4>1. x \in announced /\ x \notin excused /\ x.from \in Sessions
                BY <3>1, <3>5, <1>0, Fields
            <4>2. InHand(x)
                BY <4>1, <2>1 DEF PromptsAccounted
            <4> QED BY <2>1, <3>3, <4>1, <4>2 DEF InHand, Unanswered
        <3> QED BY <3>4, <3>5
    <2>3. CASE ~Attached(s)
        <3>1. UNCHANGED <<signals, announced, excused>>
            BY <1>a, <2>3 DEF BackendAsks, Announce
        <3> QED BY <2>1, <3>1 DEF PromptsAccounted, InHand, Unanswered
    <2> QED BY <2>2, <2>3
<1>b. ASSUME NEW s \in Sessions, BackendEnds(s) PROVE InHand(x)'
    <2>1. UNCHANGED <<session_path, teardown, task, call, pending_slots, signals>>
        BY <1>b DEF BackendEnds, stateVars
    <2>2. x \in announced /\ x \notin excused /\ x.from \notin failed
        BY <1>b DEF BackendEnds, Gone
    <2> QED BY <2>1, <2>2 DEF PromptsAccounted, InHand, Unanswered
<1>1. CASE ConnectBegin
    BY <1>1, <1>0, Fields DEF ConnectBegin, stateVars, historyVars
<1>2. CASE DisconnectCall
    BY <1>2 DEF DisconnectCall
<1>3. ASSUME NEW s \in Sessions, NEW known \in Settings, Stash(s, known) PROVE InHand(x)'
    BY <1>3, <1>0 DEF Stash, OwnerInv, QueuedInv, historyVars
<1>4. CASE Spawn
    BY <1>4 DEF Spawn, OwnerInv, QueuedInv, stateVars, historyVars
<1>5. CASE ConnectReturns
    BY <1>5 DEF ConnectReturns, stateVars, backendVars, historyVars, PromptsAccounted, InHand,
                Unanswered
<1>6. CASE cleanup_session \/ Take
    BY <1>6, <1>0, Fields DEF cleanup_session, Take, historyVars
<1>7. CASE AbortTasks \/ EndSession
    BY <1>7, <1>0, Fields DEF AbortTasks, EndSession, Gone, OwnerInv, stateVars, historyVars
<1> QED BY <1>a, <1>b, <1>1, <1>2, <1>3, <1>4, <1>5, <1>6, <1>7 DEF HandlerStep

-----------------------------------------------------------------------------
(* SInv is an invariant of interactive authentication. *)
THEOREM SlotsInvariance == Spec => []SInv
<1>1. ASSUME SInv, [Next]_vars PROVE SInv'
    <2>1. TypeOK'
        <3>1. CASE UNCHANGED vars
            BY <1>1, <3>1 DEF SInv, TypeOK, vars, stateVars, handlerVars, backendVars, historyVars
        <3> QED BY <1>1, <3>1, TaskTypeStep, CallTypeStep, HandlerTypeStep, BackendTypeStep
                DEF SInv, Next
    <2>2. PromptsAccounted'
        <3>1. CASE UNCHANGED vars
            BY <1>1, <3>1 DEF SInv, PromptsAccounted, InHand, Unanswered, vars, stateVars,
                              backendVars, historyVars
        <3> QED BY <1>1, <3>1, TaskAccounted, CallAccounted, OthersAccounted DEF Next
    <2> QED BY <1>1, <2>1, <2>2, ShapeStep, QueuedStep, FetchedStep, SecretsStep DEF SInv
<1> QED BY <1>1, InitSInv, PTL DEF Spec

(* Types: among them, a NewSecrets call that feeds slots has a session to  *)
(* feed them to, however many Connects and Disconnects run beside it.      *)
THEOREM SlotsTypeCorrect == Spec => []TypeOK
BY SlotsInvariance, PTL DEF SInv

(* No prompt of the running session is forgotten between the attention     *)
(* task, the pending slots and the NewSecrets calls.                       *)
THEOREM NoPromptForgotten == Spec => []PromptsAccounted
BY SlotsInvariance, PTL DEF SInv

(* No NewSecrets leaves credentials behind a teardown. *)
THEOREM SecretsOnlyWithSession == Spec => []SecretsNeedSession
BY SlotsInvariance, PTL DEF SInv
=============================================================================
