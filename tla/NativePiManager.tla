--------------------------- MODULE NativePiManager ---------------------------
(***************************************************************************)
(* The manager of the embedded Pi processes (src-tauri/src/                *)
(* native_pi_manager.rs).  It keeps three maps under three locks: the      *)
(* RuntimeCoordinator's records, the running processes with the target     *)
(* their events are routed to, and the extension dialogs not yet answered. *)
(* No method holds two of the locks at once, so each method is a call of   *)
(* several steps, one per lock section or await, and calls and event pumps *)
(* interleave between them.                                                *)
(*                                                                         *)
(* A definition marked "Fault" is a wrong form of the one after it and no  *)
(* part of the specification; it tests that a property notices.            *)
(***************************************************************************)
EXTENDS RuntimeCoordinator, FiniteSets

CONSTANTS
    Caller,               \* the host tasks that call the manager
    Operations,           \* the methods the callers of a run use
    Temporary,            \* the session ids that start with "temporary-"
    Faults,               \* what the operating system may refuse in a run
    FrameType,            \* the kinds of frame Pi writes in a run
    MaxFrames,            \* bound of the model: frames written per process
    MaxCalls              \* bound of the model: calls begun in all

AllOperations ==
    {"spawn", "stop", "stop_all", "restart", "bind", "request", "respond"}
AllFrameTypes ==
    {"agent_start", "agent_end", "extension_ui_request", "other"}
AllFaults == {"attach", "kill"}

ASSUME OperationsAssumption == Operations \subseteq AllOperations
ASSUME FaultsAssumption == Faults \subseteq AllFaults
ASSUME TemporaryAssumption == Temporary \subseteq SessionId
ASSUME FrameTypeAssumption == FrameType \subseteq AllFrameTypes
ASSUME ManagerBoundsAssumption == MaxFrames \in Nat /\ MaxCalls \in Nat

VARIABLES
    runtimes,             \* instance -> ManagedRuntime.target, while it is managed
    pendingUi,            \* instance -> the dialog events not yet answered
    bus,                  \* what was sent on the broadcast channel, in order
    process,              \* instance -> "none", "open" or "closed": the output of its Pi
    pipe,                 \* instance -> the frames its pump has not taken
    written,              \* instance -> how many frames its Pi wrote
    sent,                 \* instance -> the mutation keys written to its Pi, in order
    ran,                  \* instance -> how many of those its Pi ran
    answered,             \* instance -> the dialogs whose answer was written to its Pi
    pump,                 \* instance -> its event pump
    calls,                \* caller -> the call it is in
    begun,                \* how many calls were begun
    lost,                 \* history: the instances whose Pi runs and was not attached
    unkilled,             \* history: the instances whose kill failed
    overtaken             \* history: the instances bound while a target read before was in use

piVars == <<process, pipe, written, sent, ran, answered>>
historyVars == <<lost, unkilled, overtaken>>
managerVars ==
    <<instances, accepted, runtimes, pendingUi, bus, piVars, pump, calls, begun, historyVars>>

-----------------------------------------------------------------------------
(* Frames and events *)

Frame == [number : 1 .. MaxFrames, type : FrameType]
BindingFrame == [number |-> 0, type |-> "session_bound"]
Event == [target : RuntimeTarget, sequence : Nat, frame : Frame \cup {BindingFrame}]

IsDialog(frame) == frame.type = "extension_ui_request"

-----------------------------------------------------------------------------
(* Calls *)

Idle == [op |-> "idle", at |-> "idle"]

Doing(c, op, at) == calls[c].op = op /\ calls[c].at = at
Calling(i, op, at) == \E c \in Caller : Doing(c, op, at) /\ calls[c].target.instance = i
Goto(c, at) == calls' = [calls EXCEPT ![c].at = at]
Finish(c) == calls' = [calls EXCEPT ![c] = Idle]

SpawnCall(t) == [op |-> "spawn", at |-> "register", target |-> t]
StopCall(t, rest, respawn) ==
    [op |-> "stop", at |-> "validate", target |-> t, rest |-> rest, respawn |-> respawn]
BindCall(t, s) ==
    [op |-> "bind", at |-> "coordinate", target |-> t, session |-> s, sequence |-> 0]
RequestCall(t, k) ==
    [op |-> "request", at |-> "accept", target |-> t, key |-> k, position |-> 0]
RespondCall(t, n) ==
    [op |-> "respond", at |-> "validate", target |-> t, number |-> n]

Begin(c, op, call) ==
    /\ op \in Operations
    /\ calls[c] = Idle
    /\ begun < MaxCalls
    /\ begun' = begun + 1
    /\ calls' = [calls EXCEPT ![c] = call]

\* The targets a client can name: what target_for_session_id, a snapshot or an
\* event told it.  A call may act on one long after it was read.
RoutedTargets == {runtimes[i] : i \in DOMAIN runtimes}

\* Instance ids are fresh uuids.  They are opaque: one fresh id stands for all.
Unused ==
    LET fresh == {i \in InstanceId : process[i] = "none"}
    IN  {i \in fresh : i = CHOOSE j \in fresh : TRUE}

\* Fault: the process is let go without being killed.
KillNothing(i) == UNCHANGED process

Kill(i) == process' = [process EXCEPT ![i] = "closed"]

\* child.kill() returns Err.  kill() still waits for the child, so its caller
\* is held until Pi has ended some other way, and returns the error then.
KillFails(i) ==
    /\ "kill" \in Faults
    /\ unkilled' = unkilled \cup {i}
    /\ UNCHANGED process

\* Fault: events are sent to nobody.
PublishNothing(event) == UNCHANGED bus

\* Fault: the newest event comes first.
PublishFirst(event) == bus' = <<event>> \o bus

Publish(event) == bus' = Append(bus, event)

\* Fault: the number is read and not counted on.
SameSequence(i) == instances[i].sequence

NextSequence(i) == instances[i].sequence + 1

-----------------------------------------------------------------------------
(* spawn: start the process, attach to it, register it, insert it, start its *)
(* pump.  A refused registration kills the process, a failed attach does not *)
(* and nobody is left who could.                                             *)

SpawnBegin(c) ==
    \E w \in WorkspaceId, s \in SessionId, i \in Unused :
        /\ Begin(c, "spawn", SpawnCall([workspace |-> w, session |-> s, instance |-> i]))
        /\ process' = [process EXCEPT ![i] = "open"]
        /\ UNCHANGED <<coordinatorVars, runtimes, pendingUi, bus, pipe, written, sent, ran,
                       answered, pump, historyVars>>

\* A thread of the bridge cannot be started.
SpawnAttachFails(c) ==
    /\ "attach" \in Faults
    /\ Doing(c, "spawn", "register")
    /\ lost' = lost \cup {calls[c].target.instance}
    /\ Finish(c)
    /\ UNCHANGED <<coordinatorVars, runtimes, pendingUi, bus, piVars, pump, begun, unkilled,
                   overtaken>>

SpawnRegister(c) ==
    /\ Doing(c, "spawn", "register")
    /\ LET t == calls[c].target
       IN  \/ /\ Register(t, "starting")
              /\ Goto(c, "insert")
              /\ UNCHANGED <<process, unkilled>>
           \/ /\ ~CanRegister(t)
              /\ \/ Kill(t.instance) /\ Finish(c) /\ UNCHANGED unkilled
                 \/ KillFails(t.instance) /\ Goto(c, "discard")
              /\ UNCHANGED coordinatorVars
    /\ UNCHANGED <<runtimes, pendingUi, bus, pipe, written, sent, ran, answered, pump, begun,
                   lost, overtaken>>

SpawnDiscard(c) ==
    /\ Doing(c, "spawn", "discard")
    /\ process[calls[c].target.instance] = "closed"
    /\ Finish(c)
    /\ UNCHANGED <<coordinatorVars, runtimes, pendingUi, bus, piVars, pump, begun, historyVars>>

NoFrame == [number |-> 0, type |-> "none"]
PumpAt(at, t, frame, n) == [at |-> at, target |-> t, frame |-> frame, sequence |-> n]

SpawnInsert(c) ==
    /\ Doing(c, "spawn", "insert")
    /\ LET t == calls[c].target
       IN  /\ runtimes' = Put(runtimes, t.instance, t)
           /\ pump' = [pump EXCEPT ![t.instance] = PumpAt("next", t, NoFrame, 0)]
    /\ Finish(c)
    /\ UNCHANGED <<coordinatorVars, pendingUi, bus, piVars, begun, historyVars>>

-----------------------------------------------------------------------------
(* stop: validate, take the process out and kill it, unregister; a kill that *)
(* failed leaves the record where it is.  stop_all and stop_workspace stop a *)
(* snapshot of the targets, one after another, whatever each stop returns;   *)
(* restart spawns a fresh instance of the same session once its stop         *)
(* succeeded.                                                                *)

StopBegin(c) ==
    \E t \in RoutedTargets :
        /\ Begin(c, "stop", StopCall(t, {}, FALSE))
        /\ UNCHANGED <<coordinatorVars, runtimes, pendingUi, bus, piVars, pump, historyVars>>

\* The snapshot of a workspace's targets, or of all of them; the order of a
\* HashMap's values is not defined.
StopSetBegin(c) ==
    \E W \in {{w} : w \in WorkspaceId} \cup {WorkspaceId} :
        LET targets == {t \in RoutedTargets : t.workspace \in W}
        IN  \E t \in targets :
                /\ Begin(c, "stop_all", StopCall(t, targets \ {t}, FALSE))
                /\ UNCHANGED <<coordinatorVars, runtimes, pendingUi, bus, piVars, pump,
                               historyVars>>

RestartBegin(c) ==
    \E t \in RoutedTargets :
        /\ Begin(c, "restart", StopCall(t, {}, TRUE))
        /\ UNCHANGED <<coordinatorVars, runtimes, pendingUi, bus, piVars, pump, historyVars>>

\* The stop of one target is over, done or refused: go on with the next one.
StopNext(c) ==
    LET rest == calls[c].rest
    IN  \/ rest = {} /\ Finish(c)
        \/ \E t \in rest : calls' = [calls EXCEPT ![c] = StopCall(t, rest \ {t}, FALSE)]

StopValidate(c) ==
    /\ Doing(c, "stop", "validate")
    /\ IF Valid(calls[c].target) THEN Goto(c, "remove") ELSE StopNext(c)
    /\ UNCHANGED <<coordinatorVars, runtimes, pendingUi, bus, piVars, pump, begun, historyVars>>

StopRemove(c) ==
    /\ Doing(c, "stop", "remove")
    /\ LET i == calls[c].target.instance
       IN  \/ /\ i \in DOMAIN runtimes
              /\ runtimes' = Without(runtimes, i)
              /\ \/ Kill(i) /\ Goto(c, "unregister") /\ UNCHANGED unkilled
                 \/ KillFails(i) /\ Goto(c, "reap")
           \/ /\ i \notin DOMAIN runtimes
              /\ StopNext(c)
              /\ UNCHANGED <<runtimes, process, unkilled>>
    /\ UNCHANGED <<coordinatorVars, pendingUi, bus, pipe, written, sent, ran, answered, pump,
                   begun, lost, overtaken>>

StopReap(c) ==
    /\ Doing(c, "stop", "reap")
    /\ process[calls[c].target.instance] = "closed"
    /\ StopNext(c)
    /\ UNCHANGED <<coordinatorVars, runtimes, pendingUi, bus, piVars, pump, begun, historyVars>>

StopUnregister(c) ==
    /\ Doing(c, "stop", "unregister")
    /\ LET t == calls[c].target
       IN  IF Valid(t)
           THEN /\ Unregister(t)
                /\ IF calls[c].respawn
                   THEN \E i \in Unused :
                            /\ calls' = [calls EXCEPT ![c] = SpawnCall([t EXCEPT !.instance = i])]
                            /\ process' = [process EXCEPT ![i] = "open"]
                   ELSE StopNext(c) /\ UNCHANGED process
           ELSE StopNext(c) /\ UNCHANGED <<coordinatorVars, process>>
    /\ UNCHANGED <<runtimes, pendingUi, bus, pipe, written, sent, ran, answered, pump, begun,
                   historyVars>>

-----------------------------------------------------------------------------
(* rebind_session_id_with_event, reached by bind_session_id for a temporary  *)
(* session and by rebind_session_id for any.  One lock section sequences the *)
(* event and binds; the route of the process follows in another.             *)

\* The sessions an instance left, or is leaving, by a binding.
LeftSessions(i) ==
    {bus[p].target.session : p \in {q \in DOMAIN bus : bus[q].frame = BindingFrame
                                                     /\ bus[q].target.instance = i}}
        \cup {calls[c].target.session : c \in {d \in Caller : calls[d].op = "bind"
                                                     /\ calls[d].target.instance = i}}

\* The session is the one Pi reports for its process.  Pi gives a fork a new
\* session file, so an instance never comes back to a session it left, and
\* the frontend asks for no binding to the session it has (app.js:1259).
BindBegin(c) ==
    \E t \in RoutedTargets, s \in SessionId \ Temporary :
        /\ s \notin LeftSessions(t.instance) \cup {t.session}
        /\ Begin(c, "bind", BindCall(t, s))
        /\ UNCHANGED <<coordinatorVars, runtimes, pendingUi, bus, piVars, pump, historyVars>>

\* A stop, the pump or an earlier binding of the instance has read a target it
\* has yet to use.
TargetInUse(i) ==
    \/ Calling(i, "stop", "remove") \/ Calling(i, "stop", "unregister")
    \/ Calling(i, "bind", "route")
    \/ pump[i].at \in {"sequence", "unregister"}

\* The record changes, and the route with it only later.
Overtake(i, race) == overtaken' = IF race THEN overtaken \cup {i} ELSE overtaken

\* The sequence number is taken before the binding is checked, and kept when
\* the binding is refused.
BindCoordinate(c) ==
    /\ Doing(c, "bind", "coordinate")
    /\ LET t == calls[c].target
           s == calls[c].session
           n == NextSequence(t.instance)
       IN  CASE ~Valid(t) ->
                    Finish(c) /\ UNCHANGED <<coordinatorVars, overtaken>>
             [] Valid(t) /\ ~CanBind(t, s) ->
                    EmitEvent(t) /\ Finish(c) /\ UNCHANGED overtaken
             [] CanBind(t, s) ->
                    /\ n <= MaxSequence
                    /\ instances' = [instances EXCEPT ![t.instance].sequence = n,
                                                      ![t.instance].target.session = s]
                    /\ calls' = [calls EXCEPT ![c].at = "route", ![c].sequence = n]
                    /\ Overtake(t.instance, TargetInUse(t.instance))
                    /\ UNCHANGED accepted
    /\ UNCHANGED <<runtimes, pendingUi, bus, piVars, pump, begun, lost, unkilled>>

NewRoute(c) == [calls[c].target EXCEPT !.session = calls[c].session]

BindRoute(c) ==
    /\ Doing(c, "bind", "route")
    /\ LET t == calls[c].target
       IN  IF t.instance \in DOMAIN runtimes
           THEN /\ runtimes' = [runtimes EXCEPT ![t.instance] = NewRoute(c)]
                /\ Goto(c, "publish")
           ELSE Finish(c) /\ UNCHANGED runtimes
    /\ UNCHANGED <<coordinatorVars, pendingUi, bus, piVars, pump, begun, historyVars>>

\* The binding event carries the target the session had before.
BindPublish(c) ==
    /\ Doing(c, "bind", "publish")
    /\ Publish([target |-> calls[c].target, sequence |-> calls[c].sequence,
                frame |-> BindingFrame])
    /\ Finish(c)
    /\ UNCHANGED <<coordinatorVars, runtimes, pendingUi, piVars, pump, begun, historyVars>>

-----------------------------------------------------------------------------
(* request, for a command that mutates: accept the key, write the command,   *)
(* wait for the answer or the deadline, cache the answer.  A request that    *)
(* fails after its key was accepted leaves the key without a result.         *)

RequestBegin(c) ==
    \E t \in RoutedTargets, k \in Key :
        /\ Begin(c, "request", RequestCall(t, k))
        /\ UNCHANGED <<coordinatorVars, runtimes, pendingUi, bus, piVars, pump, historyVars>>

\* A retained key is answered from the cache, or with "still pending".
RequestAccept(c) ==
    /\ Doing(c, "request", "accept")
    /\ LET t == calls[c].target
           k == calls[c].key
       IN  IF Valid(t) /\ ~Retained(t.instance, k)
           THEN AcceptMutation(t, k) /\ Goto(c, "send")
           ELSE Finish(c) /\ UNCHANGED coordinatorVars
    /\ UNCHANGED <<runtimes, pendingUi, bus, piVars, pump, begun, historyVars>>

RequestSend(c) ==
    /\ Doing(c, "request", "send")
    /\ LET i == calls[c].target.instance
       IN  IF i \in DOMAIN runtimes /\ process[i] = "open"
           THEN /\ sent' = [sent EXCEPT ![i] = Append(@, calls[c].key)]
                /\ calls' = [calls EXCEPT ![c].at = "wait", ![c].position = Len(sent[i]) + 1]
           ELSE Finish(c) /\ UNCHANGED sent
    /\ UNCHANGED <<coordinatorVars, runtimes, pendingUi, bus, process, pipe, written, ran,
                   answered, pump, begun, historyVars>>

RequestAnswered(c) ==
    /\ Doing(c, "request", "wait")
    /\ ran[calls[c].target.instance] >= calls[c].position
    /\ Goto(c, "complete")
    /\ UNCHANGED <<coordinatorVars, runtimes, pendingUi, bus, piVars, pump, begun, historyVars>>

\* Fault: the command is written again after the deadline.
RequestFailedRetry(c) ==
    /\ Doing(c, "request", "wait")
    /\ Goto(c, "send")
    /\ UNCHANGED <<coordinatorVars, runtimes, pendingUi, bus, piVars, pump, begun, historyVars>>

\* The deadline passed, or the process went away.
RequestFailed(c) ==
    /\ Doing(c, "request", "wait")
    /\ Finish(c)
    /\ UNCHANGED <<coordinatorVars, runtimes, pendingUi, bus, piVars, pump, begun, historyVars>>

RequestComplete(c) ==
    /\ Doing(c, "request", "complete")
    /\ LET t == calls[c].target
           k == calls[c].key
       IN  IF Valid(t) /\ Retained(t.instance, k)
           THEN CompleteMutation(t, k, TRUE)
           ELSE UNCHANGED coordinatorVars
    /\ Finish(c)
    /\ UNCHANGED <<runtimes, pendingUi, bus, piVars, pump, begun, historyVars>>

-----------------------------------------------------------------------------
(* respond_extension_ui: validate, write the answer, forget the dialog.      *)

\* The dialogs a client was shown, live or by the replay of pendingUi.
Shown(i) ==
    {n \in 1 .. MaxFrames :
        \/ \E e \in pendingUi[i] : e.frame.number = n
        \/ \E p \in DOMAIN bus : /\ bus[p].target.instance = i
                                 /\ bus[p].frame.number = n
                                 /\ IsDialog(bus[p].frame)}

RespondBegin(c) ==
    \E t \in RoutedTargets : \E n \in Shown(t.instance) :
        /\ Begin(c, "respond", RespondCall(t, n))
        /\ UNCHANGED <<coordinatorVars, runtimes, pendingUi, bus, piVars, pump, historyVars>>

RespondValidate(c) ==
    /\ Doing(c, "respond", "validate")
    /\ IF Valid(calls[c].target) THEN Goto(c, "send") ELSE Finish(c)
    /\ UNCHANGED <<coordinatorVars, runtimes, pendingUi, bus, piVars, pump, begun, historyVars>>

RespondSend(c) ==
    /\ Doing(c, "respond", "send")
    /\ LET i == calls[c].target.instance
       IN  IF i \in DOMAIN runtimes /\ process[i] = "open"
           THEN /\ answered' = [answered EXCEPT ![i] = @ \cup {calls[c].number}]
                /\ Goto(c, "forget")
           ELSE Finish(c) /\ UNCHANGED answered
    /\ UNCHANGED <<coordinatorVars, runtimes, pendingUi, bus, process, pipe, written, sent, ran,
                   pump, begun, historyVars>>

\* Fault: every dialog of the instance is forgotten.
NoDialogs(events, n) == {}

OtherDialogs(events, n) == {e \in events : e.frame.number # n}

RespondForget(c) ==
    /\ Doing(c, "respond", "forget")
    /\ pendingUi' = [pendingUi EXCEPT ![calls[c].target.instance] =
                         OtherDialogs(@, calls[c].number)]
    /\ Finish(c)
    /\ UNCHANGED <<coordinatorVars, runtimes, bus, piVars, pump, begun, historyVars>>

-----------------------------------------------------------------------------
(* The event pump of one instance                                            *)

PumpTo(i, at) == pump' = [pump EXCEPT ![i].at = at]

\* next_frame, then the route of the instance; without one the pump returns.
PumpTake(i) ==
    /\ pump[i].at = "next"
    /\ pipe[i] # << >>
    /\ pipe' = [pipe EXCEPT ![i] = Tail(@)]
    /\ IF i \in DOMAIN runtimes
       THEN /\ pump' = [pump EXCEPT ![i] = PumpAt("sequence", runtimes[i], Head(pipe[i]), 0)]
            /\ Overtake(i, Calling(i, "bind", "route"))
       ELSE PumpTo(i, "returned") /\ UNCHANGED overtaken
    /\ UNCHANGED <<coordinatorVars, runtimes, pendingUi, bus, process, written, sent, ran,
                   answered, calls, begun, lost, unkilled>>

StateAfter(frame, st) ==
    CASE frame.type = "agent_start" -> "working"
      [] frame.type = "agent_end"   -> "idle"
      [] OTHER                      -> st

\* set_state and emit_event under one lock; when the coordinator refuses the
\* target, the pump returns.
PumpSequence(i) ==
    /\ pump[i].at = "sequence"
    /\ IF Valid(pump[i].target)
       THEN LET n == NextSequence(i)
            IN  /\ n <= MaxSequence
                /\ instances' = [instances EXCEPT ![i].sequence = n,
                                                  ![i].state = StateAfter(pump[i].frame, @)]
                /\ pump' = [pump EXCEPT
                       ![i].at = IF IsDialog(pump[i].frame) THEN "remember" ELSE "publish",
                       ![i].sequence = n]
       ELSE PumpTo(i, "returned") /\ UNCHANGED instances
    /\ UNCHANGED <<accepted, runtimes, pendingUi, bus, piVars, calls, begun, historyVars>>

PumpEvent(i) ==
    [target |-> pump[i].target, sequence |-> pump[i].sequence, frame |-> pump[i].frame]

PumpRemember(i) ==
    /\ pump[i].at = "remember"
    /\ pendingUi' = [pendingUi EXCEPT ![i] = @ \cup {PumpEvent(i)}]
    /\ PumpTo(i, "publish")
    /\ UNCHANGED <<coordinatorVars, runtimes, bus, piVars, calls, begun, historyVars>>

PumpPublish(i) ==
    /\ pump[i].at = "publish"
    /\ Publish(PumpEvent(i))
    /\ PumpTo(i, "next")
    /\ UNCHANGED <<coordinatorVars, runtimes, pendingUi, piVars, calls, begun, historyVars>>

\* remove_closed_runtime, once the output of the process has ended: take the
\* process out of runtimes, unregister the target it had, drop its dialogs.
PumpRemoveClosed(i) ==
    /\ pump[i].at = "next"
    /\ pipe[i] = << >>
    /\ process[i] = "closed"
    /\ IF i \in DOMAIN runtimes
       THEN /\ runtimes' = Without(runtimes, i)
            /\ pump' = [pump EXCEPT ![i].at = "unregister", ![i].target = runtimes[i]]
            /\ Overtake(i, Calling(i, "bind", "route"))
       ELSE PumpTo(i, "returned") /\ UNCHANGED <<runtimes, overtaken>>
    /\ UNCHANGED <<coordinatorVars, pendingUi, bus, piVars, calls, begun, lost, unkilled>>

PumpUnregister(i) ==
    /\ pump[i].at = "unregister"
    /\ IF Valid(pump[i].target) THEN Unregister(pump[i].target) ELSE UNCHANGED coordinatorVars
    /\ PumpTo(i, "forget")
    /\ UNCHANGED <<runtimes, pendingUi, bus, piVars, calls, begun, historyVars>>

PumpForget(i) ==
    /\ pump[i].at = "forget"
    /\ pendingUi' = [pendingUi EXCEPT ![i] = {}]
    /\ PumpTo(i, "returned")
    /\ UNCHANGED <<coordinatorVars, runtimes, bus, piVars, calls, begun, historyVars>>

-----------------------------------------------------------------------------
(* Pi itself, as far as its process shows: it writes frames, runs the        *)
(* commands it reads in order, and may exit.                                 *)

PiWrite(i) ==
    /\ process[i] = "open"
    /\ written[i] < MaxFrames
    /\ written' = [written EXCEPT ![i] = @ + 1]
    /\ \E type \in FrameType :
           pipe' = [pipe EXCEPT ![i] = Append(@, [number |-> written[i] + 1, type |-> type])]
    /\ UNCHANGED <<coordinatorVars, runtimes, pendingUi, bus, process, sent, ran, answered,
                   pump, calls, begun, historyVars>>

PiRun(i) ==
    /\ process[i] = "open"
    /\ ran[i] < Len(sent[i])
    /\ ran' = [ran EXCEPT ![i] = @ + 1]
    /\ UNCHANGED <<coordinatorVars, runtimes, pendingUi, bus, process, pipe, written, sent,
                   answered, pump, calls, begun, historyVars>>

PiExit(i) ==
    /\ process[i] = "open"
    /\ process' = [process EXCEPT ![i] = "closed"]
    /\ UNCHANGED <<coordinatorVars, runtimes, pendingUi, bus, pipe, written, sent, ran, answered,
                   pump, calls, begun, historyVars>>

-----------------------------------------------------------------------------

ManagerInit ==
    /\ Init
    /\ runtimes = << >>
    /\ pendingUi = [i \in InstanceId |-> {}]
    /\ bus = << >>
    /\ process = [i \in InstanceId |-> "none"]
    /\ pipe = [i \in InstanceId |-> << >>]
    /\ written = [i \in InstanceId |-> 0]
    /\ sent = [i \in InstanceId |-> << >>]
    /\ ran = [i \in InstanceId |-> 0]
    /\ answered = [i \in InstanceId |-> {}]
    /\ pump = [i \in InstanceId |-> [at |-> "off"]]
    /\ calls = [c \in Caller |-> Idle]
    /\ begun = 0
    /\ lost = {} /\ unkilled = {} /\ overtaken = {}

CallBegins(c) ==
    \/ SpawnBegin(c) \/ StopBegin(c) \/ StopSetBegin(c) \/ RestartBegin(c)
    \/ BindBegin(c) \/ RequestBegin(c) \/ RespondBegin(c)

CallGoesOn(c) ==
    \/ SpawnAttachFails(c) \/ SpawnRegister(c) \/ SpawnDiscard(c) \/ SpawnInsert(c)
    \/ StopValidate(c) \/ StopRemove(c) \/ StopReap(c) \/ StopUnregister(c)
    \/ BindCoordinate(c) \/ BindRoute(c) \/ BindPublish(c)
    \/ RequestAccept(c) \/ RequestSend(c) \/ RequestAnswered(c) \/ RequestFailed(c)
    \/ RequestComplete(c)
    \/ RespondValidate(c) \/ RespondSend(c) \/ RespondForget(c)

PumpGoesOn(i) ==
    \/ PumpTake(i) \/ PumpSequence(i) \/ PumpRemember(i) \/ PumpPublish(i)
    \/ PumpRemoveClosed(i) \/ PumpUnregister(i) \/ PumpForget(i)

PiGoesOn(i) == PiWrite(i) \/ PiRun(i) \/ PiExit(i)

ManagerNext ==
    \/ \E c \in Caller : CallBegins(c) \/ CallGoesOn(c)
    \/ \E i \in InstanceId : PumpGoesOn(i) \/ PiGoesOn(i)

ManagerSpec == ManagerInit /\ [][ManagerNext]_managerVars

\* Every call and every pump is a task of the async runtime, which polls a
\* task that can go on; a waiting request has a deadline.  Nothing obliges Pi
\* to write, to run a command or to exit.
ManagerFairness ==
    /\ \A c \in Caller : WF_managerVars(CallGoesOn(c))
    /\ \A i \in InstanceId : WF_managerVars(PumpGoesOn(i))

FairManagerSpec == ManagerSpec /\ ManagerFairness

-----------------------------------------------------------------------------
(* Properties *)

\* A call has the values of its method, and the step it is at.
CallType ==
    {Idle}
        \cup [op : {"spawn"}, at : {"register", "insert", "discard"}, target : RuntimeTarget]
        \cup [op : {"stop"}, at : {"validate", "remove", "unregister", "reap"},
               target : RuntimeTarget, rest : SUBSET RuntimeTarget, respawn : BOOLEAN]
        \cup [op : {"bind"}, at : {"coordinate", "route", "publish"}, target : RuntimeTarget,
               session : SessionId, sequence : Nat]
        \cup [op : {"request"}, at : {"accept", "send", "wait", "complete"},
               target : RuntimeTarget, key : Key, position : Nat]
        \cup [op : {"respond"}, at : {"validate", "send", "forget"}, target : RuntimeTarget,
               number : 1 .. MaxFrames]

\* A pump that has a frame in its hands is between two of its lock sections.
PumpType ==
    {[at |-> "off"]}
        \cup [at : {"next", "unregister", "forget", "returned"}, target : RuntimeTarget,
               frame : Frame \cup {NoFrame}, sequence : Nat]
        \cup [at : {"sequence", "remember", "publish"}, target : RuntimeTarget,
               frame : Frame, sequence : Nat]

\* Every map of the manager keeps its type, and a pump or a call holds only
\* the values its step needs.
ManagerTypeOK ==
    /\ TypeOK
    /\ DOMAIN runtimes \subseteq InstanceId
    /\ runtimes \in [DOMAIN runtimes -> RuntimeTarget]
    /\ pendingUi \in [InstanceId -> SUBSET Event]
    /\ bus \in Seq(Event)
    /\ process \in [InstanceId -> {"none", "open", "closed"}]
    /\ pipe \in [InstanceId -> Seq(Frame)]
    /\ written \in [InstanceId -> Nat]
    /\ sent \in [InstanceId -> Seq(Key)]
    /\ ran \in [InstanceId -> Nat]
    /\ answered \in [InstanceId -> SUBSET (1 .. MaxFrames)]
    /\ pump \in [InstanceId -> PumpType]
    /\ calls \in [Caller -> CallType]
    /\ begun \in Nat
    /\ lost \cup unkilled \cup overtaken \subseteq InstanceId

\* No living Pi is unowned: whatever refusals, stops, restarts, bindings and
\* exits interleave, a process that still runs is managed, a spawn is about to
\* make it so, or a call that could not kill it waits for its end.  The one
\* exception is the child whose attach failed: the code drops its handle, and
\* nothing in Picot ends it.
EveryPiIsOwned ==
    \A i \in InstanceId :
        process[i] = "open" =>
            \/ i \in DOMAIN runtimes
            \/ \E at \in {"register", "insert", "discard"} : Calling(i, "spawn", at)
            \/ Calling(i, "stop", "reap")
            \/ i \in lost

\* No registration outlives its process but for two reasons: a record without
\* a managed process belongs to a spawn, a stop or a closing pump in the middle
\* of its work, or its kill failed, or a binding renamed it while its removal
\* was under way.  A record left behind refuses its session to every later
\* spawn.
NoStrandedRecord ==
    \A i \in DOMAIN instances :
        \/ i \in DOMAIN runtimes
        \/ Calling(i, "spawn", "insert")
        \/ Calling(i, "stop", "unregister")
        \/ pump[i].at = "unregister"
        \/ i \in unkilled \cup overtaken

\* Two broadcast events of one instance never carry the same sequence number,
\* though pump and binding take theirs in different tasks and publish later.
SequencesAreUnique ==
    \A p, q \in DOMAIN bus :
        p # q /\ bus[p].target.instance = bus[q].target.instance
            => bus[p].sequence # bus[q].sequence

\* Event p of the bus carries frame n of an instance.
Carries(p, i, n) == bus[p].target.instance = i /\ bus[p].frame.number = n

\* What Pi wrote is broadcast in the order it was written, none skipped and
\* none twice, whatever is bound, stopped or answered meanwhile.
FramesInWrittenOrder ==
    \A p \in DOMAIN bus :
        LET i == bus[p].target.instance
            n == bus[p].frame.number
        IN  /\ \A m \in 1 .. n - 1 : \E q \in 1 .. p - 1 : Carries(q, i, m)
            /\ n > 0 => \A q \in 1 .. p - 1 : ~Carries(q, i, n)

\* A dialog that was broadcast and not answered can still be replayed to a
\* client that subscribes later, as long as its runtime is managed.
OpenDialogsAreReplayable ==
    \A p \in DOMAIN bus :
        LET i == bus[p].target.instance
        IN  IsDialog(bus[p].frame) /\ i \in DOMAIN runtimes
                /\ bus[p].frame.number \notin answered[i]
            => bus[p] \in pendingUi[i]

Times(k, keys) == Cardinality({p \in DOMAIN keys : keys[p] = k})

\* Pi is given a mutation at most once for each time its key was accepted:
\* retries, timeouts and evictions of other keys never write it again.
OneWritePerAcceptance ==
    \A i \in DOMAIN instances : \A k \in Key : Times(k, sent[i]) <= Times(k, accepted[i])

\* A process whose output ended is forgotten, whether it was stopped or went by
\* itself, under whatever bindings, unless its kill failed or a binding came
\* between the reading and the use of its target.
ClosedRuntimesAreForgotten ==
    \A i \in InstanceId :
        (process[i] = "closed" /\ i \in DOMAIN instances)
            ~> (i \notin DOMAIN instances \/ i \in unkilled \cup overtaken)

OnBus(i, n) == \E p \in DOMAIN bus : Carries(p, i, n)

\* Every frame Pi writes is broadcast, unless its runtime is taken away first.
FramesAreDelivered ==
    \A i \in InstanceId : \A n \in 1 .. MaxFrames :
        (written[i] >= n /\ i \in DOMAIN runtimes) ~> (OnBus(i, n) \/ i \notin DOMAIN runtimes)

=============================================================================
