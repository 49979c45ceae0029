------------------------------ MODULE SessionView ------------------------------
(***************************************************************************)
(* The session a page shows: the numbered events and the snapshots of the  *)
(* host (src/src-tauri/src/host_server.rs), the connection they come by    *)
(* (src/public/native/transport), the store that applies them              *)
(* (native/session/session-store.js), and the navigation and hydration of  *)
(* src/public/native/app.js, at the grain of their awaits.                 *)
(*                                                                         *)
(* An event is its number: odd ones start a turn of the agent, even ones   *)
(* settle it.  A message list is the set of sessions whose messages are in *)
(* it, and Error if an error was rendered after them.                      *)
(*                                                                         *)
(* A definition marked "Fault" is a wrong form of the one after it and no  *)
(* part of the specification; it tests that a property notices.            *)
(***************************************************************************)
EXTENDS Integers, Sequences, FiniteSets

CONSTANTS
    Sessions,
    Start,                \* the session of the page when it is loaded
    Error,                \* an error message in the list of messages
    Before,               \* the events of each session before the page is loaded
    MaxEvents,            \* bound of the model: and with those after it
    MaxSwitches,          \* bound of the model: sessions the user opens
    MaxIncidents          \* bound of the model: lags, lost connections, refusals,
                          \* compactions and changes of the branch

ASSUME ViewAssumption == Start \in Sessions /\ Error \notin Sessions /\ {Before, MaxEvents} \subseteq [Sessions -> Nat]
ASSUME BoundsAssumption == {MaxSwitches, MaxIncidents} \subseteq Nat

VARIABLES
    log,                  \* how many events the host has numbered for each session
    bus,                  \* broadcast events the connection's task has not taken yet
    wire,                 \* frames on their way to the page
    connected,
    target,               \* the page's session
    store,                \* [sequence, snapshotRequired, lifecycle]
    snapshotInFlight,
    status,               \* what the header says
    shown,                \* what is in the list of messages
    calls,                \* snapshot requests of the page, until they are dealt with
    switches,             \* the runs of switchSession; the last one is the current generation
    incidents             \* how many so far

pageVars == <<target, store, snapshotInFlight, status, shown, calls, switches>>
vars == <<log, bus, wire, connected, pageVars, incidents>>

Lifecycle(n) == IF n = 0 THEN "starting" ELSE IF n % 2 = 1 THEN "working" ELSE "idle"

Incident == incidents < MaxIncidents /\ incidents' = incidents + 1

\* Requests that can be under way at once: each switch and each session's hydration.
CallIds == 1 .. 2 * MaxSwitches + 1
None == [at |-> "none", by |-> 0, session |-> Start, retried |-> FALSE, streaming |-> FALSE, sequence |-> 0]

\* A call by hydrateSnapshotOnce has by = 0, one by a switch its generation.
Once(c) == calls[c].at # "none" /\ calls[c].by = 0
AtHost(c) == calls[c].at \in {"sent", "stated", "answered", "refused"}

FreeCall == CHOOSE c \in CallIds : calls[c].at = "none"

Sent(by, s, retried) == [None EXCEPT !.at = "sent", !.by = by, !.session = s, !.retried = retried]

generation == Len(switches)
Current(g) == g = generation

-----------------------------------------------------------------------------
(* The host. *)

Emit(s) ==
    /\ log[s] < MaxEvents[s]
    /\ log' = [log EXCEPT ![s] = @ + 1]
    /\ bus' = IF connected THEN Append(bus, [session |-> s, number |-> log[s] + 1]) ELSE bus
    /\ UNCHANGED <<wire, connected, pageVars, incidents>>

Forward ==
    /\ bus # <<>>
    /\ wire' = Append(wire, [type |-> "event", call |-> 0, session |-> Head(bus).session, number |-> Head(bus).number])
    /\ bus' = Tail(bus)
    /\ UNCHANGED <<log, connected, pageVars, incidents>>

\* A receiver that lags loses the oldest event; the page ignores the error it is sent.
Lag ==
    /\ bus # <<>> /\ Incident
    /\ bus' = Tail(bus)
    /\ UNCHANGED <<log, wire, connected, pageVars>>

\* A snapshot: Pi's state, then its entries, the coordinator's sequence and the answer.
ReadState(c) ==
    /\ calls[c].at = "sent"
    /\ calls' = [calls EXCEPT ![c].at = "stated", ![c].streaming = Lifecycle(log[calls[c].session]) = "working"]
    /\ UNCHANGED <<log, bus, wire, connected, target, store, snapshotInFlight, status, shown, switches, incidents>>

Replies(c, call, type) ==
    /\ calls' = [calls EXCEPT ![c] = call]
    /\ wire' = Append(wire, [type |-> type, call |-> c, session |-> call.session, number |-> 0])
    /\ UNCHANGED <<log, bus, connected, target, store, snapshotInFlight, status, shown, switches>>

Answer(c) ==
    /\ calls[c].at = "stated"
    /\ Replies(c, [calls[c] EXCEPT !.at = "answered", !.sequence = log[calls[c].session]], "snapshot")
    /\ UNCHANGED incidents

Refuse(c) ==
    /\ calls[c].at \in {"sent", "stated"} /\ Incident
    /\ Replies(c, [calls[c] EXCEPT !.at = "refused"], "error")

-----------------------------------------------------------------------------
(* Hydration. *)

\* hydrateSnapshotOnce: a call that is under way is joined.
HydrateSnapshotOnce ==
    /\ snapshotInFlight' = TRUE
    /\ calls' = IF snapshotInFlight THEN calls
                ELSE [calls EXCEPT ![FreeCall] = IF connected THEN Sent(0, target, FALSE)
                                                 ELSE [Sent(0, target, FALSE) EXCEPT !.at = "reconnecting"]]

\* A compaction that ends and a change of the active branch ask for a snapshot.
Refresh ==
    /\ Incident
    /\ HydrateSnapshotOnce
    /\ UNCHANGED <<log, bus, wire, connected, target, store, status, shown, switches>>

Over(c) == [calls EXCEPT ![c] = None]

\* The finally of hydrateSnapshotOnce.
Released(c) == snapshotInFlight' = IF Once(c) THEN FALSE ELSE snapshotInFlight

\* hydrateFromSnapshot, up to its first wait.
HydrateFromSnapshot(c) ==
    /\ store' = [sequence |-> calls[c].sequence, snapshotRequired |-> FALSE,
                 lifecycle |-> Lifecycle(calls[c].sequence)]
    /\ shown' = {calls[c].session}
    /\ status' = IF calls[c].streaming THEN "working" ELSE "connected"
    /\ calls' = [calls EXCEPT ![c] = [None EXCEPT !.at = "restoring", !.by = calls[c].by,
                                                  !.session = calls[c].session, !.retried = calls[c].retried]]
    /\ UNCHANGED snapshotInFlight

\* The session or the generation is still the one it was when the call was made.
StillWanted(c) ==
    IF Once(c) THEN calls[c].session = target ELSE Current(calls[c].by)

Took(type) == wire # <<>> /\ Head(wire).type = type /\ wire' = Tail(wire)

ReceiveSnapshot(c) ==
    /\ Took("snapshot") /\ Head(wire).call = c
    /\ StillWanted(c)
    /\ HydrateFromSnapshot(c)
    /\ UNCHANGED <<log, bus, connected, target, switches, incidents>>

ReceiveStaleSnapshot(c) ==
    /\ Took("snapshot") /\ Head(wire).call = c
    /\ ~StillWanted(c)
    /\ calls' = Over(c) /\ Released(c)
    /\ UNCHANGED <<log, bus, connected, target, store, status, shown, switches, incidents>>

\* Without its snapshot a switch goes on with the history it has.
Degraded(g) ==
    IF Current(g) THEN /\ status' = "connected"
                       /\ switches' = [switches EXCEPT ![g].at = "failed"]
    ELSE UNCHANGED <<status, switches>>

ShowError == /\ shown' = shown \cup {Error} /\ status' = "disconnected"

ReceiveRefusal(c) ==
    /\ Took("error") /\ Head(wire).call = c
    /\ calls' = Over(c) /\ Released(c)
    /\ IF Once(c) THEN ShowError /\ UNCHANGED switches
       ELSE Degraded(calls[c].by) /\ UNCHANGED shown
    /\ UNCHANGED <<log, bus, connected, target, store, incidents>>

\* The models are restored and queued prompts shown, until the user has answered them.
Restored(c) ==
    /\ calls[c].at = "restoring"
    /\ calls' = Over(c) /\ Released(c)
    /\ UNCHANGED <<log, bus, wire, connected, target, store, status, shown, switches, incidents>>

\* A response of the user finds the connection lost: a first attempt is made again.
RestoreFails(c) ==
    /\ calls[c].at = "restoring" /\ ~connected
    /\ IF Once(c) /\ ~calls[c].retried
       THEN /\ calls' = [calls EXCEPT ![c].at = "reconnecting"]
            /\ UNCHANGED <<snapshotInFlight, status, shown>>
       ELSE /\ calls' = Over(c) /\ Released(c)
            /\ IF Once(c) THEN ShowError
               ELSE /\ status' = IF Current(calls[c].by) THEN "connected" ELSE status
                    /\ UNCHANGED shown
    /\ UNCHANGED <<log, bus, wire, connected, target, store, switches, incidents>>

-----------------------------------------------------------------------------
(* Events. *)

\* reduceSessionState
Reduced(n) ==
    IF n <= store.sequence THEN store
    ELSE IF n = store.sequence + 1 THEN [sequence |-> n, snapshotRequired |-> FALSE, lifecycle |-> Lifecycle(n)]
    ELSE [store EXCEPT !.snapshotRequired = TRUE]

\* Events of other sessions only mark the sidebar.
ReceiveBackgroundEvent ==
    /\ Took("event") /\ Head(wire).session # target
    /\ UNCHANGED <<log, bus, connected, pageVars, incidents>>

\* handleRuntimeEvent: also for an event that the store did not apply.
ReceiveEvent ==
    /\ Took("event") /\ Head(wire).session = target
    /\ store' = Reduced(Head(wire).number)
    /\ store.snapshotRequired \/ ~store'.snapshotRequired
    /\ status' = IF Lifecycle(Head(wire).number) = "working" THEN "working" ELSE "connected"
    /\ shown' = shown \cup {target}
    /\ UNCHANGED <<log, bus, connected, target, snapshotInFlight, calls, switches, incidents>>

\* The event that reveals a gap is not handled.
ReceiveGap ==
    /\ Took("event") /\ Head(wire).session = target
    /\ store' = Reduced(Head(wire).number)
    /\ ~store.snapshotRequired /\ store'.snapshotRequired
    /\ HydrateSnapshotOnce
    /\ UNCHANGED <<log, bus, connected, target, status, shown, switches, incidents>>

-----------------------------------------------------------------------------
(* The connection. *)

\* What a lost connection leaves of a request that waits for its answer.
CutOff(c) ==
    IF Once(c) /\ ~calls[c].retried THEN [calls[c] EXCEPT !.at = "reconnecting"] ELSE None

\* The requests that wait are rejected, after the status is set; a switch sets
\* it to connected then, and a second attempt shows its error.
Disconnect ==
    /\ connected /\ Incident
    /\ connected' = FALSE /\ bus' = <<>> /\ wire' = <<>>
    /\ calls' = [c \in CallIds |-> IF AtHost(c) THEN CutOff(c) ELSE calls[c]]
    /\ LET ended == {c \in CallIds : AtHost(c) /\ calls'[c] = None}
           given == {c \in ended : Once(c)}
           cut == {c \in ended : ~Once(c) /\ Current(calls[c].by)}
       IN  /\ snapshotInFlight' = IF given = {} THEN snapshotInFlight ELSE FALSE
           /\ shown' = IF given = {} THEN shown ELSE shown \cup {Error}
           /\ status' \in IF cut = {} THEN {"disconnected"}
                          ELSE IF given = {} THEN {"connected"} ELSE {"connected", "disconnected"}
           /\ switches' = [g \in 1 .. generation |->
                 IF \E c \in cut : calls[c].by = g THEN [switches[g] EXCEPT !.at = "failed"] ELSE switches[g]]
    /\ UNCHANGED <<log, target, store>>

\* The second attempt is for the session that is the page's now.
Reconnect ==
    /\ ~connected
    /\ connected' = TRUE
    /\ calls' = [c \in CallIds |-> IF calls[c].at = "reconnecting" THEN Sent(0, target, TRUE) ELSE calls[c]]
    /\ UNCHANGED <<log, bus, wire, target, store, snapshotInFlight, status, shown, switches, incidents>>

-----------------------------------------------------------------------------
(* switchSession. *)

SwitchSession(s) ==
    /\ s # target /\ generation < MaxSwitches
    /\ switches' = Append(switches, [session |-> s, at |-> "loading", disk |-> FALSE, bootstrap |-> FALSE])
    /\ status' = "loading"
    /\ UNCHANGED <<log, bus, wire, connected, target, store, snapshotInFlight, shown, calls, incidents>>

\* Fault: a switch goes on although a later one was started.
GoesOnAnyway(g) == TRUE

\* A later switch makes an earlier one end when its reads are done.
GoesOn(g) == Current(g)

\* Fault: the flag stays up for the session left behind.
AdoptWithFlag(s) ==
    /\ target' = s
    /\ store' = [sequence |-> 0, snapshotRequired |-> FALSE, lifecycle |-> "starting"]
    /\ UNCHANGED snapshotInFlight

\* The first synchronous stretch of adoptTarget.  The page adopts a target without a
\* new generation as well when it makes a session itself (picot:session-created) and
\* when a temporary one gets its name (session_bound): neither is modelled.
AdoptTarget(s) ==
    /\ target' = s
    /\ store' = [sequence |-> 0, snapshotRequired |-> FALSE, lifecycle |-> "starting"]
    /\ snapshotInFlight' = FALSE

\* One of the two reads of a switch is done; the second one lets it go on.
Loaded(g, run) ==
    IF run.disk /\ run.bootstrap /\ run.at = "loading"
    THEN IF GoesOn(g) THEN /\ switches' = [switches EXCEPT ![g] = [run EXCEPT !.at = "adopting"]]
                           /\ AdoptTarget(run.session)
         ELSE /\ switches' = [switches EXCEPT ![g] = [run EXCEPT !.at = "over"]]
              /\ UNCHANGED <<target, store, snapshotInFlight>>
    ELSE /\ switches' = [switches EXCEPT ![g] = run]
         /\ UNCHANGED <<target, store, snapshotInFlight>>

\* Fault: so is that of an earlier switch.
RenderedAnyway(g) == {switches[g].session}

\* The history on disk is rendered at once, if its switch is still the last one.
Rendered(g) == IF Current(g) THEN {switches[g].session} ELSE shown

DiskRead(g) ==
    /\ ~switches[g].disk
    /\ shown' = Rendered(g)
    /\ Loaded(g, [switches[g] EXCEPT !.disk = TRUE])
    /\ UNCHANGED <<log, bus, wire, connected, status, calls, incidents>>

DiskReadFails(g) ==
    /\ ~switches[g].disk /\ Incident
    /\ Loaded(g, [switches[g] EXCEPT !.disk = TRUE])
    /\ UNCHANGED <<log, bus, wire, connected, status, shown, calls>>

Bootstrapped(g) ==
    /\ switches[g].at = "loading" /\ ~switches[g].bootstrap
    /\ Loaded(g, [switches[g] EXCEPT !.bootstrap = TRUE])
    /\ UNCHANGED <<log, bus, wire, connected, status, shown, calls, incidents>>

\* The switch is over, but not its read of the disk.
BootstrapFails(g) ==
    /\ switches[g].at = "loading" /\ ~switches[g].bootstrap /\ Incident
    /\ switches' = [switches EXCEPT ![g].at = "failed"]
    /\ ShowError
    /\ UNCHANGED <<log, bus, wire, connected, target, store, snapshotInFlight, calls>>

\* The profile of the session is there; the last of the code before the snapshot
\* does not look at the generation.
Adopted(g) ==
    /\ switches[g].at = "adopting"
    /\ status' = "connected"
    /\ IF connected
       THEN /\ calls[FreeCall].at = "none"
            /\ calls' = [calls EXCEPT ![FreeCall] = Sent(g, target, FALSE)]
            /\ switches' = [switches EXCEPT ![g].at = "over"]
       ELSE /\ switches' = [switches EXCEPT ![g].at = IF Current(g) THEN "failed" ELSE "over"]
            /\ UNCHANGED calls
    /\ UNCHANGED <<log, bus, wire, connected, target, store, snapshotInFlight, shown, incidents>>

-----------------------------------------------------------------------------
\* The page has adopted its first session, shown its history and asked for its snapshot.
Init ==
    /\ log = Before
    /\ bus = <<>> /\ wire = <<>> /\ connected = TRUE
    /\ target = Start
    /\ store = [sequence |-> 0, snapshotRequired |-> FALSE, lifecycle |-> "starting"]
    /\ snapshotInFlight = TRUE
    /\ status = "connected"
    /\ shown = {Start}
    /\ calls = [c \in CallIds |-> IF c = 1 THEN Sent(0, Start, FALSE) ELSE None]
    /\ switches = <<>>
    /\ incidents = 0

HostAnswers == \E c \in CallIds : ReadState(c) \/ Answer(c)

PageReceives ==
    \/ ReceiveBackgroundEvent \/ ReceiveEvent \/ ReceiveGap
    \/ \E c \in CallIds : ReceiveSnapshot(c) \/ ReceiveStaleSnapshot(c) \/ ReceiveRefusal(c)

SwitchGoesOn == \E g \in 1 .. generation : DiskRead(g) \/ Bootstrapped(g) \/ Adopted(g)

Next ==
    \/ \E s \in Sessions : Emit(s) \/ SwitchSession(s)
    \/ Forward \/ Lag \/ Disconnect \/ Reconnect \/ Refresh
    \/ HostAnswers \/ PageReceives \/ SwitchGoesOn
    \/ \E c \in CallIds : Refuse(c) \/ Restored(c) \/ RestoreFails(c)
    \/ \E g \in 1 .. generation : DiskReadFails(g) \/ BootstrapFails(g)

Spec == Init /\ [][Next]_vars

\* The host's tasks run, the reads of a switch end and the connection comes back;
\* the user need not answer the prompts that a hydration shows at its end.
FairSpec ==
    /\ Spec
    /\ WF_vars(Forward) /\ WF_vars(HostAnswers) /\ WF_vars(PageReceives)
    /\ WF_vars(SwitchGoesOn) /\ WF_vars(Reconnect)

-----------------------------------------------------------------------------
(* Properties. *)

CallType ==
    [at : {"none", "sent", "stated", "answered", "refused", "restoring", "reconnecting"},
     by : Nat, session : Sessions, retried : BOOLEAN, streaming : BOOLEAN, sequence : Nat]
SwitchType ==
    [session : Sessions, at : {"loading", "adopting", "over", "failed"}, disk : BOOLEAN, bootstrap : BOOLEAN]
EventType == [session : Sessions, number : Nat]
StoreType == [sequence : Nat, snapshotRequired : BOOLEAN, lifecycle : {"starting", "working", "idle"}]
FrameType == [type : {"event", "snapshot", "error"}, call : Nat, session : Sessions, number : Nat]

TypeOK ==
    /\ log \in [Sessions -> Nat] /\ bus \in Seq(EventType)
    /\ wire \in Seq(FrameType) /\ connected \in BOOLEAN
    /\ target \in Sessions /\ shown \subseteq Sessions \cup {Error}
    /\ store \in StoreType
    /\ status \in {"loading", "working", "connected", "disconnected"}
    /\ snapshotInFlight \in BOOLEAN /\ calls \in [CallIds -> CallType]
    /\ switches \in Seq(SwitchType) /\ generation <= MaxSwitches
    /\ incidents \in Nat

\* No switch is between its click and its snapshot.
Settled ==
    /\ \A g \in 1 .. generation : switches[g].at \in {"over", "failed"}
    /\ \A c \in CallIds : Once(c) \/ ~AtHost(c)

LastSwitchFailed == generation > 0 /\ switches[generation].at = "failed"

\* When the last switch has its snapshot the list of messages is that of the
\* page's session: neither the disk history that is rendered before the target
\* changes, nor an event or a late hydration of the session left behind stays in
\* it (switchSession, hydrateSnapshot).
HistoryIsOfTheTarget ==
    Settled /\ ~LastSwitchFailed => shown \ {Error} = {target}

\* The page ends at the session the last successful switch was for, whatever
\* the reads of earlier ones do when they are done at last (navigationGeneration).
LastSwitchWins ==
    Settled /\ ~LastSwitchFailed /\ generation > 0 => target = switches[generation].session

\* The flag that makes a hydration join another one is up only while there is
\* one for the page's session: adoptTarget takes it down under a running
\* hydration, and each of those ends by taking it down, in any order.  Up for
\* the session left behind it would keep a new one from hydrating
\* (snapshotInFlight).
HydrationIsNeverBlocked ==
    snapshotInFlight => \E c \in CallIds : Once(c) /\ calls[c].session = target

\* A gap once found is repaired or an error is shown: "if a hydration is already
\* in progress, the new call joins it" (app.js).
GapsAreRepaired ==
    store.snapshotRequired ~> (~store.snapshotRequired \/ Error \in shown)

\* The history is replaced "atomically once the new data is ready" (app.js): when
\* no switch is under way it is that of the session prompts are sent to.
HistoryAndTargetChangeTogether == Settled => shown \ {Error} = {target}

===============================================================================
