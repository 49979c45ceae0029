--------------------------- MODULE SessionViewProofs ---------------------------
(***************************************************************************)
(* Proofs about SessionView, for any number of sessions, switches, events  *)
(* and incidents.                                                          *)
(*                                                                         *)
(* The three properties follow from one inductive invariant.  Two of its   *)
(* parts are what they rest on: a frame that answers a call finds that     *)
(* call waiting (FramesAreOfCalls), and who is about to make a call finds  *)
(* a free one (CallsAreBounded).  The second is counting: a hydration      *)
(* starts only with the flag down, and only its end and the adoption of a  *)
(* target take the flag down, so there are at most as many as switches     *)
(* have adopted, and one; and each switch makes one call.                  *)
(*                                                                         *)
(* Steps come in four kinds (KeepsCalls, EndsCall, HydrateSnapshotOnce and *)
(* the steps of a switch); each action is then one of them.                *)
(***************************************************************************)
EXTENDS SessionView, FiniteSetTheorems, TLAPS

-----------------------------------------------------------------------------
(* Types.                                                                    *)

LEMMA CallIsTyped ==
    ASSUME TypeOK, NEW c \in CallIds
    PROVE  calls[c] \in CallType
BY DEF TypeOK

LEMMA SwitchIsTyped ==
    ASSUME TypeOK, NEW g \in 1 .. generation
    PROVE  switches[g] \in SwitchType
BY DEF TypeOK, generation

LEMMA LifecycleIsTyped ==
    ASSUME NEW n
    PROVE  Lifecycle(n) \in {"starting", "working", "idle"}
BY DEF Lifecycle

LEMMA NoneIsTyped == None \in CallType
BY ViewAssumption DEF None, CallType

LEMMA SentIsTyped ==
    ASSUME NEW by \in Nat, NEW s \in Sessions, NEW retried \in BOOLEAN
    PROVE  /\ Sent(by, s, retried) \in CallType
           /\ [Sent(by, s, retried) EXCEPT !.at = "reconnecting"] \in CallType
BY ViewAssumption DEF Sent, None, CallType

LEMMA HydrateTyped ==
    ASSUME TypeOK, HydrateSnapshotOnce
    PROVE  snapshotInFlight' \in BOOLEAN /\ calls' \in [CallIds -> CallType]
<1> DEFINE call == IF connected THEN Sent(0, target, FALSE)
                   ELSE [Sent(0, target, FALSE) EXCEPT !.at = "reconnecting"]
<1>1. call \in CallType
  BY SentIsTyped DEF TypeOK
<1>2. calls' = calls \/ calls' = [calls EXCEPT ![FreeCall] = call]
  BY DEF HydrateSnapshotOnce
<1> HIDE DEF call
<1> QED
  BY <1>1, <1>2 DEF HydrateSnapshotOnce, TypeOK

LEMMA TookTyped ==
    ASSUME TypeOK, NEW type, Took(type)
    PROVE  /\ wire # <<>> /\ wire' \in Seq(FrameType) /\ Head(wire) \in FrameType
           /\ Head(wire).type = type
BY DEF TypeOK, Took

LEMMA OverTyped ==
    ASSUME TypeOK, NEW c \in CallIds
    PROVE  Over(c) \in [CallIds -> CallType]
BY NoneIsTyped DEF TypeOK, Over

LEMMA LoadedTyped ==
    ASSUME TypeOK, NEW g \in 1 .. generation, NEW run \in SwitchType, Loaded(g, run)
    PROVE  /\ switches' \in Seq(SwitchType) /\ Len(switches') = generation
           /\ target' \in Sessions /\ snapshotInFlight' \in BOOLEAN
           /\ store' \in StoreType
<1>1. PICK r \in SwitchType : switches' = [switches EXCEPT ![g] = r]
  BY DEF Loaded, SwitchType
<1>2. switches' \in Seq(SwitchType) /\ Len(switches') = generation
  BY <1>1 DEF TypeOK, generation
<1>3. target' = run.session \/ target' = target
  BY DEF Loaded, AdoptTarget
<1>4. snapshotInFlight' \in BOOLEAN
  BY DEF Loaded, AdoptTarget, TypeOK
<1>5. [sequence |-> 0, snapshotRequired |-> FALSE, lifecycle |-> "starting"] \in StoreType
  BY DEF StoreType
<1>6. store' \in StoreType
  BY <1>5 DEF Loaded, AdoptTarget, TypeOK
<1>7. run.session \in Sessions
  BY DEF SwitchType
<1> QED
  BY <1>2, <1>3, <1>4, <1>6, <1>7 DEF TypeOK

\* The steps of the host and of the connection.
LEMMA HostTypes ==
    ASSUME TypeOK,
           \/ \E s \in Sessions : Emit(s)
           \/ Forward \/ Lag \/ Refresh
           \/ \E c \in CallIds : ReadState(c) \/ Answer(c) \/ Refuse(c)
    PROVE  TypeOK'
<1> USE DEF pageVars, generation
<1>1. ASSUME NEW s \in Sessions, Emit(s) PROVE TypeOK'
  <2>1. log' \in [Sessions -> Nat] /\ [session |-> s, number |-> log[s] + 1] \in EventType
    BY <1>1 DEF Emit, TypeOK, EventType
  <2>2. bus' \in Seq(EventType)
    BY <1>1, <2>1 DEF Emit, TypeOK
  <2> QED
    BY <1>1, <2>1, <2>2 DEF Emit, TypeOK
<1>2. CASE Forward
  <2> DEFINE frame == [type |-> "event", call |-> 0, session |-> Head(bus).session, number |-> Head(bus).number]
  <2>1. frame \in FrameType /\ Tail(bus) \in Seq(EventType)
    <3>1. bus # <<>> /\ bus \in Seq(EventType)
      BY <1>2 DEF Forward, TypeOK
    <3>2. Head(bus) \in EventType /\ Tail(bus) \in Seq(EventType)
      BY <3>1
    <3> QED
      BY <3>2 DEF EventType, FrameType
  <2>2. wire' = Append(wire, frame)
    BY <1>2 DEF Forward
  <2> HIDE DEF frame
  <2>3. wire' \in Seq(FrameType)
    BY <2>1, <2>2 DEF TypeOK
  <2> QED
    BY <1>2, <2>1, <2>3 DEF Forward, TypeOK
<1>3. CASE Lag
  BY <1>3 DEF Lag, Incident, TypeOK
<1>4. CASE Refresh
  BY <1>4, HydrateTyped DEF Refresh, Incident, TypeOK
<1>5. ASSUME NEW c \in CallIds, ReadState(c) PROVE TypeOK'
  <2>1. [calls[c] EXCEPT !.at = "stated", !.streaming = Lifecycle(log[calls[c].session]) = "working"] \in CallType
    BY CallIsTyped DEF CallType
  <2>2. calls' = [calls EXCEPT ![c] = [calls[c] EXCEPT !.at = "stated",
                                          !.streaming = Lifecycle(log[calls[c].session]) = "working"]]
    BY <1>5 DEF ReadState
  <2>3. calls' \in [CallIds -> CallType]
    BY <2>1, <2>2 DEF TypeOK
  <2> QED
    BY <1>5, <2>3 DEF ReadState, TypeOK
<1>6. ASSUME NEW c \in CallIds, Answer(c) \/ Refuse(c) PROVE TypeOK'
  <2>1. PICK call \in CallType : \E type \in {"snapshot", "error"} : Replies(c, call, type)
    <3>1. calls[c] \in CallType /\ log[calls[c].session] \in Nat
      BY CallIsTyped DEF CallType, TypeOK
    <3>2. /\ [calls[c] EXCEPT !.at = "answered", !.sequence = log[calls[c].session]] \in CallType
          /\ [calls[c] EXCEPT !.at = "refused"] \in CallType
      BY <3>1 DEF CallType
    <3> QED
      BY <1>6, <3>2 DEF Answer, Refuse
  <2>2. PICK type \in {"snapshot", "error"} : Replies(c, call, type)
    BY <2>1
  <2>3. [type |-> type, call |-> c, session |-> call.session, number |-> 0] \in FrameType
    BY BoundsAssumption DEF FrameType, CallType, CallIds
  <2>4. wire' \in Seq(FrameType) /\ calls' \in [CallIds -> CallType]
    BY <2>2, <2>3 DEF Replies, TypeOK
  <2>5. incidents' \in Nat
    <3>1. CASE Answer(c)
      BY <3>1 DEF Answer, TypeOK
    <3>2. CASE Refuse(c)
      BY <3>2 DEF Refuse, Incident, TypeOK
    <3> QED
      BY <1>6, <3>1, <3>2
  <2> QED
    BY <2>2, <2>4, <2>5 DEF Replies, TypeOK
<1> QED
  BY <1>1, <1>2, <1>3, <1>4, <1>5, <1>6

LEMMA ConnectionTypes ==
    ASSUME TypeOK, Disconnect \/ Reconnect
    PROVE  TypeOK'
<1>1. CASE Disconnect
  <2>1. ASSUME NEW c \in CallIds PROVE CutOff(c) \in CallType
    BY CallIsTyped, NoneIsTyped DEF CutOff, CallType
  <2>2. calls' \in [CallIds -> CallType]
    BY <1>1, <2>1 DEF Disconnect, TypeOK
  <2>3. switches' \in Seq(SwitchType) /\ Len(switches') = generation
    <3>1. ASSUME NEW g \in 1 .. generation PROVE [switches[g] EXCEPT !.at = "failed"] \in SwitchType
      BY SwitchIsTyped DEF SwitchType
    <3>2. PICK P : switches' = [g \in 1 .. generation |->
                         IF g \in P THEN [switches[g] EXCEPT !.at = "failed"] ELSE switches[g]]
      <4> DEFINE ended == {c \in CallIds : AtHost(c) /\ calls'[c] = None}
                 cut == {c \in ended : ~Once(c) /\ Current(calls[c].by)}
                 P == {g \in 1 .. generation : \E c \in cut : calls[c].by = g}
      <4>1. switches' = [g \in 1 .. generation |->
                IF \E c \in cut : calls[c].by = g THEN [switches[g] EXCEPT !.at = "failed"] ELSE switches[g]]
        BY <1>1 DEF Disconnect
      <4> HIDE DEF cut
      <4>2. \A g \in 1 .. generation : g \in P <=> \E c \in cut : calls[c].by = g
        OBVIOUS
      <4> HIDE DEF P
      <4>3. switches' = [g \in 1 .. generation |-> IF g \in P THEN [switches[g] EXCEPT !.at = "failed"] ELSE switches[g]]
        BY <4>1, <4>2
      <4> QED
        BY <4>3
    <3>3. \A g \in 1 .. generation : switches'[g] \in SwitchType
      BY <3>1, <3>2, SwitchIsTyped
    <3>4. generation \in Nat
      BY DEF generation, TypeOK
    <3>5. switches' \in [1 .. generation -> SwitchType]
      BY <3>2, <3>3
    <3> HIDE DEF generation
    <3> QED
      BY <3>4, <3>5
  <2>4. /\ bus' = <<>> /\ wire' = <<>> /\ connected' = FALSE /\ UNCHANGED <<log, target, store>>
        /\ snapshotInFlight' \in BOOLEAN /\ shown' \subseteq shown \cup {Error}
        /\ status' \in {"connected", "disconnected"} /\ incidents' = incidents + 1
    BY <1>1 DEF Disconnect, Incident, TypeOK
  <2>5. bus' \in Seq(EventType) /\ wire' \in Seq(FrameType)
    BY <2>4
  <2>6. shown' \subseteq Sessions \cup {Error}
    BY <2>4 DEF TypeOK
  <2>7. switches' \in Seq(SwitchType) /\ generation' <= MaxSwitches
    BY <2>3 DEF TypeOK, generation
  <2>8. incidents' \in Nat /\ log' \in [Sessions -> Nat] /\ target' \in Sessions /\ store' \in StoreType
    BY <2>4 DEF TypeOK
  <2>9. connected' \in BOOLEAN /\ status' \in {"loading", "working", "connected", "disconnected"}
    BY <2>4
  <2> QED
    BY <2>2, <2>4, <2>5, <2>6, <2>7, <2>8, <2>9 DEF TypeOK
<1>2. CASE Reconnect
  <2>1. calls' \in [CallIds -> CallType]
    BY <1>2, SentIsTyped DEF Reconnect, TypeOK
  <2> QED
    BY <1>2, <2>1 DEF Reconnect, TypeOK, generation
<1> QED
  BY <1>1, <1>2

LEMMA FailedTyped ==
    ASSUME TypeOK, NEW g, NEW at \in {"loading", "adopting", "over", "failed"}
    PROVE  [switches EXCEPT ![g].at = at] \in Seq(SwitchType) /\ Len([switches EXCEPT ![g].at = at]) = generation
<1>1. CASE g \in 1 .. generation
  <2>1. [switches[g] EXCEPT !.at = at] \in SwitchType
    BY <1>1, SwitchIsTyped DEF SwitchType
  <2> QED
    BY <1>1, <2>1 DEF TypeOK, generation
<1>2. CASE g \notin 1 .. generation
  <2>1. [switches EXCEPT ![g].at = at] = switches
    BY <1>2 DEF TypeOK, generation
  <2> QED
    BY <2>1 DEF TypeOK, generation
<1> QED
  BY <1>1, <1>2

LEMMA HydrationTypes ==
    ASSUME TypeOK, NEW c \in CallIds,
           \/ ReceiveSnapshot(c) \/ ReceiveStaleSnapshot(c) \/ ReceiveRefusal(c)
           \/ Restored(c) \/ RestoreFails(c)
    PROVE  TypeOK'
<1>1. calls[c] \in CallType /\ Over(c) \in [CallIds -> CallType]
  BY CallIsTyped, OverTyped
<1>2. CASE ReceiveSnapshot(c)
  <2> DEFINE call == [None EXCEPT !.at = "restoring", !.by = calls[c].by,
                                  !.session = calls[c].session, !.retried = calls[c].retried]
             kept == [sequence |-> calls[c].sequence, snapshotRequired |-> FALSE,
                      lifecycle |-> Lifecycle(calls[c].sequence)]
  <2>1. call \in CallType
    BY <1>1, NoneIsTyped DEF CallType, None
  <2>2. kept \in StoreType
    BY <1>1, LifecycleIsTyped DEF CallType, StoreType
  <2>3. calls' = [calls EXCEPT ![c] = call] /\ store' = kept
    BY <1>2 DEF ReceiveSnapshot, HydrateFromSnapshot
  <2> HIDE DEF call, kept
  <2>4. calls' \in [CallIds -> CallType] /\ store' \in StoreType
    BY <2>1, <2>2, <2>3 DEF TypeOK
  <2>5. wire' \in Seq(FrameType)
    BY <1>2, TookTyped DEF ReceiveSnapshot
  <2>6. shown' \subseteq Sessions \cup {Error}
    BY <1>1, <1>2 DEF ReceiveSnapshot, HydrateFromSnapshot, CallType
  <2>7. /\ UNCHANGED <<log, bus, connected, target, switches, incidents, snapshotInFlight>>
        /\ status' \in {"working", "connected"}
    BY <1>2 DEF ReceiveSnapshot, HydrateFromSnapshot
  <2> QED
    BY <2>4, <2>5, <2>6, <2>7 DEF TypeOK, generation
<1>3. CASE ReceiveStaleSnapshot(c)
  <2>1. wire' \in Seq(FrameType) /\ calls' \in [CallIds -> CallType]
    BY <1>1, <1>3, TookTyped DEF ReceiveStaleSnapshot
  <2> QED
    BY <1>3, <2>1 DEF ReceiveStaleSnapshot, Released, TypeOK, generation
<1>4. CASE ReceiveRefusal(c)
  <2>1. wire' \in Seq(FrameType) /\ calls' \in [CallIds -> CallType]
    BY <1>1, <1>4, TookTyped DEF ReceiveRefusal
  <2>2. switches' \in Seq(SwitchType) /\ Len(switches') = generation
    <3>1. switches' = switches \/ \E g : switches' = [switches EXCEPT ![g].at = "failed"]
      BY <1>4 DEF ReceiveRefusal, Degraded
    <3> QED
      BY <3>1, FailedTyped DEF TypeOK, generation
  <2>3. /\ UNCHANGED <<log, bus, connected, target, store, incidents>>
        /\ shown' \subseteq shown \cup {Error}
        /\ status' \in {status, "connected", "disconnected"} /\ snapshotInFlight' \in {FALSE, snapshotInFlight}
    BY <1>4 DEF ReceiveRefusal, Degraded, ShowError, Released
  <2>4. shown' \subseteq Sessions \cup {Error} /\ snapshotInFlight' \in BOOLEAN
    BY <2>3 DEF TypeOK
  <2> QED
    BY <2>1, <2>2, <2>3, <2>4 DEF TypeOK, generation
<1>5. CASE Restored(c)
  BY <1>1, <1>5 DEF Restored, Released, TypeOK, generation
<1>6. CASE RestoreFails(c)
  <2>1. [calls[c] EXCEPT !.at = "reconnecting"] \in CallType
    BY <1>1 DEF CallType
  <2>2. calls' = Over(c) \/ calls' = [calls EXCEPT ![c] = [calls[c] EXCEPT !.at = "reconnecting"]]
    BY <1>6 DEF RestoreFails
  <2>3. calls' \in [CallIds -> CallType]
    BY <1>1, <2>1, <2>2 DEF TypeOK
  <2>4. /\ UNCHANGED <<log, bus, wire, connected, target, store, switches, incidents>>
        /\ shown' \subseteq shown \cup {Error}
        /\ status' \in {status, "connected", "disconnected"} /\ snapshotInFlight' \in {FALSE, snapshotInFlight}
    BY <1>6 DEF RestoreFails, ShowError, Released
  <2>5. shown' \subseteq Sessions \cup {Error} /\ snapshotInFlight' \in BOOLEAN
    BY <2>4 DEF TypeOK
  <2> QED
    BY <2>3, <2>4, <2>5 DEF TypeOK, generation
<1> QED
  BY <1>2, <1>3, <1>4, <1>5, <1>6

LEMMA EventTypes ==
    ASSUME TypeOK, ReceiveBackgroundEvent \/ ReceiveEvent \/ ReceiveGap
    PROVE  TypeOK'
<1>1. wire' \in Seq(FrameType) /\ Head(wire) \in FrameType
  BY TookTyped DEF ReceiveBackgroundEvent, ReceiveEvent, ReceiveGap
<1>2. Reduced(Head(wire).number) \in StoreType
  <2> DEFINE n == Head(wire).number
  <2>1. n \in Nat
    BY <1>1 DEF FrameType
  <2> HIDE DEF n
  <2>2. Reduced(n) \in StoreType
    BY <2>1, LifecycleIsTyped DEF Reduced, StoreType, TypeOK
  <2> QED
    BY <2>2 DEF n
<1>3. CASE ReceiveBackgroundEvent
  BY <1>1, <1>3 DEF ReceiveBackgroundEvent, pageVars, TypeOK, generation
<1>4. CASE ReceiveEvent
  <2>1. /\ store' = Reduced(Head(wire).number) /\ status' \in {"working", "connected"}
        /\ shown' = shown \cup {target}
        /\ UNCHANGED <<log, bus, connected, target, snapshotInFlight, calls, switches, incidents>>
    BY <1>4 DEF ReceiveEvent
  <2> QED
    BY <1>1, <1>2, <2>1 DEF TypeOK, generation
<1>5. CASE ReceiveGap
  <2>1. /\ store' = Reduced(Head(wire).number) /\ HydrateSnapshotOnce
        /\ UNCHANGED <<log, bus, connected, target, status, shown, switches, incidents>>
    BY <1>5 DEF ReceiveGap
  <2> QED
    BY <1>1, <1>2, <2>1, HydrateTyped DEF TypeOK, generation
<1> QED
  BY <1>3, <1>4, <1>5

LEMMA SwitchTypes ==
    ASSUME TypeOK,
           \/ \E s \in Sessions : SwitchSession(s)
           \/ \E g \in 1 .. generation : \/ DiskRead(g) \/ DiskReadFails(g) \/ Bootstrapped(g)
                                         \/ BootstrapFails(g) \/ Adopted(g)
    PROVE  TypeOK'
<1>1. ASSUME NEW s \in Sessions, SwitchSession(s) PROVE TypeOK'
  <2>1. [session |-> s, at |-> "loading", disk |-> FALSE, bootstrap |-> FALSE] \in SwitchType
    BY DEF SwitchType
  <2>2. switches' \in Seq(SwitchType) /\ Len(switches') = generation + 1
    BY <1>1, <2>1 DEF SwitchSession, TypeOK, generation
  <2>3. generation' <= MaxSwitches
    BY <1>1, <2>2, BoundsAssumption DEF SwitchSession, TypeOK, generation
  <2> QED
    BY <1>1, <2>2, <2>3 DEF SwitchSession, TypeOK
<1>2. ASSUME NEW g \in 1 .. generation,
             DiskRead(g) \/ DiskReadFails(g) \/ Bootstrapped(g)
      PROVE  TypeOK'
  <2>1. /\ [switches[g] EXCEPT !.disk = TRUE] \in SwitchType
        /\ [switches[g] EXCEPT !.bootstrap = TRUE] \in SwitchType
    BY SwitchIsTyped DEF SwitchType
  <2>2. PICK run \in SwitchType : Loaded(g, run)
    BY <1>2, <2>1 DEF DiskRead, DiskReadFails, Bootstrapped
  <2>3. shown' \subseteq Sessions \cup {Error}
    BY <1>2, SwitchIsTyped DEF DiskRead, DiskReadFails, Bootstrapped, Rendered, SwitchType, TypeOK
  <2>4. UNCHANGED <<log, bus, wire, connected, status, calls>>
    BY <1>2 DEF DiskRead, DiskReadFails, Bootstrapped
  <2>5. incidents' \in Nat
    <3>1. incidents' = incidents \/ incidents' = incidents + 1
      BY <1>2 DEF DiskRead, DiskReadFails, Bootstrapped, Incident
    <3> QED
      BY <3>1 DEF TypeOK
  <2>6. switches' \in Seq(SwitchType) /\ generation' <= MaxSwitches
    BY <2>2, LoadedTyped DEF TypeOK, generation
  <2> QED
    BY <2>2, <2>3, <2>4, <2>5, <2>6, LoadedTyped DEF TypeOK
<1>3. ASSUME NEW g \in 1 .. generation, BootstrapFails(g) PROVE TypeOK'
  <2>1. switches' \in Seq(SwitchType) /\ generation' <= MaxSwitches
    BY <1>3, FailedTyped DEF BootstrapFails, TypeOK, generation
  <2>2. /\ UNCHANGED <<log, bus, wire, connected, target, store, snapshotInFlight, calls>>
        /\ shown' = shown \cup {Error} /\ status' = "disconnected" /\ incidents' = incidents + 1
    BY <1>3 DEF BootstrapFails, ShowError, Incident
  <2> QED
    BY <2>1, <2>2 DEF TypeOK
<1>4. ASSUME NEW g \in 1 .. generation, Adopted(g) PROVE TypeOK'
  <2>1. Sent(g, target, FALSE) \in CallType
    <3>1. g \in Nat
      BY DEF generation, TypeOK
    <3> QED
      BY <3>1, SentIsTyped DEF TypeOK
  <2>2. calls' \in [CallIds -> CallType]
    BY <1>4, <2>1 DEF Adopted, TypeOK
  <2>3. switches' \in Seq(SwitchType) /\ generation' <= MaxSwitches
    <3>1. PICK at \in {"over", "failed"} : switches' = [switches EXCEPT ![g].at = at]
      BY <1>4 DEF Adopted
    <3> QED
      BY <3>1, FailedTyped DEF TypeOK, generation
  <2>4. /\ UNCHANGED <<log, bus, wire, connected, target, store, snapshotInFlight, shown, incidents>>
        /\ status' = "connected"
    BY <1>4 DEF Adopted
  <2> QED
    BY <2>2, <2>3, <2>4 DEF TypeOK
<1> QED
  BY <1>1, <1>2, <1>3, <1>4

LEMMA InitTypes == Init => TypeOK
<1> SUFFICES ASSUME Init PROVE TypeOK
  OBVIOUS
<1>1. calls \in [CallIds -> CallType]
  <2>1. \A c \in CallIds : calls[c] \in CallType
    BY SentIsTyped, NoneIsTyped, ViewAssumption DEF Init
  <2> QED
    BY <2>1 DEF Init
<1>2. store \in StoreType
  BY DEF Init, StoreType
<1>3. switches \in Seq(SwitchType) /\ generation <= MaxSwitches
  BY BoundsAssumption DEF Init, generation
<1>4. log \in [Sessions -> Nat]
  BY ViewAssumption DEF Init
<1>5. bus \in Seq(EventType) /\ wire \in Seq(FrameType)
  BY DEF Init
<1>6. target \in Sessions /\ shown \subseteq Sessions \cup {Error}
  BY ViewAssumption DEF Init
<1> QED
  BY <1>1, <1>2, <1>3, <1>4, <1>5, <1>6 DEF Init, TypeOK

LEMMA NextTypes == TypeOK /\ [Next]_vars => TypeOK'
<1> SUFFICES ASSUME TypeOK, [Next]_vars PROVE TypeOK'
  OBVIOUS
<1>1. CASE UNCHANGED vars
  BY <1>1 DEF vars, pageVars, TypeOK, generation
<1>2. CASE Next
  BY <1>2, HostTypes, ConnectionTypes, HydrationTypes, EventTypes, SwitchTypes
  DEF Next, HostAnswers, PageReceives, SwitchGoesOn
<1> QED
  BY <1>1, <1>2

-----------------------------------------------------------------------------
(* The invariants.                                                           *)

\* An answer or a refusal that is on its way is that of a call which waits for it.
FramesAreOfCalls ==
    \A i \in DOMAIN wire : wire[i].type # "event" =>
        /\ wire[i].call \in CallIds
        /\ calls[wire[i].call].at = (IF wire[i].type = "snapshot" THEN "answered" ELSE "refused")
        /\ \A j \in DOMAIN wire : wire[j].type # "event" /\ wire[j].call = wire[i].call => i = j

\* Only a hydration waits for the connection; a switch that has made its call is through.
CallsAreOfSwitches ==
    \A c \in CallIds :
        /\ calls[c].at = "reconnecting" => calls[c].by = 0
        /\ calls[c].by # 0 =>
              calls[c].by \in 1 .. generation /\ switches[calls[c].by].at \in {"over", "failed"}

\* Two hydrations run only where a switch was adopted between their beginnings:
\* it took the flag down.  So a free call is left for whoever finds it down.
Onces == {c \in CallIds : Once(c)}
BySwitch == {c \in CallIds : calls[c].by # 0}
Left == {g \in 1 .. generation : switches[g].at # "loading"}
Through == {g \in 1 .. generation : switches[g].at \in {"over", "failed"}}

OncesAreBounded == Cardinality(Onces) <= Cardinality(Left) + IF snapshotInFlight THEN 1 ELSE 0
BySwitchIsBounded == Cardinality(BySwitch) <= Cardinality(Through)
CallsAreBounded == OncesAreBounded /\ BySwitchIsBounded

\* The page's session is that of the last switch from its adoption on.
LastIsAdopted ==
    generation > 0 /\ switches[generation].at \in {"adopting", "over"} =>
        target = switches[generation].session /\ switches[generation].disk

\* Also when it fails afterwards, and so is its call.
LastCallIsOfTheTarget ==
    \A c \in CallIds : calls[c].by # 0 /\ calls[c].by = generation => calls[c].session = target

\* Its history is shown once its call is answered.
LastIsAnswered ==
    /\ generation = 0 \/ switches[generation].at = "over"
    /\ \A c \in CallIds : calls[c].by # 0 /\ calls[c].by = generation => ~AtHost(c)

HistoryFollows == LastIsAnswered => shown \ {Error} = {target}

\* All of them but what is said of the frames.
CallsAreInStep ==
    /\ CallsAreOfSwitches /\ CallsAreBounded /\ LastIsAdopted /\ LastCallIsOfTheTarget
    /\ HistoryFollows /\ HydrationIsNeverBlocked

ViewInvariant == TypeOK /\ FramesAreOfCalls /\ CallsAreInStep

-----------------------------------------------------------------------------
(* Counting calls.                                                           *)

LEMMA CallsAreFinite == IsFiniteSet(CallIds) /\ Cardinality(CallIds) = 2 * MaxSwitches + 1
<1> DEFINE n == 2 * MaxSwitches + 1
<1>1. n \in Nat /\ CallIds = 1 .. n
  BY BoundsAssumption DEF CallIds
<1> HIDE DEF n
<1>2. IsFiniteSet(1 .. n) /\ Cardinality(1 .. n) = n
  BY <1>1, FS_Interval
<1> QED
  BY <1>1, <1>2 DEF n

LEMMA SwitchesAreFinite ==
    ASSUME TypeOK
    PROVE  /\ IsFiniteSet(1 .. generation) /\ Cardinality(1 .. generation) = generation
           /\ generation \in Nat
<1>1. generation \in Nat
  BY DEF TypeOK, generation
<1> QED
  BY <1>1, FS_Interval

LEMMA PartsAreFinite ==
    ASSUME TypeOK
    PROVE  /\ IsFiniteSet(Onces) /\ Cardinality(Onces) \in Nat
           /\ IsFiniteSet(BySwitch) /\ Cardinality(BySwitch) \in Nat
           /\ IsFiniteSet(Left) /\ Cardinality(Left) \in Nat
           /\ IsFiniteSet(Through) /\ Cardinality(Through) \in Nat
<1>1. Onces \subseteq CallIds /\ BySwitch \subseteq CallIds
  BY DEF Onces, BySwitch
<1>2. Left \subseteq 1 .. generation /\ Through \subseteq 1 .. generation
  BY DEF Left, Through
<1>3. IsFiniteSet(Onces) /\ IsFiniteSet(BySwitch)
  BY <1>1, CallsAreFinite, FS_Subset
<1>4. IsFiniteSet(Left) /\ IsFiniteSet(Through)
  BY <1>2, SwitchesAreFinite, FS_Subset
<1> QED
  BY <1>3, <1>4, FS_CardinalityType

\* The same of the next state.
LEMMA PartsStayFinite ==
    ASSUME TypeOK'
    PROVE  /\ IsFiniteSet(Onces') /\ Cardinality(Onces') \in Nat
           /\ IsFiniteSet(BySwitch') /\ Cardinality(BySwitch') \in Nat
           /\ IsFiniteSet(Left') /\ Cardinality(Left') \in Nat
           /\ IsFiniteSet(Through') /\ Cardinality(Through') \in Nat
<1> DEFINE n == generation'
<1>1. Onces' \subseteq CallIds /\ BySwitch' \subseteq CallIds
  BY DEF Onces, BySwitch
<1>2. n \in Nat /\ Left' \subseteq 1 .. n /\ Through' \subseteq 1 .. n
  BY DEF Left, Through, TypeOK, generation
<1> HIDE DEF n
<1>3. IsFiniteSet(1 .. n)
  BY <1>2, FS_Interval
<1>4. IsFiniteSet(Onces') /\ IsFiniteSet(BySwitch')
  BY <1>1, CallsAreFinite, FS_Subset
<1>5. IsFiniteSet(Left') /\ IsFiniteSet(Through')
  BY <1>2, <1>3, FS_Subset
<1> QED
  BY <1>4, <1>5, FS_CardinalityType

LEMMA Grown ==
    ASSUME NEW S, NEW T, NEW x, IsFiniteSet(S), T \subseteq S \cup {x}
    PROVE  IsFiniteSet(T) /\ Cardinality(T) \in Nat /\ Cardinality(T) <= Cardinality(S) + 1
<1>1. IsFiniteSet(S \cup {x}) /\ Cardinality(S \cup {x}) <= Cardinality(S) + 1
      /\ Cardinality(S \cup {x}) \in Nat /\ Cardinality(S) \in Nat
  BY FS_AddElement, FS_CardinalityType
<1>2. IsFiniteSet(T) /\ Cardinality(T) <= Cardinality(S \cup {x})
  BY <1>1, FS_Subset
<1> QED
  BY <1>1, <1>2, FS_CardinalityType

LEMMA OncesKept ==
    ASSUME TypeOK, TypeOK', OncesAreBounded, Onces' \subseteq Onces, Left \subseteq Left',
           snapshotInFlight' = snapshotInFlight
    PROVE  OncesAreBounded'
<1>1. /\ Cardinality(Onces') <= Cardinality(Onces) /\ Cardinality(Left) <= Cardinality(Left')
      /\ Cardinality(Onces') \in Nat /\ Cardinality(Onces) \in Nat
      /\ Cardinality(Left') \in Nat /\ Cardinality(Left) \in Nat
  BY PartsAreFinite, PartsStayFinite, FS_Subset
<1> QED
  BY <1>1 DEF OncesAreBounded

LEMMA OncesReleased ==
    ASSUME TypeOK, TypeOK', OncesAreBounded, NEW c \in Onces, Onces' \subseteq Onces \ {c},
           Left \subseteq Left'
    PROVE  OncesAreBounded'
<1>1. /\ Cardinality(Left) <= Cardinality(Left')
      /\ Cardinality(Onces') \in Nat /\ Cardinality(Onces) \in Nat
      /\ Cardinality(Left') \in Nat /\ Cardinality(Left) \in Nat
  BY PartsAreFinite, PartsStayFinite, FS_Subset
<1>2. Cardinality(Onces \ {c}) = Cardinality(Onces) - 1 /\ IsFiniteSet(Onces \ {c})
  BY PartsAreFinite, FS_RemoveElement
<1>3. Cardinality(Onces') <= Cardinality(Onces \ {c})
  BY <1>2, FS_Subset
<1> QED
  BY <1>1, <1>2, <1>3 DEF OncesAreBounded

LEMMA OncesBegun ==
    ASSUME TypeOK, TypeOK', OncesAreBounded, NEW c, Onces' \subseteq Onces \cup {c},
           Left \subseteq Left', ~snapshotInFlight, snapshotInFlight'
    PROVE  OncesAreBounded'
<1>1. /\ Cardinality(Left) <= Cardinality(Left')
      /\ Cardinality(Onces') \in Nat /\ Cardinality(Onces) \in Nat
      /\ Cardinality(Left') \in Nat /\ Cardinality(Left) \in Nat
  BY PartsAreFinite, PartsStayFinite, FS_Subset
<1>2. Cardinality(Onces') <= Cardinality(Onces) + 1
  BY PartsAreFinite, Grown
<1> QED
  BY <1>1, <1>2 DEF OncesAreBounded

LEMMA OncesLeft ==
    ASSUME TypeOK, TypeOK', OncesAreBounded, Onces' \subseteq Onces,
           NEW g \in Left', g \notin Left, Left \subseteq Left'
    PROVE  OncesAreBounded'
<1>1. /\ Cardinality(Onces') <= Cardinality(Onces)
      /\ Cardinality(Onces') \in Nat /\ Cardinality(Onces) \in Nat
      /\ Cardinality(Left') \in Nat /\ Cardinality(Left) \in Nat
  BY PartsAreFinite, PartsStayFinite, FS_Subset
<1>2. Cardinality(Left) <= Cardinality(Left' \ {g})
  BY PartsAreFinite, PartsStayFinite, FS_Subset, FS_RemoveElement
<1>3. Cardinality(Left' \ {g}) = Cardinality(Left') - 1
  BY PartsStayFinite, FS_RemoveElement
<1> QED
  BY <1>1, <1>2, <1>3 DEF OncesAreBounded

LEMMA BySwitchKept ==
    ASSUME TypeOK, TypeOK', BySwitchIsBounded, BySwitch' \subseteq BySwitch, Through \subseteq Through'
    PROVE  BySwitchIsBounded'
<1>1. /\ Cardinality(BySwitch') <= Cardinality(BySwitch) /\ Cardinality(Through) <= Cardinality(Through')
      /\ Cardinality(BySwitch') \in Nat /\ Cardinality(BySwitch) \in Nat
      /\ Cardinality(Through') \in Nat /\ Cardinality(Through) \in Nat
  BY PartsAreFinite, PartsStayFinite, FS_Subset
<1> QED
  BY <1>1 DEF BySwitchIsBounded

LEMMA BySwitchBegun ==
    ASSUME TypeOK, TypeOK', BySwitchIsBounded, NEW c, BySwitch' \subseteq BySwitch \cup {c},
           NEW g \in Through', g \notin Through, Through \subseteq Through'
    PROVE  BySwitchIsBounded'
<1>1. /\ Cardinality(BySwitch') \in Nat /\ Cardinality(BySwitch) \in Nat
      /\ Cardinality(Through') \in Nat /\ Cardinality(Through) \in Nat
  BY PartsAreFinite, PartsStayFinite
<1>2. Cardinality(BySwitch') <= Cardinality(BySwitch) + 1
  BY PartsAreFinite, Grown
<1>3. Cardinality(Through) <= Cardinality(Through' \ {g})
  BY PartsStayFinite, FS_Subset, FS_RemoveElement
<1>4. Cardinality(Through' \ {g}) = Cardinality(Through') - 1
  BY PartsStayFinite, FS_RemoveElement
<1> QED
  BY <1>1, <1>2, <1>3, <1>4 DEF BySwitchIsBounded

\* Who needs a call finds a free one.
LEMMA ACallIsFree ==
    ASSUME TypeOK, CallsAreBounded,
           ~snapshotInFlight \/ \E g \in 1 .. generation : switches[g].at = "adopting"
    PROVE  FreeCall \in CallIds /\ calls[FreeCall].at = "none"
<1> SUFFICES ASSUME \A c \in CallIds : calls[c].at # "none" PROVE FALSE
  BY DEF FreeCall
<1>1. CallIds \subseteq Onces \cup BySwitch
  BY CallIsTyped DEF Onces, BySwitch, Once, CallType
<1>2. Cardinality(CallIds) <= Cardinality(Onces \cup BySwitch)
  BY <1>1, PartsAreFinite, FS_Union, FS_Subset
<1>3. Cardinality(Onces \cup BySwitch) <= Cardinality(Onces) + Cardinality(BySwitch)
  <2>1. Cardinality(Onces \cup BySwitch) =
          Cardinality(Onces) + Cardinality(BySwitch) - Cardinality(Onces \cap BySwitch)
    BY PartsAreFinite, FS_Union
  <2>2. Cardinality(Onces \cap BySwitch) \in Nat
    BY PartsAreFinite, FS_Subset, FS_CardinalityType
  <2> QED
    BY <2>1, <2>2, PartsAreFinite
<1>4. Cardinality(Left) <= generation /\ Cardinality(Through) <= generation
  BY SwitchesAreFinite, FS_Subset DEF Left, Through
<1>5. ASSUME NEW g \in 1 .. generation, switches[g].at = "adopting"
      PROVE  Cardinality(Through) <= generation - 1
  <2>1. Through \subseteq (1 .. generation) \ {g}
    BY <1>5 DEF Through
  <2>2. IsFiniteSet((1 .. generation) \ {g}) /\ Cardinality((1 .. generation) \ {g}) = generation - 1
    BY SwitchesAreFinite, FS_RemoveElement
  <2>3. Cardinality(Through) <= Cardinality((1 .. generation) \ {g})
    BY <2>1, <2>2, FS_Subset
  <2> QED
    BY <2>2, <2>3
<1>6. generation <= MaxSwitches /\ generation \in Nat /\ MaxSwitches \in Nat
  BY SwitchesAreFinite, BoundsAssumption DEF TypeOK
<1>7. Cardinality(Onces \cup BySwitch) \in Nat
  BY PartsAreFinite, FS_Union, FS_CardinalityType
<1> HIDE DEF generation
<1>8. CASE ~snapshotInFlight
  BY <1>2, <1>3, <1>4, <1>6, <1>7, <1>8, CallsAreFinite, PartsAreFinite
  DEF CallsAreBounded, OncesAreBounded, BySwitchIsBounded
<1>9. CASE \E g \in 1 .. generation : switches[g].at = "adopting"
  <2>1. Cardinality(Through) <= generation - 1
    BY <1>5, <1>9
  <2> QED
    BY <1>2, <1>3, <1>4, <1>6, <1>7, <2>1, CallsAreFinite, PartsAreFinite
    DEF CallsAreBounded, OncesAreBounded, BySwitchIsBounded
<1> QED
  BY <1>8, <1>9

-----------------------------------------------------------------------------
(* Steps.                                                                    *)

\* A step that begins and ends no call and leaves the switches alone.
KeepsCalls ==
    /\ UNCHANGED <<switches, target, snapshotInFlight>>
    /\ \A c \in CallIds :
         /\ calls'[c].by = calls[c].by /\ (Once(c)' <=> Once(c))
         /\ calls'[c].session = calls[c].session \/ (calls[c].by = 0 /\ calls'[c].session = target)
         /\ calls'[c].at = "reconnecting" => calls[c].by = 0
    /\ \/ shown' \ {Error} = {target}
       \/ /\ shown \ {Error} = {target} => shown' \ {Error} = {target}
          /\ \A c \in CallIds : calls[c].by # 0 /\ AtHost(c) => AtHost(c)'

LEMMA KeepsCallsStep ==
    ASSUME ViewInvariant, TypeOK', KeepsCalls
    PROVE  CallsAreInStep'
<1> USE DEF ViewInvariant, CallsAreInStep, KeepsCalls
<1>1. CallsAreOfSwitches'
  BY DEF CallsAreOfSwitches, generation
<1>2. CallsAreBounded'
  <2>1. Onces' = Onces
    BY DEF Onces
  <2>2. BySwitch' = BySwitch
    BY DEF BySwitch
  <2>3. Left' = Left /\ Through' = Through
    BY DEF Left, Through, generation
  <2> QED
    BY <2>1, <2>2, <2>3 DEF CallsAreBounded, OncesAreBounded, BySwitchIsBounded
<1>3. LastIsAdopted'
  BY DEF LastIsAdopted, generation
<1>4. LastCallIsOfTheTarget'
  BY DEF LastCallIsOfTheTarget, generation
<1>5. HistoryFollows'
  BY DEF HistoryFollows, LastIsAnswered, generation
<1>6. HydrationIsNeverBlocked'
  BY DEF HydrationIsNeverBlocked, Once
<1> QED
  BY <1>1, <1>2, <1>3, <1>4, <1>5, <1>6

\* A step that ends a call; a switch may fail with it.
EndsCall(c) ==
    /\ calls[c].at # "none"
    /\ calls' = Over(c) /\ Released(c) /\ target' = target
    /\ switches' = switches \/ \E g \in 1 .. generation : switches' = [switches EXCEPT ![g].at = "failed"]
    /\ shown' \ {Error} = shown \ {Error}
    /\ calls[c].by # 0 /\ calls[c].by = generation /\ AtHost(c) => switches'[generation].at = "failed"

SomeFail ==
    /\ generation' = generation
    /\ \A g \in 1 .. generation :
         /\ switches'[g].session = switches[g].session /\ switches'[g].disk = switches[g].disk
         /\ switches'[g].at \in {switches[g].at, "failed"}

\* A switch that fails keeps its place among the switches.
LEMMA FailingKeeps ==
    ASSUME TypeOK, switches' = switches \/ \E g \in 1 .. generation : switches' = [switches EXCEPT ![g].at = "failed"]
    PROVE  SomeFail /\ Left \subseteq Left' /\ Through \subseteq Through'
<1>1. generation' = generation
  BY DEF TypeOK, generation
<1>2. SomeFail
  <2>1. CASE switches' = switches
    BY <1>1, <2>1 DEF SomeFail
  <2>2. ASSUME NEW h \in 1 .. generation, switches' = [switches EXCEPT ![h].at = "failed"]
        PROVE  SomeFail
    <3> SUFFICES ASSUME NEW g \in 1 .. generation
                 PROVE  /\ switches'[g].session = switches[g].session /\ switches'[g].disk = switches[g].disk
                        /\ switches'[g].at \in {switches[g].at, "failed"}
      BY <1>1 DEF SomeFail
    <3>1. switches[g] \in SwitchType /\ g \in DOMAIN switches
      BY SwitchIsTyped DEF TypeOK, generation
    <3>2. switches'[g] = IF g = h THEN [switches[g] EXCEPT !.at = "failed"] ELSE switches[g]
      BY <2>2, <3>1
    <3> QED
      BY <3>1, <3>2 DEF SwitchType
  <2> QED
    BY <2>1, <2>2
<1> QED
  BY <1>1, <1>2 DEF Left, Through, SomeFail

LEMMA EndsCallStep ==
    ASSUME ViewInvariant, TypeOK', NEW c \in CallIds, EndsCall(c)
    PROVE  CallsAreInStep'
<1> USE DEF ViewInvariant, CallsAreInStep
<1>1. /\ generation' = generation
      /\ \A g \in 1 .. generation :
           /\ switches'[g].session = switches[g].session /\ switches'[g].disk = switches[g].disk
           /\ switches'[g].at \in {switches[g].at, "failed"}
      /\ Left \subseteq Left' /\ Through \subseteq Through'
  BY FailingKeeps DEF EndsCall, SomeFail
<1>2. /\ calls'[c] = None /\ \A d \in CallIds \ {c} : calls'[d] = calls[d]
      /\ target' = target
  BY DEF EndsCall, Over, TypeOK
<1>3. CallsAreOfSwitches'
  BY <1>1, <1>2 DEF CallsAreOfSwitches, None
<1>4. Onces' = Onces \ {c} /\ BySwitch' = BySwitch \ {c}
  BY <1>2 DEF Onces, Once, BySwitch, None
<1>5. OncesAreBounded'
  <2>1. CASE c \in Onces
    BY <1>1, <1>4, <2>1, OncesReleased DEF CallsAreBounded
  <2>2. CASE c \notin Onces
    <3>1. snapshotInFlight' = snapshotInFlight
      BY <2>2 DEF EndsCall, Released, Onces
    <3> QED
      BY <1>1, <1>4, <3>1, OncesKept DEF CallsAreBounded
  <2> QED
    BY <2>1, <2>2
<1>6. BySwitchIsBounded'
  BY <1>1, <1>4, BySwitchKept DEF CallsAreBounded
<1>7. LastIsAdopted'
  <2>1. generation \in Nat
    BY SwitchesAreFinite
  <2> QED
    BY <1>1, <1>2, <2>1 DEF LastIsAdopted
<1>8. LastCallIsOfTheTarget'
  BY <1>1, <1>2 DEF LastCallIsOfTheTarget, None
<1>9. HistoryFollows'
  <2> SUFFICES ASSUME LastIsAnswered' PROVE shown' \ {Error} = {target}
    BY <1>2 DEF HistoryFollows
  <2>1. generation \in Nat
    BY SwitchesAreFinite
  <2>2. generation = 0 \/ switches[generation].at = "over"
    BY <1>1, <2>1 DEF LastIsAnswered
  <2>3. \A d \in CallIds : calls[d].by # 0 /\ calls[d].by = generation => ~AtHost(d)
    BY <1>1, <1>2, <2>1 DEF LastIsAnswered, EndsCall, AtHost
  <2> QED
    BY <2>2, <2>3 DEF HistoryFollows, LastIsAnswered, EndsCall
<1>10. HydrationIsNeverBlocked'
  BY <1>2 DEF HydrationIsNeverBlocked, EndsCall, Released, Once
<1> QED
  BY <1>3, <1>5, <1>6, <1>7, <1>8, <1>9, <1>10 DEF CallsAreBounded

LEMMA HydrateStep ==
    ASSUME ViewInvariant, TypeOK', HydrateSnapshotOnce, UNCHANGED <<target, shown, switches>>
    PROVE  CallsAreInStep'
<1> USE DEF ViewInvariant, CallsAreInStep
<1>1. Left' = Left /\ Through' = Through /\ generation' = generation
  BY DEF Left, Through, generation
<1>2. CASE snapshotInFlight
  <2>1. calls' = calls /\ snapshotInFlight' = snapshotInFlight
    BY <1>2 DEF HydrateSnapshotOnce, TypeOK
  <2>2. KeepsCalls
    BY <2>1 DEF KeepsCalls, Once, AtHost, CallsAreOfSwitches
  <2> QED
    BY <2>2, KeepsCallsStep
<1>3. CASE ~snapshotInFlight
  <2> DEFINE c == FreeCall
  <2>1. c \in CallIds /\ calls[c].at = "none"
    BY <1>3, ACallIsFree
  <2> HIDE DEF c
  <2>2. /\ calls'[c].by = 0 /\ calls'[c].session = target /\ calls'[c].at \in {"sent", "reconnecting"}
        /\ \A d \in CallIds \ {c} : calls'[d] = calls[d]
        /\ snapshotInFlight' = TRUE
    BY <1>3, <2>1 DEF c, HydrateSnapshotOnce, Sent, None, TypeOK
  <2>3. CallsAreOfSwitches'
    BY <1>1, <2>2 DEF CallsAreOfSwitches
  <2>4. OncesAreBounded'
    <3>1. Onces' \subseteq Onces \cup {c}
      BY <2>2 DEF Onces, Once
    <3> QED
      BY <1>1, <1>3, <2>2, <3>1, OncesBegun DEF CallsAreBounded
  <2>5. BySwitchIsBounded'
    <3>1. BySwitch' \subseteq BySwitch
      BY <2>2 DEF BySwitch
    <3> QED
      BY <1>1, <3>1, BySwitchKept DEF CallsAreBounded
  <2>6. LastIsAdopted'
    BY <1>1 DEF LastIsAdopted
  <2>7. LastCallIsOfTheTarget'
    BY <1>1, <2>2 DEF LastCallIsOfTheTarget
  <2>8. HistoryFollows'
    <3> SUFFICES ASSUME LastIsAnswered' PROVE LastIsAnswered
      BY DEF HistoryFollows
    <3>1. ASSUME NEW d \in CallIds, calls[d].by # 0, calls[d].by = generation PROVE ~AtHost(d)
      <4>1. CASE d = c
        BY <2>1, <4>1 DEF AtHost
      <4>2. CASE d # c
        BY <1>1, <2>2, <3>1, <4>2 DEF LastIsAnswered, AtHost
      <4> QED
        BY <4>1, <4>2
    <3> QED
      BY <1>1, <3>1 DEF LastIsAnswered
  <2>9. HydrationIsNeverBlocked'
    BY <2>1, <2>2 DEF HydrationIsNeverBlocked, Once
  <2> QED
    BY <2>3, <2>4, <2>5, <2>6, <2>7, <2>8, <2>9 DEF CallsAreBounded
<1> QED
  BY <1>2, <1>3

\* The frames that are left belong to calls that did not move.
LEMMA FramesStay ==
    ASSUME TypeOK, FramesAreOfCalls,
           wire' = wire \/ wire' = <<>> \/ (wire # <<>> /\ wire' = Tail(wire)),
           \A i \in DOMAIN wire' : wire'[i].type # "event" =>
               calls'[wire'[i].call].at = calls[wire'[i].call].at
    PROVE  FramesAreOfCalls'
<1>1. CASE wire' = wire
  BY <1>1 DEF FramesAreOfCalls
<1>2. CASE wire' = <<>>
  BY <1>2 DEF FramesAreOfCalls
<1>3. CASE wire # <<>> /\ wire' = Tail(wire)
  <2>1. /\ \A i \in DOMAIN wire' : i + 1 \in DOMAIN wire /\ wire'[i] = wire[i + 1]
        /\ \A i, j \in DOMAIN wire' : i + 1 = j + 1 => i = j
    BY <1>3 DEF TypeOK
  <2> QED
    BY <2>1 DEF FramesAreOfCalls
<1> QED
  BY <1>1, <1>2, <1>3

LEMMA FramesGrow ==
    ASSUME TypeOK, FramesAreOfCalls, NEW frame, wire' = Append(wire, frame),
           \A i \in DOMAIN wire : wire[i].type # "event" =>
               calls'[wire[i].call].at = calls[wire[i].call].at,
           frame.type # "event" =>
               /\ frame.call \in CallIds
               /\ calls'[frame.call].at = (IF frame.type = "snapshot" THEN "answered" ELSE "refused")
               /\ calls[frame.call].at \notin {"answered", "refused"}
    PROVE  FramesAreOfCalls'
<1>1. wire \in Seq(FrameType)
  BY DEF TypeOK
<1>2. /\ DOMAIN wire' = DOMAIN wire \cup {Len(wire) + 1} /\ wire'[Len(wire) + 1] = frame
      /\ \A i \in DOMAIN wire : wire'[i] = wire[i]
  BY <1>1
<1>3. \A i \in DOMAIN wire : wire[i].type # "event" /\ frame.type # "event" => wire[i].call # frame.call
  BY DEF FramesAreOfCalls
<1> QED
  BY <1>2, <1>3 DEF FramesAreOfCalls

\* The calls that have a frame on its way do not move.
LEMMA FramesOfOthers ==
    ASSUME TypeOK, FramesAreOfCalls,
           wire' = wire \/ wire' = <<>> \/ (wire # <<>> /\ wire' = Tail(wire)),
           \A d \in CallIds : calls[d].at \in {"answered", "refused"} => calls'[d].at = calls[d].at
    PROVE  FramesAreOfCalls'
<1>1. \A i \in DOMAIN wire : wire[i].type # "event" => calls'[wire[i].call].at = calls[wire[i].call].at
  BY DEF FramesAreOfCalls
<1>2. \A i \in DOMAIN wire' : \E j \in DOMAIN wire : wire'[i] = wire[j]
  <2>1. CASE wire # <<>> /\ wire' = Tail(wire)
    <3>1. \A i \in DOMAIN wire' : i + 1 \in DOMAIN wire /\ wire'[i] = wire[i + 1]
      BY <2>1 DEF TypeOK
    <3> QED
      BY <3>1
  <2>2. CASE wire' = <<>>
    BY <2>2
  <2> QED
    BY <2>1, <2>2
<1> QED
  BY <1>1, <1>2, FramesStay

\* The call whose frame is taken is the only one that moves.
LEMMA FrameTaken ==
    ASSUME TypeOK, FramesAreOfCalls, NEW c \in CallIds, wire # <<>>, wire' = Tail(wire),
           Head(wire).type # "event", Head(wire).call = c,
           \A d \in CallIds \ {c} : calls'[d] = calls[d]
    PROVE  FramesAreOfCalls' /\ calls[c].at \in {"answered", "refused"}
<1>1. 1 \in DOMAIN wire /\ wire[1] = Head(wire)
  BY DEF TypeOK
<1>2. calls[c].at \in {"answered", "refused"}
  BY <1>1 DEF FramesAreOfCalls
<1>3. \A i \in DOMAIN wire' : i + 1 \in DOMAIN wire /\ i + 1 # 1 /\ wire'[i] = wire[i + 1]
  BY DEF TypeOK
<1>4. \A i \in DOMAIN wire' : wire'[i].type # "event" => wire'[i].call \in CallIds \ {c}
  BY <1>1, <1>3 DEF FramesAreOfCalls
<1> QED
  BY <1>2, <1>4, FramesStay

LEMMA HostInvariant ==
    ASSUME ViewInvariant, TypeOK',
           \/ \E s \in Sessions : Emit(s)
           \/ Forward \/ Lag
           \/ \E c \in CallIds : ReadState(c) \/ Answer(c) \/ Refuse(c)
    PROVE  ViewInvariant'
<1>1. TypeOK /\ FramesAreOfCalls /\ CallsAreOfSwitches
  BY DEF ViewInvariant, CallsAreInStep
<1>2. CASE Lag \/ Forward \/ \E s \in Sessions : Emit(s)
  <2>1. UNCHANGED pageVars
    BY <1>2 DEF Emit, Lag, Forward
  <2>2. KeepsCalls
    BY <1>1, <2>1 DEF KeepsCalls, pageVars, CallsAreOfSwitches, Once, AtHost
  <2>3. FramesAreOfCalls'
    <3>1. CASE Forward
      <4> DEFINE frame == [type |-> "event", call |-> 0, session |-> Head(bus).session, number |-> Head(bus).number]
      <4>1. wire' = Append(wire, frame) /\ frame.type = "event"
        BY <3>1 DEF Forward
      <4> HIDE DEF frame
      <4> QED
        BY <1>1, <2>1, <4>1, FramesGrow DEF pageVars
    <3>2. CASE Lag \/ \E s \in Sessions : Emit(s)
      <4>1. wire' = wire
        BY <3>2 DEF Lag, Emit
      <4> QED
        BY <1>1, <2>1, <4>1, FramesOfOthers DEF pageVars
    <3> QED
      BY <1>2, <3>1, <3>2
  <2> QED
    BY <2>2, <2>3, KeepsCallsStep DEF ViewInvariant
<1>3. ASSUME NEW c \in CallIds, ReadState(c) \/ Answer(c) \/ Refuse(c)
      PROVE  ViewInvariant'
  <2>1. PICK at \in {"stated", "answered", "refused"} :
           /\ calls'[c].at = at /\ calls'[c].by = calls[c].by /\ calls'[c].session = calls[c].session
           /\ \A d \in CallIds \ {c} : calls'[d] = calls[d]
    <3>1. calls[c] \in CallType /\ c \in DOMAIN calls
      BY <1>1, CallIsTyped DEF TypeOK
    <3>2. PICK call :
             /\ calls' = [calls EXCEPT ![c] = call]
             /\ call.at \in {"stated", "answered", "refused"}
             /\ call.by = calls[c].by /\ call.session = calls[c].session
      <4> DEFINE b == Lifecycle(log[calls[c].session]) = "working"
                 n == log[calls[c].session]
      <4>1. \/ calls' = [calls EXCEPT ![c] = [calls[c] EXCEPT !.at = "stated", !.streaming = b]]
            \/ calls' = [calls EXCEPT ![c] = [calls[c] EXCEPT !.at = "answered", !.sequence = n]]
            \/ calls' = [calls EXCEPT ![c] = [calls[c] EXCEPT !.at = "refused"]]
        BY <1>3 DEF ReadState, Answer, Refuse, Replies
      <4> HIDE DEF b, n
      <4> QED
        BY <3>1, <4>1 DEF CallType
    <3>3. \A d \in CallIds \ {c} : calls'[d] = calls[d]
      BY <1>1, <3>2 DEF TypeOK
    <3>4. /\ calls'[c].at \in {"stated", "answered", "refused"}
          /\ calls'[c].by = calls[c].by /\ calls'[c].session = calls[c].session
      BY <3>1, <3>2 DEF CallType
    <3> QED
      BY <3>3, <3>4
  <2>2. calls[c].at \in {"sent", "stated"}
    BY <1>3 DEF ReadState, Answer, Refuse
  <2>3. UNCHANGED <<target, snapshotInFlight, shown, switches>>
    BY <1>3 DEF ReadState, Answer, Refuse, Replies
  <2>4. KeepsCalls
    BY <1>1, <2>1, <2>2, <2>3 DEF KeepsCalls, CallsAreOfSwitches, Once, AtHost
  <2>5. FramesAreOfCalls'
    <3>1. \A i \in DOMAIN wire : wire[i].type # "event" => wire[i].call \in CallIds \ {c}
      BY <1>1, <2>2 DEF FramesAreOfCalls
    <3>2. CASE ReadState(c)
      <4>1. wire' = wire
        BY <3>2 DEF ReadState
      <4> QED
        BY <1>1, <2>1, <2>2, <4>1, FramesOfOthers
    <3>3. CASE Answer(c) \/ Refuse(c)
      <4>1. PICK type \in {"snapshot", "error"}, s \in {calls'[c].session} :
               /\ wire' = Append(wire, [type |-> type, call |-> c, session |-> s, number |-> 0])
               /\ calls'[c].at = IF type = "snapshot" THEN "answered" ELSE "refused"
        <5>1. c \in DOMAIN calls
          BY <1>1 DEF TypeOK
        <5>2. CASE Answer(c)
          BY <5>1, <5>2, CallIsTyped, <1>1 DEF Answer, Replies, CallType
        <5>3. CASE Refuse(c)
          BY <5>1, <5>3, CallIsTyped, <1>1 DEF Refuse, Replies, CallType
        <5> QED
          BY <3>3, <5>2, <5>3
      <4> DEFINE frame == [type |-> type, call |-> c, session |-> s, number |-> 0]
      <4>2. frame.type = type /\ frame.call = c /\ wire' = Append(wire, frame)
        BY <4>1
      <4> HIDE DEF frame
      <4> QED
        BY <1>1, <2>1, <2>2, <3>1, <4>1, <4>2, FramesGrow
    <3> QED
      BY <1>3, <3>2, <3>3
  <2> QED
    BY <2>4, <2>5, KeepsCallsStep DEF ViewInvariant
<1> QED
  BY <1>2, <1>3

LEMMA EventInvariant ==
    ASSUME ViewInvariant, TypeOK', ReceiveBackgroundEvent \/ ReceiveEvent \/ ReceiveGap \/ Refresh
    PROVE  ViewInvariant'
<1>1. TypeOK /\ FramesAreOfCalls /\ CallsAreOfSwitches /\ CallsAreBounded
  BY DEF ViewInvariant, CallsAreInStep
<1>2. CASE ReceiveBackgroundEvent \/ ReceiveEvent
  <2>1. UNCHANGED <<calls, switches, target, snapshotInFlight>> /\ wire # <<>> /\ wire' = Tail(wire)
    BY <1>2 DEF ReceiveBackgroundEvent, ReceiveEvent, pageVars, Took
  <2>2. shown' = shown \/ shown' = shown \cup {target}
    BY <1>2 DEF ReceiveBackgroundEvent, ReceiveEvent, pageVars
  <2>3. shown \ {Error} = {target} => shown' \ {Error} = {target}
    BY <2>2
  <2>4. KeepsCalls
    BY <1>1, <2>1, <2>3 DEF KeepsCalls, CallsAreOfSwitches, Once, AtHost
  <2> QED
    BY <1>1, <2>1, <2>4, FramesOfOthers, KeepsCallsStep DEF ViewInvariant
<1>3. CASE ReceiveGap \/ Refresh
  <2>1. /\ HydrateSnapshotOnce /\ UNCHANGED <<target, shown, switches>>
        /\ wire' = wire \/ (wire # <<>> /\ wire' = Tail(wire))
    BY <1>3 DEF ReceiveGap, Refresh, Took
  <2>2. \A d \in CallIds : calls[d].at \in {"answered", "refused"} => calls'[d].at = calls[d].at
    <3>1. CASE snapshotInFlight
      BY <2>1, <3>1 DEF HydrateSnapshotOnce
    <3>2. CASE ~snapshotInFlight
      <4> DEFINE c == FreeCall
      <4>1. c \in CallIds /\ calls[c].at = "none"
        BY <1>1, <3>2, ACallIsFree
      <4> HIDE DEF c
      <4>2. \A d \in CallIds \ {c} : calls'[d] = calls[d]
        BY <1>1, <2>1, <3>2, <4>1 DEF c, HydrateSnapshotOnce, TypeOK
      <4> QED
        BY <4>1, <4>2
    <3> QED
      BY <3>1, <3>2
  <2>3. FramesAreOfCalls'
    BY <1>1, <2>1, <2>2, FramesOfOthers
  <2> QED
    BY <2>1, <2>3, HydrateStep DEF ViewInvariant
<1> QED
  BY <1>2, <1>3

LEMMA HydrationInvariant ==
    ASSUME ViewInvariant, TypeOK', NEW c \in CallIds,
           \/ ReceiveSnapshot(c) \/ ReceiveStaleSnapshot(c) \/ ReceiveRefusal(c)
           \/ Restored(c) \/ RestoreFails(c)
    PROVE  ViewInvariant'
<1>1. TypeOK /\ FramesAreOfCalls /\ CallsAreOfSwitches /\ LastCallIsOfTheTarget /\ generation \in Nat
  BY SwitchesAreFinite DEF ViewInvariant, CallsAreInStep
<1>2. calls[c] \in CallType /\ c \in DOMAIN calls
  BY <1>1, CallIsTyped DEF TypeOK
<1>3. ASSUME \/ ReceiveSnapshot(c) \/ ReceiveStaleSnapshot(c) \/ ReceiveRefusal(c)
      PROVE  FramesAreOfCalls' /\ calls[c].at \in {"answered", "refused"}
  <2>1. \A d \in CallIds \ {c} : calls'[d] = calls[d]
    BY <1>1, <1>3 DEF ReceiveSnapshot, ReceiveStaleSnapshot, ReceiveRefusal, HydrateFromSnapshot, Over, TypeOK
  <2>2. wire # <<>> /\ wire' = Tail(wire) /\ Head(wire).type # "event" /\ Head(wire).call = c
    BY <1>3 DEF ReceiveSnapshot, ReceiveStaleSnapshot, ReceiveRefusal, Took
  <2> QED
    BY <1>1, <2>1, <2>2, FrameTaken
<1>4. CASE ReceiveSnapshot(c)
  <2>1. /\ calls'[c].at = "restoring" /\ calls'[c].by = calls[c].by /\ calls'[c].session = calls[c].session
        /\ \A d \in CallIds \ {c} : calls'[d] = calls[d]
    BY <1>1, <1>2, <1>4 DEF ReceiveSnapshot, HydrateFromSnapshot, None, TypeOK
  <2>2. UNCHANGED <<target, snapshotInFlight, switches>> /\ shown' = {calls[c].session} /\ StillWanted(c)
    BY <1>4 DEF ReceiveSnapshot, HydrateFromSnapshot
  <2>3. calls[c].session = target
    BY <1>1, <1>3, <1>4, <2>2 DEF StillWanted, Once, Current, LastCallIsOfTheTarget
  <2>4. shown' \ {Error} = {target}
    BY <1>1, <2>2, <2>3, ViewAssumption DEF TypeOK
  <2>5. KeepsCalls
    BY <1>1, <1>3, <1>4, <2>1, <2>2, <2>4 DEF KeepsCalls, CallsAreOfSwitches, Once
  <2> QED
    BY <1>3, <1>4, <2>5, KeepsCallsStep DEF ViewInvariant
<1>5. CASE ReceiveStaleSnapshot(c)
  <2>1. ~StillWanted(c) /\ calls' = Over(c) /\ Released(c) /\ UNCHANGED <<target, shown, switches>>
    BY <1>5 DEF ReceiveStaleSnapshot
  <2>2. EndsCall(c)
    BY <1>3, <1>5, <2>1 DEF EndsCall, StillWanted, Once, Current
  <2> QED
    BY <1>3, <1>5, <2>2, EndsCallStep DEF ViewInvariant
<1>6. CASE ReceiveRefusal(c)
  <2>1. calls' = Over(c) /\ Released(c) /\ target' = target /\ shown' \ {Error} = shown \ {Error}
    BY <1>6 DEF ReceiveRefusal, ShowError
  <2>2. CASE calls[c].by = 0
    <3>1. switches' = switches
      BY <1>3, <1>6, <2>2 DEF ReceiveRefusal, Once
    <3> QED
      BY <1>3, <1>6, <2>1, <2>2, <3>1, EndsCallStep DEF EndsCall, ViewInvariant
  <2>3. CASE calls[c].by # 0
    <3> DEFINE g == calls[c].by
    <3>1. g \in 1 .. generation
      BY <1>1, <2>3 DEF CallsAreOfSwitches
    <3>2. IF g = generation THEN switches' = [switches EXCEPT ![g].at = "failed"] ELSE switches' = switches
      BY <1>3, <1>6, <2>3 DEF ReceiveRefusal, Once, Degraded, Current
    <3> HIDE DEF g
    <3>3. g = generation => switches'[generation].at = "failed"
      BY <1>1, <3>1, <3>2, SwitchIsTyped DEF TypeOK, generation, SwitchType
    <3>4. EndsCall(c)
      BY <1>3, <1>6, <2>1, <3>1, <3>2, <3>3 DEF EndsCall, g
    <3> QED
      BY <1>3, <1>6, <3>4, EndsCallStep DEF ViewInvariant
  <2> QED
    BY <2>2, <2>3
<1>7. CASE Restored(c) \/ RestoreFails(c)
  <2>1. calls[c].at = "restoring" /\ wire' = wire /\ UNCHANGED <<target, switches>>
        /\ shown' \ {Error} = shown \ {Error}
    BY <1>7 DEF Restored, RestoreFails, ShowError
  <2>2. FramesAreOfCalls'
    <3>1. \A d \in CallIds \ {c} : calls'[d] = calls[d]
      BY <1>1, <1>7 DEF Restored, RestoreFails, Over, TypeOK
    <3> QED
      BY <1>1, <2>1, <3>1, FramesOfOthers
  <2>3. CASE calls' = Over(c) /\ Released(c)
    BY <2>1, <2>2, <2>3, EndsCallStep DEF EndsCall, AtHost, ViewInvariant
  <2>4. CASE Once(c) /\ calls' = [calls EXCEPT ![c].at = "reconnecting"] /\ snapshotInFlight' = snapshotInFlight
    <3>1. /\ calls'[c].at = "reconnecting" /\ calls'[c].by = calls[c].by /\ calls'[c].session = calls[c].session
          /\ \A d \in CallIds \ {c} : calls'[d] = calls[d]
      BY <1>1, <1>2, <2>4 DEF CallType, TypeOK
    <3>2. KeepsCalls
      BY <1>1, <2>1, <2>4, <3>1 DEF KeepsCalls, CallsAreOfSwitches, Once, AtHost
    <3> QED
      BY <2>2, <3>2, KeepsCallsStep DEF ViewInvariant
  <2> QED
    BY <1>7, <2>3, <2>4 DEF Restored, RestoreFails
<1> QED
  BY <1>4, <1>5, <1>6, <1>7

LEMMA ReconnectInvariant ==
    ASSUME ViewInvariant, TypeOK', Reconnect
    PROVE  ViewInvariant'
<1>1. TypeOK /\ FramesAreOfCalls /\ CallsAreOfSwitches
  BY DEF ViewInvariant, CallsAreInStep
<1>2. ASSUME NEW c \in CallIds
      PROVE  IF calls[c].at = "reconnecting"
             THEN calls[c].by = 0 /\ calls'[c].by = 0 /\ calls'[c].at = "sent" /\ calls'[c].session = target
             ELSE calls'[c] = calls[c]
  BY <1>1 DEF Reconnect, Sent, None, CallsAreOfSwitches
<1>3. UNCHANGED <<wire, target, snapshotInFlight, shown, switches>>
  BY DEF Reconnect
<1>4. KeepsCalls
  BY <1>2, <1>3 DEF KeepsCalls, Once, AtHost
<1>5. FramesAreOfCalls'
  BY <1>1, <1>2, <1>3, FramesOfOthers
<1> QED
  BY <1>4, <1>5, KeepsCallsStep DEF ViewInvariant

LEMMA DisconnectInvariant ==
    ASSUME ViewInvariant, TypeOK', Disconnect
    PROVE  ViewInvariant'
<1> DEFINE ended == {c \in CallIds : AtHost(c) /\ calls'[c] = None}
           given == {c \in ended : Once(c)}
           cut == {c \in ended : ~Once(c) /\ Current(calls[c].by)}
<1>1. /\ TypeOK /\ FramesAreOfCalls /\ CallsAreOfSwitches /\ CallsAreBounded /\ LastIsAdopted
      /\ LastCallIsOfTheTarget /\ HistoryFollows /\ HydrationIsNeverBlocked /\ generation \in Nat
  BY SwitchesAreFinite DEF ViewInvariant, CallsAreInStep
<1>2. /\ calls' = [c \in CallIds |-> IF AtHost(c) THEN CutOff(c) ELSE calls[c]]
      /\ snapshotInFlight' = (IF given = {} THEN snapshotInFlight ELSE FALSE)
      /\ shown' = (IF given = {} THEN shown ELSE shown \cup {Error})
      /\ switches' = [g \in 1 .. generation |->
                        IF \E c \in cut : calls[c].by = g THEN [switches[g] EXCEPT !.at = "failed"] ELSE switches[g]]
      /\ target' = target /\ wire' = <<>>
  BY DEF Disconnect
<1>3. ASSUME NEW c \in CallIds
      PROVE  \/ ~AtHost(c) /\ calls'[c] = calls[c]
             \/ /\ AtHost(c) /\ Once(c) /\ c \notin ended
                /\ calls'[c].at = "reconnecting" /\ calls'[c].by = 0 /\ calls'[c].session = calls[c].session
             \/ c \in ended /\ calls'[c] = None
  <2>1. calls[c] \in CallType
    BY <1>1, CallIsTyped
  <2>2. CASE ~AtHost(c)
    BY <1>2, <2>2
  <2>3. CASE AtHost(c) /\ Once(c) /\ ~calls[c].retried
    <3>1. calls'[c] = [calls[c] EXCEPT !.at = "reconnecting"]
      BY <1>2, <2>3 DEF CutOff
    <3> QED
      BY <2>1, <2>3, <3>1 DEF CallType, None, Once
  <2>4. CASE AtHost(c) /\ ~(Once(c) /\ ~calls[c].retried)
    BY <1>2, <2>4 DEF CutOff
  <2> QED
    BY <2>2, <2>3, <2>4
<1>4. SomeFail /\ Left \subseteq Left' /\ Through \subseteq Through'
  <2>1. SomeFail
    <3> HIDE DEF cut
    <3>1. generation' = generation
      <4>1. TypeOK' /\ DOMAIN switches' = 1 .. generation
        BY <1>2
      <4> QED
        BY <1>1, <4>1 DEF TypeOK, generation
    <3>2. ASSUME NEW g \in 1 .. generation
          PROVE  switches'[g] = switches[g] \/ switches'[g] = [switches[g] EXCEPT !.at = "failed"]
      BY <1>2
    <3> QED
      BY <1>1, <3>1, <3>2, SwitchIsTyped DEF SomeFail, SwitchType
  <2> QED
    BY <2>1 DEF SomeFail, Left, Through
<1>5. \A c \in cut : calls[c].by \in 1 .. generation => switches'[calls[c].by].at = "failed"
  <2> SUFFICES ASSUME NEW c \in cut, calls[c].by \in 1 .. generation
               PROVE  switches'[calls[c].by].at = "failed"
    OBVIOUS
  <2>1. switches'[calls[c].by] = [switches[calls[c].by] EXCEPT !.at = "failed"]
    BY <1>2
  <2> QED
    BY <1>1, <2>1, SwitchIsTyped DEF SwitchType
<1>6. FramesAreOfCalls'
  BY <1>2 DEF FramesAreOfCalls
<1>7. CallsAreOfSwitches'
  <2> SUFFICES ASSUME NEW c \in CallIds
               PROVE  /\ calls'[c].at = "reconnecting" => calls'[c].by = 0
                      /\ calls'[c].by # 0 =>
                           calls'[c].by \in 1 .. generation /\ switches'[calls'[c].by].at \in {"over", "failed"}
    BY <1>4 DEF CallsAreOfSwitches, SomeFail
  <2> HIDE DEF ended
  <2>1. calls'[c].by = 0 \/ calls'[c] = calls[c]
    BY <1>3 DEF None
  <2>2. calls'[c].at = "reconnecting" => calls'[c].by = 0
    BY <1>1, <1>3 DEF CallsAreOfSwitches, None
  <2> QED
    BY <1>1, <1>4, <2>1, <2>2 DEF CallsAreOfSwitches, SomeFail
<1>8. /\ Onces' \subseteq Onces \ given /\ BySwitch' \subseteq BySwitch
  BY <1>3 DEF Onces, Once, BySwitch, None
<1>9. OncesAreBounded'
  <2>1. CASE given = {}
    BY <1>1, <1>2, <1>4, <1>8, <2>1, OncesKept DEF CallsAreBounded
  <2>2. CASE given # {}
    <3>1. PICK c \in given : TRUE
      BY <2>2
    <3>2. c \in Onces /\ Onces' \subseteq Onces \ {c}
      BY <1>8 DEF Onces
    <3> QED
      BY <1>1, <1>4, <3>2, OncesReleased DEF CallsAreBounded
  <2> QED
    BY <2>1, <2>2
<1>10. BySwitchIsBounded'
  BY <1>1, <1>4, <1>8, BySwitchKept DEF CallsAreBounded
<1>11. LastIsAdopted'
  BY <1>1, <1>2, <1>4 DEF LastIsAdopted, SomeFail
<1>12. LastCallIsOfTheTarget'
  BY <1>1, <1>2, <1>3, <1>4 DEF LastCallIsOfTheTarget, SomeFail, None
<1>13. HistoryFollows'
  <2> SUFFICES ASSUME LastIsAnswered' PROVE shown' \ {Error} = {target}
    BY <1>2 DEF HistoryFollows
  <2>1. generation = 0 \/ switches[generation].at = "over"
    BY <1>1, <1>4 DEF LastIsAnswered, SomeFail
  <2>2. ASSUME NEW c \in CallIds, calls[c].by # 0, calls[c].by = generation PROVE ~AtHost(c)
    <3> SUFFICES ASSUME AtHost(c) PROVE FALSE
      OBVIOUS
    <3>1. c \in cut
      BY <1>3, <2>2 DEF Once, Current
    <3>2. switches'[generation].at = "failed" /\ generation # 0
      BY <1>1, <1>5, <2>2, <3>1
    <3> QED
      BY <1>4, <3>2 DEF LastIsAnswered, SomeFail
  <2>3. shown \ {Error} = {target}
    BY <1>1, <2>1, <2>2 DEF HistoryFollows, LastIsAnswered
  <2> QED
    BY <1>2, <2>3
<1>14. HydrationIsNeverBlocked'
  <2> SUFFICES ASSUME snapshotInFlight' PROVE \E c \in CallIds : (Once(c))' /\ calls'[c].session = target
    BY <1>2 DEF HydrationIsNeverBlocked
  <2>1. given = {} /\ snapshotInFlight
    BY <1>2
  <2>2. PICK c \in CallIds : Once(c) /\ calls[c].session = target
    BY <1>1, <2>1 DEF HydrationIsNeverBlocked
  <2>3. c \notin ended
    BY <2>1, <2>2
  <2> HIDE DEF ended
  <2> QED
    BY <1>3, <2>2, <2>3 DEF Once
<1> QED
  BY <1>6, <1>7, <1>9, <1>10, <1>11, <1>12, <1>13, <1>14 DEF ViewInvariant, CallsAreInStep, CallsAreBounded

LEMMA SwitchSessionInvariant ==
    ASSUME ViewInvariant, TypeOK', NEW s \in Sessions, SwitchSession(s)
    PROVE  ViewInvariant'
<1>1. /\ TypeOK /\ FramesAreOfCalls /\ CallsAreOfSwitches /\ CallsAreBounded /\ HydrationIsNeverBlocked
      /\ generation \in Nat
  BY SwitchesAreFinite DEF ViewInvariant, CallsAreInStep
<1>2. UNCHANGED <<calls, wire, target, snapshotInFlight, shown>>
  BY DEF SwitchSession
<1>3. /\ generation' = generation + 1 /\ switches'[generation + 1].at = "loading"
      /\ \A g \in 1 .. generation : switches'[g] = switches[g]
  BY <1>1 DEF SwitchSession, TypeOK, generation
<1> HIDE DEF generation
<1>4. \A c \in CallIds : calls[c].by # 0 => calls[c].by \in 1 .. generation /\ calls[c].by # generation + 1
  BY <1>1 DEF CallsAreOfSwitches
<1>5. FramesAreOfCalls'
  BY <1>1, <1>2, FramesOfOthers
<1>6. CallsAreOfSwitches'
  BY <1>1, <1>2, <1>3 DEF CallsAreOfSwitches
<1>7. Left' = Left /\ Through' = Through /\ Onces' = Onces /\ BySwitch' = BySwitch
  BY <1>1, <1>2, <1>3 DEF Left, Through, Onces, Once, BySwitch
<1>8. CallsAreBounded'
  BY <1>1, <1>2, <1>7 DEF CallsAreBounded, OncesAreBounded, BySwitchIsBounded
<1>9. LastIsAdopted' /\ HistoryFollows'
  BY <1>1, <1>3 DEF LastIsAdopted, HistoryFollows, LastIsAnswered
<1>10. LastCallIsOfTheTarget'
  BY <1>2, <1>3, <1>4 DEF LastCallIsOfTheTarget
<1>11. HydrationIsNeverBlocked'
  BY <1>1, <1>2 DEF HydrationIsNeverBlocked, Once
<1> QED
  BY <1>5, <1>6, <1>8, <1>9, <1>10, <1>11 DEF ViewInvariant, CallsAreInStep

\* One of the reads of a switch is done.
LEMMA LoadedInvariant ==
    ASSUME ViewInvariant, TypeOK', NEW g \in 1 .. generation,
           DiskRead(g) \/ DiskReadFails(g) \/ Bootstrapped(g)
    PROVE  ViewInvariant'
<1>1. /\ TypeOK /\ FramesAreOfCalls /\ CallsAreOfSwitches /\ CallsAreBounded /\ LastIsAdopted
      /\ LastCallIsOfTheTarget /\ HistoryFollows /\ HydrationIsNeverBlocked /\ generation \in Nat
  BY SwitchesAreFinite DEF ViewInvariant, CallsAreInStep
<1>2. UNCHANGED <<calls, wire>>
  BY DEF DiskRead, DiskReadFails, Bootstrapped
<1>3. switches[g] \in SwitchType /\ g \in DOMAIN switches
  BY <1>1, SwitchIsTyped DEF TypeOK, generation
<1>4. PICK run \in SwitchType :
         /\ Loaded(g, run) /\ run.session = switches[g].session /\ run.at = switches[g].at
         /\ switches[g].disk => run.disk
         /\ ~switches[g].disk \/ switches[g].at = "loading"
         /\ shown' = shown \/ switches[g].disk = FALSE
         /\ g # generation => shown' = shown
  <2>1. /\ [switches[g] EXCEPT !.disk = TRUE] \in SwitchType
        /\ [switches[g] EXCEPT !.bootstrap = TRUE] \in SwitchType
    BY <1>3 DEF SwitchType
  <2>2. CASE DiskRead(g) \/ DiskReadFails(g)
    <3>1. Loaded(g, [switches[g] EXCEPT !.disk = TRUE]) /\ ~switches[g].disk
      BY <2>2 DEF DiskRead, DiskReadFails
    <3>2. g # generation => shown' = shown
      BY <2>2 DEF DiskRead, DiskReadFails, Rendered, Current
    <3>3. switches[g].disk = FALSE
      BY <1>3, <3>1 DEF SwitchType
    <3>4. LET run == [switches[g] EXCEPT !.disk = TRUE]
          IN  run.session = switches[g].session /\ run.at = switches[g].at /\ run.disk
      BY <1>3 DEF SwitchType
    <3> QED
      BY <2>1, <3>1, <3>2, <3>3, <3>4
  <2>3. CASE Bootstrapped(g)
    <3>1. Loaded(g, [switches[g] EXCEPT !.bootstrap = TRUE]) /\ switches[g].at = "loading" /\ shown' = shown
      BY <2>3 DEF Bootstrapped
    <3>2. LET run == [switches[g] EXCEPT !.bootstrap = TRUE]
          IN  /\ run.session = switches[g].session /\ run.at = switches[g].at
              /\ run.disk = switches[g].disk
      BY <1>3 DEF SwitchType
    <3> QED
      BY <2>1, <3>1, <3>2
  <2> QED
    BY <2>2, <2>3
<1>5. FramesAreOfCalls'
  BY <1>1, <1>2, FramesOfOthers
<1>6. PICK at \in {"adopting", "over", run.at} :
         /\ generation' = generation
         /\ switches'[g].session = switches[g].session /\ switches'[g].at = at /\ switches'[g].disk = run.disk
         /\ \A h \in (1 .. generation) \ {g} : switches'[h] = switches[h]
         /\ \/ /\ switches[g].at = "loading" /\ at = "adopting" /\ g = generation /\ run.disk
               /\ AdoptTarget(switches[g].session)
            \/ /\ at = run.at \/ (switches[g].at = "loading" /\ at = "over" /\ g # generation)
               /\ UNCHANGED <<target, store, snapshotInFlight>>
  <2>1. CASE run.disk /\ run.bootstrap /\ run.at = "loading" /\ g = generation
    <3>1. switches' = [switches EXCEPT ![g] = [run EXCEPT !.at = "adopting"]] /\ AdoptTarget(run.session)
      BY <1>4, <2>1 DEF Loaded, GoesOn, Current
    <3>2. generation' = generation /\ switches'[g] = [run EXCEPT !.at = "adopting"]
          /\ \A h \in (1 .. generation) \ {g} : switches'[h] = switches[h]
      BY <1>1, <1>3, <3>1 DEF generation, TypeOK
    <3>3. /\ switches'[g].session = switches[g].session /\ switches'[g].at = "adopting"
          /\ switches'[g].disk = run.disk
      BY <1>4, <3>2 DEF SwitchType
    <3> QED
      BY <1>4, <2>1, <3>1, <3>2, <3>3
  <2>2. CASE run.disk /\ run.bootstrap /\ run.at = "loading" /\ g # generation
    <3>1. /\ switches' = [switches EXCEPT ![g] = [run EXCEPT !.at = "over"]]
          /\ UNCHANGED <<target, store, snapshotInFlight>>
      BY <1>4, <2>2 DEF Loaded, GoesOn, Current
    <3>2. generation' = generation /\ switches'[g] = [run EXCEPT !.at = "over"]
          /\ \A h \in (1 .. generation) \ {g} : switches'[h] = switches[h]
      BY <1>1, <1>3, <3>1 DEF generation, TypeOK
    <3>3. /\ switches'[g].session = switches[g].session /\ switches'[g].at = "over"
          /\ switches'[g].disk = run.disk
      BY <1>4, <3>2 DEF SwitchType
    <3> QED
      BY <1>4, <2>2, <3>1, <3>2, <3>3
  <2>3. CASE ~(run.disk /\ run.bootstrap /\ run.at = "loading")
    <3>1. switches' = [switches EXCEPT ![g] = run] /\ UNCHANGED <<target, store, snapshotInFlight>>
      BY <1>4, <2>3 DEF Loaded
    <3>2. generation' = generation /\ switches'[g] = run
          /\ \A h \in (1 .. generation) \ {g} : switches'[h] = switches[h]
      BY <1>1, <1>3, <3>1 DEF generation, TypeOK
    <3> QED
      BY <1>4, <3>1, <3>2
  <2> QED
    BY <2>1, <2>2, <2>3
<1> HIDE DEF generation
<1>7. Left \subseteq Left' /\ Through \subseteq Through'
  BY <1>4, <1>6 DEF Left, Through
<1>8. Onces' = Onces /\ BySwitch' = BySwitch
  BY <1>2 DEF Onces, Once, BySwitch
<1>9. CallsAreOfSwitches'
  BY <1>1, <1>2, <1>4, <1>6 DEF CallsAreOfSwitches
<1>10. OncesAreBounded'
  <2>1. CASE UNCHANGED snapshotInFlight
    BY <1>1, <1>7, <1>8, <2>1, OncesKept DEF CallsAreBounded
  <2>2. CASE ~UNCHANGED snapshotInFlight
    <3>1. g \in Left' /\ g \notin Left
      BY <1>6, <2>2 DEF Left
    <3> QED
      BY <1>1, <1>7, <1>8, <3>1, OncesLeft DEF CallsAreBounded
  <2> QED
    BY <2>1, <2>2
<1>11. BySwitchIsBounded'
  BY <1>1, <1>7, <1>8, BySwitchKept DEF CallsAreBounded
<1>12. LastIsAdopted'
  <2> SUFFICES ASSUME switches'[generation].at \in {"adopting", "over"}
               PROVE  target' = switches'[generation].session /\ switches'[generation].disk
    BY <1>6 DEF LastIsAdopted
  <2>1. CASE g # generation
    <3>1. switches'[generation] = switches[generation] /\ target' = target
      BY <1>1, <1>6, <2>1
    <3> QED
      BY <1>1, <1>4, <1>6, <2>1, <3>1 DEF LastIsAdopted
  <2>2. CASE g = generation
    <3>1. CASE AdoptTarget(switches[g].session) /\ run.disk
      BY <1>6, <2>2, <3>1 DEF AdoptTarget
    <3>2. CASE switches'[g].at = run.at /\ UNCHANGED target
      BY <1>1, <1>4, <1>6, <2>2, <3>2 DEF LastIsAdopted
    <3> QED
      BY <1>6, <2>2, <3>1, <3>2
  <2> QED
    BY <2>1, <2>2
<1>13. LastCallIsOfTheTarget'
  <2>1. CASE UNCHANGED target
    BY <1>1, <1>2, <1>6, <2>1 DEF LastCallIsOfTheTarget
  <2>2. CASE ~UNCHANGED target
    <3>1. switches[generation].at = "loading"
      BY <1>6, <2>2
    <3> QED
      BY <1>1, <1>2, <1>6, <3>1 DEF LastCallIsOfTheTarget, CallsAreOfSwitches
  <2> QED
    BY <2>1, <2>2
<1>14. HistoryFollows'
  <2> SUFFICES ASSUME LastIsAnswered' PROVE shown' \ {Error} = {target'}
    BY DEF HistoryFollows
  <2>1. generation # 0
    BY <1>1
  <2>2. switches'[generation].at = "over"
    BY <1>6, <2>1 DEF LastIsAnswered
  <2>3. shown' = shown /\ target' = target /\ switches[generation].at = "over"
    BY <1>1, <1>4, <1>6, <2>1, <2>2 DEF LastIsAdopted
  <2> QED
    BY <1>1, <1>2, <1>6, <2>3 DEF HistoryFollows, LastIsAnswered, AtHost
<1>15. HydrationIsNeverBlocked'
  BY <1>1, <1>2, <1>6 DEF HydrationIsNeverBlocked, AdoptTarget, Once
<1> QED
  BY <1>5, <1>9, <1>10, <1>11, <1>12, <1>13, <1>14, <1>15 DEF ViewInvariant, CallsAreInStep, CallsAreBounded

LEMMA BootstrapFailsInvariant ==
    ASSUME ViewInvariant, TypeOK', NEW g \in 1 .. generation, BootstrapFails(g)
    PROVE  ViewInvariant'
<1>1. /\ TypeOK /\ FramesAreOfCalls /\ CallsAreOfSwitches /\ CallsAreBounded /\ LastIsAdopted
      /\ LastCallIsOfTheTarget /\ HistoryFollows /\ HydrationIsNeverBlocked /\ generation \in Nat
  BY SwitchesAreFinite DEF ViewInvariant, CallsAreInStep
<1>2. /\ UNCHANGED <<calls, wire, target, snapshotInFlight>> /\ shown' \ {Error} = shown \ {Error}
      /\ switches' = [switches EXCEPT ![g].at = "failed"]
  BY DEF BootstrapFails, ShowError
<1>3. SomeFail /\ Left \subseteq Left' /\ Through \subseteq Through'
  BY <1>1, <1>2, FailingKeeps
<1>4. FramesAreOfCalls'
  BY <1>1, <1>2, FramesOfOthers
<1>5. CallsAreOfSwitches' /\ LastCallIsOfTheTarget' /\ LastIsAdopted'
  BY <1>1, <1>2, <1>3 DEF CallsAreOfSwitches, LastCallIsOfTheTarget, LastIsAdopted, SomeFail
<1>6. CallsAreBounded'
  <2>1. Onces' = Onces /\ BySwitch' = BySwitch
    BY <1>2 DEF Onces, Once, BySwitch
  <2> QED
    BY <1>1, <1>2, <1>3, <2>1, OncesKept, BySwitchKept DEF CallsAreBounded
<1>7. HistoryFollows'
  BY <1>1, <1>2, <1>3 DEF HistoryFollows, LastIsAnswered, AtHost, SomeFail
<1>8. HydrationIsNeverBlocked'
  BY <1>1, <1>2 DEF HydrationIsNeverBlocked, Once
<1> QED
  BY <1>4, <1>5, <1>6, <1>7, <1>8 DEF ViewInvariant, CallsAreInStep

\* A switch makes its call, or has no connection to make it on.
LEMMA AdoptedInvariant ==
    ASSUME ViewInvariant, TypeOK', NEW g \in 1 .. generation, Adopted(g)
    PROVE  ViewInvariant'
<1>1. /\ TypeOK /\ FramesAreOfCalls /\ CallsAreOfSwitches /\ CallsAreBounded /\ LastIsAdopted
      /\ LastCallIsOfTheTarget /\ HistoryFollows /\ HydrationIsNeverBlocked /\ generation \in Nat
  BY SwitchesAreFinite DEF ViewInvariant, CallsAreInStep
<1>2. switches[g] \in SwitchType /\ g \in DOMAIN switches /\ switches[g].at = "adopting"
  BY <1>1, SwitchIsTyped DEF TypeOK, generation, Adopted
<1>3. PICK at \in {"over", "failed"} :
         /\ switches' = [switches EXCEPT ![g].at = at]
         /\ at = "over" /\ g = generation => connected
         /\ connected => at = "over"
  BY DEF Adopted, Current
<1>4. /\ generation' = generation
      /\ switches'[g].at = at /\ switches'[g].session = switches[g].session
      /\ switches'[g].disk = switches[g].disk
      /\ \A h \in (1 .. generation) \ {g} : switches'[h] = switches[h]
  <2>1. /\ generation' = generation /\ switches'[g] = [switches[g] EXCEPT !.at = at]
        /\ \A h \in (1 .. generation) \ {g} : switches'[h] = switches[h]
    BY <1>1, <1>2, <1>3 DEF TypeOK, generation
  <2> QED
    BY <1>2, <2>1 DEF SwitchType
<1>5. UNCHANGED <<wire, target, snapshotInFlight, shown>>
  BY DEF Adopted
<1> DEFINE c == FreeCall
<1>6. c \in CallIds /\ calls[c].at = "none"
  BY <1>1, <1>2, ACallIsFree
<1> HIDE DEF c
<1>7. \A d \in CallIds \ {c} : calls'[d] = calls[d]
  BY <1>1 DEF c, Adopted, TypeOK
<1>8. IF connected
      THEN calls'[c].at = "sent" /\ calls'[c].by = g /\ calls'[c].session = target
      ELSE calls'[c] = calls[c]
  BY <1>1, <1>6 DEF c, Adopted, TypeOK, Sent, None
<1> HIDE DEF generation
<1>9. FramesAreOfCalls'
  BY <1>1, <1>5, <1>6, <1>7, FramesOfOthers
<1>10. CallsAreOfSwitches'
  <2> SUFFICES ASSUME NEW d \in CallIds
               PROVE  /\ calls'[d].at = "reconnecting" => calls'[d].by = 0
                      /\ calls'[d].by # 0 =>
                           calls'[d].by \in 1 .. generation /\ switches'[calls'[d].by].at \in {"over", "failed"}
    BY <1>4 DEF CallsAreOfSwitches
  <2>1. CASE calls'[d] = calls[d]
    BY <1>1, <1>4, <2>1 DEF CallsAreOfSwitches
  <2>2. CASE calls'[d] # calls[d]
    BY <1>4, <1>7, <1>8, <2>2
  <2> QED
    BY <2>1, <2>2
<1>11. Left \subseteq Left' /\ Through \subseteq Through' /\ g \in Through' /\ g \notin Through
  BY <1>2, <1>4 DEF Left, Through
<1>12. OncesAreBounded'
  <2>1. Onces' \subseteq Onces
    BY <1>1, <1>7, <1>8 DEF Onces, Once
  <2> QED
    BY <1>1, <1>5, <1>11, <2>1, OncesKept DEF CallsAreBounded
<1>13. BySwitchIsBounded'
  <2>1. BySwitch' \subseteq BySwitch \cup {c}
    BY <1>7 DEF BySwitch
  <2> QED
    BY <1>1, <1>11, <2>1, BySwitchBegun DEF CallsAreBounded
<1>14. LastIsAdopted'
  BY <1>1, <1>2, <1>4, <1>5 DEF LastIsAdopted
<1>15. LastCallIsOfTheTarget'
  <2> SUFFICES ASSUME NEW d \in CallIds, calls'[d].by # 0, calls'[d].by = generation
               PROVE  calls'[d].session = target
    BY <1>4, <1>5 DEF LastCallIsOfTheTarget
  <2>1. calls'[d] = calls[d] \/ calls'[d].session = target
    BY <1>7, <1>8
  <2> QED
    BY <1>1, <2>1 DEF LastCallIsOfTheTarget
<1>16. HistoryFollows'
  <2> SUFFICES ASSUME LastIsAnswered' PROVE shown \ {Error} = {target}
    BY <1>5 DEF HistoryFollows
  <2>1. CASE g = generation
    <3>1. connected /\ calls'[c].at = "sent" /\ calls'[c].by = g /\ g # 0
      BY <1>3, <1>4, <1>8, <2>1 DEF LastIsAnswered
    <3> QED
      BY <1>4, <1>6, <2>1, <3>1 DEF LastIsAnswered, AtHost
  <2>2. CASE g # generation
    <3>1. generation = 0 \/ switches[generation].at = "over"
      BY <1>1, <1>4, <2>2 DEF LastIsAnswered
    <3>2. ASSUME NEW d \in CallIds, calls[d].by # 0, calls[d].by = generation PROVE ~AtHost(d)
      <4>1. CASE d = c
        BY <1>6, <4>1 DEF AtHost
      <4>2. CASE d # c
        BY <1>4, <1>7, <3>2, <4>2 DEF LastIsAnswered, AtHost
      <4> QED
        BY <4>1, <4>2
    <3> QED
      BY <1>1, <3>1, <3>2 DEF HistoryFollows, LastIsAnswered
  <2> QED
    BY <2>1, <2>2
<1>17. HydrationIsNeverBlocked'
  <2> SUFFICES ASSUME snapshotInFlight PROVE \E d \in CallIds : (Once(d))' /\ calls'[d].session = target
    BY <1>5 DEF HydrationIsNeverBlocked
  <2>1. PICK d \in CallIds : Once(d) /\ calls[d].session = target
    BY <1>1 DEF HydrationIsNeverBlocked
  <2>2. calls'[d] = calls[d]
    BY <1>6, <1>7, <2>1 DEF Once
  <2> QED
    BY <2>1, <2>2 DEF Once
<1> QED
  BY <1>9, <1>10, <1>12, <1>13, <1>14, <1>15, <1>16, <1>17 DEF ViewInvariant, CallsAreInStep, CallsAreBounded

LEMMA InitInvariant == Init => ViewInvariant
<1> SUFFICES ASSUME Init PROVE ViewInvariant
  OBVIOUS
<1>1. TypeOK
  BY InitTypes
<1>2. generation = 0 /\ wire = <<>> /\ target = Start /\ shown = {Start} /\ snapshotInFlight = TRUE
  BY DEF Init, generation
<1>3. 1 \in CallIds
  BY BoundsAssumption DEF CallIds
<1>4. /\ calls[1].at = "sent" /\ calls[1].by = 0 /\ calls[1].session = Start
      /\ \A c \in CallIds \ {1} : calls[c] = None
  BY <1>3 DEF Init, Sent, None
<1>5. \A c \in CallIds : calls[c].by = 0 /\ calls[c].at # "reconnecting"
  BY <1>4 DEF None
<1>6. CallsAreBounded
  <2>1. Onces = {1} /\ BySwitch = {} /\ Left = {} /\ Through = {}
    BY <1>2, <1>3, <1>4, <1>5 DEF Onces, Once, BySwitch, Left, Through, None
  <2>2. Cardinality({1}) = 1
    BY FS_Singleton
  <2>3. Cardinality({}) = 0
    BY FS_EmptySet
  <2> QED
    BY <1>2, <2>1, <2>2, <2>3 DEF CallsAreBounded, OncesAreBounded, BySwitchIsBounded
<1>7. FramesAreOfCalls /\ CallsAreOfSwitches /\ LastIsAdopted /\ LastCallIsOfTheTarget
  BY <1>2, <1>5 DEF FramesAreOfCalls, CallsAreOfSwitches, LastIsAdopted, LastCallIsOfTheTarget
<1>8. HistoryFollows
  BY <1>2, ViewAssumption DEF HistoryFollows
<1>9. HydrationIsNeverBlocked
  BY <1>2, <1>3, <1>4 DEF HydrationIsNeverBlocked, Once
<1> QED
  BY <1>1, <1>6, <1>7, <1>8, <1>9 DEF ViewInvariant, CallsAreInStep

LEMMA NextInvariant == ViewInvariant /\ [Next]_vars => ViewInvariant'
<1> SUFFICES ASSUME ViewInvariant, [Next]_vars PROVE ViewInvariant'
  OBVIOUS
<1>1. TypeOK'
  BY NextTypes DEF ViewInvariant
<1>2. CASE UNCHANGED vars
  <2>1. UNCHANGED <<calls, wire, switches, target, snapshotInFlight, shown>>
    BY <1>2 DEF vars, pageVars
  <2>2. KeepsCalls
    BY <2>1 DEF KeepsCalls, Once, AtHost, ViewInvariant, CallsAreInStep, CallsAreOfSwitches
  <2>3. FramesAreOfCalls'
    BY <2>1, FramesOfOthers DEF ViewInvariant
  <2> QED
    BY <1>1, <2>2, <2>3, KeepsCallsStep DEF ViewInvariant
<1>3. CASE Next
  <2>1. CASE \/ \E s \in Sessions : Emit(s)
             \/ Forward \/ Lag
             \/ \E c \in CallIds : ReadState(c) \/ Answer(c) \/ Refuse(c)
    BY <1>1, <2>1, HostInvariant
  <2>2. CASE ReceiveBackgroundEvent \/ ReceiveEvent \/ ReceiveGap \/ Refresh
    BY <1>1, <2>2, EventInvariant
  <2>3. ASSUME NEW c \in CallIds,
               \/ ReceiveSnapshot(c) \/ ReceiveStaleSnapshot(c) \/ ReceiveRefusal(c)
               \/ Restored(c) \/ RestoreFails(c)
        PROVE  ViewInvariant'
    BY <1>1, <2>3, HydrationInvariant
  <2>4. CASE Reconnect \/ Disconnect
    BY <1>1, <2>4, ReconnectInvariant, DisconnectInvariant
  <2>5. ASSUME NEW s \in Sessions, SwitchSession(s) PROVE ViewInvariant'
    BY <1>1, <2>5, SwitchSessionInvariant
  <2>6. ASSUME NEW g \in 1 .. generation,
               DiskRead(g) \/ DiskReadFails(g) \/ Bootstrapped(g) \/ BootstrapFails(g) \/ Adopted(g)
        PROVE  ViewInvariant'
    BY <1>1, <2>6, LoadedInvariant, BootstrapFailsInvariant, AdoptedInvariant
  <2> QED
    BY <1>3, <2>1, <2>2, <2>3, <2>4, <2>5, <2>6 DEF Next, HostAnswers, PageReceives, SwitchGoesOn
<1> QED
  BY <1>2, <1>3

LEMMA AlwaysInvariant == Spec => []ViewInvariant
BY InitInvariant, NextInvariant, PTL DEF Spec

-----------------------------------------------------------------------------
(* The theorems.                                                             *)

\* Everything keeps its type, whatever the host, the connection and the user do.
THEOREM ViewTypes == Spec => []TypeOK
<1>1. ViewInvariant => TypeOK
  BY DEF ViewInvariant
<1> QED
  BY <1>1, AlwaysInvariant, PTL

\* When the last switch has its snapshot, the list of messages is that of the
\* page's session, and of no session left behind: for any number of sessions,
\* switches, events and lost connections.
THEOREM HistoryOfTheTarget == Spec => []HistoryIsOfTheTarget
<1>1. ViewInvariant => HistoryIsOfTheTarget
  <2> SUFFICES ASSUME ViewInvariant, Settled, ~LastSwitchFailed PROVE shown \ {Error} = {target}
    BY DEF HistoryIsOfTheTarget
  <2>1. generation \in Nat
    BY SwitchesAreFinite DEF ViewInvariant
  <2>2. generation = 0 \/ switches[generation].at = "over"
    BY <2>1 DEF Settled, LastSwitchFailed
  <2>3. \A c \in CallIds : calls[c].by # 0 => ~AtHost(c)
    BY DEF Settled, Once
  <2> QED
    BY <2>2, <2>3 DEF ViewInvariant, CallsAreInStep, HistoryFollows, LastIsAnswered
<1> QED
  BY <1>1, AlwaysInvariant, PTL

\* The page ends at the session of the last switch, however the reads of
\* earlier switches overlap with its own.
THEOREM TheLastSwitchWins == Spec => []LastSwitchWins
<1>1. ViewInvariant => LastSwitchWins
  <2> SUFFICES ASSUME ViewInvariant, Settled, ~LastSwitchFailed, generation > 0
               PROVE  target = switches[generation].session
    BY DEF LastSwitchWins
  <2>1. generation \in Nat
    BY SwitchesAreFinite DEF ViewInvariant
  <2>2. switches[generation].at = "over"
    BY <2>1 DEF Settled, LastSwitchFailed
  <2> QED
    BY <2>2 DEF ViewInvariant, CallsAreInStep, LastIsAdopted
<1> QED
  BY <1>1, AlwaysInvariant, PTL

\* The flag that stops other hydrations is up only while one is under way for
\* the page's session.
THEOREM HydrationStaysPossible == Spec => []HydrationIsNeverBlocked
<1>1. ViewInvariant => HydrationIsNeverBlocked
  BY DEF ViewInvariant, CallsAreInStep
<1> QED
  BY <1>1, AlwaysInvariant, PTL

================================================================================
