------------------------- MODULE RuntimeCoordinator -------------------------
(***************************************************************************)
(* The registry of embedded Pi runtimes (src-tauri/src/                    *)
(* runtime_coordinator.rs).  Every method runs under one mutex held by the *)
(* NativePiManager, so each successful call is one atomic step; a call     *)
(* that returns Err changes nothing and is the absence of the step.        *)
(*                                                                         *)
(* The operators on the registry are stated apart from the actions, so     *)
(* that NativePiManager can place them between its other lock sections.    *)
(*                                                                         *)
(* A definition whose comment begins with "Fault" is no part of the        *)
(* specification: it is the wrong form of the definition after it, used to *)
(* make sure that a property notices the difference.                       *)
(***************************************************************************)
EXTENDS Integers, Sequences, Functions

CONSTANTS
    InstanceId,           \* opaque instance ids
    WorkspaceId,          \* workspace ids
    SessionId,            \* the non-empty session ids
    Key,                  \* the non-empty idempotency keys
    NoResult,             \* a mutation whose result is not known yet
    Capacity,             \* idempotency_capacity of RuntimeCoordinator::new
    MaxSequence,          \* bound of the model: events emitted per instance
    MaxAccepted           \* bound of the model: mutations accepted per instance

ASSUME CapacityAssumption == Capacity \in Nat
ASSUME BoundsAssumption == MaxSequence \in Nat /\ MaxAccepted \in Nat
ASSUME NoResultAssumption == NoResult \notin BOOLEAN

VARIABLES
    instances,            \* HashMap<String, RuntimeRecord>
    accepted              \* history: the keys accepted for each instance, in order

coordinatorVars == <<instances, accepted>>

-----------------------------------------------------------------------------

RuntimeTarget == [workspace : WorkspaceId, session : SessionId, instance : InstanceId]

RuntimeState ==
    {"starting", "trusting", "ready", "working", "idle", "suspended", "crashed", "stopped"}

\* A result is opaque to the registry; two values tell an answer from another.
Result == BOOLEAN

MutationRecord == [key : Key, result : Result \cup {NoResult}]

RuntimeRecord == [target : RuntimeTarget, state : RuntimeState,
                  sequence : Nat, mutations : Seq(MutationRecord)]

\* idempotency_capacity.max(1)
Window == IF Capacity < 1 THEN 1 ELSE Capacity

Put(f, k, v) == [x \in DOMAIN f \cup {k} |-> IF x = k THEN v ELSE f[x]]
Without(f, k) == [x \in DOMAIN f \ {k} |-> f[x]]

SameSession(t, u) == t.workspace = u.workspace /\ t.session = u.session

-----------------------------------------------------------------------------
(* What the methods check *)

\* validate: the instance is known and every identity of the target agrees.
Valid(t) == t.instance \in DOMAIN instances /\ instances[t.instance].target = t

CanRegister(t) ==
    /\ \A i \in DOMAIN instances : ~SameSession(instances[i].target, t)
    /\ t.instance \notin DOMAIN instances

\* Fault: another instance's session may be bound.
CanBindAny(t, s) == Valid(t)

CanBind(t, s) ==
    /\ Valid(t)
    /\ \A i \in DOMAIN instances \ {t.instance} :
           ~SameSession(instances[i].target, [t EXCEPT !.session = s])

\* The key is among the retained mutations of the instance.
Retained(i, k) ==
    \E n \in DOMAIN instances[i].mutations : instances[i].mutations[n].key = k

\* The first retained record of a key (find).
PositionOf(i, k) ==
    CHOOSE n \in DOMAIN instances[i].mutations : instances[i].mutations[n].key = k

MutationResult(i, k) ==
    IF Retained(i, k) THEN instances[i].mutations[PositionOf(i, k)].result ELSE NoResult

-----------------------------------------------------------------------------
(* What the methods do *)

NewRecord(t, st) == [target |-> t, state |-> st, sequence |-> 0, mutations |-> << >>]

\* Fault: the eviction is one too early (>= for >).
RememberFewer(mutations, k) ==
    LET pushed == Append(mutations, [key |-> k, result |-> NoResult])
    IN  IF Len(pushed) >= Window THEN Tail(pushed) ELSE pushed

\* push_back, then pop_front while more than the capacity is retained; the
\* deque never held more than the capacity before, so one pop is enough.
Remember(mutations, k) ==
    LET pushed == Append(mutations, [key |-> k, result |-> NoResult])
    IN  IF Len(pushed) > Window THEN Tail(pushed) ELSE pushed

Register(t, st) ==
    /\ CanRegister(t)
    /\ instances' = Put(instances, t.instance, NewRecord(t, st))
    /\ accepted' = Put(accepted, t.instance, << >>)

\* A key that is retained is a Duplicate, which changes nothing; the caller
\* then reads mutation_result.
AcceptMutation(t, k) ==
    /\ Valid(t)
    /\ ~Retained(t.instance, k)
    /\ Len(accepted[t.instance]) < MaxAccepted
    /\ instances' = [instances EXCEPT ![t.instance].mutations = Remember(@, k)]
    /\ accepted' = [accepted EXCEPT ![t.instance] = Append(@, k)]

CompleteMutation(t, k, r) ==
    /\ Valid(t)
    /\ Retained(t.instance, k)
    /\ instances' = [instances EXCEPT ![t.instance].mutations[PositionOf(t.instance, k)].result = r]
    /\ UNCHANGED accepted

EmitEvent(t) ==
    /\ Valid(t)
    /\ instances[t.instance].sequence < MaxSequence
    /\ instances' = [instances EXCEPT ![t.instance].sequence = @ + 1]
    /\ UNCHANGED accepted

SetState(t, st) ==
    /\ Valid(t)
    /\ instances' = [instances EXCEPT ![t.instance].state = st]
    /\ UNCHANGED accepted

BindSessionId(t, s) ==
    /\ CanBind(t, s)
    /\ instances' = [instances EXCEPT ![t.instance].target.session = s]
    /\ UNCHANGED accepted

\* Fault: the target is validated and the record kept.
UnregisterNothing(t) == Valid(t) /\ UNCHANGED coordinatorVars

Unregister(t) ==
    /\ Valid(t)
    /\ instances' = Without(instances, t.instance)
    /\ accepted' = Without(accepted, t.instance)

\* Fault: the record goes on naming the suspended instance.
ResumeSameTarget(t, new) ==
    /\ Valid(t)
    /\ instances[t.instance].state = "suspended"
    /\ new \notin DOMAIN instances
    /\ instances' = Put(Without(instances, t.instance), new, NewRecord(t, "starting"))
    /\ accepted' = Put(Without(accepted, t.instance), new, << >>)

\* Remove the suspended record and register its session again under a new
\* instance.  The removal comes first, so the registration cannot meet it.
Resume(t, new) ==
    LET fresh == [t EXCEPT !.instance = new]
    IN  /\ Valid(t)
        /\ instances[t.instance].state = "suspended"
        /\ new \notin DOMAIN instances
        /\ instances' = Put(Without(instances, t.instance), new, NewRecord(fresh, "starting"))
        /\ accepted' = Put(Without(accepted, t.instance), new, << >>)

-----------------------------------------------------------------------------

Init ==
    /\ instances = << >>
    /\ accepted = << >>

Next ==
    \E t \in RuntimeTarget :
        \/ \E st \in RuntimeState : Register(t, st) \/ SetState(t, st)
        \/ \E k \in Key : AcceptMutation(t, k)
        \/ \E k \in Key, r \in Result : CompleteMutation(t, k, r)
        \/ EmitEvent(t)
        \/ \E s \in SessionId : BindSessionId(t, s)
        \/ Unregister(t)
        \/ \E new \in InstanceId : Resume(t, new)

Spec == Init /\ [][Next]_coordinatorVars

-----------------------------------------------------------------------------
(* Properties *)

\* The registry maps instance ids to records, and the history has one
\* sequence for each registered instance.
TypeOK ==
    /\ DOMAIN instances \subseteq InstanceId
    /\ instances \in [DOMAIN instances -> RuntimeRecord]
    /\ accepted \in [DOMAIN instances -> Seq(Key)]

\* A record is filed under the instance id of its own target: bind_session_id
\* and resume replace one identity of the tuple and must keep the others.
FiledUnderOwnInstance ==
    \A i \in DOMAIN instances : instances[i].target.instance = i

\* One runtime per session: whatever order registrations, bindings, resumes
\* and removals come in, no two instances own the same session of a
\* workspace, so target_for_session has at most one answer.
OneInstancePerSession ==
    \A i, j \in DOMAIN instances :
        SameSession(instances[i].target, instances[j].target) => i = j

\* A deque m holds exactly the most recent keys of a history h, oldest first.
LatestOf(m, h) ==
    /\ Len(m) = IF Len(h) < Window THEN Len(h) ELSE Window
    /\ \A n \in 1 .. Len(m) : m[n].key = h[Len(h) - Len(m) + n]

\* Every instance retains its most recent accepted keys, no older and no
\* fewer: accept_mutation evicts in acceptance order and only when it is full.
RetainsTheLatest ==
    \A i \in DOMAIN instances : LatestOf(instances[i].mutations, accepted[i])

\* Equal keys of a history are more than a window apart.
RepeatsApart(h) ==
    \A m, n \in 1 .. Len(h) : m < n /\ h[m] = h[n] => n - m > Window

\* A key is accepted again, and so run again by Pi, only after at least a
\* full window of other keys was accepted for the same instance: the promise
\* the bounded idempotency cache makes to a client that retries.
IdempotencyWindow == \A i \in DOMAIN instances : RepeatsApart(accepted[i])

\* While an instance stays registered its event sequence never goes back and
\* its workspace never changes, whatever session it is bound to: a client
\* that follows the sequence across session_bound sees no second counting.
RegistrationContinuity ==
    [][\A i \in DOMAIN instances \cap DOMAIN instances' :
           /\ instances'[i].target.workspace = instances[i].target.workspace
           /\ instances'[i].sequence \in {instances[i].sequence, instances[i].sequence + 1}
           /\ Len(accepted'[i]) >= Len(accepted[i])]_coordinatorVars

=============================================================================
