------------------------ MODULE NativePiManagerProofs ------------------------
(***************************************************************************)
(* Proofs about RuntimeCoordinator and NativePiManager, for any number of  *)
(* instances, sessions, keys, callers, frames and calls and any capacity.  *)
(*                                                                         *)
(* In this order:                                                          *)
(*   the coordinator alone: its records, what a key is remembered by, and  *)
(*     the invariant behind its promises (RegistryInv);                    *)
(*   types, and the coordinator under the manager: a step of the manager   *)
(*     leaves the coordinator alone, is one of its steps, or is one of two *)
(*     that combine several (the removal of a stopped set, a binding that  *)
(*     also numbers its event), so what is proved of it holds here;        *)
(*   fresh instances: until it is inserted, an instance is known only to   *)
(*     the spawn that made its id;                                         *)
(*   owners: every process has an entry, a call or a pump that ends it;    *)
(*   numbers: each event number is taken by one event;                     *)
(*   dialogs: an open dialog is kept until a call has answered it;         *)
(*   frames: of those taken from a pipe the bus has all but the one the    *)
(*     pump holds, in their order;                                         *)
(*   mutations: each acceptance of a key is written at most once, by       *)
(*     counting the writes against the requests under way;                 *)
(*   records: what a call or a pump removes is the record the coordinator  *)
(*     has, unless a binding came between.                                 *)
(***************************************************************************)
EXTENDS NativePiManager, SequenceTheorems, FiniteSetTheorems, TLAPS

USE CapacityAssumption, BoundsAssumption, NoResultAssumption

-----------------------------------------------------------------------------
(* The coordinator's records *)

LEMMA WindowPositive == Window \in Nat /\ Window >= 1
  BY DEF Window

\* What remembering a key does to the deque, written out position by position.
LEMMA RememberLemma ==
  ASSUME NEW m \in Seq(MutationRecord), NEW k \in Key, Len(m) <= Window
  PROVE  /\ Remember(m, k) \in Seq(MutationRecord)
         /\ Len(m) < Window =>
              /\ Len(Remember(m, k)) = Len(m) + 1
              /\ \A n \in 1 .. Len(m) : Remember(m, k)[n] = m[n]
         /\ Len(m) = Window =>
              /\ Len(Remember(m, k)) = Window
              /\ \A n \in 1 .. (Window - 1) : Remember(m, k)[n] = m[n + 1]
         /\ Remember(m, k)[Len(Remember(m, k))] = [key |-> k, result |-> NoResult]
  <1> DEFINE new == [key |-> k, result |-> NoResult]
             pushed == Append(m, new)
  <1>1. new \in MutationRecord
    BY DEF MutationRecord
  <1>2. /\ pushed \in Seq(MutationRecord)
        /\ Len(pushed) = Len(m) + 1
        /\ \A n \in 1 .. Len(m) : pushed[n] = m[n]
        /\ pushed[Len(m) + 1] = new
    BY <1>1
  <1>3. Remember(m, k) = IF Len(pushed) > Window THEN Tail(pushed) ELSE pushed
    BY DEF Remember
  <1>4. CASE Len(m) < Window
    BY <1>2, <1>3, <1>4, WindowPositive
  <1>5. CASE Len(m) = Window
    <2>1. Remember(m, k) = Tail(pushed)
      BY <1>2, <1>3, <1>5, WindowPositive
    <2>2. /\ Tail(pushed) \in Seq(MutationRecord)
          /\ Len(Tail(pushed)) = Len(m)
          /\ \A n \in 1 .. Len(m) : Tail(pushed)[n] = pushed[n + 1]
      BY <1>2, <1>5, WindowPositive
    <2> HIDE DEF pushed
    <2> QED BY <2>1, <2>2, <1>2, <1>5, WindowPositive
  <1> QED BY <1>4, <1>5, WindowPositive

LEMMA LatestFacts ==
  ASSUME NEW m \in Seq(MutationRecord), NEW h \in Seq(Key), LatestOf(m, h)
  PROVE  /\ Len(m) \in Nat
         /\ Len(h) \in Nat
         /\ Len(h) < Window => Len(m) = Len(h)
         /\ ~(Len(h) < Window) => Len(m) = Window
         /\ Len(m) <= Window
         /\ \A n \in 1 .. Len(m) : m[n].key = h[Len(h) - Len(m) + n]
  <1>1. Len(m) \in Nat /\ Len(h) \in Nat
    OBVIOUS
  <1>2. Len(m) = IF Len(h) < Window THEN Len(h) ELSE Window
    BY DEF LatestOf
  <1>3. \A n \in 1 .. Len(m) : m[n].key = h[Len(h) - Len(m) + n]
    BY DEF LatestOf
  <1>4. /\ Len(h) < Window => Len(m) = Len(h)
        /\ ~(Len(h) < Window) => Len(m) = Window
        /\ Len(m) <= Window
    BY <1>1, <1>2, WindowPositive
  <1> QED BY <1>1, <1>3, <1>4

\* Remembering a key slides the window over the history by one.
LEMMA WindowSlides ==
  ASSUME NEW m \in Seq(MutationRecord), NEW h \in Seq(Key), NEW k \in Key, LatestOf(m, h)
  PROVE  LatestOf(Remember(m, k), Append(h, k))
  <1> DEFINE ah == Append(h, k)
  <1>1. /\ Len(m) \in Nat
        /\ Len(h) \in Nat
        /\ Len(h) < Window => Len(m) = Len(h)
        /\ ~(Len(h) < Window) => Len(m) = Window
        /\ Len(m) <= Window
        /\ \A n \in 1 .. Len(m) : m[n].key = h[Len(h) - Len(m) + n]
    BY LatestFacts
  <1>2. Len(ah) = Len(h) + 1 /\ ah[Len(h) + 1] = k /\ \A n \in 1 .. Len(h) : ah[n] = h[n]
    OBVIOUS
  <1>3. PICK rm : rm = Remember(m, k)
    OBVIOUS
  <1>4. /\ Len(m) < Window =>
              Len(rm) = Len(m) + 1 /\ \A n \in 1 .. Len(m) : rm[n] = m[n]
        /\ Len(m) = Window =>
              Len(rm) = Window /\ \A n \in 1 .. (Window - 1) : rm[n] = m[n + 1]
        /\ rm[Len(rm)].key = k
        /\ Len(rm) \in Nat
    <2>1. rm[Len(rm)] = [key |-> k, result |-> NoResult]
      BY <1>1, <1>3, RememberLemma
    <2>2. rm[Len(rm)].key = k
      BY <2>1
    <2>3. rm \in Seq(MutationRecord)
      BY <1>1, <1>3, RememberLemma
    <2>4. Len(rm) \in Nat
      BY <2>3
    <2>5. Len(m) < Window =>
            Len(rm) = Len(m) + 1 /\ \A n \in 1 .. Len(m) : rm[n] = m[n]
      BY <1>1, <1>3, RememberLemma
    <2>6. Len(m) = Window =>
            Len(rm) = Window /\ \A n \in 1 .. (Window - 1) : rm[n] = m[n + 1]
      BY <1>1, <1>3, RememberLemma
    <2> QED BY <2>2, <2>4, <2>5, <2>6
  <1> HIDE DEF ah
  <1>5. CASE Len(h) < Window
    <2>1. Len(m) = Len(h) /\ Len(rm) = Len(ah) /\ Len(ah) <= Window
      BY <1>1, <1>2, <1>4, <1>5, WindowPositive
    <2>2. ASSUME NEW n \in 1 .. Len(rm) PROVE rm[n].key = ah[n]
      <3>1. CASE n = Len(rm)
        BY <1>1, <1>2, <1>4, <2>1, <3>1
      <3>2. CASE n # Len(rm)
        <4>1. n \in 1 .. Len(m) /\ n \in 1 .. Len(h)
          BY <1>1, <1>2, <2>1, <3>2
        <4> QED BY <1>1, <1>2, <1>4, <1>5, <2>1, <4>1
      <3> QED BY <3>1, <3>2
    <2>3. LatestOf(rm, ah)
      BY <1>1, <1>2, <2>1, <2>2, WindowPositive DEF LatestOf
    <2> QED BY <1>3, <2>3 DEF ah
  <1>6. CASE ~(Len(h) < Window)
    <2>1. Len(m) = Window /\ Len(rm) = Window
      BY <1>1, <1>4, <1>6, WindowPositive
    <2>2. ASSUME NEW n \in 1 .. Len(rm) PROVE rm[n].key = ah[Len(ah) - Window + n]
      <3>1. CASE n = Len(rm)
        BY <1>1, <1>2, <1>4, <2>1, <3>1, WindowPositive
      <3>2. CASE n # Len(rm)
        <4>1. n \in 1 .. (Window - 1) /\ n + 1 \in 1 .. Len(m)
          BY <2>1, <3>2, WindowPositive
        <4>2. rm[n].key = h[Len(h) - Len(m) + (n + 1)]
          BY <1>1, <1>4, <2>1, <4>1
        <4>3. Len(h) - Len(m) + (n + 1) \in 1 .. Len(h)
          BY <1>1, <1>6, <2>1, <4>1, WindowPositive
        <4>4. Len(ah) - Window + n = Len(h) - Len(m) + (n + 1)
          <5>1. Len(ah) = Len(h) + 1 /\ Len(m) = Window /\ n \in Nat
            BY <1>2, <2>1, <4>1
          <5> QED BY <1>1, <5>1, WindowPositive
        <4> QED BY <1>2, <4>2, <4>3, <4>4
      <3> QED BY <3>1, <3>2
    <2>3. LatestOf(rm, ah)
      BY <1>1, <1>2, <1>6, <2>1, <2>2, WindowPositive DEF LatestOf
    <2> QED BY <1>3, <2>3 DEF ah
  <1> QED BY <1>5, <1>6

\* A key that is not retained is more than a window away from its last use.
LEMMA RepeatsStayApart ==
  ASSUME NEW m \in Seq(MutationRecord), NEW h \in Seq(Key), NEW k \in Key,
         LatestOf(m, h), RepeatsApart(h), \A n \in DOMAIN m : m[n].key # k
  PROVE  RepeatsApart(Append(h, k))
  <1> DEFINE ah == Append(h, k)
  <1>1. /\ Len(m) \in Nat
        /\ Len(h) \in Nat
        /\ Len(h) < Window => Len(m) = Len(h)
        /\ ~(Len(h) < Window) => Len(m) = Window
        /\ \A n \in 1 .. Len(m) : m[n].key = h[Len(h) - Len(m) + n]
    BY LatestFacts
  <1>2. Len(ah) = Len(h) + 1 /\ ah[Len(h) + 1] = k /\ \A n \in 1 .. Len(h) : ah[n] = h[n]
    OBVIOUS
  <1>3. ASSUME NEW p \in 1 .. Len(h), h[p] = k
        PROVE  Len(h) + 1 - p > Window
    <2> SUFFICES ASSUME ~(Len(h) + 1 - p > Window)
                 PROVE  FALSE
      OBVIOUS
    <2>1. p - (Len(h) - Len(m)) \in 1 .. Len(m)
      BY <1>1, WindowPositive
    <2>2. Len(h) - Len(m) + (p - (Len(h) - Len(m))) = p
      BY <1>1
    <2>3. m[p - (Len(h) - Len(m))].key = h[p]
      BY <1>1, <2>1, <2>2
    <2>4. p - (Len(h) - Len(m)) \in DOMAIN m
      BY <2>1
    <2> QED BY <1>3, <2>3, <2>4
  <1> HIDE DEF ah
  <1>4. RepeatsApart(ah)
    <2> SUFFICES ASSUME NEW p \in 1 .. Len(ah), NEW q \in 1 .. Len(ah), p < q, ah[p] = ah[q]
                 PROVE  q - p > Window
      BY DEF RepeatsApart
    <2>1. p \in 1 .. Len(h)
      BY <1>1, <1>2
    <2>2. CASE q = Len(h) + 1
      BY <1>1, <1>2, <1>3, <2>1, <2>2
    <2>3. CASE q \in 1 .. Len(h)
      BY <1>2, <2>1, <2>3 DEF RepeatsApart
    <2>4. q = Len(h) + 1 \/ q \in 1 .. Len(h)
      <3>1. Len(ah) = Len(h) + 1 /\ Len(h) \in Nat
        BY <1>1, <1>2
      <3> QED BY <3>1
    <2> QED BY <2>2, <2>3, <2>4
  <1> QED BY <1>4 DEF ah

-----------------------------------------------------------------------------
(* The coordinator's invariant *)

RegistryInv ==
    /\ TypeOK
    /\ FiledUnderOwnInstance
    /\ OneInstancePerSession
    /\ RetainsTheLatest
    /\ IdempotencyWindow

LEMMA InitEstablishes == Init => RegistryInv
  BY DEF Init, RegistryInv, TypeOK, FiledUnderOwnInstance, OneInstancePerSession,
         RetainsTheLatest, IdempotencyWindow

LEMMA EmptyHistory == LatestOf(<< >>, << >>) /\ RepeatsApart(<< >>)
  BY WindowPositive DEF LatestOf, RepeatsApart

\* A record put under an instance that was not registered.
LEMMA FreshRecord ==
  ASSUME RegistryInv, NEW t \in RuntimeTarget, NEW st \in RuntimeState, Register(t, st)
  PROVE  RegistryInv'
  <1>1. /\ t.instance \in InstanceId
        /\ t.instance \notin DOMAIN instances
        /\ \A i \in DOMAIN instances : ~SameSession(instances[i].target, t)
        /\ NewRecord(t, st) \in RuntimeRecord
    BY DEF Register, CanRegister, NewRecord, RuntimeRecord, RuntimeTarget
  <1>2. /\ DOMAIN instances' = DOMAIN instances \cup {t.instance}
        /\ DOMAIN accepted' = DOMAIN instances'
        /\ \A i \in DOMAIN instances :
               instances'[i] = instances[i] /\ accepted'[i] = accepted[i]
        /\ instances'[t.instance] = NewRecord(t, st)
        /\ accepted'[t.instance] = << >>
        /\ instances' \in [DOMAIN instances' -> RuntimeRecord]
        /\ accepted' \in [DOMAIN instances' -> Seq(Key)]
    BY <1>1 DEF Register, Put, RegistryInv, TypeOK
  <1>3. TypeOK'
    BY <1>1, <1>2 DEF TypeOK, RegistryInv
  <1>4. FiledUnderOwnInstance'
    BY <1>1, <1>2 DEF FiledUnderOwnInstance, RegistryInv, NewRecord
  <1>5. OneInstancePerSession'
    <2> SUFFICES ASSUME NEW i \in DOMAIN instances', NEW j \in DOMAIN instances',
                        SameSession(instances'[i].target, instances'[j].target)
                 PROVE  i = j
      BY DEF OneInstancePerSession
    <2>1. instances'[t.instance].target = t
      BY <1>2 DEF NewRecord
    <2> QED BY <1>1, <1>2, <2>1 DEF RegistryInv, OneInstancePerSession, SameSession
  <1>6. RetainsTheLatest'
    BY <1>2, EmptyHistory DEF RetainsTheLatest, RegistryInv, NewRecord
  <1>7. IdempotencyWindow'
    BY <1>2, EmptyHistory DEF IdempotencyWindow, RegistryInv
  <1> QED BY <1>3, <1>4, <1>5, <1>6, <1>7 DEF RegistryInv

\* A record taken out.
LEMMA RemovedRecord ==
  ASSUME RegistryInv, NEW t \in RuntimeTarget, Unregister(t)
  PROVE  RegistryInv'
  <1>1. /\ DOMAIN instances' = DOMAIN instances \ {t.instance}
        /\ DOMAIN accepted' = DOMAIN instances'
        /\ \A i \in DOMAIN instances' :
               instances'[i] = instances[i] /\ accepted'[i] = accepted[i]
        /\ instances' \in [DOMAIN instances' -> RuntimeRecord]
        /\ accepted' \in [DOMAIN instances' -> Seq(Key)]
    BY DEF Unregister, Without, RegistryInv, TypeOK
  <1> QED
    BY <1>1 DEF RegistryInv, TypeOK, FiledUnderOwnInstance, OneInstancePerSession,
                RetainsTheLatest, IdempotencyWindow

\* A suspended record replaced by a fresh one of the same session.
LEMMA ResumedRecord ==
  ASSUME RegistryInv, NEW t \in RuntimeTarget, NEW new \in InstanceId, Resume(t, new)
  PROVE  RegistryInv'
  <1> DEFINE fresh == [t EXCEPT !.instance = new]
             rec == NewRecord(fresh, "starting")
  <1>1. /\ t.instance \in DOMAIN instances
        /\ instances[t.instance].target = t
        /\ new \notin DOMAIN instances
        /\ fresh \in RuntimeTarget
        /\ fresh.instance = new
        /\ SameSession(fresh, t)
    BY DEF Resume, Valid, RuntimeTarget, SameSession
  <1>2. rec \in RuntimeRecord /\ rec.target = fresh /\ rec.mutations = << >>
    BY <1>1 DEF NewRecord, RuntimeRecord, RuntimeState
  <1>3. /\ instances' = Put(Without(instances, t.instance), new, rec)
        /\ accepted' = Put(Without(accepted, t.instance), new, << >>)
    BY DEF Resume
  <1> HIDE DEF rec, fresh
  <1>4. /\ DOMAIN instances' = (DOMAIN instances \ {t.instance}) \cup {new}
        /\ DOMAIN accepted' = DOMAIN instances'
        /\ \A i \in DOMAIN instances \ {t.instance} :
               instances'[i] = instances[i] /\ accepted'[i] = accepted[i]
        /\ instances'[new] = rec
        /\ accepted'[new] = << >>
        /\ instances' \in [DOMAIN instances' -> RuntimeRecord]
        /\ accepted' \in [DOMAIN instances' -> Seq(Key)]
    BY <1>1, <1>2, <1>3 DEF Put, Without, RegistryInv, TypeOK
  <1>5. TypeOK'
    BY <1>1, <1>4 DEF TypeOK, RegistryInv
  <1>6. FiledUnderOwnInstance'
    BY <1>1, <1>2, <1>4 DEF FiledUnderOwnInstance, RegistryInv
  <1>7. OneInstancePerSession'
    <2> SUFFICES ASSUME NEW i \in DOMAIN instances', NEW j \in DOMAIN instances',
                        SameSession(instances'[i].target, instances'[j].target)
                 PROVE  i = j
      BY DEF OneInstancePerSession
    <2> QED BY <1>1, <1>2, <1>4 DEF RegistryInv, OneInstancePerSession, SameSession
  <1>8. RetainsTheLatest'
    BY <1>2, <1>4, EmptyHistory DEF RetainsTheLatest, RegistryInv
  <1>9. IdempotencyWindow'
    BY <1>4, EmptyHistory DEF IdempotencyWindow, RegistryInv
  <1> QED BY <1>5, <1>6, <1>7, <1>8, <1>9 DEF RegistryInv

\* An accepted mutation: the key joins the history and the deque.
LEMMA AcceptedMutation ==
  ASSUME RegistryInv, NEW t \in RuntimeTarget, NEW k \in Key, AcceptMutation(t, k)
  PROVE  RegistryInv'
  <1> DEFINE i == t.instance
             m == instances[i].mutations
             h == accepted[i]
             rec == [instances[i] EXCEPT !.mutations = Remember(m, k)]
  <1>1. /\ i \in DOMAIN instances
        /\ ~Retained(i, k)
        /\ instances[i] \in RuntimeRecord
        /\ m \in Seq(MutationRecord)
        /\ h \in Seq(Key)
        /\ LatestOf(m, h)
        /\ RepeatsApart(h)
    BY DEF AcceptMutation, Valid, RegistryInv, TypeOK, RuntimeRecord, RetainsTheLatest,
           IdempotencyWindow
  <1>2. Len(m) <= Window /\ Len(m) \in Nat /\ Len(h) \in Nat
    BY <1>1, WindowPositive DEF LatestOf
  <1>3. rec \in RuntimeRecord /\ rec.target = instances[i].target
                              /\ rec.mutations = Remember(m, k)
    BY <1>1, <1>2, RememberLemma DEF RuntimeRecord
  <1>4. /\ instances' = [instances EXCEPT ![i] = rec]
        /\ accepted' = [accepted EXCEPT ![i] = Append(h, k)]
    BY DEF AcceptMutation
  <1>5. LatestOf(Remember(m, k), Append(h, k)) /\ RepeatsApart(Append(h, k))
    <2>1. \A n \in DOMAIN m : m[n].key # k
      BY <1>1 DEF Retained
    <2> HIDE DEF m, h
    <2> QED BY <1>1, <2>1, WindowSlides, RepeatsStayApart
  <1> HIDE DEF rec, m, h, i
  <1>7. TypeOK'
    <2>1. Append(h, k) \in Seq(Key)
      BY <1>1
    <2> QED BY <1>1, <1>3, <1>4, <2>1 DEF TypeOK, RegistryInv
  <1>8. /\ DOMAIN instances' = DOMAIN instances
        /\ \A j \in DOMAIN instances : instances'[j].target = instances[j].target
    BY <1>1, <1>3, <1>4 DEF RegistryInv, TypeOK
  <1>9. FiledUnderOwnInstance' /\ OneInstancePerSession'
    BY <1>8 DEF FiledUnderOwnInstance, OneInstancePerSession, RegistryInv
  <1>10. RetainsTheLatest' /\ IdempotencyWindow'
    BY <1>1, <1>3, <1>4, <1>5 DEF RetainsTheLatest, IdempotencyWindow, RegistryInv, TypeOK
  <1> QED BY <1>7, <1>9, <1>10 DEF RegistryInv

\* Steps that rewrite one record without touching the keys it retains.
LEMMA RewrittenRecord ==
  ASSUME RegistryInv, NEW i \in DOMAIN instances, NEW rec \in RuntimeRecord,
         instances' = [instances EXCEPT ![i] = rec], accepted' = accepted,
         rec.target.instance = i,
         \A j \in DOMAIN instances \ {i} : ~SameSession(instances[j].target, rec.target),
         Len(rec.mutations) = Len(instances[i].mutations),
         \A n \in 1 .. Len(rec.mutations) :
             rec.mutations[n].key = instances[i].mutations[n].key
  PROVE  RegistryInv'
  <1>1. /\ DOMAIN instances' = DOMAIN instances
        /\ instances'[i] = rec
        /\ \A j \in DOMAIN instances \ {i} : instances'[j] = instances[j]
        /\ instances' \in [DOMAIN instances -> RuntimeRecord]
    BY DEF RegistryInv, TypeOK
  <1>2. TypeOK'
    BY <1>1 DEF RegistryInv, TypeOK
  <1>3. FiledUnderOwnInstance'
    BY <1>1 DEF RegistryInv, FiledUnderOwnInstance
  <1>4. OneInstancePerSession'
    <2> SUFFICES ASSUME NEW p \in DOMAIN instances, NEW q \in DOMAIN instances,
                        SameSession(instances'[p].target, instances'[q].target)
                 PROVE  p = q
      BY <1>1 DEF OneInstancePerSession
    <2> QED BY <1>1 DEF RegistryInv, OneInstancePerSession, SameSession
  <1>5. RetainsTheLatest'
    <2> SUFFICES ASSUME NEW p \in DOMAIN instances
                 PROVE  LatestOf(instances'[p].mutations, accepted[p])
      BY <1>1 DEF RetainsTheLatest
    <2>1. LatestOf(instances[p].mutations, accepted[p])
      BY DEF RegistryInv, RetainsTheLatest
    <2>2. CASE p = i
      <3>1. LatestOf(instances[i].mutations, accepted[i])
        BY <2>1, <2>2
      <3>2. LatestOf(rec.mutations, accepted[i])
        BY <3>1 DEF LatestOf
      <3> QED BY <1>1, <2>2, <3>2
    <2>3. CASE p # i
      <3>1. instances'[p] = instances[p]
        BY <1>1, <2>3
      <3> QED BY <2>1, <3>1
    <2> QED BY <2>2, <2>3
  <1>6. IdempotencyWindow'
    BY <1>1 DEF RegistryInv, IdempotencyWindow
  <1> QED BY <1>2, <1>3, <1>4, <1>5, <1>6 DEF RegistryInv

-----------------------------------------------------------------------------
(* Every step preserves the invariant *)

LEMMA RewritingSteps ==
  ASSUME RegistryInv, NEW t \in RuntimeTarget,
         \/ \E st \in RuntimeState : SetState(t, st)
         \/ \E k \in Key, r \in Result : CompleteMutation(t, k, r)
         \/ EmitEvent(t)
         \/ \E s \in SessionId : BindSessionId(t, s)
  PROVE  RegistryInv'
  <1> DEFINE i == t.instance
             old == instances[i]
  <1>1. /\ Valid(t) => i \in DOMAIN instances
        /\ Valid(t) => old \in RuntimeRecord /\ old.target = t /\ old.target.instance = i
    BY DEF Valid, RegistryInv, TypeOK
  <1>2. Valid(t) => \A j \in DOMAIN instances \ {i} : ~SameSession(instances[j].target, t)
    BY <1>1 DEF RegistryInv, OneInstancePerSession
  <1>3. ASSUME NEW st \in RuntimeState, SetState(t, st) PROVE RegistryInv'
    <2> DEFINE rec == [old EXCEPT !.state = st]
    <2>1. rec \in RuntimeRecord /\ rec.target = old.target /\ rec.mutations = old.mutations
      BY <1>1, <1>3 DEF SetState, RuntimeRecord
    <2>2. instances' = [instances EXCEPT ![i] = rec] /\ accepted' = accepted /\ Valid(t)
      BY <1>3 DEF SetState
    <2> HIDE DEF rec, i
    <2> QED BY <1>1, <1>2, <2>1, <2>2, RewrittenRecord
  <1>4. ASSUME NEW k \in Key, NEW r \in Result, CompleteMutation(t, k, r) PROVE RegistryInv'
    <2> DEFINE n == PositionOf(i, k)
               m == old.mutations
               rec == [old EXCEPT !.mutations = [m EXCEPT ![n] = [m[n] EXCEPT !.result = r]]]
    <2>1. Valid(t) /\ accepted' = accepted /\ Retained(i, k)
      BY <1>4 DEF CompleteMutation
    <2>2. instances' = [instances EXCEPT ![i] = rec]
      BY <1>4 DEF CompleteMutation
    <2>3. m \in Seq(MutationRecord)
      BY <1>1, <2>1 DEF RuntimeRecord
    <2>4. n \in DOMAIN m
      BY <2>1 DEF Retained, PositionOf
    <2>5. m[n] \in MutationRecord
      BY <2>3, <2>4
    <2>6. [m[n] EXCEPT !.result = r] \in MutationRecord
      BY <2>5 DEF MutationRecord
    <2>7. [m[n] EXCEPT !.result = r].key = m[n].key
      BY <2>5 DEF MutationRecord
    <2> HIDE DEF n, m
    <2>8. /\ [m EXCEPT ![n] = [m[n] EXCEPT !.result = r]] \in Seq(MutationRecord)
          /\ Len([m EXCEPT ![n] = [m[n] EXCEPT !.result = r]]) = Len(m)
          /\ \A p \in 1 .. Len(m) :
                 [m EXCEPT ![n] = [m[n] EXCEPT !.result = r]][p].key = m[p].key
      BY <2>3, <2>4, <2>6, <2>7
    <2>9. /\ rec \in RuntimeRecord
          /\ rec.target = old.target
          /\ rec.mutations = [m EXCEPT ![n] = [m[n] EXCEPT !.result = r]]
      BY <1>1, <2>1, <2>8 DEF RuntimeRecord
    <2>10. /\ Len(rec.mutations) = Len(old.mutations)
           /\ \A p \in 1 .. Len(rec.mutations) : rec.mutations[p].key = old.mutations[p].key
      BY <2>8, <2>9 DEF m
    <2> HIDE DEF rec, i
    <2>11. /\ i \in DOMAIN instances
           /\ rec.target.instance = i
           /\ \A j \in DOMAIN instances \ {i} : ~SameSession(instances[j].target, rec.target)
      BY <1>1, <1>2, <2>1, <2>9
    <2>12. rec \in RuntimeRecord /\ accepted' = accepted
      BY <2>1, <2>9
    <2> HIDE DEF old
    <2> QED BY <2>2, <2>10, <2>11, <2>12, RewrittenRecord DEF old
  <1>5. ASSUME EmitEvent(t) PROVE RegistryInv'
    <2> DEFINE rec == [old EXCEPT !.sequence = @ + 1]
    <2>1. instances' = [instances EXCEPT ![i] = rec] /\ accepted' = accepted /\ Valid(t)
      BY <1>5 DEF EmitEvent
    <2>2. rec \in RuntimeRecord /\ rec.target = old.target /\ rec.mutations = old.mutations
      BY <1>1, <2>1 DEF RuntimeRecord
    <2> HIDE DEF rec, i
    <2> QED BY <1>1, <1>2, <2>1, <2>2, RewrittenRecord
  <1>6. ASSUME NEW s \in SessionId, BindSessionId(t, s) PROVE RegistryInv'
    <2> DEFINE rec == [old EXCEPT !.target = [t EXCEPT !.session = s]]
    <2>1. instances' = [instances EXCEPT ![i] = rec] /\ accepted' = accepted /\ CanBind(t, s)
      BY <1>6, <1>1 DEF BindSessionId, CanBind
    <2>2. /\ [t EXCEPT !.session = s] \in RuntimeTarget
          /\ [t EXCEPT !.session = s].instance = i
      BY DEF RuntimeTarget
    <2>3. /\ rec \in RuntimeRecord
          /\ rec.target = [t EXCEPT !.session = s]
          /\ rec.mutations = old.mutations
      BY <1>1, <2>1, <2>2 DEF RuntimeRecord, CanBind
    <2>4. \A j \in DOMAIN instances \ {i} : ~SameSession(instances[j].target, rec.target)
      BY <2>1, <2>3 DEF CanBind
    <2> HIDE DEF rec, i
    <2> QED BY <1>1, <2>1, <2>2, <2>3, <2>4, RewrittenRecord DEF CanBind
  <1> QED BY <1>3, <1>4, <1>5, <1>6

LEMMA NextPreserves == RegistryInv /\ [Next]_coordinatorVars => RegistryInv'
  <1> SUFFICES ASSUME RegistryInv, [Next]_coordinatorVars
               PROVE  RegistryInv'
    OBVIOUS
  <1>1. CASE UNCHANGED coordinatorVars
    BY <1>1 DEF coordinatorVars, RegistryInv, TypeOK, FiledUnderOwnInstance,
                OneInstancePerSession, RetainsTheLatest, IdempotencyWindow
  <1>2. CASE Next
    <2> PICK t \in RuntimeTarget :
          \/ \E st \in RuntimeState : Register(t, st) \/ SetState(t, st)
          \/ \E k \in Key : AcceptMutation(t, k)
          \/ \E k \in Key, r \in Result : CompleteMutation(t, k, r)
          \/ EmitEvent(t)
          \/ \E s \in SessionId : BindSessionId(t, s)
          \/ Unregister(t)
          \/ \E new \in InstanceId : Resume(t, new)
      BY <1>2 DEF Next
    <2>1. CASE \E st \in RuntimeState : Register(t, st)
      BY <2>1, FreshRecord
    <2>2. CASE \E k \in Key : AcceptMutation(t, k)
      BY <2>2, AcceptedMutation
    <2>3. CASE Unregister(t)
      BY <2>3, RemovedRecord
    <2>4. CASE \E new \in InstanceId : Resume(t, new)
      BY <2>4, ResumedRecord
    <2>5. CASE \/ \E st \in RuntimeState : SetState(t, st)
               \/ \E k \in Key, r \in Result : CompleteMutation(t, k, r)
               \/ EmitEvent(t)
               \/ \E s \in SessionId : BindSessionId(t, s)
      BY <2>5, RewritingSteps
    <2> QED BY <2>1, <2>2, <2>3, <2>4, <2>5
  <1> QED BY <1>1, <1>2

THEOREM RegistryInvariant == Spec => []RegistryInv
  BY InitEstablishes, NextPreserves, PTL DEF Spec

-----------------------------------------------------------------------------
(* What a reader takes away *)

\* The registry and its history keep their types (the shape the host and the
\* manager rely on when they look an instance up).
THEOREM TypeCorrect == Spec => []TypeOK
  BY RegistryInvariant, PTL DEF RegistryInv

\* No interleaving of register, bind_session_id, resume and unregister gives
\* one session of a workspace two instances.
THEOREM SessionOwnership == Spec => []OneInstancePerSession
  BY RegistryInvariant, PTL DEF RegistryInv

\* accept_mutation lets a key through a second time only after more than a
\* full window of acceptances, whatever the capacity.
THEOREM IdempotencyPromise == Spec => []IdempotencyWindow
  BY RegistryInvariant, PTL DEF RegistryInv

\* What a step may do to one instance that stays registered.
Continues(i) ==
    /\ instances'[i].target.workspace = instances[i].target.workspace
    /\ instances'[i].sequence \in {instances[i].sequence, instances[i].sequence + 1}
    /\ Len(accepted'[i]) >= Len(accepted[i])

\* A record that is replaced by one of the same workspace, with the same
\* sequence or the next, is continued, and so are all the others.
LEMMA ReplacedContinues ==
  ASSUME RegistryInv, NEW i \in DOMAIN instances, NEW rec,
         instances' = [instances EXCEPT ![i] = rec],
         rec.target.workspace = instances[i].target.workspace,
         rec.sequence \in {instances[i].sequence, instances[i].sequence + 1},
         \A j \in DOMAIN instances : Len(accepted'[j]) >= Len(accepted[j])
  PROVE  \A j \in DOMAIN instances : Continues(j)
  BY DEF Continues

LEMMA StepContinues ==
  ASSUME RegistryInv, Next
  PROVE  \A j \in DOMAIN instances \cap DOMAIN instances' : Continues(j)
  <1>1. \A j \in DOMAIN instances :
            instances[j] \in RuntimeRecord /\ accepted[j] \in Seq(Key) /\ Len(accepted[j]) \in Nat
    BY DEF RegistryInv, TypeOK
  <1>2. ASSUME NEW j \in DOMAIN instances, instances'[j] = instances[j], accepted'[j] = accepted[j]
        PROVE  Continues(j)
    BY <1>1, <1>2 DEF Continues
  <1>3. \A j \in DOMAIN instances : Len(accepted[j]) >= Len(accepted[j])
    BY <1>1
  <1> PICK t \in RuntimeTarget :
        \/ \E st \in RuntimeState : Register(t, st) \/ SetState(t, st)
        \/ \E k \in Key : AcceptMutation(t, k)
        \/ \E k \in Key, r \in Result : CompleteMutation(t, k, r)
        \/ EmitEvent(t)
        \/ \E s \in SessionId : BindSessionId(t, s)
        \/ Unregister(t)
        \/ \E new \in InstanceId : Resume(t, new)
    BY DEF Next
  <1> DEFINE i == t.instance
             old == instances[i]
  <1>4. Valid(t) => i \in DOMAIN instances /\ old \in RuntimeRecord /\ old.target = t
    BY <1>1 DEF Valid
  <1>5. CASE \E st \in RuntimeState : Register(t, st)
    BY <1>2, <1>5 DEF Register, CanRegister, Put, RegistryInv, TypeOK
  <1>6. CASE Unregister(t)
    BY <1>2, <1>6 DEF Unregister, Without, RegistryInv, TypeOK
  <1>7. ASSUME NEW new \in InstanceId, Resume(t, new)
        PROVE  \A j \in DOMAIN instances \cap DOMAIN instances' : Continues(j)
    BY <1>2, <1>7 DEF Resume, Put, Without, RegistryInv, TypeOK
  <1>8. ASSUME NEW st \in RuntimeState, SetState(t, st)
        PROVE  \A j \in DOMAIN instances : Continues(j)
    <2> DEFINE rec == [old EXCEPT !.state = st]
    <2>1. instances' = [instances EXCEPT ![i] = rec] /\ accepted' = accepted /\ Valid(t)
      BY <1>8 DEF SetState
    <2>2. rec.target = old.target /\ rec.sequence = old.sequence
      BY <1>4, <2>1 DEF RuntimeRecord
    <2> HIDE DEF rec
    <2> QED BY <1>3, <1>4, <2>1, <2>2, ReplacedContinues
  <1>9. ASSUME NEW k \in Key, NEW r \in Result, CompleteMutation(t, k, r)
        PROVE  \A j \in DOMAIN instances : Continues(j)
    <2> DEFINE rec == [old EXCEPT !.mutations[PositionOf(i, k)].result = r]
    <2>1. instances' = [instances EXCEPT ![i] = rec] /\ accepted' = accepted /\ Valid(t)
      BY <1>9 DEF CompleteMutation
    <2>2. rec.target = old.target /\ rec.sequence = old.sequence
      BY <1>4, <2>1 DEF RuntimeRecord
    <2> HIDE DEF rec
    <2> QED BY <1>3, <1>4, <2>1, <2>2, ReplacedContinues
  <1>10. ASSUME EmitEvent(t) PROVE \A j \in DOMAIN instances : Continues(j)
    <2> DEFINE rec == [old EXCEPT !.sequence = @ + 1]
    <2>1. instances' = [instances EXCEPT ![i] = rec] /\ accepted' = accepted /\ Valid(t)
      BY <1>10 DEF EmitEvent
    <2>2. rec.target = old.target /\ rec.sequence = old.sequence + 1
      BY <1>4, <2>1 DEF RuntimeRecord
    <2> HIDE DEF rec
    <2> QED BY <1>3, <1>4, <2>1, <2>2, ReplacedContinues
  <1>11. ASSUME NEW s \in SessionId, BindSessionId(t, s)
         PROVE  \A j \in DOMAIN instances : Continues(j)
    <2> DEFINE rec == [old EXCEPT !.target = [t EXCEPT !.session = s]]
    <2>1. instances' = [instances EXCEPT ![i] = rec] /\ accepted' = accepted /\ Valid(t)
      BY <1>4, <1>11 DEF BindSessionId, CanBind
    <2>2. rec.target.workspace = old.target.workspace /\ rec.sequence = old.sequence
      BY <1>4, <2>1 DEF RuntimeRecord, RuntimeTarget
    <2> HIDE DEF rec
    <2> QED BY <1>3, <1>4, <2>1, <2>2, ReplacedContinues
  <1>12. ASSUME NEW k \in Key, AcceptMutation(t, k)
         PROVE  \A j \in DOMAIN instances : Continues(j)
    <2> DEFINE rec == [old EXCEPT !.mutations = Remember(@, k)]
    <2>1. /\ instances' = [instances EXCEPT ![i] = rec] /\ Valid(t)
          /\ accepted' = [accepted EXCEPT ![i] = Append(@, k)]
      BY <1>12 DEF AcceptMutation
    <2>2. rec.target = old.target /\ rec.sequence = old.sequence
      BY <1>4, <2>1 DEF RuntimeRecord
    <2>3. \A j \in DOMAIN instances : Len(accepted'[j]) >= Len(accepted[j])
      BY <1>1, <1>4, <2>1 DEF RegistryInv, TypeOK
    <2> HIDE DEF rec
    <2> QED BY <1>4, <2>1, <2>2, <2>3, ReplacedContinues
  <1> QED BY <1>5, <1>6, <1>7, <1>8, <1>9, <1>10, <1>11, <1>12

\* Between register and unregister or resume, bind_session_id, set_state,
\* emit_event and the mutations keep an instance's workspace and never turn
\* its sequence or its history back.
THEOREM Continuity == Spec => RegistrationContinuity
  <1>1. RegistryInv /\ [Next]_coordinatorVars =>
          [\A i \in DOMAIN instances \cap DOMAIN instances' :
              /\ instances'[i].target.workspace = instances[i].target.workspace
              /\ instances'[i].sequence \in {instances[i].sequence, instances[i].sequence + 1}
              /\ Len(accepted'[i]) >= Len(accepted[i])]_coordinatorVars
    BY StepContinues DEF Continues
  <1> QED BY <1>1, RegistryInvariant, PTL DEF Spec, RegistrationContinuity

USE ManagerBoundsAssumption

-----------------------------------------------------------------------------
(* Types                                                                     *)

SpawnCalls == [op : {"spawn"}, at : {"register", "insert", "discard"}, target : RuntimeTarget]
StopCalls ==
    [op : {"stop"}, at : {"validate", "remove", "unregister", "reap"}, target : RuntimeTarget,
     rest : SUBSET RuntimeTarget, respawn : BOOLEAN]
BindCalls ==
    [op : {"bind"}, at : {"coordinate", "route", "publish"}, target : RuntimeTarget,
     session : SessionId, sequence : Nat]
RequestCalls ==
    [op : {"request"}, at : {"accept", "send", "wait", "complete"},
     target : RuntimeTarget, key : Key, position : Nat]
RespondCalls ==
    [op : {"respond"}, at : {"validate", "send", "forget"}, target : RuntimeTarget,
     number : 1 .. MaxFrames]

LEMMA CallTypes ==
    CallType = {Idle} \cup SpawnCalls \cup StopCalls \cup BindCalls \cup RequestCalls
                      \cup RespondCalls
  BY DEF CallType, SpawnCalls, StopCalls, BindCalls, RequestCalls, RespondCalls

\* The method a call is in tells what it carries.
LEMMA CallIsTyped ==
  ASSUME ManagerTypeOK, NEW c \in Caller
  PROVE  /\ calls[c] \in CallType
         /\ calls[c].op = "spawn" => calls[c] \in SpawnCalls
         /\ calls[c].op = "stop" => calls[c] \in StopCalls
         /\ calls[c].op = "bind" => calls[c] \in BindCalls
         /\ calls[c].op = "request" => calls[c] \in RequestCalls
         /\ calls[c].op = "respond" => calls[c] \in RespondCalls
         /\ calls[c].op \notin {"spawn", "stop", "bind", "request", "respond"} => calls[c] = Idle
  <1>1. calls[c] \in CallType
    BY DEF ManagerTypeOK
  <1>2. \A x \in {Idle} : x.op = "idle"
    BY DEF Idle
  <1>3. \A x \in SpawnCalls : x.op = "spawn"
    BY DEF SpawnCalls
  <1>4. \A x \in StopCalls : x.op = "stop"
    BY DEF StopCalls
  <1>5. \A x \in BindCalls : x.op = "bind"
    BY DEF BindCalls
  <1>6. \A x \in RequestCalls : x.op = "request"
    BY DEF RequestCalls
  <1>7. \A x \in RespondCalls : x.op = "respond"
    BY DEF RespondCalls
  <1> QED BY <1>1, <1>2, <1>3, <1>4, <1>5, <1>6, <1>7, CallTypes, Zenon

LEMMA NewCallIsTyped ==
  ASSUME NEW t \in RuntimeTarget
  PROVE  /\ SpawnCall(t) \in CallType
         /\ \A rest \in SUBSET RuntimeTarget : \A respawn \in BOOLEAN :
                StopCall(t, rest, respawn) \in CallType
         /\ \A s \in SessionId : BindCall(t, s) \in CallType
         /\ \A k \in Key : RequestCall(t, k) \in CallType
         /\ \A n \in 1 .. MaxFrames : RespondCall(t, n) \in CallType
  BY CallTypes DEF SpawnCalls, StopCalls, BindCalls, RequestCalls, RespondCalls,
         SpawnCall, StopCall, BindCall, RequestCall, RespondCall

\* The next step of each method carries what the one before carried.
LEMMA NextStepIsTyped ==
  ASSUME ManagerTypeOK, NEW c \in Caller
  PROVE  /\ calls[c].op = "spawn" => \A at \in {"insert", "discard"} :
                [calls[c] EXCEPT !.at = at] \in CallType
         /\ calls[c].op = "stop" => \A at \in {"validate", "remove", "unregister", "reap"} :
                [calls[c] EXCEPT !.at = at] \in CallType
         /\ calls[c].op = "bind" => [calls[c] EXCEPT !.at = "publish"] \in CallType
         /\ calls[c].op = "bind" => \A n \in Nat :
                [calls[c] EXCEPT !.at = "route", !.sequence = n] \in CallType
         /\ calls[c].op = "request" => \A at \in {"send", "wait", "complete"} :
                [calls[c] EXCEPT !.at = at] \in CallType
         /\ calls[c].op = "request" => \A n \in Nat :
                [calls[c] EXCEPT !.at = "wait", !.position = n] \in CallType
         /\ calls[c].op = "respond" => \A at \in {"send", "forget"} :
                [calls[c] EXCEPT !.at = at] \in CallType
  <1>1. calls[c].op = "spawn" => \A at \in {"insert", "discard"} :
            [calls[c] EXCEPT !.at = at] \in SpawnCalls
    BY CallIsTyped DEF SpawnCalls
  <1>2. calls[c].op = "stop" => \A at \in {"validate", "remove", "unregister", "reap"} :
            [calls[c] EXCEPT !.at = at] \in StopCalls
    BY CallIsTyped DEF StopCalls
  <1>3. calls[c].op = "bind" =>
            /\ [calls[c] EXCEPT !.at = "publish"] \in BindCalls
            /\ \A n \in Nat : [calls[c] EXCEPT !.at = "route", !.sequence = n] \in BindCalls
    BY CallIsTyped DEF BindCalls
  <1>4. calls[c].op = "request" =>
            /\ \A at \in {"send", "wait", "complete"} : [calls[c] EXCEPT !.at = at] \in RequestCalls
            /\ \A n \in Nat : [calls[c] EXCEPT !.at = "wait", !.position = n] \in RequestCalls
    BY CallIsTyped DEF RequestCalls
  <1>5. calls[c].op = "respond" => \A at \in {"send", "forget"} :
            [calls[c] EXCEPT !.at = at] \in RespondCalls
    BY CallIsTyped DEF RespondCalls
  <1> QED BY <1>1, <1>2, <1>3, <1>4, <1>5, CallTypes, Zenon

LEMMA CallsAreTyped ==
  ASSUME ManagerTypeOK, NEW c \in Caller, NEW new \in CallType,
         calls' = [calls EXCEPT ![c] = new]
  PROVE  calls' \in [Caller -> CallType]
  BY DEF ManagerTypeOK

LEMMA IdleIsTyped == Idle \in CallType
  BY DEF CallType

LEMMA GotoIsTyped ==
  ASSUME ManagerTypeOK, NEW c \in Caller, NEW at, Goto(c, at),
         [calls[c] EXCEPT !.at = at] \in CallType
  PROVE  calls' \in [Caller -> CallType]
  <1>1. calls' = [calls EXCEPT ![c] = [calls[c] EXCEPT !.at = at]]
    BY DEF Goto
  <1> QED BY <1>1, CallsAreTyped

LEMMA FinishIsTyped ==
  ASSUME ManagerTypeOK, NEW c \in Caller, Finish(c)
  PROVE  calls' \in [Caller -> CallType]
  BY IdleIsTyped, CallsAreTyped DEF Finish

LEMMA StopNextIsTyped ==
  ASSUME ManagerTypeOK, NEW c \in Caller, calls[c].op = "stop", StopNext(c)
  PROVE  calls' \in [Caller -> CallType]
  <1>1. calls[c].rest \in SUBSET RuntimeTarget
    BY CallIsTyped DEF StopCalls
  <1>2. \A t \in calls[c].rest : StopCall(t, calls[c].rest \ {t}, FALSE) \in CallType
    BY <1>1, NewCallIsTyped
  <1> QED BY <1>2, FinishIsTyped, CallsAreTyped DEF StopNext

LEMMA RoutesAreTyped ==
  ASSUME ManagerTypeOK
  PROVE  RoutedTargets \subseteq RuntimeTarget
  BY DEF ManagerTypeOK, RoutedTargets

LEMMA PumpIsTyped ==
  ASSUME ManagerTypeOK, NEW i \in InstanceId
  PROVE  /\ pump[i] \in PumpType
         /\ pump[i].at # "off" => /\ pump[i].target \in RuntimeTarget
                                  /\ pump[i].sequence \in Nat
                                  /\ pump[i].frame \in Frame \cup {NoFrame}
         /\ pump[i].at \in {"sequence", "remember", "publish"} => pump[i].frame \in Frame
  <1>1. pump[i] \in PumpType
    BY DEF ManagerTypeOK
  <1> QED BY <1>1 DEF PumpType

RestingPumps ==
    [at : {"next", "unregister", "forget", "returned"}, target : RuntimeTarget,
     frame : Frame \cup {NoFrame}, sequence : Nat]
BusyPumps ==
    [at : {"sequence", "remember", "publish"}, target : RuntimeTarget, frame : Frame,
     sequence : Nat]

\* Where a pump can go from where it is.
LEMMA PumpMoves ==
  ASSUME ManagerTypeOK, NEW i \in InstanceId, pump[i].at # "off"
  PROVE  /\ \A at \in {"next", "unregister", "forget", "returned"} :
                /\ [pump[i] EXCEPT !.at = at] \in PumpType
                /\ [pump[i] EXCEPT !.at = at].target = pump[i].target
         /\ \A t \in RuntimeTarget :
                /\ [pump[i] EXCEPT !.at = "unregister", !.target = t] \in PumpType
                /\ [pump[i] EXCEPT !.at = "unregister", !.target = t].target = t
         /\ pump[i].at \in {"sequence", "remember", "publish"} =>
                \A at \in {"remember", "publish"} : \A n \in Nat :
                    /\ [pump[i] EXCEPT !.at = at, !.sequence = n] \in PumpType
                    /\ [pump[i] EXCEPT !.at = at, !.sequence = n].target = pump[i].target
                    /\ [pump[i] EXCEPT !.at = at] \in PumpType
                    /\ [pump[i] EXCEPT !.at = at].target = pump[i].target
  <1> DEFINE p == pump[i]
  <1>1. PumpType = {[at |-> "off"]} \cup RestingPumps \cup BusyPumps
    BY DEF PumpType, RestingPumps, BusyPumps
  <1>2. \A x \in {[at |-> "off"]} : x.at = "off"
    OBVIOUS
  <1>3. p \in RestingPumps \/ p \in BusyPumps
    <2>1. p \in PumpType /\ p.at # "off"
      BY PumpIsTyped
    <2> HIDE DEF p
    <2> QED BY <1>1, <1>2, <2>1
  <1> HIDE DEF p
  <1>4. \A at \in {"next", "unregister", "forget", "returned"} :
            [p EXCEPT !.at = at] \in RestingPumps /\ [p EXCEPT !.at = at].target = p.target
    <2>1. CASE p \in RestingPumps
      BY <2>1 DEF RestingPumps
    <2>2. CASE p \in BusyPumps
      BY <2>2 DEF RestingPumps, BusyPumps
    <2> QED BY <1>3, <2>1, <2>2
  <1>5. \A t \in RuntimeTarget :
            /\ [p EXCEPT !.at = "unregister", !.target = t] \in RestingPumps
            /\ [p EXCEPT !.at = "unregister", !.target = t].target = t
    <2>1. CASE p \in RestingPumps
      BY <2>1 DEF RestingPumps
    <2>2. CASE p \in BusyPumps
      BY <2>2 DEF RestingPumps, BusyPumps
    <2> QED BY <1>3, <2>1, <2>2
  <1>6. p.at \in {"sequence", "remember", "publish"} =>
            \A at \in {"remember", "publish"} : \A n \in Nat :
                /\ [p EXCEPT !.at = at, !.sequence = n] \in BusyPumps
                /\ [p EXCEPT !.at = at, !.sequence = n].target = p.target
                /\ [p EXCEPT !.at = at] \in BusyPumps
                /\ [p EXCEPT !.at = at].target = p.target
    <2>1. CASE p \in RestingPumps
      BY <2>1 DEF RestingPumps
    <2>2. CASE p \in BusyPumps
      BY <2>2 DEF BusyPumps
    <2> QED BY <1>3, <2>1, <2>2
  <1> QED BY <1>1, <1>4, <1>5, <1>6 DEF p

-----------------------------------------------------------------------------
(* The registry under the manager                                            *)

\* A route, and the target a pump works for, name the instance they belong to.
RoutesAreOwn ==
    /\ \A i \in DOMAIN runtimes : runtimes[i].instance = i
    /\ \A i \in InstanceId : pump[i].at # "off" => pump[i].target.instance = i

ManagerTypes == ManagerTypeOK /\ RegistryInv /\ RoutesAreOwn

\* Two of the manager's lock sections call two methods of the coordinator: a
\* binding takes a number and binds, a pump sets the state and takes a number.
LEMMA NumberedRecord ==
  ASSUME RegistryInv, NEW i \in DOMAIN instances, NEW rec,
         instances' = [instances EXCEPT ![i] = rec], accepted' = accepted,
         rec \in RuntimeRecord,
         rec.mutations = instances[i].mutations,
         rec.target.instance = i,
         \A j \in DOMAIN instances \ {i} : ~SameSession(instances[j].target, rec.target)
  PROVE  RegistryInv'
  BY RewrittenRecord

LEMMA BindingKeepsRegistry ==
  ASSUME ManagerTypes, NEW c \in Caller, BindCoordinate(c)
  PROVE  RegistryInv'
  <1> DEFINE t == calls[c].target
             s == calls[c].session
             i == t.instance
  <1>1. t \in RuntimeTarget /\ s \in SessionId
    BY CallIsTyped DEF BindCoordinate, Doing, ManagerTypes, BindCalls
  <1>2. CASE UNCHANGED coordinatorVars
    BY <1>2, NextPreserves DEF ManagerTypes
  <1>3. CASE EmitEvent(t)
    BY <1>1, <1>3, RewritingSteps DEF ManagerTypes
  <1>4. ASSUME CanBind(t, s), accepted' = accepted,
               instances' = [instances EXCEPT ![i].sequence = NextSequence(i),
                                              ![i].target.session = s]
        PROVE  RegistryInv'
    <2> DEFINE bound == [t EXCEPT !.session = s]
               rec == [instances[i] EXCEPT !.sequence = NextSequence(i), !.target = bound]
    <2>1. /\ i \in DOMAIN instances
          /\ instances[i] \in RuntimeRecord
          /\ instances[i].target = t
      BY <1>4 DEF CanBind, Valid, ManagerTypes, RegistryInv, TypeOK
    <2>2. instances' = [instances EXCEPT ![i] = rec]
      BY <1>4, <2>1
    <2>3. bound \in RuntimeTarget /\ bound.instance = i
      BY <1>1 DEF RuntimeTarget
    <2>4. NextSequence(i) \in Nat
      BY <2>1 DEF NextSequence, RuntimeRecord
    <2>5. /\ rec \in RuntimeRecord
          /\ rec.mutations = instances[i].mutations
          /\ rec.target = bound
      BY <2>1, <2>3, <2>4 DEF RuntimeRecord
    <2>6. \A j \in DOMAIN instances \ {i} : ~SameSession(instances[j].target, bound)
      BY <1>4 DEF CanBind
    <2> HIDE DEF rec, bound, i
    <2> QED BY <1>4, <2>1, <2>2, <2>3, <2>5, <2>6, NumberedRecord DEF ManagerTypes
  <1> QED BY <1>2, <1>3, <1>4 DEF BindCoordinate

LEMMA PumpingKeepsRegistry ==
  ASSUME ManagerTypes, NEW i \in InstanceId, PumpSequence(i)
  PROVE  RegistryInv'
  <1> DEFINE t == pump[i].target
             st == StateAfter(pump[i].frame, instances[i].state)
             rec == [instances[i] EXCEPT !.sequence = NextSequence(i), !.state = st]
  <1>1. t \in RuntimeTarget /\ t.instance = i
    BY PumpIsTyped DEF PumpSequence, ManagerTypes, RoutesAreOwn
  <1>2. CASE ~Valid(t)
    BY <1>2, NextPreserves DEF PumpSequence, ManagerTypes, coordinatorVars
  <1>3. CASE Valid(t)
    <2>1. /\ i \in DOMAIN instances
          /\ instances[i] \in RuntimeRecord
          /\ instances[i].target = t
      BY <1>1, <1>3 DEF Valid, ManagerTypes, RegistryInv, TypeOK
    <2>2. instances' = [instances EXCEPT ![i] = rec] /\ accepted' = accepted
      BY <1>3, <2>1 DEF PumpSequence
    <2>3. st \in RuntimeState /\ NextSequence(i) \in Nat
      BY <2>1 DEF StateAfter, RuntimeRecord, RuntimeState, NextSequence
    <2>4. /\ rec \in RuntimeRecord
          /\ rec.mutations = instances[i].mutations
          /\ rec.target = t
      BY <2>1, <2>3 DEF RuntimeRecord
    <2>5. \A j \in DOMAIN instances \ {i} : ~SameSession(instances[j].target, t)
      BY <2>1 DEF ManagerTypes, RegistryInv, OneInstancePerSession
    <2> HIDE DEF rec, t
    <2> QED BY <1>1, <2>1, <2>2, <2>4, <2>5, NumberedRecord DEF ManagerTypes
  <1> QED BY <1>2, <1>3

\* Every other step of the manager is one step of the coordinator, or none.
LEMMA OtherStepsAreOfTheRegistry ==
  ASSUME ManagerTypes, ManagerNext,
         \A c \in Caller : ~BindCoordinate(c),
         \A i \in InstanceId : ~PumpSequence(i)
  PROVE  [Next]_coordinatorVars
  <1>1. ASSUME NEW c \in Caller, CallBegins(c) PROVE UNCHANGED coordinatorVars
    BY <1>1 DEF CallBegins, SpawnBegin, StopBegin, StopSetBegin, RestartBegin, BindBegin,
                RequestBegin, RespondBegin
  <1>2. ASSUME NEW c \in Caller, SpawnRegister(c) PROVE [Next]_coordinatorVars
    <2>1. calls[c].target \in RuntimeTarget
      BY <1>2, CallIsTyped DEF SpawnRegister, Doing, ManagerTypes, SpawnCalls
    <2>2. "starting" \in RuntimeState
      BY DEF RuntimeState
    <2> QED BY <1>2, <2>1, <2>2 DEF SpawnRegister, Next
  <1>3. ASSUME NEW c \in Caller, StopUnregister(c) PROVE [Next]_coordinatorVars
    <2>1. calls[c].target \in RuntimeTarget
      BY <1>3, CallIsTyped DEF StopUnregister, Doing, ManagerTypes, StopCalls
    <2> QED BY <1>3, <2>1 DEF StopUnregister, Next
  <1>4. ASSUME NEW c \in Caller, RequestAccept(c) \/ RequestComplete(c)
        PROVE  [Next]_coordinatorVars
    <2>1. calls[c].target \in RuntimeTarget /\ calls[c].key \in Key
      BY <1>4, CallIsTyped DEF RequestAccept, RequestComplete, Doing, ManagerTypes, RequestCalls
    <2>2. TRUE \in Result
      BY DEF Result
    <2> QED BY <1>4, <2>1, <2>2 DEF RequestAccept, RequestComplete, Next
  <1>5. ASSUME NEW c \in Caller,
               \/ SpawnAttachFails(c) \/ SpawnDiscard(c) \/ SpawnInsert(c)
               \/ StopValidate(c) \/ StopRemove(c) \/ StopReap(c)
               \/ BindRoute(c) \/ BindPublish(c)
               \/ RequestSend(c) \/ RequestAnswered(c) \/ RequestFailed(c)
               \/ RespondValidate(c) \/ RespondSend(c) \/ RespondForget(c)
        PROVE  UNCHANGED coordinatorVars
    BY <1>5 DEF SpawnAttachFails, SpawnDiscard, SpawnInsert, StopValidate, StopRemove, StopReap,
                BindRoute, BindPublish, RequestSend, RequestAnswered, RequestFailed,
                RespondValidate, RespondSend, RespondForget
  <1>6. ASSUME NEW i \in InstanceId, PumpUnregister(i) PROVE [Next]_coordinatorVars
    <2>1. pump[i].target \in RuntimeTarget
      BY <1>6, PumpIsTyped DEF PumpUnregister, ManagerTypes
    <2> QED BY <1>6, <2>1 DEF PumpUnregister, Next
  <1>7. ASSUME NEW i \in InstanceId,
               \/ PumpTake(i) \/ PumpRemember(i) \/ PumpPublish(i) \/ PumpRemoveClosed(i)
               \/ PumpForget(i) \/ PiGoesOn(i)
        PROVE  UNCHANGED coordinatorVars
    BY <1>7 DEF PumpTake, PumpRemember, PumpPublish, PumpRemoveClosed, PumpForget, PiGoesOn,
                PiWrite, PiRun, PiExit
  <1> QED
    BY <1>1, <1>2, <1>3, <1>4, <1>5, <1>6, <1>7 DEF ManagerNext, CallGoesOn, PumpGoesOn

LEMMA RegistryIsKept == ManagerTypes /\ ManagerNext => RegistryInv'
  <1> SUFFICES ASSUME ManagerTypes, ManagerNext PROVE RegistryInv'
    OBVIOUS
  <1>1. CASE \E c \in Caller : BindCoordinate(c)
    BY <1>1, BindingKeepsRegistry
  <1>2. CASE \E i \in InstanceId : PumpSequence(i)
    BY <1>2, PumpingKeepsRegistry
  <1>3. CASE (\A c \in Caller : ~BindCoordinate(c)) /\ (\A i \in InstanceId : ~PumpSequence(i))
    BY <1>3, OtherStepsAreOfTheRegistry, NextPreserves DEF ManagerTypes
  <1> QED BY <1>1, <1>2, <1>3

-----------------------------------------------------------------------------
(* Types and routes are kept                                                 *)

\* What a step has to give when the registry's part is known.
StateIsTyped ==
    /\ DOMAIN runtimes \subseteq InstanceId
    /\ runtimes \in [DOMAIN runtimes -> RuntimeTarget]
    /\ pendingUi \in [InstanceId -> SUBSET Event]
    /\ bus \in Seq(Event)
    /\ process \in [InstanceId -> {"none", "open", "closed"}]
    /\ pipe \in [InstanceId -> Seq(Frame)]
    /\ written \in [InstanceId -> Nat]
    /\ sent \in [InstanceId -> Seq(Key)]
    /\ ran \in [InstanceId -> Nat]
    /\ answered \in [InstanceId -> SUBSET (1 .. MaxFrames)]
    /\ pump \in [InstanceId -> PumpType]
    /\ calls \in [Caller -> CallType]
    /\ begun \in Nat
    /\ RoutesAreOwn

HistoryIsTyped == lost \cup unkilled \cup overtaken \subseteq InstanceId

LEMMA TypesSplit == ManagerTypes <=> RegistryInv /\ StateIsTyped /\ HistoryIsTyped
  BY DEF ManagerTypes, ManagerTypeOK, StateIsTyped, HistoryIsTyped, RegistryInv

LEMMA BeginTypes ==
  ASSUME ManagerTypes, NEW c \in Caller, CallBegins(c)
  PROVE  StateIsTyped'
  <1> USE DEF piVars, ManagerTypes, ManagerTypeOK, StateIsTyped, RoutesAreOwn
  <1>1. ASSUME NEW op, NEW call \in CallType, Begin(c, op, call),
               UNCHANGED <<runtimes, pendingUi, bus, piVars, pump>>
        PROVE  StateIsTyped'
    BY <1>1, CallsAreTyped DEF Begin
  <1>2. CASE SpawnBegin(c)
    <2> PICK w \in WorkspaceId, s \in SessionId, i \in Unused :
          /\ Begin(c, "spawn", SpawnCall([workspace |-> w, session |-> s, instance |-> i]))
          /\ process' = [process EXCEPT ![i] = "open"]
          /\ UNCHANGED <<coordinatorVars, runtimes, pendingUi, bus, pipe, written, sent, ran,
                         answered, pump>>
      BY <1>2 DEF SpawnBegin
    <2>1. [workspace |-> w, session |-> s, instance |-> i] \in RuntimeTarget
      BY DEF RuntimeTarget, Unused
    <2>2. SpawnCall([workspace |-> w, session |-> s, instance |-> i]) \in CallType
      BY <2>1, NewCallIsTyped
    <2>3. calls' \in [Caller -> CallType] /\ begun' \in Nat
      BY <2>2, CallsAreTyped DEF Begin
    <2> QED BY <2>3
  <1>3. CASE StopBegin(c) \/ RestartBegin(c)
    <2>1. \A t \in RoutedTargets : \A respawn \in BOOLEAN : StopCall(t, {}, respawn) \in CallType
      BY RoutesAreTyped, NewCallIsTyped
    <2> QED BY <1>1, <1>3, <2>1 DEF StopBegin, RestartBegin
  <1>4. CASE StopSetBegin(c)
    <2>1. \A T \in SUBSET RoutedTargets : \A t \in T : StopCall(t, T \ {t}, FALSE) \in CallType
      BY RoutesAreTyped, NewCallIsTyped
    <2>2. PICK T \in SUBSET RoutedTargets : \E t \in T :
              /\ Begin(c, "stop_all", StopCall(t, T \ {t}, FALSE))
              /\ UNCHANGED <<coordinatorVars, runtimes, pendingUi, bus, piVars, pump>>
      BY <1>4 DEF StopSetBegin
    <2> QED BY <1>1, <2>1, <2>2
  <1>5. CASE BindBegin(c)
    <2>1. \A t \in RoutedTargets : \A s \in SessionId : BindCall(t, s) \in CallType
      BY RoutesAreTyped, NewCallIsTyped
    <2> QED BY <1>1, <1>5, <2>1 DEF BindBegin
  <1>6. CASE RequestBegin(c)
    <2>1. \A t \in RoutedTargets : \A k \in Key : RequestCall(t, k) \in CallType
      BY RoutesAreTyped, NewCallIsTyped
    <2> QED BY <1>1, <1>6, <2>1 DEF RequestBegin
  <1>7. CASE RespondBegin(c)
    <2>1. \A t \in RoutedTargets : \A n \in Shown(t.instance) : RespondCall(t, n) \in CallType
      BY RoutesAreTyped, NewCallIsTyped DEF Shown
    <2> QED BY <1>1, <1>7, <2>1 DEF RespondBegin
  <1> QED BY <1>2, <1>3, <1>4, <1>5, <1>6, <1>7 DEF CallBegins

LEMMA SpawnTypes ==
  ASSUME ManagerTypes, NEW c \in Caller,
         SpawnAttachFails(c) \/ SpawnRegister(c) \/ SpawnDiscard(c) \/ SpawnInsert(c)
  PROVE  StateIsTyped'
  <1> USE DEF piVars, ManagerTypes, ManagerTypeOK, StateIsTyped, RoutesAreOwn
  <1> DEFINE t == calls[c].target
  <1>1. calls[c] \in SpawnCalls /\ calls[c].op = "spawn"
    BY CallIsTyped DEF SpawnAttachFails, SpawnRegister, SpawnDiscard, SpawnInsert, Doing
  <1>2. t \in RuntimeTarget /\ t.instance \in InstanceId
    BY <1>1 DEF SpawnCalls, RuntimeTarget
  <1>5. CASE SpawnAttachFails(c) \/ SpawnDiscard(c)
    <2>1. calls' \in [Caller -> CallType]
      BY <1>5, FinishIsTyped DEF SpawnAttachFails, SpawnDiscard
    <2> QED BY <1>5, <2>1 DEF SpawnAttachFails, SpawnDiscard
  <1>3. CASE SpawnRegister(c)
    <2>1. calls' \in [Caller -> CallType]
      BY <1>1, <1>3, NextStepIsTyped, GotoIsTyped, FinishIsTyped DEF SpawnRegister
    <2>2. process' \in [InstanceId -> {"none", "open", "closed"}]
      BY <1>2, <1>3 DEF SpawnRegister, Kill, KillFails
    <2> QED BY <1>3, <2>1, <2>2 DEF SpawnRegister
  <1>4. CASE SpawnInsert(c)
    <2>1. calls' \in [Caller -> CallType]
      BY <1>4, FinishIsTyped DEF SpawnInsert
    <2>2. PumpAt("next", t, NoFrame, 0) \in PumpType
      BY <1>2 DEF PumpAt, PumpType
    <2>3. PumpAt("next", t, NoFrame, 0).target = t
      BY DEF PumpAt
    <2>4. /\ pump' = [pump EXCEPT ![t.instance] = PumpAt("next", t, NoFrame, 0)]
          /\ runtimes' = Put(runtimes, t.instance, t)
          /\ UNCHANGED <<pendingUi, bus, piVars, begun>>
      BY <1>4 DEF SpawnInsert
    <2> HIDE DEF t
    <2>5. pump' \in [InstanceId -> PumpType]
      BY <2>2, <2>4
    <2>6. /\ DOMAIN runtimes' \subseteq InstanceId
          /\ runtimes' \in [DOMAIN runtimes' -> RuntimeTarget]
          /\ \A i \in DOMAIN runtimes' : runtimes'[i].instance = i
      BY <1>2, <2>4 DEF Put
    <2>7. \A i \in InstanceId : pump'[i].at # "off" => pump'[i].target.instance = i
      BY <1>2, <2>3, <2>4
    <2> QED BY <2>1, <2>4, <2>5, <2>6, <2>7
  <1> QED BY <1>3, <1>4, <1>5

LEMMA StopTypes ==
  ASSUME ManagerTypes, NEW c \in Caller,
         StopValidate(c) \/ StopRemove(c) \/ StopReap(c) \/ StopUnregister(c)
  PROVE  StateIsTyped'
  <1> USE DEF piVars, ManagerTypes, ManagerTypeOK, StateIsTyped, RoutesAreOwn
  <1> DEFINE t == calls[c].target
  <1>1. calls[c] \in StopCalls /\ calls[c].op = "stop"
    BY CallIsTyped DEF StopValidate, StopRemove, StopReap, StopUnregister, Doing
  <1>2. t \in RuntimeTarget /\ t.instance \in InstanceId
    BY <1>1 DEF StopCalls, RuntimeTarget
  <1>6. CASE StopReap(c)
    <2>1. calls' \in [Caller -> CallType]
      BY <1>1, <1>6, StopNextIsTyped DEF StopReap
    <2> QED BY <1>6, <2>1 DEF StopReap
  <1>3. CASE StopValidate(c)
    <2>1. calls' \in [Caller -> CallType]
      BY <1>1, <1>3, NextStepIsTyped, GotoIsTyped, StopNextIsTyped DEF StopValidate
    <2> QED BY <1>3, <2>1 DEF StopValidate
  <1>4. CASE StopRemove(c)
    <2>1. calls' \in [Caller -> CallType]
      BY <1>1, <1>4, NextStepIsTyped, GotoIsTyped, StopNextIsTyped DEF StopRemove
    <2>2. process' \in [InstanceId -> {"none", "open", "closed"}]
      BY <1>2, <1>4 DEF StopRemove, Kill, KillFails
    <2>3. runtimes' = Without(runtimes, t.instance) \/ runtimes' = runtimes
      BY <1>4 DEF StopRemove
    <2>4. /\ DOMAIN runtimes' \subseteq InstanceId
          /\ runtimes' \in [DOMAIN runtimes' -> RuntimeTarget]
          /\ \A i \in DOMAIN runtimes' : runtimes'[i].instance = i
      BY <2>3 DEF Without
    <2> QED BY <1>4, <2>1, <2>2, <2>4 DEF StopRemove
  <1>5. CASE StopUnregister(c)
    <2>1. \A i \in Unused : [t EXCEPT !.instance = i] \in RuntimeTarget
      BY <1>2 DEF Unused, RuntimeTarget
    <2>2. \A i \in Unused : SpawnCall([t EXCEPT !.instance = i]) \in CallType
      BY <2>1, NewCallIsTyped
    <2>3. calls' \in [Caller -> CallType]
      BY <1>1, <1>5, <2>2, StopNextIsTyped, CallsAreTyped DEF StopUnregister
    <2>4. process' \in [InstanceId -> {"none", "open", "closed"}]
      BY <1>5 DEF StopUnregister, Unused
    <2> QED BY <1>5, <2>3, <2>4 DEF StopUnregister
  <1> QED BY <1>3, <1>4, <1>5, <1>6

LEMMA BindTypes ==
  ASSUME ManagerTypes, NEW c \in Caller, BindCoordinate(c) \/ BindRoute(c) \/ BindPublish(c)
  PROVE  StateIsTyped'
  <1> USE DEF piVars, ManagerTypes, ManagerTypeOK, StateIsTyped, RoutesAreOwn
  <1> DEFINE t == calls[c].target
             s == calls[c].session
  <1>1. calls[c] \in BindCalls /\ calls[c].op = "bind"
    BY CallIsTyped DEF BindCoordinate, BindRoute, BindPublish, Doing
  <1>2. /\ t \in RuntimeTarget /\ t.instance \in InstanceId
        /\ s \in SessionId /\ calls[c].sequence \in Nat
    BY <1>1 DEF BindCalls, RuntimeTarget
  <1>3. CASE BindCoordinate(c)
    <2>1. Valid(t) => NextSequence(t.instance) \in Nat
      BY DEF Valid, RegistryInv, TypeOK, RuntimeRecord, NextSequence
    <2>2. CASE Finish(c)
      BY <1>3, <2>2, FinishIsTyped DEF BindCoordinate
    <2>3. CASE /\ CanBind(t, s)
               /\ calls' = [calls EXCEPT ![c].at = "route", ![c].sequence = NextSequence(t.instance)]
      <3>1. calls' = [calls EXCEPT ![c] =
                         [calls[c] EXCEPT !.at = "route", !.sequence = NextSequence(t.instance)]]
        BY <2>3
      <3>2. NextSequence(t.instance) \in Nat
        BY <2>1, <2>3 DEF CanBind
      <3>3. calls' \in [Caller -> CallType]
        BY <1>1, <3>1, <3>2, NextStepIsTyped, CallsAreTyped
      <3> QED BY <1>3, <3>3 DEF BindCoordinate
    <2> QED BY <1>3, <2>2, <2>3 DEF BindCoordinate
  <1>4. CASE BindRoute(c)
    <2>1. calls' \in [Caller -> CallType]
      BY <1>1, <1>4, NextStepIsTyped, GotoIsTyped, FinishIsTyped DEF BindRoute
    <2>2. NewRoute(c) \in RuntimeTarget /\ NewRoute(c).instance = t.instance
      BY <1>2 DEF NewRoute, RuntimeTarget
    <2>3. \/ runtimes' = runtimes
          \/ runtimes' = [runtimes EXCEPT ![t.instance] = NewRoute(c)]
      BY <1>4 DEF BindRoute
    <2>4. /\ DOMAIN runtimes' \subseteq InstanceId
          /\ runtimes' \in [DOMAIN runtimes' -> RuntimeTarget]
          /\ \A i \in DOMAIN runtimes' : runtimes'[i].instance = i
      BY <2>2, <2>3
    <2> QED BY <1>4, <2>1, <2>4 DEF BindRoute
  <1>5. CASE BindPublish(c)
    <2>1. [target |-> t, sequence |-> calls[c].sequence, frame |-> BindingFrame] \in Event
      BY <1>2 DEF Event
    <2>2. bus' \in Seq(Event)
      BY <1>5, <2>1 DEF BindPublish, Publish
    <2>3. calls' \in [Caller -> CallType]
      BY <1>5, FinishIsTyped DEF BindPublish
    <2> QED BY <1>5, <2>2, <2>3 DEF BindPublish
  <1> QED BY <1>3, <1>4, <1>5

LEMMA RequestTypes ==
  ASSUME ManagerTypes, NEW c \in Caller,
         \/ RequestAccept(c) \/ RequestSend(c) \/ RequestAnswered(c) \/ RequestFailed(c)
         \/ RequestComplete(c)
  PROVE  StateIsTyped'
  <1> USE DEF piVars, ManagerTypes, ManagerTypeOK, StateIsTyped, RoutesAreOwn
  <1> DEFINE i == calls[c].target.instance
  <1>1. calls[c] \in RequestCalls /\ calls[c].op = "request"
    BY CallIsTyped DEF RequestAccept, RequestSend, RequestAnswered, RequestFailed,
                       RequestComplete, Doing
  <1>2. i \in InstanceId /\ calls[c].key \in Key
    BY <1>1 DEF RequestCalls, RuntimeTarget
  <1>3. CASE RequestAccept(c) \/ RequestAnswered(c) \/ RequestFailed(c) \/ RequestComplete(c)
    <2>1. calls' \in [Caller -> CallType]
      BY <1>1, <1>3, NextStepIsTyped, GotoIsTyped, FinishIsTyped
         DEF RequestAccept, RequestAnswered, RequestFailed, RequestComplete
    <2> QED BY <1>3, <2>1 DEF RequestAccept, RequestAnswered, RequestFailed, RequestComplete
  <1>4. CASE RequestSend(c)
    <2>1. sent[i] \in Seq(Key) /\ Len(sent[i]) + 1 \in Nat
      BY <1>2
    <2>2. sent' = sent \/ sent' = [sent EXCEPT ![i] = Append(sent[i], calls[c].key)]
      BY <1>4 DEF RequestSend
    <2>3. Append(sent[i], calls[c].key) \in Seq(Key)
      BY <1>2, <2>1
    <2>4. sent' \in [InstanceId -> Seq(Key)]
      BY <2>2, <2>3
    <2>5. \/ Finish(c)
          \/ calls' = [calls EXCEPT ![c] =
                 [calls[c] EXCEPT !.at = "wait", !.position = Len(sent[i]) + 1]]
      BY <1>4 DEF RequestSend
    <2>6. calls' \in [Caller -> CallType]
      BY <1>1, <2>1, <2>5, NextStepIsTyped, FinishIsTyped, CallsAreTyped
    <2> QED BY <1>4, <2>4, <2>6 DEF RequestSend
  <1> QED BY <1>3, <1>4

LEMMA RespondTypes ==
  ASSUME ManagerTypes, NEW c \in Caller,
         RespondValidate(c) \/ RespondSend(c) \/ RespondForget(c)
  PROVE  StateIsTyped'
  <1> USE DEF piVars, ManagerTypes, ManagerTypeOK, StateIsTyped, RoutesAreOwn
  <1> DEFINE i == calls[c].target.instance
             n == calls[c].number
  <1>1. calls[c] \in RespondCalls /\ calls[c].op = "respond"
    BY CallIsTyped DEF RespondValidate, RespondSend, RespondForget, Doing
  <1>2. i \in InstanceId /\ n \in 1 .. MaxFrames
    BY <1>1 DEF RespondCalls, RuntimeTarget
  <1>3. calls' \in [Caller -> CallType]
    BY <1>1, NextStepIsTyped, GotoIsTyped, FinishIsTyped
       DEF RespondValidate, RespondSend, RespondForget
  <1>4. CASE RespondValidate(c)
    BY <1>3, <1>4 DEF RespondValidate
  <1>5. CASE RespondSend(c)
    <2>1. answered[i] \cup {n} \in SUBSET (1 .. MaxFrames)
      BY <1>2
    <2>2. answered' = answered \/ answered' = [answered EXCEPT ![i] = answered[i] \cup {n}]
      BY <1>5 DEF RespondSend
    <2> HIDE DEF i, n
    <2>3. answered' \in [InstanceId -> SUBSET (1 .. MaxFrames)]
      BY <2>1, <2>2
    <2> QED BY <1>3, <1>5, <2>3 DEF RespondSend
  <1>6. CASE RespondForget(c)
    <2>1. OtherDialogs(pendingUi[i], n) \in SUBSET Event
      BY <1>2 DEF OtherDialogs
    <2>2. pendingUi' \in [InstanceId -> SUBSET Event]
      BY <1>6, <2>1 DEF RespondForget
    <2> QED BY <1>3, <1>6, <2>2 DEF RespondForget
  <1> QED BY <1>4, <1>5, <1>6

LEMMA PumpTypes ==
  ASSUME ManagerTypes, NEW i \in InstanceId, PumpGoesOn(i)
  PROVE  StateIsTyped'
  <1> USE DEF piVars, ManagerTypes, ManagerTypeOK, StateIsTyped
  <1>1. ASSUME NEW at, PumpTo(i, at), [pump[i] EXCEPT !.at = at] \in PumpType, pump[i].at # "off",
               [pump[i] EXCEPT !.at = at].target = pump[i].target
        PROVE  /\ pump' \in [InstanceId -> PumpType]
               /\ \A j \in InstanceId : pump'[j].at # "off" => pump'[j].target.instance = j
    <2>1. pump' = [pump EXCEPT ![i] = [pump[i] EXCEPT !.at = at]]
      BY <1>1 DEF PumpTo
    <2> QED BY <1>1, <2>1 DEF RoutesAreOwn
  <1>2. /\ pump[i] \in PumpType
        /\ pump[i].at # "off" => /\ pump[i].target \in RuntimeTarget
                                 /\ pump[i].sequence \in Nat
                                 /\ pump[i].frame \in Frame \cup {NoFrame}
                                 /\ pump[i].target.instance = i
    BY PumpIsTyped DEF RoutesAreOwn
  <1>3. pump[i].at # "off" => \A at \in {"next", "unregister", "forget", "returned"} :
            /\ [pump[i] EXCEPT !.at = at] \in PumpType
            /\ [pump[i] EXCEPT !.at = at].target = pump[i].target
    BY PumpMoves
  <1>4. CASE PumpTake(i)
    <2>1. pipe[i] \in Seq(Frame) /\ pipe[i] # << >>
      BY <1>4 DEF PumpTake
    <2>2. Head(pipe[i]) \in Frame /\ Tail(pipe[i]) \in Seq(Frame)
      BY <2>1
    <2>3. pipe' \in [InstanceId -> Seq(Frame)]
      BY <1>4, <2>2 DEF PumpTake
    <2>4. CASE i \in DOMAIN runtimes
      <3>1. runtimes[i] \in RuntimeTarget /\ runtimes[i].instance = i
        BY <2>4 DEF RoutesAreOwn
      <3>2. PICK new : new = PumpAt("sequence", runtimes[i], Head(pipe[i]), 0)
        OBVIOUS
      <3>3. new \in PumpType /\ new.target = runtimes[i]
        BY <2>2, <3>1, <3>2 DEF PumpAt, PumpType
      <3>4. pump' = [pump EXCEPT ![i] = new]
        BY <1>4, <2>4, <3>2 DEF PumpTake
      <3> QED BY <1>4, <2>3, <3>1, <3>3, <3>4 DEF PumpTake, RoutesAreOwn
    <2>5. CASE i \notin DOMAIN runtimes
      BY <1>1, <1>3, <1>4, <2>3, <2>5 DEF PumpTake, RoutesAreOwn
    <2> QED BY <2>4, <2>5
  <1>5. CASE PumpSequence(i)
    <2>1. CASE Valid(pump[i].target)
      <3>1. PICK new, at : /\ at = IF IsDialog(pump[i].frame) THEN "remember" ELSE "publish"
                           /\ new = [pump[i] EXCEPT !.at = at, !.sequence = NextSequence(i)]
        OBVIOUS
      <3>2. NextSequence(i) \in Nat
        <4>1. instances[i] \in RuntimeRecord
          BY <1>2, <1>5, <2>1 DEF PumpSequence, Valid, RegistryInv, TypeOK
        <4> QED BY <4>1 DEF RuntimeRecord, NextSequence
      <3>3. new \in PumpType /\ new.target = pump[i].target
        <4>1. at \in {"remember", "publish"} /\ pump[i].at = "sequence" /\ pump[i].at # "off"
          BY <1>5, <3>1 DEF PumpSequence
        <4>2. ManagerTypeOK
          OBVIOUS
        <4> HIDE DEF ManagerTypes, ManagerTypeOK, StateIsTyped
        <4>3. \A b \in {"remember", "publish"} : \A n \in Nat :
                  /\ [pump[i] EXCEPT !.at = b, !.sequence = n] \in PumpType
                  /\ [pump[i] EXCEPT !.at = b, !.sequence = n].target = pump[i].target
          BY <4>1, <4>2, PumpMoves
        <4> QED BY <3>1, <3>2, <4>1, <4>3, Zenon
      <3>4. pump' = [pump EXCEPT ![i] = new]
        BY <1>5, <2>1, <3>1 DEF PumpSequence
      <3> QED BY <1>2, <1>5, <3>3, <3>4 DEF PumpSequence, RoutesAreOwn
    <2>2. CASE ~Valid(pump[i].target)
      BY <1>1, <1>3, <1>5, <2>2 DEF PumpSequence, RoutesAreOwn
    <2> QED BY <2>1, <2>2
  <1>6. ASSUME PumpRemember(i) \/ PumpPublish(i) PROVE PumpEvent(i) \in Event
    <2>1. pump[i].frame \in Frame
      BY <1>6, PumpIsTyped DEF PumpRemember, PumpPublish
    <2> QED BY <1>2, <1>6, <2>1 DEF PumpEvent, Event, PumpRemember, PumpPublish
  <1>7. CASE PumpRemember(i)
    <2>1. [pump[i] EXCEPT !.at = "publish"] \in PumpType
      BY <1>7, PumpMoves DEF PumpRemember
    <2>2. [pump[i] EXCEPT !.at = "publish"].target = pump[i].target
      BY <1>7, PumpMoves DEF PumpRemember
    <2>3. pendingUi[i] \cup {PumpEvent(i)} \in SUBSET Event
      BY <1>6, <1>7
    <2>4. pendingUi' = [pendingUi EXCEPT ![i] = pendingUi[i] \cup {PumpEvent(i)}]
      BY <1>7 DEF PumpRemember
    <2>5. pendingUi' \in [InstanceId -> SUBSET Event]
      BY <2>3, <2>4
    <2> QED BY <1>1, <1>7, <2>1, <2>2, <2>5 DEF PumpRemember, RoutesAreOwn
  <1>8. CASE PumpPublish(i)
    <2>1. bus' \in Seq(Event)
      BY <1>6, <1>8 DEF PumpPublish, Publish
    <2> QED BY <1>1, <1>3, <1>8, <2>1 DEF PumpPublish, RoutesAreOwn
  <1>9. CASE PumpRemoveClosed(i)
    <2>1. CASE i \in DOMAIN runtimes
      <3>1. runtimes[i] \in RuntimeTarget /\ runtimes[i].instance = i
        BY <2>1 DEF RoutesAreOwn
      <3>2. PICK new : new = [pump[i] EXCEPT !.at = "unregister", !.target = runtimes[i]]
        OBVIOUS
      <3>3. new \in PumpType /\ new.target = runtimes[i]
        BY <1>9, <3>1, <3>2, PumpMoves DEF PumpRemoveClosed
      <3>4. pump' = [pump EXCEPT ![i] = new] /\ runtimes' = Without(runtimes, i)
        BY <1>9, <2>1, <3>2 DEF PumpRemoveClosed
      <3>5. /\ DOMAIN runtimes' \subseteq InstanceId
            /\ runtimes' \in [DOMAIN runtimes' -> RuntimeTarget]
            /\ \A j \in DOMAIN runtimes' : runtimes'[j].instance = j
        BY <3>4 DEF Without, RoutesAreOwn
      <3>6. pump' \in [InstanceId -> PumpType]
        BY <3>3, <3>4
      <3>7. \A j \in InstanceId : pump'[j].at # "off" => pump'[j].target.instance = j
        BY <3>1, <3>3, <3>4 DEF RoutesAreOwn
      <3> QED BY <1>9, <3>5, <3>6, <3>7 DEF PumpRemoveClosed, RoutesAreOwn
    <2>2. CASE i \notin DOMAIN runtimes
      BY <1>1, <1>3, <1>9, <2>2 DEF PumpRemoveClosed, RoutesAreOwn
    <2> QED BY <2>1, <2>2
  <1>10. CASE PumpUnregister(i)
    BY <1>1, <1>3, <1>10 DEF PumpUnregister, RoutesAreOwn
  <1>11. CASE PumpForget(i)
    BY <1>1, <1>3, <1>11 DEF PumpForget, RoutesAreOwn
  <1> QED
    BY <1>4, <1>5, <1>7, <1>8, <1>9, <1>10, <1>11 DEF PumpGoesOn

LEMMA PiTypes ==
  ASSUME ManagerTypes, NEW i \in InstanceId, PiGoesOn(i)
  PROVE  StateIsTyped'
  <1> USE DEF piVars, ManagerTypes, ManagerTypeOK, StateIsTyped, RoutesAreOwn
  <1>1. CASE PiWrite(i)
    <2>1. written[i] \in Nat /\ written[i] + 1 \in 1 .. MaxFrames
      BY <1>1 DEF PiWrite
    <2>2. \A type \in FrameType : [number |-> written[i] + 1, type |-> type] \in Frame
      BY <2>1 DEF Frame
    <2>3. PICK frame \in Frame : pipe' = [pipe EXCEPT ![i] = Append(pipe[i], frame)]
      BY <1>1, <2>2 DEF PiWrite
    <2>4. pipe' \in [InstanceId -> Seq(Frame)]
      BY <2>3
    <2>5. written' \in [InstanceId -> Nat]
      BY <1>1, <2>1 DEF PiWrite
    <2> QED BY <1>1, <2>4, <2>5 DEF PiWrite
  <1>2. CASE PiRun(i)
    BY <1>2 DEF PiRun
  <1>3. CASE PiExit(i)
    BY <1>3 DEF PiExit
  <1> QED BY <1>1, <1>2, <1>3 DEF PiGoesOn

\* The histories name instances of calls and pumps, and forget none.
HistoryGrows ==
    /\ HistoryIsTyped'
    /\ lost \subseteq lost' /\ unkilled \subseteq unkilled' /\ overtaken \subseteq overtaken'

LEMMA HistoryTypes == ManagerTypes /\ ManagerNext => HistoryGrows
  <1> SUFFICES ASSUME ManagerTypes, ManagerNext PROVE HistoryGrows
    OBVIOUS
  <1>1. HistoryIsTyped
    BY TypesSplit
  <1>2. \A c \in Caller : calls[c] # Idle => calls[c].target.instance \in InstanceId
    <2>1. \A c \in Caller : calls[c] \in CallType
      BY DEF ManagerTypes, ManagerTypeOK
    <2> QED BY <2>1 DEF CallType, RuntimeTarget
  <1>3. \A c \in Caller : calls[c].op \in {"spawn", "stop", "bind"} => calls[c] # Idle
    BY DEF Idle
  <1>4. ASSUME NEW c \in Caller, CallBegins(c) PROVE UNCHANGED historyVars
    BY <1>4 DEF CallBegins, SpawnBegin, StopBegin, StopSetBegin, RestartBegin, BindBegin,
                RequestBegin, RespondBegin
  <1>5. ASSUME NEW c \in Caller,
               SpawnAttachFails(c) \/ SpawnRegister(c) \/ StopRemove(c) \/ BindCoordinate(c)
        PROVE  HistoryGrows
    <2>1. calls[c].target.instance \in InstanceId
      BY <1>2, <1>3, <1>5 DEF SpawnAttachFails, SpawnRegister, StopRemove, BindCoordinate, Doing
    <2>2. CASE SpawnAttachFails(c)
      BY <1>1, <2>1, <2>2 DEF SpawnAttachFails, HistoryIsTyped, HistoryGrows
    <2>3. CASE SpawnRegister(c)
      BY <1>1, <2>1, <2>3 DEF SpawnRegister, KillFails, HistoryIsTyped, HistoryGrows
    <2>4. CASE StopRemove(c)
      BY <1>1, <2>1, <2>4 DEF StopRemove, KillFails, HistoryIsTyped, HistoryGrows
    <2>5. CASE BindCoordinate(c)
      <3>1. UNCHANGED overtaken \/ Overtake(calls[c].target.instance,
                                            TargetInUse(calls[c].target.instance))
        BY <2>5 DEF BindCoordinate
      <3>2. UNCHANGED <<lost, unkilled>>
        BY <2>5 DEF BindCoordinate
      <3> QED BY <1>1, <2>1, <3>1, <3>2 DEF Overtake, HistoryIsTyped, HistoryGrows
    <2> QED BY <1>5, <2>2, <2>3, <2>4, <2>5
  <1>6. ASSUME NEW c \in Caller,
               \/ SpawnDiscard(c) \/ SpawnInsert(c)
               \/ StopValidate(c) \/ StopReap(c) \/ StopUnregister(c)
               \/ BindRoute(c) \/ BindPublish(c)
               \/ RequestAccept(c) \/ RequestSend(c) \/ RequestAnswered(c) \/ RequestFailed(c)
               \/ RequestComplete(c)
               \/ RespondValidate(c) \/ RespondSend(c) \/ RespondForget(c)
        PROVE  UNCHANGED historyVars
    BY <1>6 DEF SpawnDiscard, SpawnInsert, StopValidate, StopReap, StopUnregister, BindRoute,
                BindPublish, RequestAccept, RequestSend, RequestAnswered, RequestFailed,
                RequestComplete, RespondValidate, RespondSend, RespondForget
  <1>7. ASSUME NEW i \in InstanceId, PumpTake(i) \/ PumpRemoveClosed(i)
        PROVE  HistoryGrows
    <2>1. UNCHANGED <<lost, unkilled>> /\ (UNCHANGED overtaken \/ Overtake(i, Calling(i, "bind", "route")))
      BY <1>7 DEF PumpTake, PumpRemoveClosed
    <2> QED BY <1>1, <2>1 DEF Overtake, HistoryIsTyped, HistoryGrows
  <1>8. ASSUME NEW i \in InstanceId,
               \/ PumpSequence(i) \/ PumpRemember(i) \/ PumpPublish(i) \/ PumpUnregister(i)
               \/ PumpForget(i) \/ PiGoesOn(i)
        PROVE  UNCHANGED historyVars
    BY <1>8 DEF PumpSequence, PumpRemember, PumpPublish, PumpUnregister, PumpForget, PiGoesOn,
                PiWrite, PiRun, PiExit
  <1> QED
    BY <1>1, <1>4, <1>5, <1>6, <1>7, <1>8
       DEF ManagerNext, CallGoesOn, PumpGoesOn, historyVars, HistoryIsTyped, HistoryGrows

LEMMA InitTypes == ManagerInit => ManagerTypes
  <1> SUFFICES ASSUME ManagerInit PROVE ManagerTypes
    OBVIOUS
  <1>1. RegistryInv
    BY InitEstablishes DEF ManagerInit
  <1>2. [at |-> "off"] \in PumpType /\ [at |-> "off"].at = "off"
    BY DEF PumpType
  <1>3. StateIsTyped
    BY <1>2, IdleIsTyped DEF ManagerInit, StateIsTyped, RoutesAreOwn
  <1>4. HistoryIsTyped
    BY DEF ManagerInit, HistoryIsTyped
  <1> QED BY <1>1, <1>3, <1>4, TypesSplit

LEMMA TypesAreKept == ManagerTypes /\ [ManagerNext]_managerVars => ManagerTypes'
  <1> SUFFICES ASSUME ManagerTypes, [ManagerNext]_managerVars PROVE ManagerTypes'
    OBVIOUS
  <1>1. CASE UNCHANGED managerVars
    BY <1>1 DEF managerVars, piVars, historyVars, ManagerTypes, ManagerTypeOK, RoutesAreOwn,
                RegistryInv,
                TypeOK, FiledUnderOwnInstance, OneInstancePerSession, RetainsTheLatest,
                IdempotencyWindow
  <1>2. CASE ManagerNext
    <2>1. RegistryInv'
      BY <1>2, RegistryIsKept
    <2>2. StateIsTyped'
      BY <1>2, BeginTypes, SpawnTypes, StopTypes, BindTypes, RequestTypes, RespondTypes,
         PumpTypes, PiTypes
         DEF ManagerNext, CallGoesOn
    <2>3. HistoryIsTyped'
      BY <1>2, HistoryTypes DEF HistoryGrows
    <2>4. RegistryInv' /\ StateIsTyped' /\ HistoryIsTyped' => ManagerTypes'
      BY TypesSplit, PTL
    <2> QED BY <2>1, <2>2, <2>3, <2>4
  <1> QED BY <1>1, <1>2

THEOREM TypesAlways == ManagerSpec => []ManagerTypes
  BY InitTypes, TypesAreKept, PTL DEF ManagerSpec

\* The types of the manager's maps, its calls and its pumps.
THEOREM ManagerTypeCorrect == ManagerSpec => []ManagerTypeOK
  BY TypesAlways, PTL DEF ManagerTypes

\* rebind_session_id, stop and the removal of a closed runtime act on targets
\* read earlier, under locks taken one after another, and still no session of a
\* workspace ever has two instances.
THEOREM ManagerSessions == ManagerSpec => []OneInstancePerSession
  BY TypesAlways, PTL DEF ManagerTypes, RegistryInv

\* request lets a repeated key through only after a window of others, however
\* the requests of all callers interleave.
THEOREM ManagerIdempotency == ManagerSpec => []IdempotencyWindow
  BY TypesAlways, PTL DEF ManagerTypes, RegistryInv

\* The lock sections that number an event as well: one instance goes on.
LEMMA NumberedContinues ==
  ASSUME ManagerTypes, NEW i \in DOMAIN instances, NEW rec,
         instances' = [instances EXCEPT ![i] = rec], accepted' = accepted,
         rec.target.workspace = instances[i].target.workspace,
         rec.sequence = NextSequence(i)
  PROVE  \A j \in DOMAIN instances : Continues(j)
  <1>1. RegistryInv /\ \A j \in DOMAIN instances : Len(accepted[j]) \in Nat
    BY DEF ManagerTypes, RegistryInv, TypeOK
  <1>2. \A j \in DOMAIN instances : Len(accepted'[j]) >= Len(accepted[j])
    BY <1>1
  <1> QED BY <1>1, <1>2, ReplacedContinues DEF NextSequence

LEMMA BindingContinues ==
  ASSUME ManagerTypes, NEW c \in Caller, BindCoordinate(c)
  PROVE  \/ [Next]_coordinatorVars
         \/ \A j \in DOMAIN instances : Continues(j)
  <1> DEFINE t == calls[c].target
             s == calls[c].session
             i == t.instance
  <1>1. t \in RuntimeTarget
    BY CallIsTyped DEF BindCoordinate, Doing, ManagerTypes, BindCalls
  <1>2. CASE UNCHANGED coordinatorVars
    BY <1>2
  <1>3. CASE EmitEvent(t)
    BY <1>1, <1>3 DEF Next
  <1>4. ASSUME CanBind(t, s), accepted' = accepted,
               instances' = [instances EXCEPT ![i].sequence = NextSequence(i),
                                              ![i].target.session = s]
        PROVE  \A j \in DOMAIN instances : Continues(j)
    <2> DEFINE rec == [instances[i] EXCEPT !.sequence = NextSequence(i), !.target = [t EXCEPT !.session = s]]
    <2>1. /\ i \in DOMAIN instances
          /\ instances[i] \in RuntimeRecord
          /\ instances[i].target = t
      BY <1>4 DEF CanBind, Valid, ManagerTypes, RegistryInv, TypeOK
    <2>2. instances' = [instances EXCEPT ![i] = rec]
      BY <1>4, <2>1
    <2>3. rec.target.workspace = t.workspace /\ rec.sequence = NextSequence(i)
      BY <1>1, <2>1 DEF RuntimeRecord, RuntimeTarget
    <2> HIDE DEF rec, i, t
    <2> QED BY <1>4, <2>1, <2>2, <2>3, NumberedContinues
  <1> QED BY <1>2, <1>3, <1>4 DEF BindCoordinate

LEMMA PumpingContinues ==
  ASSUME ManagerTypes, NEW i \in InstanceId, PumpSequence(i)
  PROVE  \/ [Next]_coordinatorVars
         \/ \A j \in DOMAIN instances : Continues(j)
  <1> DEFINE t == pump[i].target
             rec == [instances[i] EXCEPT !.sequence = NextSequence(i),
                                         !.state = StateAfter(pump[i].frame, instances[i].state)]
  <1>1. t.instance = i
    BY PumpIsTyped DEF PumpSequence, ManagerTypes, RoutesAreOwn
  <1>2. CASE ~Valid(t)
    BY <1>2 DEF PumpSequence, coordinatorVars
  <1>3. CASE Valid(t)
    <2>1. i \in DOMAIN instances /\ instances[i] \in RuntimeRecord
      BY <1>1, <1>3 DEF Valid, ManagerTypes, RegistryInv, TypeOK
    <2>2. instances' = [instances EXCEPT ![i] = rec] /\ accepted' = accepted
      BY <1>3, <2>1 DEF PumpSequence
    <2>3. rec.target = instances[i].target /\ rec.sequence = NextSequence(i)
      BY <2>1 DEF RuntimeRecord
    <2> HIDE DEF rec, t
    <2> QED BY <2>1, <2>2, <2>3, NumberedContinues
  <1> QED BY <1>2, <1>3

LEMMA ManagerContinues ==
  ASSUME ManagerTypes, ManagerNext
  PROVE  \/ UNCHANGED coordinatorVars
         \/ \A j \in DOMAIN instances \cap DOMAIN instances' : Continues(j)
  <1>1. ASSUME [Next]_coordinatorVars
        PROVE  \/ UNCHANGED coordinatorVars
               \/ \A j \in DOMAIN instances \cap DOMAIN instances' : Continues(j)
    BY <1>1, StepContinues DEF ManagerTypes
  <1>2. CASE \E c \in Caller : BindCoordinate(c)
    BY <1>1, <1>2, BindingContinues
  <1>3. CASE \E i \in InstanceId : PumpSequence(i)
    BY <1>1, <1>3, PumpingContinues
  <1>4. CASE (\A c \in Caller : ~BindCoordinate(c)) /\ (\A i \in InstanceId : ~PumpSequence(i))
    BY <1>1, <1>4, OtherStepsAreOfTheRegistry
  <1> QED BY <1>2, <1>3, <1>4

\* Under the manager too, whatever binds, pumps and calls interleave: while an
\* instance is registered its sequence goes up one by one, its workspace stays and
\* no acceptance is taken back, though two lock sections number an event and change
\* the record at once (rebind_session_id_with_event; set_state and emit_event in the pump).
THEOREM ManagerContinuity == ManagerSpec => RegistrationContinuity
  <1>1. ManagerTypes /\ [ManagerNext]_managerVars =>
          [\A i \in DOMAIN instances \cap DOMAIN instances' :
              /\ instances'[i].target.workspace = instances[i].target.workspace
              /\ instances'[i].sequence \in {instances[i].sequence, instances[i].sequence + 1}
              /\ Len(accepted'[i]) >= Len(accepted[i])]_coordinatorVars
    BY ManagerContinues DEF Continues, managerVars, coordinatorVars
  <1> QED BY <1>1, TypesAlways, PTL DEF ManagerSpec, RegistrationContinuity

-----------------------------------------------------------------------------
(* Every process has an owner                                                *)

LEMMA OwnersStay ==
  ASSUME ManagerTypes, EveryPiIsOwned, lost \subseteq lost',
         \A i \in InstanceId : process'[i] = "open" =>
             /\ process[i] = "open"
             /\ i \in DOMAIN runtimes => i \in DOMAIN runtimes' \/ Calling(i, "stop", "reap")',
         \A c \in Caller : calls[c].op = "spawn" => calls'[c] = calls[c],
         \A c \in Caller : Doing(c, "stop", "reap") =>
             calls'[c] = calls[c] \/ process[calls[c].target.instance] = "closed"
  PROVE  EveryPiIsOwned'
  <1> SUFFICES ASSUME NEW i \in InstanceId, process'[i] = "open"
               PROVE  \/ i \in DOMAIN runtimes'
                      \/ \E at \in {"register", "insert", "discard"} : Calling(i, "spawn", at)'
                      \/ Calling(i, "stop", "reap")'
                      \/ i \in lost'
    BY DEF EveryPiIsOwned
  <1>1. process[i] = "open"
    OBVIOUS
  <1>2. CASE i \in DOMAIN runtimes \/ i \in lost
    BY <1>2
  <1>3. ASSUME NEW at \in {"register", "insert", "discard"}, Calling(i, "spawn", at)
        PROVE  Calling(i, "spawn", at)'
    BY <1>3 DEF Calling, Doing
  <1>4. Calling(i, "stop", "reap") => Calling(i, "stop", "reap")'
    BY <1>1 DEF Calling, Doing
  <1> QED BY <1>1, <1>2, <1>3, <1>4 DEF EveryPiIsOwned

LEMMA SpawnsOwn ==
  ASSUME ManagerTypes, EveryPiIsOwned, ManagerNext, NEW c \in Caller,
         \/ SpawnBegin(c) \/ SpawnAttachFails(c) \/ SpawnRegister(c) \/ SpawnDiscard(c)
         \/ SpawnInsert(c)
  PROVE  EveryPiIsOwned'
  <1>0. calls \in [Caller -> CallType] /\ process \in [InstanceId -> {"none", "open", "closed"}]
    BY DEF ManagerTypes, ManagerTypeOK
  <1>9. lost \subseteq lost'
    BY HistoryTypes DEF HistoryGrows
  \* What the other callers do is left as it is.
  <1>8. ASSUME NEW new, calls' = [calls EXCEPT ![c] = new],
               NEW j \in InstanceId, process'[j] = "open",
               process[j] = "open" \/ (new.op = "spawn" /\ new.at = "register" /\ new.target.instance = j),
               j \in DOMAIN runtimes => j \in DOMAIN runtimes',
               calls[c].op = "idle" \/ (/\ calls[c].op = "spawn"
                                        /\ calls[c].target.instance = j =>
                                              \/ j \in DOMAIN runtimes'
                                              \/ j \in lost'
                                              \/ /\ new.op = "spawn" /\ new.target.instance = j
                                                 /\ new.at \in {"register", "insert", "discard"})
        PROVE  \/ j \in DOMAIN runtimes'
               \/ \E at \in {"register", "insert", "discard"} : Calling(j, "spawn", at)'
               \/ Calling(j, "stop", "reap")'
               \/ j \in lost'
    <2>1. calls'[c] = new /\ \A d \in Caller : d # c => calls'[d] = calls[d]
      BY <1>0, <1>8
    <2>2. CASE new.op = "spawn" /\ new.target.instance = j
               /\ new.at \in {"register", "insert", "discard"}
      BY <2>1, <2>2 DEF Calling, Doing
    <2>3. CASE j \in DOMAIN runtimes \/ j \in lost \/ j \in DOMAIN runtimes' \/ j \in lost'
      BY <1>8, <1>9, <2>3
    <2>4. CASE Calling(j, "stop", "reap")
      <3>1. PICK d \in Caller : Doing(d, "stop", "reap") /\ calls[d].target.instance = j
        BY <2>4 DEF Calling
      <3>2. d # c
        BY <1>8, <3>1 DEF Doing
      <3> QED BY <2>1, <3>1, <3>2 DEF Calling, Doing
    <2>5. ASSUME NEW at \in {"register", "insert", "discard"}, Calling(j, "spawn", at)
          PROVE  \/ j \in DOMAIN runtimes'
                 \/ \E b \in {"register", "insert", "discard"} : Calling(j, "spawn", b)'
                 \/ j \in lost'
      <3>1. PICK d \in Caller : Doing(d, "spawn", at) /\ calls[d].target.instance = j
        BY <2>5 DEF Calling
      <3>2. CASE d # c
        BY <2>1, <3>1, <3>2 DEF Calling, Doing
      <3>3. CASE d = c
        <4>1. calls[c].op = "spawn" /\ calls[c].target.instance = j
          BY <3>1, <3>3 DEF Doing
        <4>2. \/ j \in DOMAIN runtimes' \/ j \in lost'
              \/ /\ new.op = "spawn" /\ new.target.instance = j
                 /\ new.at \in {"register", "insert", "discard"}
          BY <1>8, <4>1
        <4> QED BY <2>1, <4>2 DEF Calling, Doing
      <3> QED BY <3>2, <3>3
    <2>6. CASE process[j] # "open"
      BY <1>8, <2>2, <2>6
    <2>7. CASE process[j] = "open"
      BY <2>3, <2>4, <2>5, <2>7 DEF EveryPiIsOwned
    <2> QED BY <2>6, <2>7
  <1>1. CASE SpawnBegin(c)
    <2>0. PICK i \in InstanceId : \E call :
               /\ calls[c] = Idle
               /\ calls' = [calls EXCEPT ![c] = call]
               /\ call.op = "spawn" /\ call.at = "register"
               /\ call.target.instance = i
               /\ process' = [process EXCEPT ![i] = "open"]
      BY <1>1 DEF SpawnBegin, Begin, SpawnCall, Unused
    <2>1. PICK call : /\ calls[c] = Idle
                      /\ calls' = [calls EXCEPT ![c] = call]
                      /\ call.op = "spawn" /\ call.at = "register"
                      /\ call.target.instance = i
                      /\ process' = [process EXCEPT ![i] = "open"]
      BY <2>0
    <2>2. calls[c].op = "idle"
      BY <2>1 DEF Idle
    <2>3. runtimes' = runtimes
      BY <1>1 DEF SpawnBegin
    <2>4. \A j \in InstanceId : process'[j] = "open" => process[j] = "open" \/ j = i
      BY <1>0, <2>1
    <2> QED BY <1>8, <2>1, <2>2, <2>3, <2>4 DEF EveryPiIsOwned
  <1>2. CASE SpawnRegister(c)
    <2>1. calls[c].op = "spawn" /\ calls[c] \in SpawnCalls
      BY <1>2, CallIsTyped DEF SpawnRegister, Doing, ManagerTypes
    <2>4. runtimes' = runtimes
      BY <1>2 DEF SpawnRegister
    <2>2. ASSUME NEW at \in {"insert", "discard"}, Goto(c, at), UNCHANGED process
          PROVE  EveryPiIsOwned'
      <3>1. PICK new : new = [calls[c] EXCEPT !.at = at]
        OBVIOUS
      <3>2. calls' = [calls EXCEPT ![c] = new]
        BY <2>2, <3>1 DEF Goto
      <3>3. new.op = "spawn" /\ new.at = at /\ new.target = calls[c].target
        BY <2>1, <3>1 DEF SpawnCalls
      <3> QED BY <1>8, <2>1, <2>2, <2>4, <3>2, <3>3 DEF EveryPiIsOwned
    <2>3. CASE Kill(calls[c].target.instance) /\ Finish(c)
      <3>1. calls[c].target.instance \in InstanceId
        BY <2>1 DEF SpawnCalls, RuntimeTarget
      <3>2. /\ process'[calls[c].target.instance] = "closed"
            /\ \A j \in InstanceId : process'[j] = "open" => process[j] = "open"
        BY <1>0, <2>3, <3>1 DEF Kill
      <3>3. calls' = [calls EXCEPT ![c] = Idle]
        BY <2>3 DEF Finish
      <3> QED BY <1>8, <2>1, <2>4, <3>2, <3>3 DEF EveryPiIsOwned
    <2>5. \/ Goto(c, "insert") /\ UNCHANGED process
          \/ Goto(c, "discard") /\ UNCHANGED process
          \/ Kill(calls[c].target.instance) /\ Finish(c)
      BY <1>2 DEF SpawnRegister, KillFails
    <2> QED BY <2>2, <2>3, <2>5
  <1>3. CASE SpawnInsert(c)
    <2>1. /\ calls[c].op = "spawn" /\ calls' = [calls EXCEPT ![c] = Idle] /\ process' = process
          /\ DOMAIN runtimes' = DOMAIN runtimes \cup {calls[c].target.instance}
      BY <1>3 DEF SpawnInsert, Doing, Finish, Put, piVars
    <2> QED BY <1>8, <2>1 DEF EveryPiIsOwned
  <1>4. CASE SpawnAttachFails(c)
    <2>1. /\ calls[c].op = "spawn" /\ calls' = [calls EXCEPT ![c] = Idle]
          /\ process' = process /\ runtimes' = runtimes
          /\ calls[c].target.instance \in lost'
      BY <1>4 DEF SpawnAttachFails, Doing, Finish, piVars
    <2> QED BY <1>8, <2>1 DEF EveryPiIsOwned
  <1>5. CASE SpawnDiscard(c)
    <2>1. /\ calls[c].op = "spawn" /\ calls' = [calls EXCEPT ![c] = Idle]
          /\ process' = process /\ runtimes' = runtimes
          /\ process'[calls[c].target.instance] = "closed"
      BY <1>5 DEF SpawnDiscard, Doing, Finish, piVars
    <2> QED BY <1>8, <2>1 DEF EveryPiIsOwned
  <1> QED BY <1>1, <1>2, <1>3, <1>4, <1>5

LEMMA StopsLeaveOwners ==
  ASSUME ManagerTypes, EveryPiIsOwned, ManagerNext, NEW c \in Caller,
         StopValidate(c) \/ StopRemove(c) \/ StopReap(c) \/ StopUnregister(c)
  PROVE  EveryPiIsOwned'
  <1>0. calls \in [Caller -> CallType] /\ process \in [InstanceId -> {"none", "open", "closed"}]
    BY DEF ManagerTypes, ManagerTypeOK
  <1>1. calls[c].op = "stop"
    BY DEF StopValidate, StopRemove, StopReap, StopUnregister, Doing
  <1>2. \A d \in Caller : calls[d].op = "spawn" => d # c
    BY <1>1
  <1>7. lost \subseteq lost'
    BY HistoryTypes DEF HistoryGrows
  <1>8. \A d \in Caller : d # c => calls'[d] = calls[d]
    BY <1>0 DEF StopValidate, StopRemove, StopReap, StopUnregister, StopNext, Goto, Finish
  <1>9. CASE StopReap(c)
    <2>1. /\ process[calls[c].target.instance] = "closed"
          /\ process' = process /\ runtimes' = runtimes
      BY <1>9 DEF StopReap, piVars
    <2> QED BY <1>2, <1>7, <1>8, <2>1, OwnersStay
  <1>3. CASE StopValidate(c)
    <2>1. ~Doing(c, "stop", "reap") /\ process' = process /\ runtimes' = runtimes
      BY <1>3 DEF StopValidate, Doing, piVars
    <2> QED BY <1>2, <1>7, <1>8, <2>1, OwnersStay
  <1>4. CASE StopRemove(c)
    <2>9. PICK i : i = calls[c].target.instance
      OBVIOUS
    <2>0. ~Doing(c, "stop", "reap")
      BY <1>4 DEF StopRemove, Doing
    <2>1. CASE i \notin DOMAIN runtimes /\ UNCHANGED <<runtimes, process>>
      BY <1>2, <1>7, <1>8, <2>0, <2>1, OwnersStay
    <2>2. CASE runtimes' = Without(runtimes, i) /\ Kill(i)
      <3>1. i \in InstanceId
        BY <1>1, <2>9, CallIsTyped DEF ManagerTypes, StopCalls, RuntimeTarget
      <3>2. \A j \in InstanceId : process'[j] = "open" =>
                process[j] = "open" /\ (j \in DOMAIN runtimes => j \in DOMAIN runtimes')
        BY <1>0, <2>2, <3>1 DEF Kill, Without
      <3> QED BY <1>2, <1>7, <1>8, <2>0, <3>2, OwnersStay
    <2>3. CASE runtimes' = Without(runtimes, i) /\ UNCHANGED process /\ Goto(c, "reap")
      <3>1. PICK new : new = [calls[c] EXCEPT !.at = "reap"]
        OBVIOUS
      <3>2. calls' = [calls EXCEPT ![c] = new]
        BY <2>3, <3>1 DEF Goto
      <3>3. new.op = "stop" /\ new.at = "reap" /\ new.target = calls[c].target
        BY <1>1, <3>1, CallIsTyped DEF ManagerTypes, StopCalls
      <3>6. calls'[c] = new
        BY <1>0, <3>2
      <3>4. Calling(i, "stop", "reap")'
        BY <2>9, <3>3, <3>6 DEF Calling, Doing
      <3>5. \A j \in InstanceId : process'[j] = "open" =>
                /\ process[j] = "open"
                /\ j \in DOMAIN runtimes => j \in DOMAIN runtimes' \/ Calling(j, "stop", "reap")'
        BY <2>3, <3>4 DEF Without
      <3> QED BY <1>2, <1>7, <1>8, <2>0, <3>5, OwnersStay
    <2>4. \/ i \notin DOMAIN runtimes /\ UNCHANGED <<runtimes, process>>
          \/ runtimes' = Without(runtimes, i) /\ Kill(i)
          \/ runtimes' = Without(runtimes, i) /\ UNCHANGED process /\ Goto(c, "reap")
      BY <1>4, <2>9 DEF StopRemove, KillFails
    <2> QED BY <2>1, <2>2, <2>3, <2>4
  <1>5. CASE StopUnregister(c)
    <2>0. ~Doing(c, "stop", "reap") /\ runtimes' = runtimes
      BY <1>5 DEF StopUnregister, Doing
    <2>1. CASE StopNext(c) /\ UNCHANGED process
      BY <1>2, <1>7, <1>8, <2>0, <2>1, OwnersStay
    <2>2. CASE \E i \in Unused :
                  /\ calls' = [calls EXCEPT ![c] = SpawnCall([calls[c].target EXCEPT !.instance = i])]
                  /\ process' = [process EXCEPT ![i] = "open"]
      <3>1. PICK i \in Unused :
                  /\ calls' = [calls EXCEPT ![c] = SpawnCall([calls[c].target EXCEPT !.instance = i])]
                  /\ process' = [process EXCEPT ![i] = "open"]
        BY <2>2
      <3>2. calls[c].target \in RuntimeTarget
        BY <1>1, CallIsTyped DEF ManagerTypes, StopCalls
      <3> DEFINE call == SpawnCall([calls[c].target EXCEPT !.instance = i])
      <3>3. /\ calls' = [calls EXCEPT ![c] = call]
            /\ call.op = "spawn" /\ call.at = "register" /\ call.target.instance = i
        BY <3>1, <3>2 DEF SpawnCall, RuntimeTarget
      <3> HIDE DEF call
      <3>4. i \in InstanceId
        BY DEF Unused
      <3>5. Calling(i, "spawn", "register")'
        BY <1>0, <3>3 DEF Calling, Doing
      <3>6. \A j \in InstanceId : \A op, at :
                Calling(j, op, at) /\ <<op, at>> # <<"stop", "unregister">> => Calling(j, op, at)'
        <4>1. Doing(c, "stop", "unregister")
          BY <1>5 DEF StopUnregister
        <4> QED BY <1>8, <4>1 DEF Calling, Doing
      <3>7. \A j \in InstanceId : process'[j] = "open" => process[j] = "open" \/ j = i
        BY <1>0, <3>1, <3>4
      <3> QED BY <1>7, <2>0, <3>5, <3>6, <3>7 DEF EveryPiIsOwned
    <2> QED BY <1>5, <2>1, <2>2 DEF StopUnregister
  <1> QED BY <1>3, <1>4, <1>5, <1>9

LEMMA OwnersAreKept ==
  ASSUME ManagerTypes, EveryPiIsOwned, [ManagerNext]_managerVars
  PROVE  EveryPiIsOwned'
  <1>0. calls \in [Caller -> CallType] /\ process \in [InstanceId -> {"none", "open", "closed"}]
    BY DEF ManagerTypes, ManagerTypeOK
  <1>1. CASE UNCHANGED managerVars
    BY <1>1 DEF managerVars, piVars, historyVars, EveryPiIsOwned, Calling, Doing
  <1>5. ManagerNext => lost \subseteq lost'
    BY HistoryTypes DEF HistoryGrows
  <1>2. ASSUME ManagerNext, NEW c \in Caller,
               \/ StopBegin(c) \/ StopSetBegin(c) \/ RestartBegin(c)
               \/ BindBegin(c) \/ RequestBegin(c) \/ RespondBegin(c)
        PROVE  EveryPiIsOwned'
    <2>1. PICK call : calls' = [calls EXCEPT ![c] = call] /\ calls[c] = Idle
      BY <1>2 DEF StopBegin, StopSetBegin, RestartBegin, BindBegin, RequestBegin, RespondBegin,
                  Begin
    <2>2. runtimes' = runtimes /\ process' = process
      BY <1>2 DEF StopBegin, StopSetBegin, RestartBegin, BindBegin, RequestBegin, RespondBegin,
                  piVars
    <2>3. \A d \in Caller : calls[d].op \in {"spawn", "stop"} => calls'[d] = calls[d]
      BY <1>0, <2>1 DEF Idle
    <2> QED BY <1>2, <1>5, <2>2, <2>3, OwnersStay DEF Doing
  <1>3. ASSUME ManagerNext, NEW c \in Caller,
               \/ BindCoordinate(c) \/ BindRoute(c) \/ BindPublish(c)
               \/ RequestAccept(c) \/ RequestSend(c) \/ RequestAnswered(c) \/ RequestFailed(c)
               \/ RequestComplete(c)
               \/ RespondValidate(c) \/ RespondSend(c) \/ RespondForget(c)
        PROVE  EveryPiIsOwned'
    <2>1. calls[c].op \notin {"spawn", "stop"}
      BY <1>3 DEF BindCoordinate, BindRoute, BindPublish, RequestAccept, RequestSend,
                  RequestAnswered, RequestFailed, RequestComplete, RespondValidate, RespondSend,
                  RespondForget, Doing
    <2>2. PICK call : calls' = [calls EXCEPT ![c] = call]
      BY <1>3 DEF BindCoordinate, BindRoute, BindPublish, RequestAccept, RequestSend,
                  RequestAnswered, RequestFailed, RequestComplete, RespondValidate, RespondSend,
                  RespondForget, Goto, Finish
    <2>3. process' = process
      BY <1>3 DEF BindCoordinate, BindRoute, BindPublish, RequestAccept, RequestSend,
                  RequestAnswered, RequestFailed, RequestComplete, RespondValidate, RespondSend,
                  RespondForget, piVars
    <2>4. DOMAIN runtimes \subseteq DOMAIN runtimes'
      BY <1>3 DEF BindCoordinate, BindRoute, BindPublish, RequestAccept, RequestSend,
                  RequestAnswered, RequestFailed, RequestComplete, RespondValidate, RespondSend,
                  RespondForget, ManagerTypes, ManagerTypeOK
    <2>5. \A d \in Caller : calls[d].op \in {"spawn", "stop"} => calls'[d] = calls[d]
      BY <1>0, <2>1, <2>2
    <2> QED BY <1>3, <1>5, <2>3, <2>4, <2>5, OwnersStay DEF Doing
  <1>4. ASSUME ManagerNext, NEW i \in InstanceId, PumpGoesOn(i) \/ PiGoesOn(i)
        PROVE  EveryPiIsOwned'
    <2>1. calls' = calls
      BY <1>4 DEF PumpGoesOn, PumpTake, PumpSequence, PumpRemember, PumpPublish,
                  PumpRemoveClosed, PumpUnregister, PumpForget, PiGoesOn, PiWrite, PiRun, PiExit
    <2>2. \A j \in InstanceId : process'[j] = "open" =>
             process[j] = "open" /\ (j \in DOMAIN runtimes => j \in DOMAIN runtimes')
      BY <1>0, <1>4
         DEF PumpGoesOn, PumpTake, PumpSequence, PumpRemember, PumpPublish, PumpRemoveClosed,
             PumpUnregister, PumpForget, PiGoesOn, PiWrite, PiRun, PiExit, piVars, Without
    <2> QED BY <1>4, <1>5, <2>1, <2>2, OwnersStay
  <1> QED
    BY <1>1, <1>2, <1>3, <1>4, SpawnsOwn, StopsLeaveOwners
       DEF ManagerNext, CallBegins, CallGoesOn

\* Refused registrations kill what they started and wait for it, stop and the
\* removal of a closed runtime only let go of what has ended: whatever the operating
\* system refuses and sessions are bound to, no process runs that nobody would stop
\* but the child of a failed attach.
THEOREM EveryPiHasAnOwner == ManagerSpec => []EveryPiIsOwned
  <1>1. ManagerInit => EveryPiIsOwned
    BY DEF ManagerInit, EveryPiIsOwned
  <1>2. ManagerTypes /\ EveryPiIsOwned /\ [ManagerNext]_managerVars => EveryPiIsOwned'
    BY OwnersAreKept
  <1> QED BY <1>1, <1>2, TypesAlways, PTL DEF ManagerSpec

-----------------------------------------------------------------------------
(* Instances are fresh                                                       *)

\* A call under way that may act on an instance.
Names(call, i) ==
    /\ call.op \notin {"idle", "spawn"}
    /\ \/ call.target.instance = i
       \/ call.op = "stop" /\ \E t \in call.rest : t.instance = i

\* The targets a call under way is about.
ActsOn(call, t) ==
    call.op # "idle" /\ (call.target = t \/ (call.op = "stop" /\ t \in call.rest))

\* Somebody other than a spawn has met the instance.
Seen(i) ==
    \/ i \in DOMAIN runtimes
    \/ pump[i].at # "off"
    \/ sent[i] # << >>
    \/ \E p \in DOMAIN bus : bus[p].target.instance = i
    \/ \E c \in Caller : Names(calls[c], i)

Spawning(i) == \E c \in Caller : calls[c].op = "spawn" /\ calls[c].target.instance = i

\* Until its spawn is done an instance is known to that spawn alone, and until it
\* is registered there is no record of it.
FreshInstances ==
    /\ \A c \in Caller :
           calls[c].op = "spawn" => process[calls[c].target.instance] # "none"
    /\ \A c, d \in Caller :
           /\ calls[c].op = "spawn" /\ calls[d].op = "spawn"
           /\ calls[c].target.instance = calls[d].target.instance
           => c = d
    /\ \A i \in InstanceId : process[i] = "none" \/ Spawning(i) => ~Seen(i)
    /\ \A i \in InstanceId :
           process[i] = "none" \/ Calling(i, "spawn", "register") => i \notin DOMAIN instances

LEMMA FreshStays ==
  ASSUME ManagerTypes, FreshInstances,
         \A c \in Caller : calls'[c].op = "spawn" => calls'[c] = calls[c],
         \A i \in InstanceId : process'[i] = "none" => process[i] = "none",
         DOMAIN instances' \subseteq DOMAIN instances,
         \A i \in InstanceId : Seen(i)' => Seen(i)
  PROVE  FreshInstances'
  <1>0. \A c \in Caller : calls[c].op = "spawn" => calls[c].target.instance \in InstanceId
    BY CallIsTyped DEF ManagerTypes, SpawnCalls, RuntimeTarget
  <1>1. \A c \in Caller : calls'[c].op = "spawn" => process'[calls'[c].target.instance] # "none"
    BY <1>0 DEF FreshInstances
  <1>2. \A c, d \in Caller :
           /\ calls'[c].op = "spawn" /\ calls'[d].op = "spawn"
           /\ calls'[c].target.instance = calls'[d].target.instance
           => c = d
    BY DEF FreshInstances
  <1>3. \A i \in InstanceId : Spawning(i)' => Spawning(i)
    BY DEF Spawning
  <1>4. \A i \in InstanceId : Calling(i, "spawn", "register")' => Calling(i, "spawn", "register")
    BY DEF Calling, Doing
  <1> QED BY <1>1, <1>2, <1>3, <1>4 DEF FreshInstances

\* What a call knows later it knew before, unless it reads a route.
LEMMA SeenStays ==
  ASSUME ManagerTypes, NEW c \in Caller, NEW new, calls' = [calls EXCEPT ![c] = new],
         \A i \in InstanceId : Names(new, i) => Names(calls[c], i) \/ i \in DOMAIN runtimes,
         DOMAIN runtimes' \subseteq DOMAIN runtimes, pump' = pump,
         \A i \in InstanceId : sent'[i] # << >> => Seen(i),
         \A p \in DOMAIN bus' : \/ p \in DOMAIN bus /\ bus'[p] = bus[p]
                                \/ Seen(bus'[p].target.instance)
  PROVE  \A i \in InstanceId : Seen(i)' => Seen(i)
  <1>1. calls \in [Caller -> CallType]
    BY DEF ManagerTypes, ManagerTypeOK
  <1>2. ASSUME NEW i \in InstanceId, Names(calls'[c], i) PROVE Seen(i)
    BY <1>1, <1>2 DEF Seen
  <1>3. ASSUME NEW i \in InstanceId, NEW d \in Caller, d # c, Names(calls'[d], i) PROVE Seen(i)
    BY <1>1, <1>3 DEF Seen
  <1>4. ASSUME NEW i \in InstanceId, NEW p \in DOMAIN bus', bus'[p].target.instance = i
        PROVE  Seen(i)
    BY <1>4 DEF Seen
  <1>5. ASSUME NEW i \in InstanceId, i \in DOMAIN runtimes' \/ pump'[i].at # "off" PROVE Seen(i)
    BY <1>5 DEF Seen
  <1> QED BY <1>2, <1>3, <1>4, <1>5 DEF Seen

LEMMA RoutesAreManaged ==
  ASSUME ManagerTypes, NEW t \in RoutedTargets
  PROVE  t \in RuntimeTarget /\ t.instance \in DOMAIN runtimes /\ t.instance \in InstanceId
  BY DEF ManagerTypes, ManagerTypeOK, RoutesAreOwn, RoutedTargets

LEMMA CallFields ==
  ASSUME NEW t
  PROVE  /\ Idle.op = "idle" /\ Idle.at = "idle"
         /\ SpawnCall(t).op = "spawn" /\ SpawnCall(t).at = "register" /\ SpawnCall(t).target = t
         /\ \A rest, respawn : /\ StopCall(t, rest, respawn).op = "stop"
                               /\ StopCall(t, rest, respawn).at = "validate"
                               /\ StopCall(t, rest, respawn).target = t
                               /\ StopCall(t, rest, respawn).rest = rest
         /\ \A s : /\ BindCall(t, s).op = "bind" /\ BindCall(t, s).at = "coordinate"
                   /\ BindCall(t, s).target = t
         /\ \A k : /\ RequestCall(t, k).op = "request" /\ RequestCall(t, k).at = "accept"
                   /\ RequestCall(t, k).target = t
         /\ \A n : /\ RespondCall(t, n).op = "respond" /\ RespondCall(t, n).at = "validate"
                   /\ RespondCall(t, n).target = t
  BY DEF Idle, SpawnCall, StopCall, BindCall, RequestCall, RespondCall

\* A call that begins acts on targets it read from the routes.
LEMMA CallsBegin ==
  ASSUME NEW c \in Caller,
         \/ StopBegin(c) \/ StopSetBegin(c) \/ RestartBegin(c)
         \/ BindBegin(c) \/ RequestBegin(c) \/ RespondBegin(c)
  PROVE  /\ calls[c] = Idle
         /\ \E new : /\ calls' = [calls EXCEPT ![c] = new]
                     /\ new.op \in {"stop", "bind", "request", "respond"}
                     /\ new.at \in {"validate", "coordinate", "accept"}
                     /\ new.target \in RoutedTargets
                     /\ new.op = "stop" => new.rest \subseteq RoutedTargets
                     /\ new.op = "bind" => "bind" \in Operations
         /\ UNCHANGED <<coordinatorVars, runtimes, pendingUi, bus, piVars, pump>>
  <1> DEFINE Sound(new) == /\ calls' = [calls EXCEPT ![c] = new]
                           /\ new.op \in {"stop", "bind", "request", "respond"}
                           /\ new.at \in {"validate", "coordinate", "accept"}
                           /\ new.target \in RoutedTargets
                           /\ new.op = "stop" => new.rest \subseteq RoutedTargets
                           /\ new.op = "bind" => "bind" \in Operations
  <1>1. calls[c] = Idle
    BY DEF StopBegin, StopSetBegin, RestartBegin, BindBegin, RequestBegin, RespondBegin, Begin
  <1>2. UNCHANGED <<coordinatorVars, runtimes, pendingUi, bus, piVars, pump>>
    BY DEF StopBegin, StopSetBegin, RestartBegin, BindBegin, RequestBegin, RespondBegin
  <1>3. ASSUME NEW T \in SUBSET RoutedTargets, NEW t \in RoutedTargets, NEW respawn,
               calls' = [calls EXCEPT ![c] = StopCall(t, T, respawn)]
        PROVE  \E new : Sound(new)
    <2>1. Sound(StopCall(t, T, respawn))
      BY <1>3, CallFields
    <2> QED BY <2>1
  <1>4. ASSUME StopBegin(c) \/ RestartBegin(c) PROVE \E new : Sound(new)
    <2>1. PICK t \in RoutedTargets, respawn \in BOOLEAN :
              calls' = [calls EXCEPT ![c] = StopCall(t, {}, respawn)]
      BY <1>4 DEF StopBegin, RestartBegin, Begin
    <2> QED BY <1>3, <2>1
  <1>5. ASSUME StopSetBegin(c) PROVE \E new : Sound(new)
    <2>1. PICK T \in SUBSET RoutedTargets, t \in RoutedTargets :
              calls' = [calls EXCEPT ![c] = StopCall(t, T \ {t}, FALSE)]
      BY <1>5 DEF StopSetBegin, Begin
    <2>2. T \ {t} \in SUBSET RoutedTargets
      OBVIOUS
    <2> QED BY <1>3, <2>1, <2>2
  <1>6. ASSUME BindBegin(c) PROVE \E new : Sound(new)
    <2>1. PICK t \in RoutedTargets, s \in SessionId :
              calls' = [calls EXCEPT ![c] = BindCall(t, s)] /\ "bind" \in Operations
      BY <1>6 DEF BindBegin, Begin
    <2>2. PICK new : new = BindCall(t, s)
      OBVIOUS
    <2>3. new.op = "bind" /\ new.at = "coordinate" /\ new.target = t
      BY <2>2 DEF BindCall
    <2>4. Sound(new)
      BY <2>1, <2>2, <2>3
    <2> QED BY <2>4
  <1>7. ASSUME RequestBegin(c) PROVE \E new : Sound(new)
    <2>1. PICK t \in RoutedTargets, k \in Key : calls' = [calls EXCEPT ![c] = RequestCall(t, k)]
      BY <1>7 DEF RequestBegin, Begin
    <2>2. PICK new : new = RequestCall(t, k)
      OBVIOUS
    <2>3. new.op = "request" /\ new.at = "accept" /\ new.target = t
      BY <2>2 DEF RequestCall
    <2>4. Sound(new)
      BY <2>1, <2>2, <2>3
    <2> QED BY <2>4
  <1>8. ASSUME RespondBegin(c) PROVE \E new : Sound(new)
    <2>1. PICK t \in RoutedTargets : \E n : calls' = [calls EXCEPT ![c] = RespondCall(t, n)]
      BY <1>8 DEF RespondBegin, Begin
    <2>2. PICK n : calls' = [calls EXCEPT ![c] = RespondCall(t, n)]
      BY <2>1
    <2>3. PICK new : new = RespondCall(t, n)
      OBVIOUS
    <2>4. new.op = "respond" /\ new.at = "validate" /\ new.target = t
      BY <2>3 DEF RespondCall
    <2>5. Sound(new)
      BY <2>2, <2>3, <2>4
    <2> QED BY <2>5
  <1> QED BY <1>1, <1>2, <1>4, <1>5, <1>6, <1>7, <1>8

LEMMA BeginsAreFresh ==
  ASSUME ManagerTypes, FreshInstances, NEW c \in Caller,
         \/ StopBegin(c) \/ StopSetBegin(c) \/ RestartBegin(c)
         \/ BindBegin(c) \/ RequestBegin(c) \/ RespondBegin(c)
  PROVE  FreshInstances'
  <1>0. calls \in [Caller -> CallType]
    BY DEF ManagerTypes, ManagerTypeOK
  <1>1. PICK new : /\ calls' = [calls EXCEPT ![c] = new]
                   /\ new.op # "spawn"
                   /\ new.target \in RoutedTargets
                   /\ new.op = "stop" => new.rest \subseteq RoutedTargets
    BY CallsBegin
  <1>2. UNCHANGED <<coordinatorVars, runtimes, pendingUi, bus, piVars, pump>>
    BY CallsBegin
  <1>3. \A i \in InstanceId : Names(new, i) => i \in DOMAIN runtimes
    BY <1>1, RoutesAreManaged DEF Names
  <1>4. \A i \in InstanceId : sent'[i] # << >> => Seen(i)
    BY <1>2 DEF piVars, Seen
  <1>5. \A i \in InstanceId : Seen(i)' => Seen(i)
    <2>1. DOMAIN runtimes' \subseteq DOMAIN runtimes /\ pump' = pump /\ bus' = bus
      BY <1>2
    <2> QED BY <1>1, <1>3, <1>4, <2>1, SeenStays
  <1> QED BY <1>0, <1>1, <1>2, <1>5, FreshStays DEF piVars, coordinatorVars

\* A call that goes on, ends, or turns to the next target of its stop.
LEMMA CallsGoOn ==
  ASSUME ManagerTypes, NEW c \in Caller,
         \/ StopValidate(c) \/ StopRemove(c) \/ StopReap(c)
         \/ StopUnregister(c) /\ StopNext(c)
         \/ BindCoordinate(c) \/ BindRoute(c) \/ BindPublish(c)
         \/ RequestAccept(c) \/ RequestSend(c) \/ RequestAnswered(c) \/ RequestFailed(c)
         \/ RequestComplete(c)
         \/ RespondValidate(c) \/ RespondSend(c) \/ RespondForget(c)
  PROVE  /\ calls[c].op \notin {"idle", "spawn"}
         /\ \E new : /\ calls' = [calls EXCEPT ![c] = new]
                     /\ new.op \in {calls[c].op, "idle"}
                     /\ \A i \in InstanceId : Names(new, i) => Names(calls[c], i)
                     /\ \A u : ActsOn(new, u) => ActsOn(calls[c], u)
  <1>1. calls[c].op \in {"stop", "bind", "request", "respond"}
    BY DEF StopValidate, StopRemove, StopReap, StopUnregister, BindCoordinate, BindRoute, BindPublish,
           RequestAccept, RequestSend, RequestAnswered, RequestFailed, RequestComplete,
           RespondValidate, RespondSend, RespondForget, Doing
  <1>2. calls[c] \in StopCalls \cup BindCalls \cup RequestCalls \cup RespondCalls
    BY <1>1, CallIsTyped DEF ManagerTypes
  <1>3. ASSUME NEW at, Goto(c, at)
        PROVE  \E new : /\ calls' = [calls EXCEPT ![c] = new]
                        /\ new.op \in {calls[c].op, "idle"}
                        /\ \A i \in InstanceId : Names(new, i) => Names(calls[c], i)
                        /\ \A u : ActsOn(new, u) => ActsOn(calls[c], u)
    <2> DEFINE new == [calls[c] EXCEPT !.at = at]
    <2>1. calls' = [calls EXCEPT ![c] = new]
      BY <1>3 DEF Goto
    <2>2. /\ new.op = calls[c].op
          /\ new.target = calls[c].target
          /\ new.op = "stop" => new.rest = calls[c].rest
      BY <1>1, <1>2 DEF StopCalls, BindCalls, RequestCalls, RespondCalls
    <2> HIDE DEF new
    <2> QED BY <1>1, <2>1, <2>2 DEF Names, ActsOn
  <1>4. ASSUME Finish(c)
        PROVE  \E new : /\ calls' = [calls EXCEPT ![c] = new]
                        /\ new.op \in {calls[c].op, "idle"}
                        /\ \A i \in InstanceId : Names(new, i) => Names(calls[c], i)
                        /\ \A u : ActsOn(new, u) => ActsOn(calls[c], u)
    BY <1>4, CallFields DEF Finish, Names, ActsOn
  <1>5. ASSUME calls[c].op = "stop", StopNext(c)
        PROVE  \E new : /\ calls' = [calls EXCEPT ![c] = new]
                        /\ new.op \in {calls[c].op, "idle"}
                        /\ \A i \in InstanceId : Names(new, i) => Names(calls[c], i)
                        /\ \A u : ActsOn(new, u) => ActsOn(calls[c], u)
    <2>1. CASE Finish(c)
      BY <1>4, <2>1
    <2>2. ASSUME NEW t \in calls[c].rest,
                 calls' = [calls EXCEPT ![c] = StopCall(t, calls[c].rest \ {t}, FALSE)]
          PROVE  \E new : /\ calls' = [calls EXCEPT ![c] = new]
                          /\ new.op \in {calls[c].op, "idle"}
                          /\ \A i \in InstanceId : Names(new, i) => Names(calls[c], i)
                          /\ \A u : ActsOn(new, u) => ActsOn(calls[c], u)
      <3> DEFINE new == StopCall(t, calls[c].rest \ {t}, FALSE)
      <3>1. new.op = "stop" /\ new.target = t /\ new.rest = calls[c].rest \ {t}
        BY DEF StopCall
      <3>2. calls' = [calls EXCEPT ![c] = new]
        BY <2>2
      <3> HIDE DEF new
      <3> QED BY <1>5, <3>1, <3>2 DEF Names, ActsOn
    <2> QED BY <1>5, <2>1, <2>2 DEF StopNext
  <1>6. CASE BindCoordinate(c)
    <2> DEFINE n == NextSequence(calls[c].target.instance)
    <2>1. CASE Finish(c)
      BY <1>1, <1>4, <2>1
    <2>2. CASE calls' = [calls EXCEPT ![c].at = "route", ![c].sequence = n]
      <3> DEFINE new == [calls[c] EXCEPT !.at = "route", !.sequence = n]
      <3>1. calls[c] \in BindCalls
        BY <1>6, CallIsTyped DEF ManagerTypes, BindCoordinate, Doing
      <3>2. new.op = calls[c].op /\ new.target = calls[c].target /\ new.op = "bind"
        BY <3>1 DEF BindCalls
      <3>3. calls' = [calls EXCEPT ![c] = new]
        BY <2>2
      <3> HIDE DEF new
      <3> QED BY <1>1, <3>2, <3>3 DEF Names, ActsOn
    <2> QED BY <1>6, <2>1, <2>2 DEF BindCoordinate
  <1>7. CASE RequestSend(c)
    <2> DEFINE n == Len(sent[calls[c].target.instance]) + 1
    <2>1. CASE Finish(c)
      BY <1>1, <1>4, <2>1
    <2>2. CASE calls' = [calls EXCEPT ![c].at = "wait", ![c].position = n]
      <3> DEFINE new == [calls[c] EXCEPT !.at = "wait", !.position = n]
      <3>1. calls[c] \in RequestCalls
        BY <1>7, CallIsTyped DEF ManagerTypes, RequestSend, Doing
      <3>2. new.op = calls[c].op /\ new.target = calls[c].target /\ new.op = "request"
        BY <3>1 DEF RequestCalls
      <3>3. calls' = [calls EXCEPT ![c] = new]
        BY <2>2
      <3> HIDE DEF new
      <3> QED BY <1>1, <3>2, <3>3 DEF Names, ActsOn
    <2> QED BY <1>7, <2>1, <2>2 DEF RequestSend
  <1>8. CASE StopValidate(c) \/ StopRemove(c) \/ StopReap(c) \/ (StopUnregister(c) /\ StopNext(c))
    <2>1. calls[c].op = "stop"
      BY <1>8 DEF StopValidate, StopRemove, StopReap, StopUnregister, Doing
    <2> QED BY <1>1, <1>3, <1>5, <1>8, <2>1 DEF StopValidate, StopRemove, StopReap
  <1>9. CASE \/ BindRoute(c) \/ BindPublish(c)
             \/ RequestAccept(c) \/ RequestAnswered(c) \/ RequestFailed(c) \/ RequestComplete(c)
             \/ RespondValidate(c) \/ RespondSend(c) \/ RespondForget(c)
    BY <1>1, <1>3, <1>4, <1>9
       DEF BindRoute, BindPublish, RequestAccept, RequestAnswered, RequestFailed,
           RequestComplete, RespondValidate, RespondSend, RespondForget
  <1> QED BY <1>6, <1>7, <1>8, <1>9

LEMMA GoingOnIsFresh ==
  ASSUME ManagerTypes, FreshInstances, NEW c \in Caller,
         \/ StopValidate(c) \/ StopRemove(c) \/ StopReap(c)
         \/ StopUnregister(c) /\ StopNext(c) /\ UNCHANGED process
         \/ BindCoordinate(c) \/ BindRoute(c) \/ BindPublish(c)
         \/ RequestAccept(c) \/ RequestSend(c) \/ RequestAnswered(c) \/ RequestFailed(c)
         \/ RequestComplete(c)
         \/ RespondValidate(c) \/ RespondSend(c) \/ RespondForget(c)
  PROVE  FreshInstances'
  <1>0. /\ calls \in [Caller -> CallType]
        /\ process \in [InstanceId -> {"none", "open", "closed"}]
        /\ sent \in [InstanceId -> Seq(Key)]
        /\ bus \in Seq(Event)
    BY DEF ManagerTypes, ManagerTypeOK
  <1>1. calls[c].op \notin {"idle", "spawn"}
    BY CallsGoOn
  <1>2. PICK new : /\ calls' = [calls EXCEPT ![c] = new]
                   /\ new.op # "spawn"
                   /\ \A i \in InstanceId : Names(new, i) => Names(calls[c], i)
    BY <1>1, CallsGoOn
  <1>3. calls[c].target.instance \in InstanceId /\ calls[c].target \in RuntimeTarget
    <2>1. calls[c] \in StopCalls \cup BindCalls \cup RequestCalls \cup RespondCalls
      BY <1>1, CallIsTyped DEF ManagerTypes, Idle
    <2> QED BY <2>1 DEF StopCalls, BindCalls, RequestCalls, RespondCalls, RuntimeTarget
  <1>4. Seen(calls[c].target.instance)
    BY <1>1 DEF Seen, Names
  <1>5. DOMAIN instances' \subseteq DOMAIN instances
    BY DEF StopValidate, StopRemove, StopReap, StopUnregister, BindCoordinate, BindRoute, BindPublish,
           RequestAccept, RequestSend, RequestAnswered, RequestFailed, RequestComplete,
           RespondValidate, RespondSend, RespondForget, coordinatorVars, Unregister, Without,
           EmitEvent, AcceptMutation, CompleteMutation
  <1>6. DOMAIN runtimes' \subseteq DOMAIN runtimes
    BY DEF StopValidate, StopRemove, StopReap, StopUnregister, BindCoordinate, BindRoute, BindPublish,
           RequestAccept, RequestSend, RequestAnswered, RequestFailed, RequestComplete,
           RespondValidate, RespondSend, RespondForget, Without
  <1>7. pump' = pump
    BY DEF StopValidate, StopRemove, StopReap, StopUnregister, BindCoordinate, BindRoute, BindPublish,
           RequestAccept, RequestSend, RequestAnswered, RequestFailed, RequestComplete,
           RespondValidate, RespondSend, RespondForget
  <1>8. \A i \in InstanceId : sent'[i] # << >> => Seen(i)
    <2>1. CASE sent' = sent
      BY <2>1 DEF Seen
    <2>2. CASE RequestSend(c)
      <3>1. \A i \in InstanceId : i # calls[c].target.instance => sent'[i] = sent[i]
        BY <1>0, <2>2 DEF RequestSend
      <3> QED BY <1>4, <3>1 DEF Seen
    <2> QED BY <2>1, <2>2
         DEF StopValidate, StopRemove, StopReap, StopUnregister, BindCoordinate, BindRoute, BindPublish,
             RequestAccept, RequestAnswered, RequestFailed, RequestComplete,
             RespondValidate, RespondSend, RespondForget, piVars
  <1>9. \A p \in DOMAIN bus' : \/ p \in DOMAIN bus /\ bus'[p] = bus[p]
                               \/ Seen(bus'[p].target.instance)
    <2>1. CASE bus' = bus
      BY <2>1
    <2>2. CASE BindPublish(c)
      <3>1. PICK e : e = [target |-> calls[c].target, sequence |-> calls[c].sequence,
                          frame |-> BindingFrame]
        OBVIOUS
      <3>2. bus' = Append(bus, e) /\ e.target = calls[c].target
        BY <2>2, <3>1 DEF BindPublish, Publish
      <3>3. \A p \in DOMAIN bus' : (p \in DOMAIN bus /\ bus'[p] = bus[p]) \/ bus'[p] = e
        BY <1>0, <3>2
      <3> QED BY <1>4, <3>2, <3>3
    <2> QED BY <2>1, <2>2
         DEF StopValidate, StopRemove, StopReap, StopUnregister, BindCoordinate, BindRoute,
             RequestAccept, RequestSend, RequestAnswered, RequestFailed, RequestComplete,
             RespondValidate, RespondSend, RespondForget
  <1>10. \A i \in InstanceId : process'[i] = "none" => process[i] = "none"
    <2>1. CASE process' = process
      BY <2>1
    <2>2. CASE StopRemove(c)
      BY <1>0, <2>2 DEF StopRemove, Kill, KillFails
    <2> QED BY <2>1, <2>2
         DEF StopValidate, StopReap, BindCoordinate, BindRoute, BindPublish,
             RequestAccept, RequestSend, RequestAnswered, RequestFailed, RequestComplete,
             RespondValidate, RespondSend, RespondForget, piVars
  <1>11. \A i \in InstanceId : Seen(i)' => Seen(i)
    BY <1>2, <1>6, <1>7, <1>8, <1>9, SeenStays
  <1>12. \A d \in Caller : calls'[d].op = "spawn" => calls'[d] = calls[d]
    BY <1>0, <1>2
  <1> QED BY <1>5, <1>10, <1>11, <1>12, FreshStays

LEMMA PumpsAreFresh ==
  ASSUME ManagerTypes, FreshInstances, NEW i \in InstanceId, PumpGoesOn(i) \/ PiGoesOn(i)
  PROVE  FreshInstances'
  <1>0. /\ process \in [InstanceId -> {"none", "open", "closed"}]
        /\ pump \in [InstanceId -> PumpType]
        /\ bus \in Seq(Event)
    BY DEF ManagerTypes, ManagerTypeOK
  <1>1. calls' = calls /\ sent' = sent
    BY DEF PumpGoesOn, PumpTake, PumpSequence, PumpRemember, PumpPublish, PumpRemoveClosed,
           PumpUnregister, PumpForget, PiGoesOn, PiWrite, PiRun, PiExit, piVars
  <1>2. DOMAIN instances' \subseteq DOMAIN instances
    BY DEF PumpGoesOn, PumpTake, PumpSequence, PumpRemember, PumpPublish, PumpRemoveClosed,
           PumpUnregister, PumpForget, PiGoesOn, PiWrite, PiRun, PiExit, coordinatorVars,
           Unregister, Without
  <1>3. DOMAIN runtimes' \subseteq DOMAIN runtimes
    BY DEF PumpGoesOn, PumpTake, PumpSequence, PumpRemember, PumpPublish, PumpRemoveClosed,
           PumpUnregister, PumpForget, PiGoesOn, PiWrite, PiRun, PiExit, Without
  <1>4. \A j \in InstanceId : process'[j] = "none" => process[j] = "none"
    BY <1>0 DEF PumpGoesOn, PumpTake, PumpSequence, PumpRemember, PumpPublish, PumpRemoveClosed,
                PumpUnregister, PumpForget, PiGoesOn, PiWrite, PiRun, PiExit, piVars
  <1>5. \A j \in InstanceId : pump'[j].at # "off" => pump[j].at # "off"
    BY <1>0 DEF PumpGoesOn, PumpTake, PumpSequence, PumpRemember, PumpPublish, PumpRemoveClosed,
                PumpUnregister, PumpForget, PiGoesOn, PiWrite, PiRun, PiExit, PumpTo
  <1>6. \A p \in DOMAIN bus' : \/ p \in DOMAIN bus /\ bus'[p] = bus[p]
                               \/ bus'[p].target.instance = i /\ Seen(i)
    <2>1. CASE bus' = bus
      BY <2>1
    <2>2. CASE PumpPublish(i)
      <3>1. PICK e : e = PumpEvent(i)
        OBVIOUS
      <3>2. bus' = Append(bus, e) /\ e.target.instance = i /\ pump[i].at # "off"
        BY <2>2, <3>1 DEF PumpPublish, Publish, PumpEvent, ManagerTypes, RoutesAreOwn
      <3>3. \A p \in DOMAIN bus' : (p \in DOMAIN bus /\ bus'[p] = bus[p]) \/ bus'[p] = e
        BY <1>0, <3>2
      <3>4. Seen(i)
        BY <3>2 DEF Seen
      <3> QED BY <3>2, <3>3, <3>4
    <2> QED BY <2>1, <2>2
         DEF PumpGoesOn, PumpTake, PumpSequence, PumpRemember, PumpRemoveClosed,
             PumpUnregister, PumpForget, PiGoesOn, PiWrite, PiRun, PiExit
  <1>7. ASSUME NEW j \in InstanceId, Seen(j)' PROVE Seen(j)
    <2>1. \A p \in DOMAIN bus' : bus'[p].target.instance = j => Seen(j)
      BY <1>6 DEF Seen
    <2> QED BY <1>1, <1>3, <1>5, <1>7, <2>1 DEF Seen
  <1> QED BY <1>1, <1>2, <1>4, <1>7, FreshStays

\* A spawn that begins takes an instance nobody has met.
LEMMA NewSpawnIsFresh ==
  ASSUME ManagerTypes, FreshInstances, NEW c \in Caller, calls[c].op # "spawn",
         NEW i \in Unused, NEW new, calls' = [calls EXCEPT ![c] = new],
         new.op = "spawn", new.target.instance = i,
         process' = [process EXCEPT ![i] = "open"],
         DOMAIN instances' \subseteq DOMAIN instances,
         UNCHANGED <<runtimes, bus, sent, pump>>
  PROVE  FreshInstances'
  <1>0. /\ calls \in [Caller -> CallType]
        /\ process \in [InstanceId -> {"none", "open", "closed"}]
        /\ i \in InstanceId /\ process[i] = "none"
    BY DEF ManagerTypes, ManagerTypeOK, Unused
  <1>1. \A d \in Caller : calls[d].op = "spawn" =>
            /\ calls[d].target.instance \in InstanceId
            /\ calls[d].target.instance # i
    BY <1>0, CallIsTyped DEF ManagerTypes, SpawnCalls, RuntimeTarget, FreshInstances
  <1>2. calls'[c] = new /\ \A d \in Caller : d # c => calls'[d] = calls[d]
    BY <1>0
  <1>3. \A d \in Caller : calls'[d].op = "spawn" => process'[calls'[d].target.instance] # "none"
    BY <1>0, <1>1, <1>2 DEF FreshInstances
  <1>4. \A d, e \in Caller :
           /\ calls'[d].op = "spawn" /\ calls'[e].op = "spawn"
           /\ calls'[d].target.instance = calls'[e].target.instance
           => d = e
    BY <1>1, <1>2 DEF FreshInstances
  <1>5. \A j \in InstanceId : Seen(j)' => Seen(j)
    <2>1. \A j : ~Names(new, j)
      BY DEF Names
    <2>2. \A j \in InstanceId, d \in Caller : Names(calls'[d], j) => Names(calls[d], j)
      BY <1>2, <2>1
    <2> QED BY <2>2 DEF Seen
  <1>6. \A j \in InstanceId : Spawning(j)' => j = i \/ Spawning(j)
    BY <1>2 DEF Spawning
  <1>7. \A j \in InstanceId :
            Calling(j, "spawn", "register")' => j = i \/ Calling(j, "spawn", "register")
    BY <1>2 DEF Calling, Doing
  <1>8. \A j \in InstanceId : process'[j] = "none" => process[j] = "none"
    BY <1>0
  <1> QED BY <1>0, <1>3, <1>4, <1>5, <1>6, <1>7, <1>8 DEF FreshInstances

LEMMA SpawnsAreFresh ==
  ASSUME ManagerTypes, FreshInstances, NEW c \in Caller,
         SpawnAttachFails(c) \/ SpawnRegister(c) \/ SpawnDiscard(c) \/ SpawnInsert(c)
  PROVE  FreshInstances'
  <1> DEFINE i == calls[c].target.instance
  <1>0. /\ calls \in [Caller -> CallType]
        /\ process \in [InstanceId -> {"none", "open", "closed"}]
        /\ pump \in [InstanceId -> PumpType]
        /\ calls[c].op = "spawn" /\ calls[c] \in SpawnCalls
        /\ i \in InstanceId
        /\ Spawning(i)
    <2>1. calls[c].op = "spawn"
      BY DEF SpawnAttachFails, SpawnRegister, SpawnDiscard, SpawnInsert, Doing
    <2>2. calls[c] \in SpawnCalls
      BY <2>1, CallIsTyped DEF ManagerTypes
    <2> QED BY <2>1, <2>2 DEF ManagerTypes, ManagerTypeOK, SpawnCalls, RuntimeTarget, Spawning
  <1>1. process[i] # "none" /\ \A d \in Caller : calls[d].op = "spawn" =>
            /\ calls[d].target.instance \in InstanceId
            /\ d # c => calls[d].target.instance # i
    BY <1>0, CallIsTyped DEF ManagerTypes, SpawnCalls, RuntimeTarget, FreshInstances
  <1>2. UNCHANGED <<bus, sent>>
    BY DEF SpawnAttachFails, SpawnRegister, SpawnDiscard, SpawnInsert, piVars
  <1>3. ASSUME NEW at \in {"insert", "discard"}, Goto(c, at),
               DOMAIN instances' \subseteq DOMAIN instances \cup {i},
               UNCHANGED <<process, runtimes, pump>>
        PROVE  FreshInstances'
    <2>1. PICK new : /\ calls' = [calls EXCEPT ![c] = new]
                     /\ new.op = "spawn" /\ new.at = at /\ new.target = calls[c].target
      <3>1. PICK new : new = [calls[c] EXCEPT !.at = at]
        OBVIOUS
      <3>2. new.op = "spawn" /\ new.at = at /\ new.target = calls[c].target
        BY <1>0, <3>1 DEF SpawnCalls
      <3> QED BY <1>3, <3>1, <3>2 DEF Goto
    <2>2. calls'[c] = new /\ \A d \in Caller : d # c => calls'[d] = calls[d]
      BY <1>0, <2>1
    <2>4. \A j \in InstanceId : Seen(j)' => Seen(j)
      <3>1. \A j : ~Names(new, j)
        BY <2>1 DEF Names
      <3>2. \A j \in InstanceId, d \in Caller : Names(calls'[d], j) => Names(calls[d], j)
        BY <2>2, <3>1
      <3> QED BY <1>2, <1>3, <3>2 DEF Seen
    <2>5. \A j \in InstanceId : Spawning(j)' => Spawning(j)
      BY <1>0, <2>1, <2>2 DEF Spawning
    <2>6. \A j \in InstanceId : Calling(j, "spawn", "register")' =>
              j # i /\ Calling(j, "spawn", "register")
      BY <1>1, <2>1, <2>2 DEF Calling, Doing
    <2>7. /\ \A d \in Caller : calls'[d].op = "spawn" => process'[calls'[d].target.instance] # "none"
          /\ \A d, e \in Caller :
                /\ calls'[d].op = "spawn" /\ calls'[e].op = "spawn"
                /\ calls'[d].target.instance = calls'[e].target.instance
                => d = e
      BY <1>1, <1>3, <2>1, <2>2 DEF FreshInstances
    <2> QED BY <1>1, <1>3, <2>4, <2>5, <2>6, <2>7 DEF FreshInstances
  <1>4. ASSUME Finish(c), UNCHANGED <<coordinatorVars, runtimes, pump>>,
               \A j \in InstanceId : process'[j] = "none" => process[j] = "none"
        PROVE  FreshInstances'
    <2>1. calls' = [calls EXCEPT ![c] = Idle]
      BY <1>4 DEF Finish
    <2>2. \A j \in InstanceId : Names(Idle, j) => Names(calls[c], j) \/ j \in DOMAIN runtimes
      BY CallFields DEF Names
    <2>4. \A j \in InstanceId : Seen(j)' => Seen(j)
      <3>1. \A j \in InstanceId : sent'[j] # << >> => Seen(j)
        BY <1>2 DEF Seen
      <3> QED BY <1>2, <1>4, <2>1, <2>2, <3>1, SeenStays
    <2>5. \A d \in Caller : calls'[d].op = "spawn" => calls'[d] = calls[d]
      BY <1>0, <2>1, CallFields
    <2> QED BY <1>4, <2>4, <2>5, FreshStays DEF coordinatorVars
  <1>5. CASE SpawnInsert(c)
    <2>1. calls' = [calls EXCEPT ![c] = Idle]
      BY <1>5 DEF SpawnInsert, Finish
    <2>2. calls'[c] = Idle /\ \A d \in Caller : d # c => calls'[d] = calls[d]
      BY <1>0, <2>1
    <2>3. /\ UNCHANGED <<process, instances>>
          /\ DOMAIN runtimes' = DOMAIN runtimes \cup {i}
          /\ \A j \in InstanceId : j # i => pump'[j] = pump[j]
      BY <1>0, <1>5 DEF SpawnInsert, piVars, coordinatorVars, Put
    <2>4. \A j \in InstanceId : Seen(j)' => j = i \/ Seen(j)
      <3>1. \A j \in InstanceId, d \in Caller : Names(calls'[d], j) => Names(calls[d], j)
        BY <2>2, CallFields DEF Names
      <3> QED BY <1>2, <2>3, <3>1 DEF Seen
    <2>5. \A j \in InstanceId : Spawning(j)' => j # i /\ Spawning(j)
      BY <1>1, <2>2, CallFields DEF Spawning
    <2>6. \A j \in InstanceId : Calling(j, "spawn", "register")' => Calling(j, "spawn", "register")
      BY <2>2, CallFields DEF Calling, Doing
    <2>7. /\ \A d \in Caller : calls'[d].op = "spawn" => process'[calls'[d].target.instance] # "none"
          /\ \A d, e \in Caller :
                /\ calls'[d].op = "spawn" /\ calls'[e].op = "spawn"
                /\ calls'[d].target.instance = calls'[e].target.instance
                => d = e
      BY <2>2, <2>3, CallFields DEF FreshInstances
    <2> QED BY <1>1, <2>3, <2>4, <2>5, <2>6, <2>7 DEF FreshInstances
  <1>6. CASE SpawnAttachFails(c) \/ SpawnDiscard(c)
    BY <1>4, <1>6 DEF SpawnAttachFails, SpawnDiscard, piVars
  <1>7. CASE SpawnRegister(c)
    <2>1. UNCHANGED <<runtimes, pump>>
      BY <1>7 DEF SpawnRegister
    <2>2. CASE Goto(c, "insert") /\ Register(calls[c].target, "starting") /\ UNCHANGED process
      BY <1>3, <2>1, <2>2 DEF Register, Put
    <2>3. CASE Goto(c, "discard") /\ UNCHANGED <<coordinatorVars, process>>
      BY <1>3, <2>1, <2>3 DEF coordinatorVars
    <2>4. CASE Finish(c) /\ Kill(i) /\ UNCHANGED coordinatorVars
      <3>1. \A j \in InstanceId : process'[j] = "none" => process[j] = "none"
        BY <1>0, <2>4 DEF Kill
      <3> QED BY <1>4, <2>1, <2>4, <3>1
    <2> QED BY <1>7, <2>2, <2>3, <2>4 DEF SpawnRegister, KillFails
  <1> QED BY <1>5, <1>6, <1>7

LEMMA FreshIsKept ==
  ASSUME ManagerTypes, FreshInstances, [ManagerNext]_managerVars
  PROVE  FreshInstances'
  <1>1. CASE UNCHANGED managerVars
    <2>1. \A i \in InstanceId : Seen(i)' => Seen(i)
      BY <1>1 DEF managerVars, piVars, Seen
    <2> QED BY <1>1, <2>1, FreshStays DEF managerVars, piVars
  <1>2. ASSUME NEW c \in Caller, SpawnBegin(c) PROVE FreshInstances'
    <2>1. PICK w \in WorkspaceId, s \in SessionId, i \in Unused :
              /\ calls[c] = Idle
              /\ calls' = [calls EXCEPT ![c] =
                     SpawnCall([workspace |-> w, session |-> s, instance |-> i])]
              /\ process' = [process EXCEPT ![i] = "open"]
      BY <1>2 DEF SpawnBegin, Begin
    <2>2. PICK t : t = [workspace |-> w, session |-> s, instance |-> i]
      OBVIOUS
    <2>3. PICK new : new = SpawnCall(t)
      OBVIOUS
    <2>4. new.op = "spawn" /\ new.target.instance = i
      BY <2>2, <2>3 DEF SpawnCall
    <2>5. calls[c].op # "spawn" /\ calls' = [calls EXCEPT ![c] = new]
      BY <2>1, <2>2, <2>3, CallFields
    <2>6. UNCHANGED <<runtimes, bus, sent, pump>> /\ DOMAIN instances' \subseteq DOMAIN instances
      BY <1>2 DEF SpawnBegin, coordinatorVars
    <2> QED BY <2>1, <2>4, <2>5, <2>6, NewSpawnIsFresh
  <1>3. ASSUME NEW c \in Caller, StopUnregister(c) PROVE FreshInstances'
    <2>1. CASE StopNext(c) /\ UNCHANGED process
      BY <1>3, <2>1, GoingOnIsFresh
    <2>2. ASSUME NEW i \in Unused,
                 calls' = [calls EXCEPT ![c] = SpawnCall([calls[c].target EXCEPT !.instance = i])],
                 process' = [process EXCEPT ![i] = "open"]
          PROVE  FreshInstances'
      <3>1. calls[c].op = "stop" /\ calls[c].target \in RuntimeTarget
        BY <1>3, CallIsTyped DEF StopUnregister, Doing, ManagerTypes, StopCalls
      <3>2. PICK t : t = [calls[c].target EXCEPT !.instance = i]
        OBVIOUS
      <3>3. PICK new : new = SpawnCall(t)
        OBVIOUS
      <3>4. new.op = "spawn" /\ new.target.instance = i /\ calls' = [calls EXCEPT ![c] = new]
        BY <2>2, <3>1, <3>2, <3>3 DEF SpawnCall, RuntimeTarget
      <3>5. DOMAIN instances' \subseteq DOMAIN instances
        BY <1>3 DEF StopUnregister, Unregister, Without, coordinatorVars
      <3>6. UNCHANGED <<runtimes, bus, sent, pump>>
        BY <1>3 DEF StopUnregister
      <3> QED BY <2>2, <3>1, <3>4, <3>5, <3>6, NewSpawnIsFresh
    <2> QED BY <1>3, <2>1, <2>2 DEF StopUnregister
  <1> QED
    BY <1>1, <1>2, <1>3, BeginsAreFresh, GoingOnIsFresh, PumpsAreFresh, SpawnsAreFresh
       DEF ManagerNext, CallBegins, CallGoesOn

LEMMA FreshAlways == ManagerSpec => []FreshInstances
  <1>1. ManagerInit => FreshInstances
    <2> SUFFICES ASSUME ManagerInit PROVE FreshInstances
      OBVIOUS
    <2>1. \A c \in Caller : calls[c].op = "idle"
      BY CallFields DEF ManagerInit
    <2>2. \A i \in InstanceId : ~Seen(i)
      BY <2>1 DEF ManagerInit, Seen, Names
    <2>3. DOMAIN instances = {}
      BY DEF ManagerInit, Init
    <2> QED BY <2>1, <2>2, <2>3 DEF FreshInstances
  <1>2. ManagerTypes /\ FreshInstances /\ [ManagerNext]_managerVars => FreshInstances'
    BY FreshIsKept
  <1> QED BY <1>1, <1>2, TypesAlways, PTL DEF ManagerSpec

-----------------------------------------------------------------------------
(* Sequence numbers                                                          *)

TakenByPump(i) == pump[i].at \in {"remember", "publish"}
TakenByCall(c) == calls[c].op = "bind" /\ calls[c].at \in {"route", "publish"}

\* No number of a registered instance is beyond its counter.
NumbersAreCounted ==
    /\ \A p \in DOMAIN bus : bus[p].target.instance \in DOMAIN instances =>
           bus[p].sequence <= instances[bus[p].target.instance].sequence
    /\ \A i \in DOMAIN instances : TakenByPump(i) => pump[i].sequence <= instances[i].sequence
    /\ \A c \in Caller : TakenByCall(c) /\ calls[c].target.instance \in DOMAIN instances =>
           calls[c].sequence <= instances[calls[c].target.instance].sequence

\* A number is taken once: by an event on the bus, by the pump, or by a binding
\* that has not published yet.
NumbersAreTakenOnce ==
    /\ SequencesAreUnique
    /\ \A i \in InstanceId : TakenByPump(i) => \A p \in DOMAIN bus :
           bus[p].target.instance = i => bus[p].sequence # pump[i].sequence
    /\ \A c \in Caller : TakenByCall(c) => \A p \in DOMAIN bus :
           bus[p].target.instance = calls[c].target.instance => bus[p].sequence # calls[c].sequence
    /\ \A c \in Caller : TakenByCall(c) /\ TakenByPump(calls[c].target.instance) =>
           calls[c].sequence # pump[calls[c].target.instance].sequence
    /\ \A c, d \in Caller :
           /\ TakenByCall(c) /\ TakenByCall(d) /\ c # d
           /\ calls[c].target.instance = calls[d].target.instance
           => calls[c].sequence # calls[d].sequence

LEMMA BusIsTyped ==
  ASSUME ManagerTypes
  PROVE  \A p \in DOMAIN bus : bus[p].sequence \in Nat /\ bus[p].target.instance \in InstanceId
  <1>1. bus \in Seq(Event)
    BY DEF ManagerTypes, ManagerTypeOK
  <1>2. \A p \in DOMAIN bus : bus[p] \in Event
    BY <1>1
  <1> QED BY <1>2 DEF Event, RuntimeTarget

LEMMA NumbersStay ==
  ASSUME ManagerTypes, NumbersAreCounted, NumbersAreTakenOnce,
         bus' = bus,
         \A i \in DOMAIN instances' :
             \/ i \in DOMAIN instances /\ instances'[i].sequence >= instances[i].sequence
             \/ ~Seen(i),
         \A i \in InstanceId :
             TakenByPump(i)' => TakenByPump(i) /\ pump'[i].sequence = pump[i].sequence,
         \A c \in Caller :
             TakenByCall(c)' => /\ TakenByCall(c)
                                /\ calls'[c].sequence = calls[c].sequence
                                /\ calls'[c].target = calls[c].target,
         ManagerTypes'
  PROVE  NumbersAreCounted' /\ NumbersAreTakenOnce'
  <1>1. /\ DOMAIN instances \subseteq InstanceId
        /\ DOMAIN instances' \subseteq InstanceId
        /\ \A i \in DOMAIN instances : instances[i].sequence \in Nat
        /\ \A i \in DOMAIN instances' : instances'[i].sequence \in Nat
        /\ \A p \in DOMAIN bus : bus[p].sequence \in Nat /\ bus[p].target.instance \in InstanceId
    BY BusIsTyped DEF ManagerTypes, ManagerTypeOK, TypeOK, RuntimeRecord
  <1>2. \A i \in InstanceId : TakenByPump(i) => pump[i].sequence \in Nat /\ Seen(i)
    BY PumpIsTyped DEF ManagerTypes, TakenByPump, Seen
  <1>3. \A c \in Caller : TakenByCall(c) =>
            /\ calls[c].sequence \in Nat
            /\ calls[c].target.instance \in InstanceId
            /\ Seen(calls[c].target.instance)
    BY CallIsTyped DEF ManagerTypes, TakenByCall, BindCalls, RuntimeTarget, Seen, Names
  <1>4. \A p \in DOMAIN bus : Seen(bus[p].target.instance)
    BY DEF Seen
  <1>5. NumbersAreCounted'
    <2>1. \A p \in DOMAIN bus' : bus'[p].target.instance \in DOMAIN instances' =>
              bus'[p].sequence <= instances'[bus'[p].target.instance].sequence
      BY <1>1, <1>4 DEF NumbersAreCounted
    <2>2. \A i \in DOMAIN instances' :
              TakenByPump(i)' => pump'[i].sequence <= instances'[i].sequence
      BY <1>1, <1>2 DEF NumbersAreCounted
    <2>3. \A c \in Caller : TakenByCall(c)' /\ calls'[c].target.instance \in DOMAIN instances' =>
              calls'[c].sequence <= instances'[calls'[c].target.instance].sequence
      BY <1>1, <1>3 DEF NumbersAreCounted
    <2> QED BY <2>1, <2>2, <2>3 DEF NumbersAreCounted
  <1>6. NumbersAreTakenOnce'
    BY <1>1, <1>3 DEF NumbersAreTakenOnce, SequencesAreUnique
  <1> QED BY <1>5, <1>6

\* The number that is taken next is beyond all that are taken.
LEMMA NextNumberIsNew ==
  ASSUME ManagerTypes, NumbersAreCounted, NEW i \in DOMAIN instances
  PROVE  /\ NextSequence(i) \in Nat
         /\ instances[i].sequence < NextSequence(i)
         /\ \A p \in DOMAIN bus : bus[p].target.instance = i => bus[p].sequence < NextSequence(i)
         /\ TakenByPump(i) => pump[i].sequence < NextSequence(i)
         /\ \A c \in Caller : TakenByCall(c) /\ calls[c].target.instance = i =>
                calls[c].sequence < NextSequence(i)
  <1>1. instances[i].sequence \in Nat /\ i \in InstanceId
    BY DEF ManagerTypes, ManagerTypeOK, TypeOK, RuntimeRecord
  <1>2. \A p \in DOMAIN bus : bus[p].sequence \in Nat
    BY BusIsTyped
  <1>3. TakenByPump(i) => pump[i].sequence \in Nat
    BY <1>1, PumpIsTyped DEF ManagerTypes, TakenByPump
  <1>4. \A c \in Caller : TakenByCall(c) => calls[c].sequence \in Nat
    BY CallIsTyped DEF ManagerTypes, TakenByCall, BindCalls
  <1> QED BY <1>1, <1>2, <1>3, <1>4 DEF NumbersAreCounted, NextSequence

LEMMA BindingTakesANumber ==
  ASSUME ManagerTypes, NumbersAreCounted, NumbersAreTakenOnce, NEW c \in Caller,
         BindCoordinate(c)
  PROVE  NumbersAreCounted' /\ NumbersAreTakenOnce'
  <1> DEFINE i == calls[c].target.instance
             n == NextSequence(i)
  <1>0. /\ calls \in [Caller -> CallType]
        /\ calls[c].op = "bind" /\ calls[c].at = "coordinate"
        /\ calls[c] \in BindCalls
        /\ ManagerTypes'
    BY CallIsTyped, TypesAreKept
       DEF ManagerTypes, ManagerTypeOK, BindCoordinate, Doing, ManagerNext, CallGoesOn
  <1>1. bus' = bus /\ pump' = pump
    BY DEF BindCoordinate
  <1>2. ASSUME Finish(c), UNCHANGED coordinatorVars \/ EmitEvent(calls[c].target)
        PROVE  NumbersAreCounted' /\ NumbersAreTakenOnce'
    <2>1. calls' = [calls EXCEPT ![c] = Idle]
      BY <1>2 DEF Finish
    <2>2. \A d \in Caller : TakenByCall(d)' => d # c /\ TakenByCall(d) /\ calls'[d] = calls[d]
      BY <1>0, <2>1, CallFields DEF TakenByCall
    <2>4. \A j \in DOMAIN instances' :
              j \in DOMAIN instances /\ instances'[j].sequence >= instances[j].sequence
      <3>1. \A j \in DOMAIN instances : instances[j].sequence \in Nat /\ instances[j] \in RuntimeRecord
        BY DEF ManagerTypes, ManagerTypeOK, TypeOK, RuntimeRecord
      <3>2. \/ UNCHANGED coordinatorVars
            \/ EmitEvent(calls[c].target)
        BY <1>2
      <3>3. CASE UNCHANGED coordinatorVars
        BY <3>1, <3>3 DEF coordinatorVars
      <3>4. CASE EmitEvent(calls[c].target)
        <4>1. /\ i \in DOMAIN instances
              /\ instances' = [instances EXCEPT ![i] = [instances[i] EXCEPT
                                   !.sequence = instances[i].sequence + 1]]
          BY <3>4 DEF EmitEvent, Valid
        <4>2. [instances[i] EXCEPT !.sequence = instances[i].sequence + 1].sequence
                  = instances[i].sequence + 1
          BY <3>1, <4>1 DEF RuntimeRecord
        <4> HIDE DEF i
        <4> QED BY <3>1, <4>1, <4>2 DEF ManagerTypes, ManagerTypeOK, TypeOK
      <3> QED BY <3>2, <3>3, <3>4
    <2>5. \A j \in InstanceId :
             TakenByPump(j)' => TakenByPump(j) /\ pump'[j].sequence = pump[j].sequence
      BY <1>1 DEF TakenByPump
    <2> QED BY <1>0, <1>1, <2>2, <2>4, <2>5, NumbersStay
  <1>3. ASSUME CanBind(calls[c].target, calls[c].session),
               instances' = [instances EXCEPT ![i].sequence = n,
                                              ![i].target.session = calls[c].session],
               calls' = [calls EXCEPT ![c].at = "route", ![c].sequence = n]
        PROVE  NumbersAreCounted' /\ NumbersAreTakenOnce'
    <2>1. i \in DOMAIN instances /\ instances[i] \in RuntimeRecord
      BY <1>3 DEF CanBind, Valid, ManagerTypes, ManagerTypeOK, TypeOK
    <2>2. /\ DOMAIN instances' = DOMAIN instances
          /\ instances'[i].sequence = n
          /\ \A j \in DOMAIN instances : j # i => instances'[j] = instances[j]
      BY <1>3, <2>1 DEF RuntimeRecord, ManagerTypes, ManagerTypeOK, TypeOK
    <2>3. /\ calls'[c].op = "bind" /\ calls'[c].at = "route" /\ calls'[c].sequence = n
          /\ calls'[c].target = calls[c].target
          /\ \A d \in Caller : d # c => calls'[d] = calls[d]
      BY <1>0, <1>3 DEF BindCalls
    <2>4. ~TakenByCall(c) /\ TakenByCall(c)'
      BY <1>0, <2>3 DEF TakenByCall
    <2>5. \A d \in Caller : d # c => (TakenByCall(d)' <=> TakenByCall(d))
      BY <2>3 DEF TakenByCall
    <2>6. \A j : TakenByPump(j)' <=> TakenByPump(j)
      BY <1>1 DEF TakenByPump
    <2>7. /\ n \in Nat
          /\ \A p \in DOMAIN bus : bus[p].target.instance = i => bus[p].sequence < n
          /\ TakenByPump(i) => pump[i].sequence < n
          /\ \A d \in Caller : TakenByCall(d) /\ calls[d].target.instance = i =>
                 calls[d].sequence < n
      BY <2>1, NextNumberIsNew
    <2>8. /\ \A p \in DOMAIN bus : bus[p].sequence \in Nat
          /\ \A d \in Caller : TakenByCall(d) => calls[d].sequence \in Nat
          /\ TakenByPump(i) => pump[i].sequence \in Nat
      <3>1. \A d \in Caller : TakenByCall(d) => calls[d].sequence \in Nat
        BY CallIsTyped DEF ManagerTypes, TakenByCall, BindCalls
      <3>2. i \in InstanceId
        BY <2>1 DEF ManagerTypes, ManagerTypeOK, TypeOK
      <3>3. TakenByPump(i) => pump[i].sequence \in Nat
        BY <3>2, PumpIsTyped DEF ManagerTypes, TakenByPump
      <3> QED BY <3>1, <3>3, BusIsTyped
    <2> HIDE DEF n, i
    <2>9. NumbersAreCounted'
      BY <1>1, <2>1, <2>2, <2>3, <2>5, <2>6, <2>7, <2>8 DEF NumbersAreCounted, i
    <2>10. NumbersAreTakenOnce'
      <3>1. SequencesAreUnique'
        BY <1>1 DEF NumbersAreTakenOnce, SequencesAreUnique
      <3>2. \A j \in InstanceId : TakenByPump(j)' => \A p \in DOMAIN bus' :
               bus'[p].target.instance = j => bus'[p].sequence # pump'[j].sequence
        BY <1>1, <2>6 DEF NumbersAreTakenOnce
      <3>3. \A d \in Caller : TakenByCall(d)' => \A p \in DOMAIN bus' :
               bus'[p].target.instance = calls'[d].target.instance =>
                   bus'[p].sequence # calls'[d].sequence
        <4>1. \A d \in Caller : d # c /\ TakenByCall(d)' => \A p \in DOMAIN bus' :
                 bus'[p].target.instance = calls'[d].target.instance =>
                     bus'[p].sequence # calls'[d].sequence
          BY <1>1, <2>3, <2>5 DEF NumbersAreTakenOnce
        <4>2. \A p \in DOMAIN bus' : bus'[p].target.instance = calls'[c].target.instance =>
                  bus'[p].sequence # calls'[c].sequence
          BY <1>1, <2>3, <2>7, <2>8 DEF i
        <4> QED BY <4>1, <4>2
      <3>4. \A d \in Caller : TakenByCall(d)' /\ TakenByPump(calls[d].target.instance)' =>
               calls'[d].sequence # pump'[calls'[d].target.instance].sequence
        <4>1. \A d \in Caller :
                 d # c /\ TakenByCall(d)' /\ TakenByPump(calls[d].target.instance)' =>
                     calls'[d].sequence # pump'[calls'[d].target.instance].sequence
          BY <1>1, <2>3, <2>5, <2>6 DEF NumbersAreTakenOnce
        <4>2. TakenByPump(calls[c].target.instance)' =>
                  calls'[c].sequence # pump'[calls'[c].target.instance].sequence
          BY <1>1, <2>3, <2>6, <2>7, <2>8 DEF i
        <4> QED BY <4>1, <4>2
      <3>5. \A d, e \in Caller :
               /\ TakenByCall(d)' /\ TakenByCall(e)' /\ d # e
               /\ calls'[d].target.instance = calls'[e].target.instance
               => calls'[d].sequence # calls'[e].sequence
        <4>1. \A d, e \in Caller :
                 /\ TakenByCall(d)' /\ TakenByCall(e)' /\ d # e /\ d # c /\ e # c
                 /\ calls'[d].target.instance = calls'[e].target.instance
                 => calls'[d].sequence # calls'[e].sequence
          BY <2>3, <2>5 DEF NumbersAreTakenOnce
        <4>2. \A d \in Caller :
                 /\ TakenByCall(d)' /\ d # c
                 /\ calls'[d].target.instance = calls'[c].target.instance
                 => calls'[d].sequence # calls'[c].sequence
          BY <2>3, <2>5, <2>7, <2>8 DEF i
        <4> QED BY <4>1, <4>2
      <3> QED BY <3>1, <3>2, <3>3, <3>4, <3>5 DEF NumbersAreTakenOnce
    <2> QED BY <2>9, <2>10
  <1>4. CASE CanBind(calls[c].target, calls[c].session)
    <2>1. Valid(calls[c].target)
      BY <1>4 DEF CanBind
    <2> QED BY <1>3, <1>4, <2>1 DEF BindCoordinate
  <1>5. CASE ~CanBind(calls[c].target, calls[c].session)
    BY <1>2, <1>5 DEF BindCoordinate
  <1> QED BY <1>4, <1>5

\* The registry's own methods never take a number back.
LEMMA NumbersOnlyGrow ==
  ASSUME ManagerTypes, NEW t \in RuntimeTarget,
         \/ UNCHANGED coordinatorVars \/ EmitEvent(t) \/ Unregister(t)
         \/ \E k \in Key : AcceptMutation(t, k) \/ CompleteMutation(t, k, TRUE)
  PROVE  \A i \in DOMAIN instances' :
             i \in DOMAIN instances /\ instances'[i].sequence >= instances[i].sequence
  <1>1. /\ \A i \in DOMAIN instances : instances[i].sequence \in Nat /\ instances[i] \in RuntimeRecord
        /\ instances \in [DOMAIN instances -> RuntimeRecord]
    BY DEF ManagerTypes, ManagerTypeOK, TypeOK, RuntimeRecord
  <1>2. CASE UNCHANGED coordinatorVars
    BY <1>1, <1>2 DEF coordinatorVars
  <1>3. CASE Unregister(t)
    BY <1>1, <1>3 DEF Unregister, Without
  <1>4. ASSUME NEW i \in DOMAIN instances, NEW rec, instances' = [instances EXCEPT ![i] = rec],
               rec.sequence >= instances[i].sequence
        PROVE  \A j \in DOMAIN instances' :
                   j \in DOMAIN instances /\ instances'[j].sequence >= instances[j].sequence
    BY <1>1, <1>4
  <1>5. CASE EmitEvent(t)
    <2> DEFINE i == t.instance
               rec == [instances[i] EXCEPT !.sequence = instances[i].sequence + 1]
    <2>1. i \in DOMAIN instances /\ instances' = [instances EXCEPT ![i] = rec]
      BY <1>5 DEF EmitEvent, Valid
    <2>2. rec.sequence >= instances[i].sequence
      BY <1>1, <2>1 DEF RuntimeRecord
    <2> HIDE DEF rec, i
    <2> QED BY <1>4, <2>1, <2>2
  <1>6. ASSUME NEW k \in Key, AcceptMutation(t, k)
        PROVE  \A i \in DOMAIN instances' :
                   i \in DOMAIN instances /\ instances'[i].sequence >= instances[i].sequence
    <2> DEFINE i == t.instance
               rec == [instances[i] EXCEPT !.mutations = Remember(instances[i].mutations, k)]
    <2>1. i \in DOMAIN instances /\ instances' = [instances EXCEPT ![i] = rec]
      BY <1>6 DEF AcceptMutation, Valid
    <2>2. rec.sequence >= instances[i].sequence
      BY <1>1, <2>1 DEF RuntimeRecord
    <2> HIDE DEF rec, i
    <2> QED BY <1>4, <2>1, <2>2
  <1>7. ASSUME NEW k \in Key, CompleteMutation(t, k, TRUE)
        PROVE  \A i \in DOMAIN instances' :
                   i \in DOMAIN instances /\ instances'[i].sequence >= instances[i].sequence
    <2> DEFINE i == t.instance
               n == PositionOf(i, k)
               ms == [instances[i].mutations EXCEPT ![n] = [instances[i].mutations[n] EXCEPT
                                                               !.result = TRUE]]
               rec == [instances[i] EXCEPT !.mutations = ms]
    <2>1. i \in DOMAIN instances /\ instances' = [instances EXCEPT ![i] = rec]
      BY <1>7 DEF CompleteMutation, Valid
    <2> HIDE DEF ms
    <2>2. rec.sequence >= instances[i].sequence
      BY <1>1, <2>1 DEF RuntimeRecord
    <2> HIDE DEF rec, i
    <2> QED BY <1>4, <2>1, <2>2
  <1> QED BY <1>2, <1>3, <1>5, <1>6, <1>7

\* A step of a caller that takes no number and publishes none.
LEMMA CallsTakeNoNumber ==
  ASSUME ManagerTypes, NumbersAreCounted, NumbersAreTakenOnce,
         NEW c \in Caller, NEW new, calls' = [calls EXCEPT ![c] = new],
         (new.op = "bind" /\ new.at \in {"route", "publish"}) =>
             /\ TakenByCall(c)
             /\ new.sequence = calls[c].sequence
             /\ new.target = calls[c].target,
         \A i \in DOMAIN instances' :
             \/ i \in DOMAIN instances /\ instances'[i].sequence >= instances[i].sequence
             \/ ~Seen(i),
         bus' = bus,
         \A i \in InstanceId : TakenByPump(i)' => pump'[i] = pump[i],
         ManagerTypes'
  PROVE  NumbersAreCounted' /\ NumbersAreTakenOnce'
  <1>1. calls \in [Caller -> CallType]
    BY DEF ManagerTypes, ManagerTypeOK
  <1>2. calls'[c] = new /\ \A d \in Caller : d # c => calls'[d] = calls[d]
    BY <1>1
  <1>3. \A d \in Caller : TakenByCall(d)' => /\ TakenByCall(d)
                                             /\ calls'[d].sequence = calls[d].sequence
                                             /\ calls'[d].target = calls[d].target
    BY <1>2 DEF TakenByCall
  <1>4. \A i \in InstanceId :
            TakenByPump(i)' => TakenByPump(i) /\ pump'[i].sequence = pump[i].sequence
    BY DEF TakenByPump
  <1> QED BY <1>3, <1>4, NumbersStay

LEMMA BeginsTakeNoNumber ==
  ASSUME ManagerTypes, NumbersAreCounted, NumbersAreTakenOnce, ManagerTypes',
         NEW c \in Caller, CallBegins(c)
  PROVE  NumbersAreCounted' /\ NumbersAreTakenOnce'
  <1>1. UNCHANGED <<instances, bus, pump>>
    <2>1. CASE SpawnBegin(c)
      BY <2>1 DEF SpawnBegin, coordinatorVars
    <2>2. CASE ~SpawnBegin(c)
      BY <2>2, CallsBegin DEF CallBegins, coordinatorVars
    <2> QED BY <2>1, <2>2
  <1>2. \E new : calls' = [calls EXCEPT ![c] = new] /\ ~(new.op = "bind" /\ new.at \in {"route", "publish"})
    <2>1. CASE SpawnBegin(c)
      <3>1. \E t : calls' = [calls EXCEPT ![c] = SpawnCall(t)]
        BY <2>1 DEF SpawnBegin, Begin
      <3>2. PICK t : calls' = [calls EXCEPT ![c] = SpawnCall(t)]
        BY <3>1
      <3> QED BY <3>2, CallFields
    <2>2. CASE ~SpawnBegin(c)
      BY <2>2, CallsBegin DEF CallBegins
    <2> QED BY <2>1, <2>2
  <1>3. PICK new : calls' = [calls EXCEPT ![c] = new] /\ ~(new.op = "bind" /\ new.at \in {"route", "publish"})
    BY <1>2
  <1>4. \A i \in DOMAIN instances' :
             i \in DOMAIN instances /\ instances'[i].sequence >= instances[i].sequence
    BY <1>1 DEF ManagerTypes, ManagerTypeOK, TypeOK, RuntimeRecord
  <1> QED BY <1>1, <1>3, <1>4, CallsTakeNoNumber

LEMMA SpawnsTakeNoNumber ==
  ASSUME ManagerTypes, FreshInstances, NumbersAreCounted, NumbersAreTakenOnce, ManagerTypes',
         NEW c \in Caller,
         SpawnAttachFails(c) \/ SpawnRegister(c) \/ SpawnDiscard(c) \/ SpawnInsert(c)
  PROVE  NumbersAreCounted' /\ NumbersAreTakenOnce'
  <1>1. calls[c].op = "spawn" /\ calls[c] \in SpawnCalls
    BY CallIsTyped
       DEF SpawnAttachFails, SpawnRegister, SpawnDiscard, SpawnInsert, Doing, ManagerTypes
  <1>2. calls[c].target \in RuntimeTarget /\ calls[c].target.instance \in InstanceId
    BY <1>1 DEF SpawnCalls, RuntimeTarget
  <1>3. ~Seen(calls[c].target.instance)
    BY <1>1, <1>2 DEF FreshInstances, Spawning
  <1>4. PICK new : calls' = [calls EXCEPT ![c] = new] /\ new.op # "bind"
    <2>1. CASE Finish(c)
      BY <2>1, CallFields DEF Finish
    <2>2. ASSUME NEW at \in {"insert", "discard"}, Goto(c, at)
          PROVE  \E new : calls' = [calls EXCEPT ![c] = new] /\ new.op # "bind"
      <3>1. PICK new : new = [calls[c] EXCEPT !.at = at]
        OBVIOUS
      <3>2. new.op = "spawn"
        BY <1>1, <3>1 DEF SpawnCalls
      <3>3. calls' = [calls EXCEPT ![c] = new]
        BY <2>2, <3>1 DEF Goto
      <3> QED BY <3>2, <3>3
    <2> QED
      BY <2>1, <2>2 DEF SpawnAttachFails, SpawnRegister, SpawnDiscard, SpawnInsert
  <1>5. \A i \in DOMAIN instances' :
            \/ i \in DOMAIN instances /\ instances'[i].sequence >= instances[i].sequence
            \/ ~Seen(i)
    <2>1. CASE UNCHANGED coordinatorVars
      BY <1>2, <2>1, NumbersOnlyGrow
    <2>2. CASE Register(calls[c].target, "starting")
      <3>1. \A i \in DOMAIN instances' : i # calls[c].target.instance =>
                i \in DOMAIN instances /\ instances'[i] = instances[i]
        BY <2>2 DEF Register, Put
      <3>2. \A i \in DOMAIN instances : instances[i].sequence \in Nat
        BY DEF ManagerTypes, ManagerTypeOK, TypeOK, RuntimeRecord
      <3> QED BY <1>3, <3>1, <3>2
    <2> QED
      BY <2>1, <2>2 DEF SpawnAttachFails, SpawnRegister, SpawnDiscard, SpawnInsert
  <1>6. bus' = bus
    BY DEF SpawnAttachFails, SpawnRegister, SpawnDiscard, SpawnInsert
  <1>7. \A i \in InstanceId : TakenByPump(i)' => pump'[i] = pump[i]
    <2>1. CASE pump' = pump
      BY <2>1
    <2>2. CASE SpawnInsert(c)
      <3>1. PICK p : p = PumpAt("next", calls[c].target, NoFrame, 0)
        OBVIOUS
      <3>2. p.at = "next" /\ pump' = [pump EXCEPT ![calls[c].target.instance] = p]
        BY <2>2, <3>1 DEF PumpAt, SpawnInsert
      <3>3. pump \in [InstanceId -> PumpType]
        BY DEF ManagerTypes, ManagerTypeOK
      <3> QED BY <3>2, <3>3 DEF TakenByPump
    <2> QED BY <2>1, <2>2 DEF SpawnAttachFails, SpawnRegister, SpawnDiscard
  <1> QED BY <1>4, <1>5, <1>6, <1>7, CallsTakeNoNumber

LEMMA OtherCallsTakeNoNumber ==
  ASSUME ManagerTypes, NumbersAreCounted, NumbersAreTakenOnce, ManagerTypes',
         NEW c \in Caller,
         \/ StopValidate(c) \/ StopRemove(c) \/ StopReap(c) \/ StopUnregister(c)
         \/ RequestAccept(c) \/ RequestSend(c) \/ RequestAnswered(c) \/ RequestFailed(c)
         \/ RequestComplete(c)
         \/ RespondValidate(c) \/ RespondSend(c) \/ RespondForget(c)
  PROVE  NumbersAreCounted' /\ NumbersAreTakenOnce'
  <1>1. calls[c].op \in {"stop", "request", "respond"}
    BY DEF StopValidate, StopRemove, StopReap, StopUnregister, RequestAccept, RequestSend,
           RequestAnswered, RequestFailed, RequestComplete,
           RespondValidate, RespondSend, RespondForget, Doing
  <1>2. calls[c].target \in RuntimeTarget
    BY <1>1, CallIsTyped DEF ManagerTypes, StopCalls, RequestCalls, RespondCalls
  <1>3. calls[c].op = "request" => calls[c].key \in Key
    BY CallIsTyped DEF ManagerTypes, RequestCalls
  <1>4. PICK new : calls' = [calls EXCEPT ![c] = new] /\ new.op # "bind"
    <2>1. CASE StopUnregister(c) /\ ~StopNext(c)
      <3>1. PICK i \in Unused :
                calls' = [calls EXCEPT ![c] = SpawnCall([calls[c].target EXCEPT !.instance = i])]
        BY <2>1 DEF StopUnregister
      <3>2. PICK t : t = [calls[c].target EXCEPT !.instance = i]
        OBVIOUS
      <3> QED BY <3>1, <3>2, CallFields
    <2>2. CASE ~(StopUnregister(c) /\ ~StopNext(c))
      <3>1. \E new : calls' = [calls EXCEPT ![c] = new] /\ new.op \in {calls[c].op, "idle"}
        BY <2>2, CallsGoOn
      <3> QED BY <1>1, <3>1
    <2> QED BY <2>1, <2>2
  <1>5. \A i \in DOMAIN instances' :
             i \in DOMAIN instances /\ instances'[i].sequence >= instances[i].sequence
    <2>1. \/ UNCHANGED coordinatorVars
          \/ Unregister(calls[c].target)
          \/ \E k \in Key : \/ AcceptMutation(calls[c].target, k)
                            \/ CompleteMutation(calls[c].target, k, TRUE)
      BY <1>3 DEF StopValidate, StopRemove, StopReap, StopUnregister, RequestAccept, RequestSend,
           RequestAnswered, RequestFailed, RequestComplete,
           RespondValidate, RespondSend, RespondForget, Doing
    <2> QED BY <1>2, <2>1, NumbersOnlyGrow
  <1>6. UNCHANGED <<bus, pump>>
    BY DEF StopValidate, StopRemove, StopReap, StopUnregister, RequestAccept, RequestSend,
           RequestAnswered, RequestFailed, RequestComplete,
           RespondValidate, RespondSend, RespondForget
  <1> QED BY <1>4, <1>5, <1>6, CallsTakeNoNumber

LEMMA RoutingTakesNoNumber ==
  ASSUME ManagerTypes, NumbersAreCounted, NumbersAreTakenOnce, ManagerTypes',
         NEW c \in Caller, BindRoute(c)
  PROVE  NumbersAreCounted' /\ NumbersAreTakenOnce'
  <1>1. calls[c].op = "bind" /\ calls[c] \in BindCalls /\ TakenByCall(c)
    BY CallIsTyped DEF BindRoute, Doing, ManagerTypes, TakenByCall
  <1>2. UNCHANGED <<instances, bus, pump>>
    BY DEF BindRoute, coordinatorVars
  <1>3. \A i \in DOMAIN instances' :
             i \in DOMAIN instances /\ instances'[i].sequence >= instances[i].sequence
    BY <1>2 DEF ManagerTypes, ManagerTypeOK, TypeOK, RuntimeRecord
  <1>4. CASE Finish(c)
    <2>1. calls' = [calls EXCEPT ![c] = Idle] /\ Idle.op # "bind"
      BY <1>4, CallFields DEF Finish
    <2> QED BY <1>2, <1>3, <2>1, CallsTakeNoNumber
  <1>5. CASE Goto(c, "publish")
    <2>1. PICK new : new = [calls[c] EXCEPT !.at = "publish"]
      OBVIOUS
    <2>2. new.sequence = calls[c].sequence /\ new.target = calls[c].target
      BY <1>1, <2>1 DEF BindCalls
    <2>3. calls' = [calls EXCEPT ![c] = new]
      BY <1>5, <2>1 DEF Goto
    <2> QED BY <1>1, <1>2, <1>3, <2>2, <2>3, CallsTakeNoNumber
  <1> QED BY <1>4, <1>5 DEF BindRoute

\* A number goes to the bus with the one that took it.
LEMMA PublishingKeepsNumbers ==
  ASSUME ManagerTypes, NumbersAreCounted, NumbersAreTakenOnce, ManagerTypes',
         NEW e, bus' = Append(bus, e), UNCHANGED instances,
         e.target.instance \in InstanceId, e.sequence \in Nat,
         \A p \in DOMAIN bus : bus[p].target.instance = e.target.instance =>
             bus[p].sequence # e.sequence,
         e.target.instance \in DOMAIN instances =>
             e.sequence <= instances[e.target.instance].sequence,
         \A i \in InstanceId : TakenByPump(i)' =>
             /\ TakenByPump(i) /\ pump'[i].sequence = pump[i].sequence
             /\ i = e.target.instance => pump[i].sequence # e.sequence,
         \A c \in Caller : TakenByCall(c)' =>
             /\ TakenByCall(c) /\ calls'[c].sequence = calls[c].sequence
             /\ calls'[c].target = calls[c].target
             /\ calls[c].target.instance = e.target.instance => calls[c].sequence # e.sequence
  PROVE  NumbersAreCounted' /\ NumbersAreTakenOnce'
  <1>0. bus \in Seq(Event)
    BY DEF ManagerTypes, ManagerTypeOK
  <1>1. \A p \in DOMAIN bus' : \/ p \in DOMAIN bus /\ bus'[p] = bus[p]
                               \/ p = Len(bus) + 1 /\ bus'[p] = e
    BY <1>0
  <1>2. \A c \in Caller : TakenByCall(c) => calls[c].target.instance \in InstanceId
    BY CallIsTyped DEF ManagerTypes, TakenByCall, BindCalls, RuntimeTarget
  <1>3. DOMAIN instances \subseteq InstanceId
    BY DEF ManagerTypes, ManagerTypeOK, TypeOK
  <1>4. NumbersAreCounted'
    <2>1. \A p \in DOMAIN bus' : bus'[p].target.instance \in DOMAIN instances' =>
              bus'[p].sequence <= instances'[bus'[p].target.instance].sequence
      BY <1>1 DEF NumbersAreCounted
    <2>2. \A i \in DOMAIN instances' : TakenByPump(i)' => pump'[i].sequence <= instances'[i].sequence
      BY <1>3 DEF NumbersAreCounted
    <2>3. \A c \in Caller : TakenByCall(c)' /\ calls'[c].target.instance \in DOMAIN instances' =>
              calls'[c].sequence <= instances'[calls'[c].target.instance].sequence
      BY DEF NumbersAreCounted
    <2> QED BY <2>1, <2>2, <2>3 DEF NumbersAreCounted
  <1>5. NumbersAreTakenOnce'
    <2>1. SequencesAreUnique'
      BY <1>1 DEF NumbersAreTakenOnce, SequencesAreUnique
    <2>2. \A i \in InstanceId : TakenByPump(i)' => \A p \in DOMAIN bus' :
             bus'[p].target.instance = i => bus'[p].sequence # pump'[i].sequence
      BY <1>1 DEF NumbersAreTakenOnce
    <2>3. \A c \in Caller : TakenByCall(c)' => \A p \in DOMAIN bus' :
             bus'[p].target.instance = calls'[c].target.instance =>
                 bus'[p].sequence # calls'[c].sequence
      BY <1>1 DEF NumbersAreTakenOnce
    <2>4. \A c \in Caller : TakenByCall(c)' /\ (TakenByPump(calls[c].target.instance))' =>
             calls'[c].sequence # pump'[calls'[c].target.instance].sequence
      BY <1>2 DEF NumbersAreTakenOnce
    <2>5. \A c, d \in Caller :
             /\ TakenByCall(c)' /\ TakenByCall(d)' /\ c # d
             /\ calls'[c].target.instance = calls'[d].target.instance
             => calls'[c].sequence # calls'[d].sequence
      BY DEF NumbersAreTakenOnce
    <2> QED BY <2>1, <2>2, <2>3, <2>4, <2>5 DEF NumbersAreTakenOnce
  <1> QED BY <1>4, <1>5

LEMMA BindingsPublishOnce ==
  ASSUME ManagerTypes, NumbersAreCounted, NumbersAreTakenOnce, ManagerTypes',
         NEW c \in Caller, BindPublish(c)
  PROVE  NumbersAreCounted' /\ NumbersAreTakenOnce'
  <1>1. /\ calls[c].op = "bind" /\ calls[c] \in BindCalls /\ TakenByCall(c)
        /\ calls \in [Caller -> CallType]
    BY CallIsTyped DEF BindPublish, Doing, ManagerTypes, ManagerTypeOK, TakenByCall
  <1>2. PICK e : e = [target |-> calls[c].target, sequence |-> calls[c].sequence,
                      frame |-> BindingFrame]
    OBVIOUS
  <1>3. e.target = calls[c].target /\ e.sequence = calls[c].sequence /\ bus' = Append(bus, e)
    BY <1>2 DEF BindPublish, Publish
  <1>4. e.target.instance \in InstanceId /\ e.sequence \in Nat
    BY <1>1, <1>3 DEF BindCalls, RuntimeTarget
  <1>5. calls' = [calls EXCEPT ![c] = Idle] /\ UNCHANGED <<instances, pump>>
    BY DEF BindPublish, Finish, coordinatorVars
  <1>6. \A d \in Caller : TakenByCall(d)' => d # c /\ TakenByCall(d) /\ calls'[d] = calls[d]
    BY <1>1, <1>5, CallFields DEF TakenByCall
  <1>7. \A d \in Caller : TakenByCall(d)' =>
             /\ TakenByCall(d) /\ calls'[d].sequence = calls[d].sequence
             /\ calls'[d].target = calls[d].target
             /\ calls[d].target.instance = e.target.instance => calls[d].sequence # e.sequence
    BY <1>1, <1>3, <1>6 DEF NumbersAreTakenOnce
  <1>8. \A i \in InstanceId : TakenByPump(i)' =>
             /\ TakenByPump(i) /\ pump'[i].sequence = pump[i].sequence
             /\ i = e.target.instance => pump[i].sequence # e.sequence
    BY <1>1, <1>3, <1>5 DEF NumbersAreTakenOnce, TakenByPump
  <1>9. \A p \in DOMAIN bus : bus[p].target.instance = e.target.instance =>
             bus[p].sequence # e.sequence
    BY <1>1, <1>3 DEF NumbersAreTakenOnce
  <1>10. e.target.instance \in DOMAIN instances =>
             e.sequence <= instances[e.target.instance].sequence
    BY <1>1, <1>3 DEF NumbersAreCounted
  <1> QED BY <1>3, <1>4, <1>5, <1>7, <1>8, <1>9, <1>10, PublishingKeepsNumbers

LEMMA PumpsPublishOnce ==
  ASSUME ManagerTypes, NumbersAreCounted, NumbersAreTakenOnce, ManagerTypes',
         NEW i \in InstanceId, PumpPublish(i)
  PROVE  NumbersAreCounted' /\ NumbersAreTakenOnce'
  <1>1. TakenByPump(i) /\ pump[i].sequence \in Nat /\ pump \in [InstanceId -> PumpType]
    BY PumpIsTyped DEF PumpPublish, TakenByPump, ManagerTypes, ManagerTypeOK
  <1>2. PICK e : e = PumpEvent(i)
    OBVIOUS
  <1>3. e.target.instance = i /\ e.sequence = pump[i].sequence /\ bus' = Append(bus, e)
    BY <1>1, <1>2 DEF PumpPublish, Publish, PumpEvent, ManagerTypes, RoutesAreOwn, TakenByPump
  <1>4. calls' = calls /\ UNCHANGED instances
    BY DEF PumpPublish, coordinatorVars
  <1>5. \A j \in InstanceId : TakenByPump(j)' => j # i /\ pump'[j] = pump[j]
    <2>1. pump' = [pump EXCEPT ![i] = [pump[i] EXCEPT !.at = "next"]]
      BY DEF PumpPublish, PumpTo
    <2>2. [pump[i] EXCEPT !.at = "next"].at = "next"
      <3>1. PICK q : q = pump[i]
        OBVIOUS
      <3>2. q \in RestingPumps \cup BusyPumps
        BY <1>1, <3>1 DEF PumpType, RestingPumps, BusyPumps, TakenByPump
      <3> QED BY <3>1, <3>2 DEF RestingPumps, BusyPumps
    <2> QED BY <1>1, <2>1, <2>2 DEF TakenByPump
  <1>6. \A j \in InstanceId : TakenByPump(j)' =>
             /\ TakenByPump(j) /\ pump'[j].sequence = pump[j].sequence
             /\ j = e.target.instance => pump[j].sequence # e.sequence
    BY <1>3, <1>5 DEF TakenByPump
  <1>7. \A d \in Caller : TakenByCall(d)' =>
             /\ TakenByCall(d) /\ calls'[d].sequence = calls[d].sequence
             /\ calls'[d].target = calls[d].target
             /\ calls[d].target.instance = e.target.instance => calls[d].sequence # e.sequence
    BY <1>1, <1>3, <1>4 DEF NumbersAreTakenOnce, TakenByCall
  <1>8. \A p \in DOMAIN bus : bus[p].target.instance = e.target.instance =>
             bus[p].sequence # e.sequence
    BY <1>1, <1>3 DEF NumbersAreTakenOnce
  <1>9. e.target.instance \in DOMAIN instances =>
             e.sequence <= instances[e.target.instance].sequence
    BY <1>1, <1>3 DEF NumbersAreCounted
  <1> QED BY <1>1, <1>3, <1>4, <1>6, <1>7, <1>8, <1>9, PublishingKeepsNumbers

LEMMA PumpTakesANumber ==
  ASSUME ManagerTypes, NumbersAreCounted, NumbersAreTakenOnce, ManagerTypes',
         NEW i \in InstanceId, PumpSequence(i), Valid(pump[i].target)
  PROVE  NumbersAreCounted' /\ NumbersAreTakenOnce'
  <1> DEFINE n == NextSequence(i)
             at == IF IsDialog(pump[i].frame) THEN "remember" ELSE "publish"
             st == StateAfter(pump[i].frame, instances[i].state)
  <1>0. /\ pump[i].at = "sequence" /\ pump[i].at # "off"
        /\ pump \in [InstanceId -> PumpType]
        /\ pump[i].target.instance = i
    BY DEF PumpSequence, ManagerTypes, ManagerTypeOK, RoutesAreOwn
  <1>1. i \in DOMAIN instances /\ instances \in [DOMAIN instances -> RuntimeRecord]
    BY <1>0 DEF Valid, ManagerTypes, ManagerTypeOK, TypeOK
  <1>2. bus' = bus /\ calls' = calls
    BY DEF PumpSequence
  <1>3. /\ n \in Nat /\ instances[i].sequence < n
        /\ \A p \in DOMAIN bus : bus[p].target.instance = i => bus[p].sequence < n
        /\ \A c \in Caller : TakenByCall(c) /\ calls[c].target.instance = i =>
               calls[c].sequence < n
    BY <1>1, NextNumberIsNew
  <1>4. /\ DOMAIN instances' = DOMAIN instances
        /\ instances'[i].sequence = n
        /\ \A j \in DOMAIN instances : j # i => instances'[j] = instances[j]
    <2>1. PICK rec : rec = [instances[i] EXCEPT !.sequence = n, !.state = st]
      OBVIOUS
    <2>2. instances' = [instances EXCEPT ![i] = rec]
      BY <1>0, <1>1, <2>1 DEF PumpSequence
    <2>3. instances[i] \in RuntimeRecord
      BY <1>1
    <2> HIDE DEF st, n
    <2>4. rec.sequence = n
      BY <2>1, <2>3 DEF RuntimeRecord
    <2> QED BY <1>1, <2>2, <2>4
  <1>5. /\ pump'[i].sequence = n
        /\ \A j \in InstanceId : j # i => pump'[j] = pump[j]
    <2>1. PICK q : q = [pump[i] EXCEPT !.at = at, !.sequence = n]
      OBVIOUS
    <2>2. pump' = [pump EXCEPT ![i] = q]
      BY <1>0, <2>1 DEF PumpSequence
    <2>3. PICK r : r = pump[i]
      OBVIOUS
    <2>4. r \in RestingPumps \cup BusyPumps
      BY <1>0, <2>3 DEF PumpType, RestingPumps, BusyPumps
    <2> HIDE DEF at, n
    <2>5. q.sequence = n
      BY <2>1, <2>3, <2>4 DEF RestingPumps, BusyPumps
    <2> QED BY <1>0, <2>2, <2>5
  <1>6. /\ \A p \in DOMAIN bus : bus[p].sequence \in Nat
        /\ \A c \in Caller : TakenByCall(c) => calls[c].sequence \in Nat
    <2>1. \A c \in Caller : TakenByCall(c) => calls[c].sequence \in Nat
      BY CallIsTyped DEF ManagerTypes, TakenByCall, BindCalls
    <2> QED BY <2>1, BusIsTyped
  <1>7. \A c \in Caller : TakenByCall(c)' <=> TakenByCall(c)
    BY <1>2 DEF TakenByCall
  <1>8. \A j \in InstanceId : j # i => (TakenByPump(j)' <=> TakenByPump(j))
    BY <1>5 DEF TakenByPump
  <1>9. \A c \in Caller : TakenByCall(c) => calls[c].target.instance \in InstanceId
    BY CallIsTyped DEF ManagerTypes, TakenByCall, BindCalls, RuntimeTarget
  <1>10. DOMAIN instances \subseteq InstanceId
    BY DEF ManagerTypes, ManagerTypeOK, TypeOK
  <1> HIDE DEF n, at, st
  <1>11. NumbersAreCounted'
    <2>1. \A p \in DOMAIN bus' : bus'[p].target.instance \in DOMAIN instances' =>
              bus'[p].sequence <= instances'[bus'[p].target.instance].sequence
      BY <1>2, <1>3, <1>4, <1>6 DEF NumbersAreCounted
    <2>2. \A j \in DOMAIN instances' : TakenByPump(j)' => pump'[j].sequence <= instances'[j].sequence
      BY <1>3, <1>4, <1>5, <1>8, <1>10 DEF NumbersAreCounted
    <2>3. \A c \in Caller : TakenByCall(c)' /\ calls'[c].target.instance \in DOMAIN instances' =>
              calls'[c].sequence <= instances'[calls'[c].target.instance].sequence
      BY <1>2, <1>3, <1>4, <1>6, <1>7 DEF NumbersAreCounted
    <2> QED BY <2>1, <2>2, <2>3 DEF NumbersAreCounted
  <1>12. NumbersAreTakenOnce'
    <2>1. SequencesAreUnique'
      BY <1>2 DEF NumbersAreTakenOnce, SequencesAreUnique
    <2>2. \A j \in InstanceId : TakenByPump(j)' => \A p \in DOMAIN bus' :
             bus'[p].target.instance = j => bus'[p].sequence # pump'[j].sequence
      <3>1. \A j \in InstanceId : j # i /\ TakenByPump(j)' => \A p \in DOMAIN bus' :
               bus'[p].target.instance = j => bus'[p].sequence # pump'[j].sequence
        BY <1>2, <1>5, <1>8 DEF NumbersAreTakenOnce
      <3>2. \A p \in DOMAIN bus' :
               bus'[p].target.instance = i => bus'[p].sequence # pump'[i].sequence
        BY <1>2, <1>3, <1>5, <1>6
      <3> QED BY <3>1, <3>2
    <2>3. \A c \in Caller : TakenByCall(c)' => \A p \in DOMAIN bus' :
             bus'[p].target.instance = calls'[c].target.instance =>
                 bus'[p].sequence # calls'[c].sequence
      BY <1>2, <1>7 DEF NumbersAreTakenOnce
    <2>4. \A c \in Caller : TakenByCall(c)' /\ (TakenByPump(calls[c].target.instance))' =>
             calls'[c].sequence # pump'[calls'[c].target.instance].sequence
      <3>1. \A c \in Caller : calls[c].target.instance # i /\ TakenByCall(c)'
                                  /\ (TakenByPump(calls[c].target.instance))' =>
               calls'[c].sequence # pump'[calls'[c].target.instance].sequence
        BY <1>2, <1>5, <1>7, <1>8, <1>9 DEF NumbersAreTakenOnce
      <3>2. \A c \in Caller : calls[c].target.instance = i /\ TakenByCall(c)' =>
               calls'[c].sequence # pump'[calls'[c].target.instance].sequence
        BY <1>2, <1>3, <1>5, <1>6, <1>7
      <3> QED BY <3>1, <3>2
    <2>5. \A c, d \in Caller :
             /\ TakenByCall(c)' /\ TakenByCall(d)' /\ c # d
             /\ calls'[c].target.instance = calls'[d].target.instance
             => calls'[c].sequence # calls'[d].sequence
      BY <1>2, <1>7 DEF NumbersAreTakenOnce
    <2> QED BY <2>1, <2>2, <2>3, <2>4, <2>5 DEF NumbersAreTakenOnce
  <1> QED BY <1>11, <1>12

\* A pump that goes elsewhere holds no number there.
LEMMA RestingPumpsTakeNone ==
  ASSUME ManagerTypes, NEW i \in InstanceId, pump[i].at # "off",
         NEW at \in {"next", "unregister", "forget", "returned"}
  PROVE  \A q : \/ q = [pump[i] EXCEPT !.at = at]
                \/ \E t : q = [pump[i] EXCEPT !.at = at, !.target = t]
                => q.at \notin {"remember", "publish"}
  <1>1. PICK r : r = pump[i]
    OBVIOUS
  <1>2. r \in PumpType
    BY <1>1 DEF ManagerTypes, ManagerTypeOK
  <1>3. r \in RestingPumps \cup BusyPumps
    BY <1>1, <1>2 DEF PumpType, RestingPumps, BusyPumps
  <1> QED BY <1>1, <1>3 DEF RestingPumps, BusyPumps

LEMMA OtherPumpsTakeNoNumber ==
  ASSUME ManagerTypes, NumbersAreCounted, NumbersAreTakenOnce, ManagerTypes',
         NEW i \in InstanceId,
         \/ PumpTake(i) \/ (PumpSequence(i) /\ ~Valid(pump[i].target)) \/ PumpRemember(i)
         \/ PumpRemoveClosed(i) \/ PumpUnregister(i) \/ PumpForget(i)
  PROVE  NumbersAreCounted' /\ NumbersAreTakenOnce'
  <1>0. /\ pump[i].at # "off" /\ pump \in [InstanceId -> PumpType]
        /\ bus' = bus /\ calls' = calls
    BY DEF PumpTake, PumpSequence, PumpRemember, PumpRemoveClosed, PumpUnregister, PumpForget,
           ManagerTypes, ManagerTypeOK
  <1>1. \A j \in DOMAIN instances' :
             j \in DOMAIN instances /\ instances'[j].sequence >= instances[j].sequence
    <2>1. pump[i].target \in RuntimeTarget
      BY <1>0, PumpIsTyped DEF ManagerTypes
    <2>2. UNCHANGED coordinatorVars \/ Unregister(pump[i].target)
      BY DEF PumpTake, PumpSequence, PumpRemember, PumpRemoveClosed, PumpUnregister, PumpForget,
             coordinatorVars
    <2> QED BY <2>1, <2>2, NumbersOnlyGrow
  <1>2. PICK q : /\ pump' = [pump EXCEPT ![i] = q]
                 /\ q.at \in {"remember", "publish"} =>
                        TakenByPump(i) /\ q.sequence = pump[i].sequence
    <2>1. ASSUME NEW at \in {"next", "unregister", "forget", "returned"}, PumpTo(i, at)
          PROVE  \E q : /\ pump' = [pump EXCEPT ![i] = q]
                        /\ q.at \in {"remember", "publish"} =>
                               TakenByPump(i) /\ q.sequence = pump[i].sequence
      <3>1. PICK q : q = [pump[i] EXCEPT !.at = at]
        OBVIOUS
      <3>2. pump' = [pump EXCEPT ![i] = q]
        BY <2>1, <3>1 DEF PumpTo
      <3> QED BY <1>0, <3>1, <3>2, RestingPumpsTakeNone
    <2>2. CASE PumpTake(i) /\ i \in DOMAIN runtimes
      <3>1. PICK q : q = PumpAt("sequence", runtimes[i], Head(pipe[i]), 0)
        OBVIOUS
      <3>2. pump' = [pump EXCEPT ![i] = q] /\ q.at = "sequence"
        BY <2>2, <3>1 DEF PumpTake, PumpAt
      <3> QED BY <3>2
    <2>3. CASE PumpRemoveClosed(i) /\ i \in DOMAIN runtimes
      <3>1. PICK q : q = [pump[i] EXCEPT !.at = "unregister", !.target = runtimes[i]]
        OBVIOUS
      <3>2. pump' = [pump EXCEPT ![i] = q]
        BY <2>3, <3>1 DEF PumpRemoveClosed
      <3>3. q.at \notin {"remember", "publish"}
        BY <1>0, <3>1, RestingPumpsTakeNone
      <3> QED BY <3>2, <3>3
    <2>4. CASE PumpRemember(i)
      <3>1. PICK q : q = [pump[i] EXCEPT !.at = "publish"]
        OBVIOUS
      <3>2. pump' = [pump EXCEPT ![i] = q] /\ TakenByPump(i)
        BY <2>4, <3>1 DEF PumpRemember, PumpTo, TakenByPump
      <3>3. PICK r : r = pump[i]
        OBVIOUS
      <3>4. r \in RestingPumps \cup BusyPumps
        BY <1>0, <3>3 DEF PumpType, RestingPumps, BusyPumps
      <3>5. q.sequence = pump[i].sequence
        BY <3>1, <3>3, <3>4 DEF RestingPumps, BusyPumps
      <3> QED BY <3>2, <3>5
    <2>5. \/ PumpTake(i) /\ i \in DOMAIN runtimes
          \/ PumpRemoveClosed(i) /\ i \in DOMAIN runtimes
          \/ PumpRemember(i)
          \/ PumpTo(i, "returned") \/ PumpTo(i, "forget")
      BY DEF PumpTake, PumpSequence, PumpRemoveClosed, PumpUnregister, PumpForget
    <2> QED BY <2>1, <2>2, <2>3, <2>4, <2>5
  <1>3. \A j \in InstanceId :
            TakenByPump(j)' => TakenByPump(j) /\ pump'[j].sequence = pump[j].sequence
    BY <1>0, <1>2 DEF TakenByPump
  <1>4. \A c \in Caller : TakenByCall(c)' => /\ TakenByCall(c)
                                             /\ calls'[c].sequence = calls[c].sequence
                                             /\ calls'[c].target = calls[c].target
    BY <1>0 DEF TakenByCall
  <1> QED BY <1>0, <1>1, <1>3, <1>4, NumbersStay

LEMMA NumbersAreKept ==
  ASSUME ManagerTypes, FreshInstances, NumbersAreCounted, NumbersAreTakenOnce,
         [ManagerNext]_managerVars
  PROVE  NumbersAreCounted' /\ NumbersAreTakenOnce'
  <1>0. ManagerTypes'
    BY TypesAreKept
  <1>1. ASSUME UNCHANGED <<instances, bus, pump, calls>>
        PROVE  NumbersAreCounted' /\ NumbersAreTakenOnce'
    <2>1. \A i \in DOMAIN instances' :
             i \in DOMAIN instances /\ instances'[i].sequence >= instances[i].sequence
      BY <1>1 DEF ManagerTypes, ManagerTypeOK, TypeOK, RuntimeRecord
    <2>2. /\ \A i \in InstanceId :
                TakenByPump(i)' => TakenByPump(i) /\ pump'[i].sequence = pump[i].sequence
          /\ \A c \in Caller : TakenByCall(c)' => /\ TakenByCall(c)
                                                  /\ calls'[c].sequence = calls[c].sequence
                                                  /\ calls'[c].target = calls[c].target
      BY <1>1 DEF TakenByPump, TakenByCall
    <2> QED BY <1>0, <1>1, <2>1, <2>2, NumbersStay
  <1>2. CASE UNCHANGED managerVars
    BY <1>1, <1>2 DEF managerVars
  <1>3. ASSUME NEW c \in Caller, CallBegins(c) PROVE NumbersAreCounted' /\ NumbersAreTakenOnce'
    BY <1>0, <1>3, BeginsTakeNoNumber
  <1>4. ASSUME NEW c \in Caller, CallGoesOn(c) PROVE NumbersAreCounted' /\ NumbersAreTakenOnce'
    BY <1>0, <1>4, SpawnsTakeNoNumber, OtherCallsTakeNoNumber, BindingTakesANumber,
       RoutingTakesNoNumber, BindingsPublishOnce
       DEF CallGoesOn
  <1>5. ASSUME NEW i \in InstanceId, PumpGoesOn(i)
        PROVE  NumbersAreCounted' /\ NumbersAreTakenOnce'
    BY <1>0, <1>5, PumpTakesANumber, OtherPumpsTakeNoNumber, PumpsPublishOnce DEF PumpGoesOn
  <1>6. ASSUME NEW i \in InstanceId, PiGoesOn(i)
        PROVE  NumbersAreCounted' /\ NumbersAreTakenOnce'
    BY <1>1, <1>6 DEF PiGoesOn, PiWrite, PiRun, PiExit, coordinatorVars
  <1> QED BY <1>2, <1>3, <1>4, <1>5, <1>6 DEF ManagerNext

\* Two events of an instance never carry the same number, though pumps and bindings
\* take their numbers in one lock section and broadcast them in a later one: a number
\* is taken once, from a counter that no registration of the instance ever resets.
THEOREM SequenceNumbers == ManagerSpec => []SequencesAreUnique
  <1>1. ManagerInit => NumbersAreCounted /\ NumbersAreTakenOnce
    <2> SUFFICES ASSUME ManagerInit PROVE NumbersAreCounted /\ NumbersAreTakenOnce
      OBVIOUS
    <2>1. /\ DOMAIN bus = {} /\ DOMAIN instances = {}
          /\ \A c \in Caller : ~TakenByCall(c)
          /\ \A i \in InstanceId : ~TakenByPump(i)
      BY CallFields DEF ManagerInit, Init, TakenByCall, TakenByPump
    <2> QED BY <2>1 DEF NumbersAreCounted, NumbersAreTakenOnce, SequencesAreUnique
  <1>2. /\ ManagerTypes /\ FreshInstances /\ NumbersAreCounted /\ NumbersAreTakenOnce
        /\ [ManagerNext]_managerVars
        => NumbersAreCounted' /\ NumbersAreTakenOnce'
    BY NumbersAreKept
  <1>3. NumbersAreTakenOnce => SequencesAreUnique
    BY DEF NumbersAreTakenOnce
  <1> QED BY <1>1, <1>2, <1>3, TypesAlways, FreshAlways, PTL DEF ManagerSpec

-----------------------------------------------------------------------------
(* Dialogs                                                                   *)

\* A dialog is remembered before it is broadcast, and until it is answered; only a
\* pump whose runtime is gone forgets the others.
DialogsAreKept ==
    /\ OpenDialogsAreReplayable
    /\ \A i \in DOMAIN runtimes :
           /\ pump[i].at = "publish" /\ IsDialog(pump[i].frame)
           /\ pump[i].frame.number \notin answered[i]
           => PumpEvent(i) \in pendingUi[i]
    /\ \A c \in Caller : Doing(c, "respond", "forget") =>
           calls[c].number \in answered[calls[c].target.instance]
    /\ \A i \in InstanceId : pump[i].at \in {"unregister", "forget"} => i \notin DOMAIN runtimes

LEMMA DialogsStay ==
  ASSUME ManagerTypes, DialogsAreKept, ManagerTypes',
         \A i \in DOMAIN runtimes' :
             \/ i \in DOMAIN runtimes
             \/ ~Seen(i) /\ pump'[i].at \notin {"publish", "unregister", "forget"},
         \A i \in InstanceId : answered[i] \subseteq answered'[i],
         \A i \in DOMAIN runtimes' : \A e \in pendingUi[i] :
             e.frame.number \notin answered'[i] => e \in pendingUi'[i],
         \A p \in DOMAIN bus' :
             \/ p \in DOMAIN bus /\ bus'[p] = bus[p]
             \/ ~IsDialog(bus'[p].frame)
             \/ \E i \in InstanceId : pump[i].at = "publish" /\ bus'[p] = PumpEvent(i),
         \A i \in InstanceId :
             /\ pump'[i].at = "publish" /\ IsDialog(pump'[i].frame) =>
                    pump'[i] = pump[i] \/ PumpEvent(i)' \in pendingUi'[i]
             /\ pump'[i].at \in {"unregister", "forget"} =>
                    pump[i].at \in {"unregister", "forget"} \/ i \notin DOMAIN runtimes',
         \A c \in Caller : Doing(c, "respond", "forget")' =>
             calls'[c].number \in answered'[calls'[c].target.instance]
  PROVE  DialogsAreKept'
  <1>0. DOMAIN runtimes \subseteq InstanceId /\ DOMAIN runtimes' \subseteq InstanceId
    BY DEF ManagerTypes, ManagerTypeOK
  <1>1. OpenDialogsAreReplayable'
    <2> SUFFICES ASSUME NEW p \in DOMAIN bus',
                        IsDialog(bus'[p].frame),
                        bus'[p].target.instance \in DOMAIN runtimes',
                        bus'[p].frame.number \notin answered'[bus'[p].target.instance]
                 PROVE  bus'[p] \in pendingUi'[bus'[p].target.instance]
      BY DEF OpenDialogsAreReplayable, IsDialog
    <2> DEFINE i == bus'[p].target.instance
    <2>1. CASE p \in DOMAIN bus /\ bus'[p] = bus[p]
      <3>1. Seen(i)
        BY <2>1 DEF Seen
      <3>2. i \in DOMAIN runtimes /\ i \in InstanceId
        BY <1>0, <3>1
      <3>3. bus[p].frame.number \notin answered[i]
        BY <2>1, <3>2
      <3>4. bus[p] \in pendingUi[i]
        BY <2>1, <3>2, <3>3 DEF DialogsAreKept, OpenDialogsAreReplayable
      <3> QED BY <2>1, <3>4
    <2>2. ASSUME NEW j \in InstanceId, pump[j].at = "publish", bus'[p] = PumpEvent(j)
          PROVE  bus'[p] \in pendingUi'[i]
      <3>1. PICK e : e = bus'[p]
        OBVIOUS
      <3>2. e.target = pump[j].target /\ e.frame = pump[j].frame
        BY <2>2, <3>1 DEF PumpEvent
      <3>3. pump[j].target.instance = j
        BY <2>2 DEF ManagerTypes, RoutesAreOwn
      <3>4. i = j /\ Seen(j)
        BY <2>2, <3>1, <3>2, <3>3 DEF Seen
      <3>5. j \in DOMAIN runtimes
        BY <3>4
      <3>6. e.frame.number \notin answered[j]
        BY <3>1, <3>4
      <3>7. e \in pendingUi[j]
        BY <2>2, <3>1, <3>2, <3>5, <3>6 DEF DialogsAreKept, IsDialog
      <3> QED BY <3>1, <3>4, <3>7
    <2> QED BY <2>1, <2>2
  <1>2. ASSUME NEW i \in DOMAIN runtimes', pump'[i].at = "publish", IsDialog(pump'[i].frame),
               pump'[i].frame.number \notin answered'[i]
        PROVE  PumpEvent(i)' \in pendingUi'[i]
    <2>1. i \in InstanceId /\ i \in DOMAIN runtimes
      BY <1>0, <1>2
    <2>2. CASE pump'[i] = pump[i]
      <3>1. PICK e : e = PumpEvent(i)
        OBVIOUS
      <3>2. e.frame = pump[i].frame /\ PumpEvent(i)' = e
        BY <2>2, <3>1 DEF PumpEvent
      <3>3. pump[i].frame.number \notin answered[i]
        BY <1>2, <2>1, <2>2
      <3>4. e \in pendingUi[i]
        BY <1>2, <2>1, <2>2, <3>1, <3>3 DEF DialogsAreKept
      <3> QED BY <1>2, <2>2, <3>2, <3>4
    <2> QED BY <1>2, <2>1, <2>2
  <1>3. \A i \in InstanceId : pump'[i].at \in {"unregister", "forget"} => i \notin DOMAIN runtimes'
    BY DEF DialogsAreKept
  <1>4. \A i \in DOMAIN runtimes' :
           (/\ pump[i].at = "publish" /\ IsDialog(pump[i].frame)
            /\ pump[i].frame.number \notin answered[i]
            => PumpEvent(i) \in pendingUi[i])'
    BY <1>2 DEF IsDialog
  <1> QED BY <1>1, <1>3, <1>4 DEF DialogsAreKept

\* What touches neither dialogs nor events, and forgets no answer.
LEMMA DialogsAreLeftAlone ==
  ASSUME ManagerTypes, DialogsAreKept, ManagerTypes',
         UNCHANGED <<bus, pendingUi, pump>>,
         DOMAIN runtimes' \subseteq DOMAIN runtimes,
         \A i \in InstanceId : answered[i] \subseteq answered'[i],
         \A c \in Caller : Doing(c, "respond", "forget")' =>
             calls'[c].number \in answered'[calls'[c].target.instance]
  PROVE  DialogsAreKept'
  BY DialogsStay

\* A call that does not answer a dialog.
LEMMA OthersForgetNothing ==
  ASSUME ManagerTypes, DialogsAreKept, NEW c \in Caller, NEW new,
         calls' = [calls EXCEPT ![c] = new], ~(new.op = "respond" /\ new.at = "forget"),
         answered' = answered
  PROVE  /\ \A d \in Caller : Doing(d, "respond", "forget")' =>
                calls'[d].number \in answered'[calls'[d].target.instance]
         /\ \A i \in InstanceId : answered[i] \subseteq answered'[i]
  <1>1. calls'[c] = new /\ \A d \in Caller : d # c => calls'[d] = calls[d]
    BY DEF ManagerTypes, ManagerTypeOK
  <1> QED BY <1>1 DEF DialogsAreKept, Doing

LEMMA BeginsKeepDialogs ==
  ASSUME ManagerTypes, DialogsAreKept, ManagerTypes', NEW c \in Caller, CallBegins(c)
  PROVE  DialogsAreKept'
  <1>1. UNCHANGED <<runtimes, bus, pendingUi, pump, answered>>
    <2>1. CASE SpawnBegin(c)
      BY <2>1 DEF SpawnBegin
    <2>2. CASE ~SpawnBegin(c)
      BY <2>2, CallsBegin DEF CallBegins, piVars
    <2> QED BY <2>1, <2>2
  <1>2. \E new : calls' = [calls EXCEPT ![c] = new] /\ new.at # "forget"
    <2>1. CASE SpawnBegin(c)
      <3>1. \E t : calls' = [calls EXCEPT ![c] = SpawnCall(t)]
        BY <2>1 DEF SpawnBegin, Begin
      <3>2. PICK t : calls' = [calls EXCEPT ![c] = SpawnCall(t)]
        BY <3>1
      <3> QED BY <3>2, CallFields
    <2>2. CASE ~SpawnBegin(c)
      BY <2>2, CallsBegin DEF CallBegins
    <2> QED BY <2>1, <2>2
  <1>3. PICK new : calls' = [calls EXCEPT ![c] = new] /\ new.at # "forget"
    BY <1>2
  <1>4. /\ \A d \in Caller : Doing(d, "respond", "forget")' =>
               calls'[d].number \in answered'[calls'[d].target.instance]
        /\ \A i \in InstanceId : answered[i] \subseteq answered'[i]
    BY <1>1, <1>3, OthersForgetNothing
  <1> QED BY <1>1, <1>4, DialogsAreLeftAlone

\* The method a caller goes on with is the one it was in.
LEMMA MethodsGoOn ==
  ASSUME ManagerTypes, NEW c \in Caller, CallGoesOn(c)
  PROVE  \E new : /\ calls' = [calls EXCEPT ![c] = new]
                  /\ \/ new.op \in {calls[c].op, "idle"}
                     \/ StopUnregister(c) /\ new.op = "spawn"
  <1>1. CASE SpawnAttachFails(c) \/ SpawnRegister(c) \/ SpawnDiscard(c) \/ SpawnInsert(c)
    <2>1. CASE Finish(c)
      <3>1. Idle.op = "idle" /\ calls' = [calls EXCEPT ![c] = Idle]
        BY <2>1, CallFields DEF Finish
      <3> QED BY <3>1
    <2>2. ASSUME NEW at \in {"insert", "discard"}, Goto(c, at)
          PROVE  \E new : calls' = [calls EXCEPT ![c] = new] /\ new.op = calls[c].op
      <3>1. calls[c] \in SpawnCalls
        BY <1>1, CallIsTyped
           DEF SpawnAttachFails, SpawnRegister, SpawnDiscard, SpawnInsert, Doing, ManagerTypes
      <3>2. PICK new : new = [calls[c] EXCEPT !.at = at]
        OBVIOUS
      <3>3. new.op = calls[c].op /\ calls' = [calls EXCEPT ![c] = new]
        BY <2>2, <3>1, <3>2 DEF SpawnCalls, Goto
      <3> QED BY <3>3
    <2> QED
      BY <1>1, <2>1, <2>2 DEF SpawnAttachFails, SpawnRegister, SpawnDiscard, SpawnInsert
  <1>2. CASE StopUnregister(c) /\ ~StopNext(c)
    <2>1. PICK i \in Unused :
              calls' = [calls EXCEPT ![c] = SpawnCall([calls[c].target EXCEPT !.instance = i])]
      BY <1>2 DEF StopUnregister
    <2>2. PICK t : t = [calls[c].target EXCEPT !.instance = i]
      OBVIOUS
    <2>3. PICK new : new = SpawnCall(t)
      OBVIOUS
    <2>4. new.op = "spawn" /\ calls' = [calls EXCEPT ![c] = new]
      BY <2>1, <2>2, <2>3, CallFields
    <2> QED BY <1>2, <2>4
  <1> QED BY <1>1, <1>2, CallsGoOn DEF CallGoesOn

LEMMA AnswersAreRemembered ==
  ASSUME ManagerTypes, DialogsAreKept, ManagerTypes', NEW c \in Caller,
         RespondValidate(c) \/ RespondSend(c) \/ RespondForget(c)
  PROVE  DialogsAreKept'
  <1>0. /\ calls \in [Caller -> CallType]
        /\ answered \in [InstanceId -> SUBSET (1 .. MaxFrames)]
        /\ pendingUi \in [InstanceId -> SUBSET Event]
        /\ UNCHANGED <<runtimes, bus, pump>>
    BY DEF ManagerTypes, ManagerTypeOK, RespondValidate, RespondSend, RespondForget
  <1>1. calls[c].op = "respond" /\ calls[c] \in RespondCalls
    BY CallIsTyped DEF RespondValidate, RespondSend, RespondForget, Doing, ManagerTypes
  <1>2. calls[c].target.instance \in InstanceId
    BY <1>1 DEF RespondCalls, RuntimeTarget
  <1>3. CASE RespondValidate(c)
    <2>1. PICK new : calls' = [calls EXCEPT ![c] = new] /\ new.at # "forget"
      <3>1. CASE Finish(c)
        <4>1. Idle.at = "idle" /\ calls' = [calls EXCEPT ![c] = Idle]
          BY <3>1, CallFields DEF Finish
        <4> QED BY <4>1
      <3>2. CASE Goto(c, "send")
        <4>1. PICK new : new = [calls[c] EXCEPT !.at = "send"]
          OBVIOUS
        <4>2. new.at = "send" /\ calls' = [calls EXCEPT ![c] = new]
          BY <1>1, <3>2, <4>1 DEF Goto, RespondCalls
        <4> QED BY <4>2
      <3> QED BY <1>3, <3>1, <3>2 DEF RespondValidate
    <2>2. UNCHANGED <<answered, pendingUi>>
      BY <1>3 DEF RespondValidate, piVars
    <2>3. /\ \A d \in Caller : Doing(d, "respond", "forget")' =>
                 calls'[d].number \in answered'[calls'[d].target.instance]
          /\ \A i \in InstanceId : answered[i] \subseteq answered'[i]
      BY <2>1, <2>2, OthersForgetNothing
    <2> QED BY <1>0, <2>2, <2>3, DialogsAreLeftAlone
  <1>4. CASE RespondSend(c) /\ answered' = answered /\ Finish(c)
    <2>1. /\ calls' = [calls EXCEPT ![c] = Idle]
          /\ ~(Idle.op = "respond" /\ Idle.at = "forget")
      BY <1>4, CallFields DEF Finish
    <2>2. /\ \A d \in Caller : Doing(d, "respond", "forget")' =>
                 calls'[d].number \in answered'[calls'[d].target.instance]
          /\ \A i \in InstanceId : answered[i] \subseteq answered'[i]
      BY <1>4, <2>1, OthersForgetNothing
    <2>3. pendingUi' = pendingUi
      BY <1>4 DEF RespondSend
    <2> QED BY <1>0, <2>2, <2>3, DialogsAreLeftAlone
  <1>5. CASE /\ RespondSend(c) /\ Goto(c, "forget")
             /\ answered' = [answered EXCEPT ![calls[c].target.instance] = @ \cup {calls[c].number}]
    <2>1. PICK new : new = [calls[c] EXCEPT !.at = "forget"]
      OBVIOUS
    <2>2. new.number = calls[c].number /\ new.target = calls[c].target
      BY <1>1, <2>1 DEF RespondCalls
    <2>3. calls'[c] = new /\ \A d \in Caller : d # c => calls'[d] = calls[d]
      BY <1>0, <1>5, <2>1 DEF Goto
    <2>4. \A i \in InstanceId : answered[i] \subseteq answered'[i]
      BY <1>0, <1>5
    <2>5. \A d \in Caller : Doing(d, "respond", "forget") => calls[d].target.instance \in InstanceId
      BY CallIsTyped DEF ManagerTypes, Doing, RespondCalls, RuntimeTarget
    <2>6. ASSUME NEW d \in Caller, Doing(d, "respond", "forget")'
          PROVE  calls'[d].number \in answered'[calls'[d].target.instance]
      <3>1. CASE d = c
        BY <1>0, <1>2, <1>5, <2>2, <2>3, <3>1
      <3>2. CASE d # c
        BY <2>3, <2>4, <2>5, <2>6, <3>2 DEF DialogsAreKept, Doing
      <3> QED BY <3>1, <3>2
    <2>7. pendingUi' = pendingUi
      BY <1>5 DEF RespondSend
    <2> QED BY <1>0, <2>4, <2>6, <2>7, DialogsAreLeftAlone
  <1>6. CASE RespondForget(c)
    <2> DEFINE i == calls[c].target.instance
    <2>1. /\ pendingUi' = [pendingUi EXCEPT ![i] = OtherDialogs(pendingUi[i], calls[c].number)]
          /\ answered' = answered
          /\ calls[c].number \in answered[i]
      BY <1>6 DEF RespondForget, piVars, DialogsAreKept
    <2>2. /\ calls' = [calls EXCEPT ![c] = Idle]
          /\ ~(Idle.op = "respond" /\ Idle.at = "forget")
      BY <1>6, CallFields DEF RespondForget, Finish
    <2>3. /\ \A d \in Caller : Doing(d, "respond", "forget")' =>
                 calls'[d].number \in answered'[calls'[d].target.instance]
          /\ \A j \in InstanceId : answered[j] \subseteq answered'[j]
      BY <2>1, <2>2, OthersForgetNothing
    <2>4. \A j \in DOMAIN runtimes' : \A e \in pendingUi[j] :
              e.frame.number \notin answered'[j] => e \in pendingUi'[j]
      <3>1. DOMAIN runtimes' \subseteq InstanceId
        BY DEF ManagerTypes, ManagerTypeOK
      <3> HIDE DEF i
      <3> QED BY <1>0, <2>1, <3>1 DEF OtherDialogs
    <2> QED BY <1>0, <2>3, <2>4, DialogsStay
  <1> QED BY <1>3, <1>4, <1>5, <1>6 DEF RespondSend

LEMMA BindingsAreNoDialogs == ~IsDialog(BindingFrame)
  BY DEF IsDialog, BindingFrame

LEMMA CallsKeepDialogs ==
  ASSUME ManagerTypes, DialogsAreKept, FreshInstances, ManagerTypes',
         NEW c \in Caller, CallGoesOn(c)
  PROVE  DialogsAreKept'
  <1>1. CASE RespondValidate(c) \/ RespondSend(c) \/ RespondForget(c)
    BY <1>1, AnswersAreRemembered
  <1>2. CASE \/ SpawnAttachFails(c) \/ SpawnRegister(c) \/ SpawnDiscard(c) \/ SpawnInsert(c)
             \/ StopValidate(c) \/ StopRemove(c) \/ StopReap(c) \/ StopUnregister(c)
             \/ BindCoordinate(c) \/ BindRoute(c) \/ BindPublish(c)
             \/ RequestAccept(c) \/ RequestSend(c) \/ RequestAnswered(c) \/ RequestFailed(c)
             \/ RequestComplete(c)
    <2>1. calls[c].op # "respond"
      BY <1>2 DEF SpawnAttachFails, SpawnRegister, SpawnDiscard, SpawnInsert, StopValidate,
           StopRemove, StopReap, StopUnregister,
           BindCoordinate, BindRoute, BindPublish, RequestAccept, RequestSend, RequestAnswered,
           RequestFailed, RequestComplete, Doing
    <2>2. UNCHANGED <<pendingUi, answered>>
      BY <1>2 DEF SpawnAttachFails, SpawnRegister, SpawnDiscard, SpawnInsert, StopValidate,
           StopRemove, StopReap, StopUnregister,
           BindCoordinate, BindRoute, BindPublish, RequestAccept, RequestSend, RequestAnswered,
           RequestFailed, RequestComplete, piVars
    <2>3. PICK new : calls' = [calls EXCEPT ![c] = new] /\ new.op # "respond"
      BY <2>1, MethodsGoOn
    <2>4. /\ \A d \in Caller : Doing(d, "respond", "forget")' =>
                 calls'[d].number \in answered'[calls'[d].target.instance]
          /\ \A i \in InstanceId : answered[i] \subseteq answered'[i]
      BY <2>2, <2>3, OthersForgetNothing
    <2>5. CASE SpawnInsert(c)
      <3> DEFINE i == calls[c].target.instance
      <3>1. calls[c].op = "spawn" /\ calls[c] \in SpawnCalls
        BY <2>5, CallIsTyped DEF SpawnInsert, Doing, ManagerTypes
      <3>2. i \in InstanceId /\ ~Seen(i)
        BY <3>1 DEF SpawnCalls, RuntimeTarget, FreshInstances, Spawning
      <3>3. PICK q : q = PumpAt("next", calls[c].target, NoFrame, 0)
        OBVIOUS
      <3>4. q.at = "next" /\ pump' = [pump EXCEPT ![i] = q] /\ bus' = bus
        BY <2>5, <3>3 DEF SpawnInsert, PumpAt
      <3>5. DOMAIN runtimes' = DOMAIN runtimes \cup {i}
        BY <2>5 DEF SpawnInsert, Put
      <3>6. pump'[i].at = "next" /\ \A j \in InstanceId : j # i => pump'[j] = pump[j]
        BY <3>2, <3>4 DEF ManagerTypes, ManagerTypeOK
      <3>7. DOMAIN runtimes \subseteq InstanceId
        BY DEF ManagerTypes, ManagerTypeOK
      <3> HIDE DEF i
      <3>8. \A j \in DOMAIN runtimes' :
               \/ j \in DOMAIN runtimes
               \/ ~Seen(j) /\ pump'[j].at \notin {"publish", "unregister", "forget"}
        BY <3>2, <3>5, <3>6
      <3>9. \A j \in InstanceId :
               /\ pump'[j].at = "publish" /\ IsDialog(pump'[j].frame) =>
                      pump'[j] = pump[j] \/ PumpEvent(j)' \in pendingUi'[j]
               /\ pump'[j].at \in {"unregister", "forget"} =>
                      pump[j].at \in {"unregister", "forget"} \/ j \notin DOMAIN runtimes'
        BY <3>6
      <3> QED BY <2>2, <2>4, <3>4, <3>8, <3>9, DialogsStay
    <2>6. CASE BindPublish(c)
      <3>1. PICK e : e = [target |-> calls[c].target, sequence |-> calls[c].sequence,
                          frame |-> BindingFrame]
        OBVIOUS
      <3>2. bus' = Append(bus, e) /\ ~IsDialog(e.frame) /\ UNCHANGED <<runtimes, pump>>
        BY <2>6, <3>1, BindingsAreNoDialogs DEF BindPublish, Publish
      <3>3. bus \in Seq(Event)
        BY DEF ManagerTypes, ManagerTypeOK
      <3>4. \A p \in DOMAIN bus' : \/ p \in DOMAIN bus /\ bus'[p] = bus[p]
                                   \/ ~IsDialog(bus'[p].frame)
        BY <3>2, <3>3
      <3> QED BY <2>2, <2>4, <3>2, <3>4, DialogsStay
    <2>7. CASE ~SpawnInsert(c) /\ ~BindPublish(c)
      <3>1. UNCHANGED <<bus, pump>> /\ DOMAIN runtimes' \subseteq DOMAIN runtimes
        BY <1>2, <2>7
           DEF SpawnAttachFails, SpawnRegister, SpawnDiscard, StopValidate, StopRemove,
           StopReap, StopUnregister, BindCoordinate, piVars,
           BindRoute, RequestAccept, RequestSend, RequestAnswered, RequestFailed,
           RequestComplete, Without
      <3> QED BY <2>2, <2>4, <3>1, DialogsAreLeftAlone
    <2> QED BY <2>5, <2>6, <2>7
  <1> QED BY <1>1, <1>2 DEF CallGoesOn

LEMMA PumpsKeepDialogs ==
  ASSUME ManagerTypes, DialogsAreKept, ManagerTypes', NEW i \in InstanceId, PumpGoesOn(i)
  PROVE  DialogsAreKept'
  <1>0. /\ pump[i].at # "off" /\ pump \in [InstanceId -> PumpType]
        /\ pendingUi \in [InstanceId -> SUBSET Event]
        /\ DOMAIN runtimes \subseteq InstanceId
        /\ bus \in Seq(Event)
    BY DEF PumpGoesOn, PumpTake, PumpSequence, PumpRemember, PumpPublish, PumpRemoveClosed,
           PumpUnregister, PumpForget, ManagerTypes, ManagerTypeOK
  <1>1. /\ calls' = calls /\ answered' = answered
        /\ DOMAIN runtimes' \subseteq DOMAIN runtimes
    BY DEF PumpGoesOn, PumpTake, PumpSequence, PumpRemember, PumpPublish, PumpRemoveClosed,
           PumpUnregister, PumpForget, piVars, Without
  <1>2. \A c \in Caller : Doing(c, "respond", "forget")' =>
             calls'[c].number \in answered'[calls'[c].target.instance]
    BY <1>1 DEF DialogsAreKept, Doing
  <1>3. \A j \in InstanceId : answered[j] \subseteq answered'[j]
    BY <1>1
  <1>4. PICK r : r = pump[i]
    OBVIOUS
  <1>5. r \in RestingPumps \cup BusyPumps
    BY <1>0, <1>4 DEF PumpType, RestingPumps, BusyPumps
  \* What is left to show of a step: what it does with dialogs, events and the pump.
  <1>6. ASSUME \A j \in DOMAIN runtimes' : \A e \in pendingUi[j] : e \in pendingUi'[j],
               bus' = bus,
               NEW q, pump' = [pump EXCEPT ![i] = q],
               q.at = "publish" /\ IsDialog(q.frame) => PumpEvent(i)' \in pendingUi'[i],
               q.at \in {"unregister", "forget"} =>
                   pump[i].at = "unregister" \/ i \notin DOMAIN runtimes'
        PROVE  DialogsAreKept'
    <2>1. pump'[i] = q /\ \A j \in InstanceId : j # i => pump'[j] = pump[j]
      BY <1>0, <1>6
    <2>2. \A j \in InstanceId :
             /\ pump'[j].at = "publish" /\ IsDialog(pump'[j].frame) =>
                    pump'[j] = pump[j] \/ PumpEvent(j)' \in pendingUi'[j]
             /\ pump'[j].at \in {"unregister", "forget"} =>
                    pump[j].at \in {"unregister", "forget"} \/ j \notin DOMAIN runtimes'
      BY <1>6, <2>1
    <2> QED BY <1>1, <1>2, <1>3, <1>6, <2>2, DialogsStay
  <1>7. ASSUME NEW at \in {"next", "returned"}, PumpTo(i, at), bus' = bus,
               \A j \in DOMAIN runtimes' : \A e \in pendingUi[j] : e \in pendingUi'[j]
        PROVE  DialogsAreKept'
    <2>1. PICK q : q = [pump[i] EXCEPT !.at = at]
      OBVIOUS
    <2>2. q.at = at /\ pump' = [pump EXCEPT ![i] = q]
      BY <1>4, <1>5, <1>7, <2>1 DEF PumpTo, RestingPumps, BusyPumps
    <2> QED BY <1>6, <1>7, <2>2
  <1>8. CASE PumpTake(i)
    <2>1. bus' = bus /\ \A j \in DOMAIN runtimes' : \A e \in pendingUi[j] : e \in pendingUi'[j]
      BY <1>8 DEF PumpTake
    <2>2. CASE i \in DOMAIN runtimes
      <3>1. PICK q : q = PumpAt("sequence", runtimes[i], Head(pipe[i]), 0)
        OBVIOUS
      <3>2. q.at = "sequence" /\ pump' = [pump EXCEPT ![i] = q]
        BY <1>8, <2>2, <3>1 DEF PumpTake, PumpAt
      <3> QED BY <1>6, <2>1, <3>2
    <2>3. CASE i \notin DOMAIN runtimes
      BY <1>7, <1>8, <2>1, <2>3 DEF PumpTake
    <2> QED BY <2>2, <2>3
  <1>9. CASE PumpSequence(i)
    <2>1. bus' = bus /\ \A j \in DOMAIN runtimes' : \A e \in pendingUi[j] : e \in pendingUi'[j]
      BY <1>9 DEF PumpSequence
    <2>2. CASE ~Valid(pump[i].target)
      BY <1>7, <1>9, <2>1, <2>2 DEF PumpSequence
    <2>3. CASE Valid(pump[i].target)
      <3> DEFINE at == IF IsDialog(pump[i].frame) THEN "remember" ELSE "publish"
                 n == NextSequence(i)
      <3>1. PICK q : q = [pump[i] EXCEPT !.at = at, !.sequence = n]
        OBVIOUS
      <3>2. pump' = [pump EXCEPT ![i] = q]
        BY <1>9, <2>3, <3>1 DEF PumpSequence
      <3>3. at \in {"remember", "publish"} /\ (at = "publish" => ~IsDialog(pump[i].frame))
        OBVIOUS
      <3> HIDE DEF at, n
      <3>4. q.at = at /\ q.frame = pump[i].frame
        BY <1>4, <1>5, <3>1 DEF RestingPumps, BusyPumps
      <3>5. q.at = "publish" => ~IsDialog(q.frame)
        BY <3>3, <3>4 DEF IsDialog
      <3>6. q.at \notin {"unregister", "forget"}
        BY <3>3, <3>4
      <3> QED BY <1>6, <2>1, <3>2, <3>5, <3>6
    <2> QED BY <2>2, <2>3
  <1>10. CASE PumpRemember(i)
    <2>1. PICK e : e = PumpEvent(i)
      OBVIOUS
    <2>2. /\ bus' = bus
          /\ pendingUi' = [pendingUi EXCEPT ![i] = pendingUi[i] \cup {e}]
      BY <1>10, <2>1 DEF PumpRemember
    <2>3. PICK q : q = [pump[i] EXCEPT !.at = "publish"]
      OBVIOUS
    <2>4. /\ pump' = [pump EXCEPT ![i] = q] /\ pump'[i] = q
      BY <1>0, <1>10, <2>3 DEF PumpRemember, PumpTo
    <2>5. /\ q.at = "publish" /\ q.target = pump[i].target
          /\ q.sequence = pump[i].sequence /\ q.frame = pump[i].frame
      BY <1>4, <1>5, <2>3 DEF RestingPumps, BusyPumps
    <2>6. PumpEvent(i)' = e
      BY <2>1, <2>4, <2>5 DEF PumpEvent
    <2>7. PumpEvent(i)' \in pendingUi'[i]
      BY <1>0, <2>2, <2>6
    <2>8. \A j \in DOMAIN runtimes' : \A f \in pendingUi[j] : f \in pendingUi'[j]
      BY <1>0, <1>1, <2>2
    <2> QED BY <1>6, <2>2, <2>4, <2>5, <2>7, <2>8
  <1>11. CASE PumpPublish(i)
    <2>1. PICK e : e = PumpEvent(i)
      OBVIOUS
    <2>2. bus' = Append(bus, e) /\ pump[i].at = "publish" /\ pendingUi' = pendingUi
      BY <1>11, <2>1 DEF PumpPublish, Publish
    <2>3. \A p \in DOMAIN bus' :
             \/ p \in DOMAIN bus /\ bus'[p] = bus[p]
             \/ \E j \in InstanceId : pump[j].at = "publish" /\ bus'[p] = PumpEvent(j)
      BY <1>0, <2>1, <2>2
    <2>4. PICK q : q = [pump[i] EXCEPT !.at = "next"]
      OBVIOUS
    <2>5. pump' = [pump EXCEPT ![i] = q] /\ q.at = "next"
      BY <1>4, <1>5, <1>11, <2>4 DEF PumpPublish, PumpTo, RestingPumps, BusyPumps
    <2>6. \A j \in InstanceId :
             /\ pump'[j].at = "publish" /\ IsDialog(pump'[j].frame) =>
                    pump'[j] = pump[j] \/ PumpEvent(j)' \in pendingUi'[j]
             /\ pump'[j].at \in {"unregister", "forget"} =>
                    pump[j].at \in {"unregister", "forget"} \/ j \notin DOMAIN runtimes'
      BY <1>0, <2>5
    <2>7. \A j \in DOMAIN runtimes' : \A f \in pendingUi[j] : f \in pendingUi'[j]
      BY <2>2
    <2> QED BY <1>1, <1>2, <1>3, <2>3, <2>6, <2>7, DialogsStay
  <1>12. CASE PumpRemoveClosed(i)
    <2>1. bus' = bus /\ \A j \in DOMAIN runtimes' : \A e \in pendingUi[j] : e \in pendingUi'[j]
      BY <1>12 DEF PumpRemoveClosed
    <2>2. CASE i \in DOMAIN runtimes
      <3>1. PICK q : q = [pump[i] EXCEPT !.at = "unregister", !.target = runtimes[i]]
        OBVIOUS
      <3>2. pump' = [pump EXCEPT ![i] = q] /\ i \notin DOMAIN runtimes'
        BY <1>12, <2>2, <3>1 DEF PumpRemoveClosed, Without
      <3>3. q.at = "unregister"
        BY <1>4, <1>5, <3>1 DEF RestingPumps, BusyPumps
      <3> QED BY <1>6, <2>1, <3>2, <3>3
    <2>3. CASE i \notin DOMAIN runtimes
      BY <1>7, <1>12, <2>1, <2>3 DEF PumpRemoveClosed
    <2> QED BY <2>2, <2>3
  <1>13. CASE PumpUnregister(i)
    <2>1. bus' = bus /\ \A j \in DOMAIN runtimes' : \A e \in pendingUi[j] : e \in pendingUi'[j]
      BY <1>13 DEF PumpUnregister
    <2>2. PICK q : q = [pump[i] EXCEPT !.at = "forget"]
      OBVIOUS
    <2>3. pump' = [pump EXCEPT ![i] = q] /\ pump[i].at = "unregister"
      BY <1>13, <2>2 DEF PumpUnregister, PumpTo
    <2>4. q.at = "forget"
      BY <1>4, <1>5, <2>2 DEF RestingPumps, BusyPumps
    <2> QED BY <1>6, <2>1, <2>3, <2>4
  <1>14. CASE PumpForget(i)
    <2>1. bus' = bus /\ i \notin DOMAIN runtimes /\ pendingUi' = [pendingUi EXCEPT ![i] = {}]
      BY <1>14 DEF PumpForget, DialogsAreKept
    <2>2. \A j \in DOMAIN runtimes' : \A e \in pendingUi[j] : e \in pendingUi'[j]
      BY <1>0, <1>1, <2>1
    <2>3. PumpTo(i, "returned")
      BY <1>14 DEF PumpForget
    <2> QED BY <1>7, <2>1, <2>2, <2>3
  <1> QED BY <1>8, <1>9, <1>10, <1>11, <1>12, <1>13, <1>14 DEF PumpGoesOn

\* A dialog that was broadcast and not answered can be shown again to whoever
\* subscribes later, as long as its runtime is managed.
THEOREM DialogsCanBeReplayed == ManagerSpec => []OpenDialogsAreReplayable
  <1>1. ManagerInit => DialogsAreKept
    <2> SUFFICES ASSUME ManagerInit PROVE DialogsAreKept
      OBVIOUS
    <2>1. /\ DOMAIN bus = {} /\ DOMAIN runtimes = {}
          /\ \A c \in Caller : ~Doing(c, "respond", "forget")
      BY CallFields DEF ManagerInit, Doing
    <2> QED BY <2>1 DEF DialogsAreKept, OpenDialogsAreReplayable
  <1>2. ASSUME ManagerTypes, FreshInstances, DialogsAreKept, [ManagerNext]_managerVars
        PROVE  DialogsAreKept'
    <2>0. ManagerTypes'
      BY <1>2, TypesAreKept
    <2>1. ASSUME UNCHANGED <<runtimes, pendingUi, bus, answered, pump, calls>>
          PROVE  DialogsAreKept'
      <3>1. \A c \in Caller : Doing(c, "respond", "forget")' =>
               calls'[c].number \in answered'[calls'[c].target.instance]
        BY <1>2, <2>1 DEF DialogsAreKept, Doing
      <3> QED BY <1>2, <2>0, <2>1, <3>1, DialogsAreLeftAlone
    <2>2. CASE UNCHANGED managerVars
      BY <2>1, <2>2 DEF managerVars, piVars
    <2>3. ASSUME NEW c \in Caller, CallBegins(c) \/ CallGoesOn(c) PROVE DialogsAreKept'
      BY <1>2, <2>0, <2>3, BeginsKeepDialogs, CallsKeepDialogs
    <2>4. ASSUME NEW i \in InstanceId, PumpGoesOn(i) PROVE DialogsAreKept'
      BY <1>2, <2>0, <2>4, PumpsKeepDialogs
    <2>5. ASSUME NEW i \in InstanceId, PiGoesOn(i) PROVE DialogsAreKept'
      BY <2>1, <2>5 DEF PiGoesOn, PiWrite, PiRun, PiExit
    <2> QED BY <1>2, <2>2, <2>3, <2>4, <2>5 DEF ManagerNext
  <1>3. ManagerTypes /\ FreshInstances /\ DialogsAreKept /\ [ManagerNext]_managerVars
            => DialogsAreKept'
    BY <1>2
  <1>4. DialogsAreKept => OpenDialogsAreReplayable
    BY DEF DialogsAreKept
  <1> QED BY <1>1, <1>3, <1>4, TypesAlways, FreshAlways, PTL DEF ManagerSpec

-----------------------------------------------------------------------------
(* The order of frames                                                       *)

\* How many frames the pump of an instance took from its pipe.
Drawn(i) == written[i] - Len(pipe[i])

\* The pump has a frame in its hands.
Holds(i) == pump[i].at \in {"sequence", "remember", "publish"}

AllCarried(i, n) == \A m \in 1 .. n : \E q \in DOMAIN bus : Carries(q, i, m)

\* The pipe has the frames after those drawn; of those the bus has all but the
\* one in the hands of the pump, as long as the pump goes on.
FrameOrder(i) ==
    /\ Drawn(i) \in Nat
    /\ \A k \in DOMAIN pipe[i] : pipe[i][k].number = Drawn(i) + k
    /\ pump[i].at = "off" => Drawn(i) = 0
    /\ pump[i].at = "next" => AllCarried(i, Drawn(i))
    /\ Holds(i) =>
           /\ pump[i].frame.number = Drawn(i)
           /\ AllCarried(i, Drawn(i) - 1)
           /\ \A q \in DOMAIN bus : bus[q].target.instance = i => bus[q].frame.number < Drawn(i)
    /\ \A q \in DOMAIN bus : bus[q].target.instance = i => bus[q].frame.number <= Drawn(i)

FramesAreInOrder == FramesInWrittenOrder /\ \A i \in InstanceId : FrameOrder(i)

LEMMA BusParts ==
  ASSUME ManagerTypes
  PROVE  /\ bus \in Seq(Event)
         /\ \A p \in DOMAIN bus : /\ bus[p] \in Event
                                  /\ bus[p].target.instance \in InstanceId
                                  /\ bus[p].frame.number \in Nat
  <1>1. bus \in Seq(Event)
    BY DEF ManagerTypes, ManagerTypeOK
  <1>2. \A p \in DOMAIN bus : bus[p] \in Event
    BY <1>1
  <1>3. \A f \in Frame \cup {BindingFrame} : f.number \in Nat
    BY DEF Frame, BindingFrame
  <1> QED BY <1>1, <1>2, <1>3 DEF Event, RuntimeTarget

LEMMA BusAppended ==
  ASSUME ManagerTypes, NEW e, bus' = Append(bus, e)
  PROVE  /\ Len(bus') = Len(bus) + 1 /\ DOMAIN bus' = 1 .. Len(bus) + 1
         /\ \A p \in 1 .. Len(bus) : bus'[p] = bus[p]
         /\ bus'[Len(bus) + 1] = e
  BY BusParts

\* An event is added that is a binding, or the next frame of its instance.
LEMMA BusGrowsInOrder ==
  ASSUME ManagerTypes, FramesInWrittenOrder, NEW e, NEW i, NEW n \in Nat,
         bus' = Append(bus, e), e.target.instance = i, e.frame.number = n,
         n = 0 \/ (AllCarried(i, n - 1) /\ \A q \in DOMAIN bus : ~Carries(q, i, n))
  PROVE  FramesInWrittenOrder'
  <1>1. /\ bus \in Seq(Event) /\ Len(bus) \in Nat /\ DOMAIN bus = 1 .. Len(bus)
        /\ \A p \in DOMAIN bus : bus[p].frame.number \in Nat
    BY BusParts
  <1>2. /\ Len(bus') = Len(bus) + 1 /\ DOMAIN bus' = 1 .. Len(bus) + 1
        /\ \A p \in 1 .. Len(bus) : bus'[p] = bus[p]
        /\ bus'[Len(bus) + 1] = e
    BY <1>1
  <1>3. \A q \in 1 .. Len(bus) : \A j, m : Carries(q, j, m)' <=> Carries(q, j, m)
    BY <1>2 DEF Carries
  <1>4. ASSUME NEW p \in DOMAIN bus', NEW j, NEW k,
               j = bus'[p].target.instance, k = bus'[p].frame.number
        PROVE  /\ \A m \in 1 .. k - 1 : \E q \in 1 .. p - 1 : Carries(q, j, m)'
               /\ k > 0 => \A q \in 1 .. p - 1 : ~Carries(q, j, k)'
    <2>1. CASE p \in 1 .. Len(bus)
      <3>1. bus'[p] = bus[p] /\ \A q \in 1 .. p - 1 : q \in 1 .. Len(bus)
        BY <1>1, <1>2, <2>1
      <3>2. /\ \A m \in 1 .. k - 1 : \E q \in 1 .. p - 1 : Carries(q, j, m)
            /\ k > 0 => \A q \in 1 .. p - 1 : ~Carries(q, j, k)
        BY <1>1, <1>4, <2>1, <3>1 DEF FramesInWrittenOrder
      <3> QED BY <1>3, <3>1, <3>2
    <2>2. CASE p = Len(bus) + 1
      <3>1. p - 1 = Len(bus) /\ j = i /\ k = n
        BY <1>1, <1>2, <1>4, <2>2
      <3>2. /\ \A m \in 1 .. n - 1 : \E q \in 1 .. Len(bus) : Carries(q, i, m)
            /\ n > 0 => \A q \in 1 .. Len(bus) : ~Carries(q, i, n)
        BY <1>1 DEF AllCarried
      <3> QED BY <1>3, <3>1, <3>2
    <2>3. p \in 1 .. Len(bus) + 1
      BY <1>2
    <2> QED BY <1>1, <2>1, <2>2, <2>3
  <1>5. \A p \in DOMAIN bus' :
           /\ \A m \in 1 .. bus'[p].frame.number - 1 : \E q \in 1 .. p - 1 :
                  bus'[q].target.instance = bus'[p].target.instance /\ bus'[q].frame.number = m
           /\ bus'[p].frame.number > 0 => \A q \in 1 .. p - 1 :
                  ~(/\ bus'[q].target.instance = bus'[p].target.instance
                    /\ bus'[q].frame.number = bus'[p].frame.number)
    <2> TAKE p \in DOMAIN bus'
    <2>1. PICK j : j = bus'[p].target.instance
      OBVIOUS
    <2>2. PICK k : k = bus'[p].frame.number
      OBVIOUS
    <2>3. /\ \A m \in 1 .. k - 1 : \E q \in 1 .. p - 1 : Carries(q, j, m)'
          /\ k > 0 => \A q \in 1 .. p - 1 : ~Carries(q, j, k)'
      BY <1>4, <2>1, <2>2
    <2> QED BY <2>1, <2>2, <2>3 DEF Carries
  <1> QED BY <1>5 DEF FramesInWrittenOrder, Carries

\* What an instance's bus, pipe and pump say is left as it is.
LEMMA OrderIsLeftAlone ==
  ASSUME ManagerTypes, NEW i \in InstanceId, FrameOrder(i),
         bus' = bus \/ \E e : /\ bus' = Append(bus, e)
                              /\ e.target.instance # i \/ e.frame.number = 0,
         pipe'[i] = pipe[i], written'[i] = written[i], pump'[i] = pump[i]
  PROVE  FrameOrder(i)'
  <1>1. /\ bus \in Seq(Event) /\ Len(bus) \in Nat /\ DOMAIN bus = 1 .. Len(bus)
        /\ \A p \in DOMAIN bus : bus[p].frame.number \in Nat
    BY BusParts
  <1>2. Drawn(i)' = Drawn(i) /\ (Holds(i)' <=> Holds(i))
    BY DEF Drawn, Holds
  <1>3. CASE bus' = bus
    BY <1>2, <1>3 DEF FrameOrder, AllCarried, Carries
  <1>4. ASSUME NEW e, bus' = Append(bus, e), e.target.instance # i \/ e.frame.number = 0
        PROVE  FrameOrder(i)'
    <2>0. bus' = Append(bus, e)
      BY <1>4
    <2>1. /\ Len(bus') = Len(bus) + 1 /\ DOMAIN bus' = 1 .. Len(bus) + 1
          /\ \A p \in 1 .. Len(bus) : bus'[p] = bus[p]
          /\ bus'[Len(bus) + 1] = e
      BY <2>0, BusAppended
    <2>9. \A p \in DOMAIN bus : p \in DOMAIN bus' /\ bus'[p] = bus[p]
      BY <1>1, <2>1
    <2>2. \A n : AllCarried(i, n) => AllCarried(i, n)'
      BY <2>9 DEF AllCarried, Carries
    <2>3. \A q \in DOMAIN bus' : bus'[q].target.instance = i =>
              (q \in DOMAIN bus /\ bus'[q] = bus[q]) \/ bus'[q].frame.number = 0
      <3>1. ASSUME NEW q \in DOMAIN bus', bus'[q].target.instance = i
            PROVE  (q \in DOMAIN bus /\ bus'[q] = bus[q]) \/ bus'[q].frame.number = 0
        <4>1. CASE q \in 1 .. Len(bus)
          BY <1>1, <2>1, <4>1
        <4>2. CASE q = Len(bus) + 1
          BY <1>4, <2>1, <3>1, <4>2
        <4>3. q \in 1 .. Len(bus) + 1
          BY <2>1
        <4> QED BY <1>1, <4>1, <4>2, <4>3
      <3> QED BY <3>1
    <2>4. Drawn(i) \in Nat
      BY DEF FrameOrder
    <2>5. \A q \in DOMAIN bus' : bus'[q].target.instance = i => bus'[q].frame.number <= Drawn(i)
      BY <1>1, <2>3, <2>4 DEF FrameOrder
    <2>6. ASSUME Holds(i)
          PROVE  \A q \in DOMAIN bus' : bus'[q].target.instance = i =>
                     bus'[q].frame.number < Drawn(i)
      <3>1. pump[i].frame \in Frame
        BY <2>6, PumpIsTyped DEF ManagerTypes, Holds
      <3>2. Drawn(i) > 0
        BY <2>4, <2>6, <3>1 DEF FrameOrder, Frame
      <3> QED BY <1>1, <2>3, <2>4, <2>6, <3>2 DEF FrameOrder
    <2> QED BY <1>2, <2>2, <2>4, <2>5, <2>6 DEF FrameOrder
  <1> QED BY <1>3, <1>4

LEMMA OrderIsKept ==
  ASSUME ManagerTypes, FramesAreInOrder, UNCHANGED <<bus, pipe, written, pump>>
  PROVE  FramesAreInOrder'
  <1>1. FramesInWrittenOrder'
    BY DEF FramesAreInOrder, FramesInWrittenOrder, Carries
  <1>2. \A i \in InstanceId : FrameOrder(i)'
    BY OrderIsLeftAlone DEF FramesAreInOrder
  <1> QED BY <1>1, <1>2 DEF FramesAreInOrder

\* Of the steps of a call only two matter: the insertion starts a pump, a binding
\* is an event that carries no frame.
LEMMA CallsKeepOrder ==
  ASSUME ManagerTypes, FreshInstances, FramesAreInOrder, NEW c \in Caller,
         CallBegins(c) \/ CallGoesOn(c)
  PROVE  FramesAreInOrder'
  <1>1. CASE CallBegins(c)
    <2>1. CASE SpawnBegin(c)
      BY <2>1, OrderIsKept DEF SpawnBegin
    <2>2. CASE ~SpawnBegin(c)
      BY <1>1, <2>2, CallsBegin, OrderIsKept DEF CallBegins, piVars
    <2> QED BY <2>1, <2>2
  <1>2. CASE SpawnInsert(c)
    <2>a. PICK t : t = calls[c].target
      OBVIOUS
    <2>b. PICK j : j = t.instance
      OBVIOUS
    <2>1. calls[c].op = "spawn" /\ t \in RuntimeTarget /\ j \in InstanceId
      BY <1>2, <2>a, <2>b, CallIsTyped DEF ManagerTypes, SpawnInsert, Doing, SpawnCalls, RuntimeTarget
    <2>2. ~Seen(j)
      BY <2>1, <2>a, <2>b DEF FreshInstances, Spawning
    <2>3. pump[j].at = "off" /\ \A p \in DOMAIN bus : bus[p].target.instance # j
      BY <2>1, <2>2 DEF Seen
    <2>4. PICK r : r = PumpAt("next", t, NoFrame, 0)
      OBVIOUS
    <2>5. r.at = "next" /\ pump' = [pump EXCEPT ![j] = r] /\ UNCHANGED <<bus, pipe, written>>
      BY <1>2, <2>4, <2>a, <2>b DEF SpawnInsert, PumpAt, piVars
    <2>6. pump'[j] = r /\ \A i \in InstanceId : i # j => pump'[i] = pump[i]
      BY <2>1, <2>5 DEF ManagerTypes, ManagerTypeOK
    <2>7. Drawn(j)' = Drawn(j) /\ Drawn(j) = 0 /\ ~Holds(j)'
      BY <2>1, <2>3, <2>5, <2>6 DEF Drawn, Holds, FramesAreInOrder, FrameOrder
    <2>8. FrameOrder(j)'
      <3>1. AllCarried(j, 0)'
        BY DEF AllCarried
      <3>2. \A k \in DOMAIN pipe[j] : pipe[j][k].number = Drawn(j) + k
        BY <2>1 DEF FramesAreInOrder, FrameOrder
      <3>3. pump'[j].at = "next"
        BY <2>5, <2>6
      <3> QED BY <2>3, <2>5, <2>7, <3>1, <3>2, <3>3 DEF FrameOrder
    <2>9. \A i \in InstanceId : i # j => FrameOrder(i)'
      BY <2>5, <2>6, OrderIsLeftAlone DEF FramesAreInOrder
    <2>10. FramesInWrittenOrder'
      BY <2>5 DEF FramesAreInOrder, FramesInWrittenOrder, Carries
    <2> QED BY <2>8, <2>9, <2>10 DEF FramesAreInOrder
  <1>3. CASE BindPublish(c)
    <2>1. PICK e : e = [target |-> calls[c].target, sequence |-> calls[c].sequence,
                        frame |-> BindingFrame]
      OBVIOUS
    <2>2. e.frame.number = 0
      BY <2>1 DEF BindingFrame
    <2>3. bus' = Append(bus, e) /\ UNCHANGED <<pipe, written, pump>>
      BY <1>3, <2>1 DEF BindPublish, Publish, piVars
    <2>4. FramesInWrittenOrder'
      BY <2>2, <2>3, BusGrowsInOrder DEF FramesAreInOrder
    <2>5. \A i \in InstanceId : FrameOrder(i)'
      BY <2>2, <2>3, OrderIsLeftAlone DEF FramesAreInOrder
    <2> QED BY <2>4, <2>5 DEF FramesAreInOrder
  <1>4. CASE CallGoesOn(c) /\ ~SpawnInsert(c) /\ ~BindPublish(c)
    <2>1. UNCHANGED <<bus, pipe, written, pump>>
      BY <1>4 DEF CallGoesOn, SpawnAttachFails, SpawnRegister, SpawnDiscard, StopValidate,
                  StopRemove, StopReap, StopUnregister,
                  BindCoordinate, BindRoute, RequestAccept, RequestSend, RequestAnswered,
                  RequestFailed, RequestComplete, RespondValidate, RespondSend, RespondForget, piVars
    <2> QED BY <2>1, OrderIsKept
  <1> QED BY <1>1, <1>2, <1>3, <1>4

\* The pump has put down the frame it held, or stopped.
LEMMA PumpsMoveInOrder ==
  ASSUME ManagerTypes, FramesAreInOrder, NEW i \in InstanceId, NEW q,
         pump' = [pump EXCEPT ![i] = q], UNCHANGED <<bus, pipe, written>>,
         \/ q.at \in {"unregister", "forget", "returned"}
         \/ Holds(i) /\ q.at \in {"sequence", "remember", "publish"} /\ q.frame = pump[i].frame
  PROVE  FramesAreInOrder'
  <1>1. pump'[i] = q /\ \A j \in InstanceId : j # i => pump'[j] = pump[j]
    BY DEF ManagerTypes, ManagerTypeOK
  <1>2. \A j \in InstanceId : j # i => FrameOrder(j)'
    BY <1>1, OrderIsLeftAlone DEF FramesAreInOrder
  <1>3. FrameOrder(i)'
    <2>1. Drawn(i)' = Drawn(i) /\ \A n : AllCarried(i, n)' <=> AllCarried(i, n)
      BY DEF Drawn, AllCarried, Carries
    <2>2. FrameOrder(i)
      BY DEF FramesAreInOrder
    <2>3. CASE q.at \in {"unregister", "forget", "returned"}
      <3>1. ~Holds(i)' /\ pump'[i].at \notin {"off", "next"}
        BY <1>1, <2>3 DEF Holds
      <3> QED BY <2>1, <2>2, <3>1 DEF FrameOrder
    <2>4. CASE Holds(i) /\ q.at \in {"sequence", "remember", "publish"} /\ q.frame = pump[i].frame
      <3>1. pump'[i].at \notin {"off", "next"} /\ pump'[i].frame = pump[i].frame
        BY <1>1, <2>4
      <3> QED BY <2>1, <2>2, <2>4, <3>1 DEF FrameOrder
    <2> QED BY <2>3, <2>4
  <1>4. FramesInWrittenOrder'
    BY DEF FramesAreInOrder, FramesInWrittenOrder, Carries
  <1> QED BY <1>2, <1>3, <1>4 DEF FramesAreInOrder

\* A pump that stops or is taken out of its loop.
LEMMA PumpsGoTo ==
  ASSUME ManagerTypes, FramesAreInOrder, NEW i \in InstanceId, pump[i].at # "off",
         UNCHANGED <<bus, pipe, written>>,
         NEW at, PumpTo(i, at),
         at \in {"forget", "returned"} \/ (Holds(i) /\ at \in {"remember", "publish"})
  PROVE  FramesAreInOrder'
  <1>1. PICK q : q = [pump[i] EXCEPT !.at = at]
    OBVIOUS
  <1>2. pump' = [pump EXCEPT ![i] = q]
    BY <1>1 DEF PumpTo
  <1>3. PICK r : r = pump[i]
    OBVIOUS
  <1>4. r \in RestingPumps \cup BusyPumps
    BY <1>3, PumpIsTyped DEF ManagerTypes, ManagerTypeOK, PumpType, RestingPumps, BusyPumps
  <1>5. q.at = at /\ q.frame = pump[i].frame
    BY <1>1, <1>3, <1>4 DEF RestingPumps, BusyPumps
  <1> QED BY <1>2, <1>5, PumpsMoveInOrder

LEMMA PumpsKeepOrder ==
  ASSUME ManagerTypes, ManagerTypes', FramesAreInOrder, NEW i \in InstanceId, PumpGoesOn(i)
  PROVE  FramesAreInOrder'
  <1>0. /\ pump[i].at # "off" /\ pump \in [InstanceId -> PumpType]
        /\ pipe \in [InstanceId -> Seq(Frame)] /\ pipe[i] \in Seq(Frame)
        /\ written[i] \in Nat
    BY DEF PumpGoesOn, PumpTake, PumpSequence, PumpRemember, PumpPublish, PumpRemoveClosed,
           PumpUnregister, PumpForget, ManagerTypes, ManagerTypeOK
  <1>1. PICK r : r = pump[i]
    OBVIOUS
  <1>2. r \in RestingPumps \cup BusyPumps
    BY <1>0, <1>1 DEF PumpType, RestingPumps, BusyPumps
  <1>3. FrameOrder(i)
    BY DEF FramesAreInOrder
  <1>4. CASE PumpTake(i)
    <2>1. pipe[i] # << >> /\ pump[i].at = "next" /\ UNCHANGED <<bus, written>>
      BY <1>4 DEF PumpTake
    <2>2. PICK rest : rest = Tail(pipe[i])
      OBVIOUS
    <2>3. PICK frame : frame = Head(pipe[i])
      OBVIOUS
    <2>4. pipe' = [pipe EXCEPT ![i] = rest]
      BY <1>4, <2>2 DEF PumpTake
    <2>5. /\ rest \in Seq(Frame) /\ Len(rest) = Len(pipe[i]) - 1 /\ Len(pipe[i]) > 0
          /\ DOMAIN pipe[i] = 1 .. Len(pipe[i]) /\ DOMAIN rest = 1 .. Len(pipe[i]) - 1
          /\ frame = pipe[i][1] /\ \A k \in DOMAIN rest : rest[k] = pipe[i][k + 1]
      BY <1>0, <2>1, <2>2, <2>3
    <2>6. PICK q : pump' = [pump EXCEPT ![i] = q] /\
                   (q.at = "returned" \/ (q.at = "sequence" /\ q.frame = frame))
      <3>1. CASE i \in DOMAIN runtimes
        <4>1. PICK q : q = PumpAt("sequence", runtimes[i], frame, 0)
          OBVIOUS
        <4>2. q.at = "sequence" /\ q.frame = frame
          BY <4>1 DEF PumpAt
        <4> QED BY <1>4, <2>3, <3>1, <4>1, <4>2 DEF PumpTake
      <3>2. CASE i \notin DOMAIN runtimes
        <4>1. PICK q : q = [pump[i] EXCEPT !.at = "returned"]
          OBVIOUS
        <4>2. q.at = "returned"
          BY <1>1, <1>2, <4>1 DEF RestingPumps, BusyPumps
        <4> QED BY <1>4, <3>2, <4>1, <4>2 DEF PumpTake, PumpTo
      <3> QED BY <3>1, <3>2
    <2>7. /\ pump'[i] = q /\ pipe'[i] = rest
          /\ \A j \in InstanceId : j # i => pump'[j] = pump[j] /\ pipe'[j] = pipe[j]
      BY <1>0, <2>4, <2>6
    <2>8. Drawn(i)' = Drawn(i) + 1
      BY <1>0, <2>1, <2>5, <2>7 DEF Drawn
    <2>9. frame.number = Drawn(i) + 1 /\ Drawn(i) \in Nat /\ AllCarried(i, Drawn(i))
      BY <1>3, <2>1, <2>5 DEF FrameOrder
    <2>10. \A k \in DOMAIN rest : rest[k].number = Drawn(i) + 1 + k
      <3>1. ASSUME NEW k \in DOMAIN rest PROVE rest[k].number = Drawn(i) + 1 + k
        <4>1. k + 1 \in DOMAIN pipe[i] /\ k \in Nat /\ rest[k] = pipe[i][k + 1]
          BY <2>5, <3>1
        <4>2. pipe[i][k + 1].number = Drawn(i) + (k + 1)
          BY <1>3, <4>1 DEF FrameOrder
        <4> QED BY <2>9, <4>1, <4>2
      <3> QED BY <3>1
    <2>11. \A p \in DOMAIN bus : bus[p].frame.number \in Nat
      BY BusParts
    <2>12. FrameOrder(i)'
      <3>1. \A n : AllCarried(i, n)' <=> AllCarried(i, n)
        BY <2>1 DEF AllCarried, Carries
      <3>2. Drawn(i)' - 1 = Drawn(i) /\ Drawn(i)' \in Nat
        BY <2>8, <2>9
      <3>3. pump'[i].at \notin {"off", "next"} /\ (Holds(i)' => pump'[i].frame.number = Drawn(i)')
        BY <2>6, <2>7, <2>8, <2>9 DEF Holds
      <3>4. \A p \in DOMAIN bus : bus[p].target.instance = i =>
                bus[p].frame.number < Drawn(i)' /\ bus[p].frame.number <= Drawn(i)'
        BY <1>3, <2>8, <2>9, <2>11 DEF FrameOrder
      <3>5. \A k \in DOMAIN pipe'[i] : pipe'[i][k].number = Drawn(i)' + k
        BY <2>7, <2>8, <2>10
      <3>6. \A n : n = Drawn(i) => AllCarried(i, n)'
        BY <2>9, <3>1
      <3>7. AllCarried(i, Drawn(i) - 1)'
        BY <2>9, <3>2, <3>6
      <3> QED BY <2>1, <3>2, <3>3, <3>4, <3>5, <3>7 DEF FrameOrder
    <2>13. \A j \in InstanceId : j # i => FrameOrder(j)'
      BY <2>1, <2>7, OrderIsLeftAlone DEF FramesAreInOrder
    <2>14. FramesInWrittenOrder'
      BY <2>1 DEF FramesAreInOrder, FramesInWrittenOrder, Carries
    <2> QED BY <2>12, <2>13, <2>14 DEF FramesAreInOrder
  <1>5. CASE PumpSequence(i)
    <2>1. pump[i].at = "sequence" /\ UNCHANGED <<bus, pipe, written>>
      BY <1>5 DEF PumpSequence, piVars
    <2>2. CASE ~Valid(pump[i].target)
      BY <1>0, <1>5, <2>1, <2>2, PumpsGoTo DEF PumpSequence
    <2>3. CASE Valid(pump[i].target)
      <3> DEFINE at == IF IsDialog(pump[i].frame) THEN "remember" ELSE "publish"
                 n == NextSequence(i)
      <3>1. PICK q : q = [pump[i] EXCEPT !.at = at, !.sequence = n]
        OBVIOUS
      <3>2. pump' = [pump EXCEPT ![i] = q]
        BY <1>5, <2>3, <3>1 DEF PumpSequence
      <3>3. at \in {"remember", "publish"}
        OBVIOUS
      <3> HIDE DEF at, n
      <3>4. q.at = at /\ q.frame = pump[i].frame
        BY <1>1, <1>2, <3>1 DEF RestingPumps, BusyPumps
      <3> QED BY <2>1, <3>2, <3>3, <3>4, PumpsMoveInOrder DEF Holds
    <2> QED BY <2>2, <2>3
  <1>6. CASE PumpRemember(i)
    BY <1>0, <1>6, PumpsGoTo DEF PumpRemember, Holds, piVars
  <1>7. CASE PumpPublish(i)
    <2>1. PICK e : e = PumpEvent(i)
      OBVIOUS
    <2>2. /\ bus' = Append(bus, e) /\ pump[i].at = "publish" /\ Holds(i)
          /\ UNCHANGED <<pipe, written>>
      BY <1>7, <2>1 DEF PumpPublish, Publish, Holds, piVars
    <2>3. e.target.instance = i /\ e.frame = pump[i].frame
      BY <1>0, <2>1 DEF PumpEvent, ManagerTypes, RoutesAreOwn
    <2>4. e.frame.number = Drawn(i) /\ Drawn(i) \in Nat /\ AllCarried(i, Drawn(i) - 1)
      BY <1>3, <2>2, <2>3 DEF FrameOrder
    <2>5. \A p \in DOMAIN bus : ~Carries(p, i, Drawn(i))
      BY <1>3, <2>2, <2>4, BusParts DEF FrameOrder, Carries
    <2>6. FramesInWrittenOrder'
      BY <2>2, <2>3, <2>4, <2>5, BusGrowsInOrder DEF FramesAreInOrder
    <2>7. PICK q : q = [pump[i] EXCEPT !.at = "next"]
      OBVIOUS
    <2>8. pump' = [pump EXCEPT ![i] = q] /\ q.at = "next"
      BY <1>1, <1>2, <1>7, <2>7 DEF PumpPublish, PumpTo, RestingPumps, BusyPumps
    <2>9. pump'[i] = q /\ \A j \in InstanceId : j # i => pump'[j] = pump[j]
      BY <1>0, <2>8
    <2>10. \A j \in InstanceId : j # i => FrameOrder(j)'
      BY <2>2, <2>3, <2>9, OrderIsLeftAlone DEF FramesAreInOrder
    <2>11. FrameOrder(i)'
      <3>1. Drawn(i)' = Drawn(i)
        BY <2>2 DEF Drawn
      <3>2. /\ Len(bus) \in Nat /\ DOMAIN bus = 1 .. Len(bus) /\ DOMAIN bus' = 1 .. Len(bus) + 1
            /\ \A p \in 1 .. Len(bus) : bus'[p] = bus[p]
            /\ bus'[Len(bus) + 1] = e
        BY <2>2, BusParts, BusAppended
      <3>3. AllCarried(i, Drawn(i))'
        <4>1. ASSUME NEW m \in 1 .. Drawn(i) PROVE \E p \in DOMAIN bus' : Carries(p, i, m)'
          <5>1. CASE m = Drawn(i)
            <6>1. PICK last : last = Len(bus) + 1
              OBVIOUS
            <6>2. last \in DOMAIN bus' /\ Carries(last, i, m)'
              BY <2>3, <2>4, <3>2, <5>1, <6>1 DEF Carries
            <6> QED BY <6>2
          <5>2. CASE m \in 1 .. Drawn(i) - 1
            <6>1. PICK p \in DOMAIN bus : Carries(p, i, m)
              BY <2>4, <5>2 DEF AllCarried
            <6>2. p \in DOMAIN bus' /\ bus'[p] = bus[p]
              BY <3>2
            <6> QED BY <6>1, <6>2 DEF Carries
          <5> QED BY <2>4, <5>1, <5>2
        <4> QED BY <3>1, <4>1 DEF AllCarried
      <3>4. \A p \in DOMAIN bus' : bus'[p].target.instance = i => bus'[p].frame.number <= Drawn(i)
        <4>1. ASSUME NEW p \in DOMAIN bus', bus'[p].target.instance = i
              PROVE  bus'[p].frame.number <= Drawn(i)
          <5>1. CASE p \in 1 .. Len(bus)
            BY <1>3, <3>2, <4>1, <5>1 DEF FrameOrder
          <5>2. CASE p = Len(bus) + 1
            BY <2>4, <3>2, <5>2
          <5> QED BY <3>2, <5>1, <5>2
        <4> QED BY <4>1
      <3>5. ~Holds(i)' /\ pump'[i].at = "next"
        BY <2>8, <2>9 DEF Holds
      <3> QED BY <1>3, <2>2, <2>4, <3>1, <3>3, <3>4, <3>5 DEF FrameOrder
    <2> QED BY <2>6, <2>10, <2>11 DEF FramesAreInOrder
  <1>8. CASE PumpRemoveClosed(i)
    <2>1. UNCHANGED <<bus, pipe, written>>
      BY <1>8 DEF PumpRemoveClosed, piVars
    <2>2. CASE i \in DOMAIN runtimes
      <3>1. PICK q : q = [pump[i] EXCEPT !.at = "unregister", !.target = runtimes[i]]
        OBVIOUS
      <3>2. pump' = [pump EXCEPT ![i] = q]
        BY <1>8, <2>2, <3>1 DEF PumpRemoveClosed
      <3>3. q.at = "unregister"
        BY <1>1, <1>2, <3>1 DEF RestingPumps, BusyPumps
      <3> QED BY <2>1, <3>2, <3>3, PumpsMoveInOrder
    <2>3. CASE i \notin DOMAIN runtimes
      BY <1>0, <1>8, <2>1, <2>3, PumpsGoTo DEF PumpRemoveClosed
    <2> QED BY <2>2, <2>3
  <1>9. CASE PumpUnregister(i)
    BY <1>0, <1>9, PumpsGoTo DEF PumpUnregister, piVars
  <1>10. CASE PumpForget(i)
    BY <1>0, <1>10, PumpsGoTo DEF PumpForget, piVars
  <1> QED BY <1>4, <1>5, <1>6, <1>7, <1>8, <1>9, <1>10 DEF PumpGoesOn

\* Pi numbers its frames one after the other.
LEMMA PiWritesInOrder ==
  ASSUME ManagerTypes, FramesAreInOrder, NEW i \in InstanceId, PiGoesOn(i)
  PROVE  FramesAreInOrder'
  <1>1. CASE PiWrite(i)
    <2>1. UNCHANGED <<bus, pump>> /\ written' = [written EXCEPT ![i] = @ + 1]
      BY <1>1 DEF PiWrite
    <2>2. PICK type \in FrameType :
              pipe' = [pipe EXCEPT ![i] = Append(@, [number |-> written[i] + 1, type |-> type])]
      BY <1>1 DEF PiWrite
    <2>3. PICK f : f = [number |-> written[i] + 1, type |-> type]
      OBVIOUS
    <2>4. f.number = written[i] + 1
      BY <2>3
    <2>5. /\ pipe \in [InstanceId -> Seq(Frame)] /\ pipe[i] \in Seq(Frame)
          /\ written \in [InstanceId -> Nat] /\ written[i] \in Nat
      BY DEF ManagerTypes, ManagerTypeOK
    <2>6. /\ pipe'[i] = Append(pipe[i], f) /\ written'[i] = written[i] + 1
          /\ \A j \in InstanceId : j # i => pipe'[j] = pipe[j] /\ written'[j] = written[j]
      BY <2>1, <2>2, <2>3, <2>5
    <2>7. \A j \in InstanceId : j # i => FrameOrder(j)'
      BY <2>1, <2>6, OrderIsLeftAlone DEF FramesAreInOrder
    <2>8. FrameOrder(i)'
      <3>1. PICK line : line = pipe[i]
        OBVIOUS
      <3>2. line \in Seq(Frame)
        BY <2>5, <3>1
      <3>3. /\ Len(Append(line, f)) = Len(line) + 1 /\ Len(line) \in Nat
            /\ DOMAIN Append(line, f) = 1 .. Len(line) + 1 /\ DOMAIN line = 1 .. Len(line)
            /\ \A k \in 1 .. Len(line) : Append(line, f)[k] = line[k]
            /\ Append(line, f)[Len(line) + 1] = f
        BY <3>2
      <3>4. Drawn(i)' = Drawn(i)
        BY <2>5, <2>6, <3>1, <3>3 DEF Drawn
      <3>5. FrameOrder(i) /\ Drawn(i) = written[i] - Len(line)
        BY <3>1 DEF FramesAreInOrder, Drawn
      <3>6. \A k \in DOMAIN pipe'[i] : pipe'[i][k].number = Drawn(i) + k
        <4>1. ASSUME NEW k \in 1 .. Len(line) + 1 PROVE Append(line, f)[k].number = Drawn(i) + k
          <5>1. CASE k \in 1 .. Len(line)
            BY <3>1, <3>3, <3>5, <5>1 DEF FrameOrder
          <5>2. CASE k = Len(line) + 1
            BY <2>4, <2>5, <3>3, <3>5, <5>2
          <5> QED BY <3>3, <5>1, <5>2
        <4> QED BY <2>6, <3>1, <3>3, <4>1
      <3>7. (Holds(i)' <=> Holds(i)) /\ \A n : AllCarried(i, n)' <=> AllCarried(i, n)
        BY <2>1 DEF Holds, AllCarried, Carries
      <3> QED BY <2>1, <3>4, <3>5, <3>6, <3>7 DEF FrameOrder
    <2>9. FramesInWrittenOrder'
      BY <2>1 DEF FramesAreInOrder, FramesInWrittenOrder, Carries
    <2> QED BY <2>7, <2>8, <2>9 DEF FramesAreInOrder
  <1>2. CASE PiRun(i) \/ PiExit(i)
    BY <1>2, OrderIsKept DEF PiRun, PiExit
  <1> QED BY <1>1, <1>2 DEF PiGoesOn

\* What Pi wrote is broadcast in the order it was written, none skipped and none
\* twice (start_event_pump), whatever is bound, stopped or answered meanwhile.
THEOREM FramesKeepTheirOrder == ManagerSpec => []FramesInWrittenOrder
  <1>1. ManagerInit => FramesAreInOrder
    <2> SUFFICES ASSUME ManagerInit PROVE FramesAreInOrder
      OBVIOUS
    <2>1. DOMAIN bus = {}
      BY DEF ManagerInit
    <2>2. ASSUME NEW i \in InstanceId PROVE FrameOrder(i)
      <3>1. pump[i].at = "off" /\ DOMAIN pipe[i] = {} /\ Len(pipe[i]) = 0 /\ written[i] = 0
        BY DEF ManagerInit
      <3> QED BY <2>1, <3>1 DEF FrameOrder, Drawn, Holds
    <2> QED BY <2>1, <2>2 DEF FramesAreInOrder, FramesInWrittenOrder
  <1>2. ManagerTypes /\ FreshInstances /\ FramesAreInOrder /\ [ManagerNext]_managerVars
            => FramesAreInOrder'
    <2> SUFFICES ASSUME ManagerTypes, FreshInstances, FramesAreInOrder, [ManagerNext]_managerVars
                 PROVE  FramesAreInOrder'
      OBVIOUS
    <2>1. CASE UNCHANGED managerVars
      BY <2>1, OrderIsKept DEF managerVars, piVars
    <2>2. ManagerTypes'
      BY TypesAreKept
    <2> QED BY <2>1, <2>2, CallsKeepOrder, PumpsKeepOrder, PiWritesInOrder DEF ManagerNext
  <1>3. FramesAreInOrder => FramesInWrittenOrder
    BY DEF FramesAreInOrder
  <1> QED BY <1>1, <1>2, <1>3, TypesAlways, FreshAlways, PTL DEF ManagerSpec

-----------------------------------------------------------------------------
(* Mutations                                                                 *)

UnderWay == {c \in Caller : calls[c] # Idle}

\* The calls that were accepted and have not written yet.
Sending(i, k) ==
    {c \in Caller : /\ Doing(c, "request", "send")
                    /\ calls[c].target.instance = i /\ calls[c].key = k}

\* What was written and what is about to be written was accepted, each once.
WritesAreAccepted ==
    /\ IsFiniteSet(UnderWay)
    /\ \A i \in DOMAIN instances : \A k \in Key :
           Times(k, sent[i]) + Cardinality(Sending(i, k)) <= Times(k, accepted[i])

LEMMA TimesAreCounted ==
  ASSUME NEW s \in Seq(Key), NEW k
  PROVE  /\ Times(k, s) \in Nat
         /\ \A x \in Key : Times(k, Append(s, x)) = IF x = k THEN Times(k, s) + 1 ELSE Times(k, s)
  <1> DEFINE P == {p \in DOMAIN s : s[p] = k}
  <1>1. IsFiniteSet(P)
    <2>1. IsFiniteSet(1 .. Len(s))
      BY FS_Interval
    <2>2. P \in SUBSET (1 .. Len(s))
      OBVIOUS
    <2> QED BY <2>1, <2>2, FS_Subset
  <1>2. Times(k, s) = Cardinality(P) /\ Cardinality(P) \in Nat
    BY <1>1, FS_CardinalityType DEF Times
  <1>3. ASSUME NEW x \in Key
        PROVE  Times(k, Append(s, x)) = IF x = k THEN Times(k, s) + 1 ELSE Times(k, s)
    <2> DEFINE Q == {p \in DOMAIN Append(s, x) : Append(s, x)[p] = k}
               n == Len(s) + 1
    <2>1. /\ DOMAIN Append(s, x) = 1 .. n
          /\ \A p \in 1 .. Len(s) : Append(s, x)[p] = s[p]
          /\ Append(s, x)[n] = x
      OBVIOUS
    <2>2. n \notin P /\ DOMAIN s = 1 .. Len(s) /\ Len(s) \in Nat
      OBVIOUS
    <2>3. CASE x = k
      <3>1. Q = P \cup {n}
        BY <2>1, <2>2, <2>3
      <3>2. Cardinality(P \cup {n}) = Cardinality(P) + 1
        BY <1>1, <2>2, FS_AddElement
      <3> HIDE DEF P
      <3> QED BY <1>2, <2>3, <3>1, <3>2 DEF Times
    <2>4. CASE x # k
      <3>1. Q = P
        BY <2>1, <2>2, <2>4
      <3> HIDE DEF P
      <3> QED BY <1>2, <2>4, <3>1 DEF Times
    <2> QED BY <2>3, <2>4
  <1> QED BY <1>2, <1>3

LEMMA SendersAreCounted ==
  ASSUME IsFiniteSet(UnderWay), NEW i, NEW k
  PROVE  IsFiniteSet(Sending(i, k)) /\ Cardinality(Sending(i, k)) \in Nat
  <1>1. Sending(i, k) \in SUBSET UnderWay
    BY CallFields DEF Sending, UnderWay, Doing
  <1> QED BY <1>1, FS_Subset, FS_CardinalityType

LEMMA FewCallsAreUnderWay ==
  ASSUME IsFiniteSet(UnderWay), ManagerTypes,
         calls' = calls \/ \E c \in Caller : \E new : calls' = [calls EXCEPT ![c] = new]
  PROVE  IsFiniteSet(UnderWay')
  <1>1. CASE calls' = calls
    BY <1>1 DEF UnderWay
  <1>2. ASSUME NEW c \in Caller, NEW new, calls' = [calls EXCEPT ![c] = new]
        PROVE  IsFiniteSet(UnderWay')
    <2>1. UnderWay' \in SUBSET (UnderWay \cup {c})
      BY <1>2 DEF UnderWay, ManagerTypes, ManagerTypeOK
    <2>2. IsFiniteSet(UnderWay \cup {c})
      BY FS_AddElement
    <2> QED BY <2>1, <2>2, FS_Subset
  <1> QED BY <1>1, <1>2

\* Steps that accept nothing and write nothing.
LEMMA WritesStay ==
  ASSUME WritesAreAccepted, ManagerTypes, IsFiniteSet(UnderWay'),
         \A i \in DOMAIN instances' : \A k \in Key :
             \/ /\ i \in DOMAIN instances
                /\ accepted'[i] = accepted[i] /\ sent'[i] = sent[i]
                /\ Sending(i, k)' \subseteq Sending(i, k)
             \/ /\ accepted'[i] \in Seq(Key) /\ sent'[i] = << >> /\ Sending(i, k)' = {}
  PROVE  WritesAreAccepted'
  <1> SUFFICES ASSUME NEW i \in DOMAIN instances', NEW k \in Key
               PROVE  Times(k, sent'[i]) + Cardinality(Sending(i, k)') <= Times(k, accepted'[i])
    BY DEF WritesAreAccepted, Times
  <1>1. CASE /\ i \in DOMAIN instances
             /\ accepted'[i] = accepted[i] /\ sent'[i] = sent[i]
             /\ Sending(i, k)' \subseteq Sending(i, k)
    <2>1. /\ accepted[i] \in Seq(Key) /\ sent[i] \in Seq(Key)
      BY <1>1 DEF ManagerTypes, ManagerTypeOK, TypeOK
    <2>2. Times(k, sent[i]) \in Nat /\ Times(k, accepted[i]) \in Nat
      BY <2>1, TimesAreCounted
    <2>3. IsFiniteSet(Sending(i, k)) /\ Cardinality(Sending(i, k)) \in Nat
      BY SendersAreCounted DEF WritesAreAccepted
    <2>4. /\ IsFiniteSet(Sending(i, k)')
          /\ Cardinality(Sending(i, k)') <= Cardinality(Sending(i, k))
      BY <1>1, <2>3, FS_Subset
    <2>5. Cardinality(Sending(i, k)') \in Nat
      BY <2>4, FS_CardinalityType
    <2>6. Times(k, sent[i]) + Cardinality(Sending(i, k)) <= Times(k, accepted[i])
      BY <1>1 DEF WritesAreAccepted
    <2> QED BY <1>1, <2>2, <2>3, <2>4, <2>5, <2>6
  <1>2. CASE accepted'[i] \in Seq(Key) /\ sent'[i] = << >> /\ Sending(i, k)' = {}
    <2>1. Times(k, << >>) = 0
      <3>1. {p \in DOMAIN << >> : << >>[p] = k} = {}
        OBVIOUS
      <3> QED BY <3>1, FS_EmptySet DEF Times
    <2>2. Times(k, accepted'[i]) \in Nat
      BY <1>2, TimesAreCounted
    <2> QED BY <1>2, <2>1, <2>2, FS_EmptySet
  <1> QED BY <1>1, <1>2

\* A call that was not about to write and still is not.
LEMMA SendersStay ==
  ASSUME ManagerTypes, NEW c \in Caller, NEW new, calls' = [calls EXCEPT ![c] = new],
         ~(new.op = "request" /\ new.at = "send"), NEW i, NEW k
  PROVE  Sending(i, k)' \subseteq Sending(i, k)
  <1>1. calls'[c] = new /\ \A d \in Caller : d # c => calls'[d] = calls[d]
    BY DEF ManagerTypes, ManagerTypeOK
  <1> QED BY <1>1 DEF Sending, Doing

LEMMA BeginsWriteNothing ==
  ASSUME ManagerTypes, WritesAreAccepted, NEW c \in Caller, CallBegins(c)
  PROVE  WritesAreAccepted'
  <1>1. UNCHANGED <<coordinatorVars, sent>>
    <2>1. CASE SpawnBegin(c)
      BY <2>1 DEF SpawnBegin
    <2>2. CASE ~SpawnBegin(c)
      BY <2>2, CallsBegin DEF CallBegins, piVars
    <2> QED BY <2>1, <2>2
  <1>2. \E new : calls' = [calls EXCEPT ![c] = new] /\ new.at # "send"
    <2>1. CASE SpawnBegin(c)
      <3>1. \E t : calls' = [calls EXCEPT ![c] = SpawnCall(t)]
        BY <2>1 DEF SpawnBegin, Begin
      <3>2. PICK t : calls' = [calls EXCEPT ![c] = SpawnCall(t)]
        BY <3>1
      <3> QED BY <3>2, CallFields
    <2>2. CASE ~SpawnBegin(c)
      BY <2>2, CallsBegin DEF CallBegins
    <2> QED BY <2>1, <2>2
  <1>3. PICK new : calls' = [calls EXCEPT ![c] = new] /\ new.at # "send"
    BY <1>2
  <1>4. \A i, k : Sending(i, k)' \subseteq Sending(i, k)
    BY <1>3, SendersStay
  <1>5. IsFiniteSet(UnderWay')
    BY <1>3, FewCallsAreUnderWay DEF WritesAreAccepted
  <1> QED BY <1>1, <1>4, <1>5, WritesStay DEF coordinatorVars

LEMMA AcceptingAllowsOneWrite ==
  ASSUME ManagerTypes, WritesAreAccepted, NEW c \in Caller, RequestAccept(c)
  PROVE  WritesAreAccepted'
  <1> DEFINE t == calls[c].target
             i == t.instance
             k == calls[c].key
  <1>0. /\ calls[c].op = "request" /\ calls[c].at = "accept" /\ calls[c] \in RequestCalls
        /\ calls \in [Caller -> CallType]
        /\ sent' = sent
    BY CallIsTyped DEF RequestAccept, Doing, ManagerTypes, ManagerTypeOK, piVars
  <1>1. k \in Key
    BY <1>0 DEF RequestCalls
  <1>2. CASE UNCHANGED coordinatorVars /\ Finish(c)
    <2>1. /\ calls' = [calls EXCEPT ![c] = Idle]
          /\ ~(Idle.op = "request" /\ Idle.at = "send")
      BY <1>2, CallFields DEF Finish
    <2>2. IsFiniteSet(UnderWay')
      BY <2>1, FewCallsAreUnderWay DEF WritesAreAccepted
    <2>3. \A j, l : Sending(j, l)' \subseteq Sending(j, l)
      BY <2>1, SendersStay
    <2> QED BY <1>0, <1>2, <2>2, <2>3, WritesStay DEF coordinatorVars
  <1>3. CASE AcceptMutation(t, k) /\ Goto(c, "send")
    <2>1. /\ i \in DOMAIN instances
          /\ DOMAIN instances' = DOMAIN instances
          /\ accepted' = [accepted EXCEPT ![i] = Append(accepted[i], k)]
      BY <1>3 DEF AcceptMutation, Valid
    <2>2. PICK new : new = [calls[c] EXCEPT !.at = "send"]
      OBVIOUS
    <2>3. calls' = [calls EXCEPT ![c] = new]
      BY <1>3, <2>2 DEF Goto
    <2>4. new.op = "request" /\ new.at = "send" /\ new.target = t /\ new.key = k
      BY <1>0, <2>2 DEF RequestCalls
    <2>5. calls'[c] = new /\ \A d \in Caller : d # c => calls'[d] = calls[d]
      BY <1>0, <2>3
    <2>6. IsFiniteSet(UnderWay) /\ IsFiniteSet(UnderWay')
      BY <2>3, FewCallsAreUnderWay DEF WritesAreAccepted
    <2>7. accepted \in [DOMAIN instances -> Seq(Key)] /\ sent \in [InstanceId -> Seq(Key)]
      BY DEF ManagerTypes, ManagerTypeOK, TypeOK
    <2>8. DOMAIN instances \subseteq InstanceId
      BY DEF ManagerTypes, ManagerTypeOK, TypeOK
    <2>9. \A j, l : Sending(j, l)' = IF j = i /\ l = k THEN Sending(j, l) \cup {c} ELSE Sending(j, l)
      BY <1>0, <2>4, <2>5 DEF Sending, Doing
    <2>10. c \notin Sending(i, k)
      BY <1>0 DEF Sending, Doing
    <2> HIDE DEF i, k, t
    <2>11. ASSUME NEW j \in DOMAIN instances, NEW l \in Key
           PROVE  Times(l, sent[j]) + Cardinality(Sending(j, l)') <= Times(l, accepted'[j])
      <3>1. /\ Times(l, sent[j]) \in Nat /\ Times(l, accepted[j]) \in Nat
            /\ IsFiniteSet(Sending(j, l)) /\ Cardinality(Sending(j, l)) \in Nat
            /\ Times(l, sent[j]) + Cardinality(Sending(j, l)) <= Times(l, accepted[j])
        <4>1. sent[j] \in Seq(Key) /\ accepted[j] \in Seq(Key)
          BY <2>7, <2>8
        <4> QED BY <2>6, <4>1, TimesAreCounted, SendersAreCounted DEF WritesAreAccepted
      <3>2. CASE j # i
        BY <2>1, <2>7, <2>9, <3>1, <3>2
      <3>3. CASE j = i
        <4>1. accepted'[i] = Append(accepted[i], k) /\ accepted[i] \in Seq(Key)
          BY <2>1, <2>7
        <4>2. Times(l, accepted'[i]) = IF k = l THEN Times(l, accepted[i]) + 1
                                                ELSE Times(l, accepted[i])
          BY <1>1, <4>1, TimesAreCounted
        <4>3. CASE l = k
          <5>1. Cardinality(Sending(i, k) \cup {c}) = Cardinality(Sending(i, k)) + 1
            BY <2>10, <3>1, <3>3, <4>3, FS_AddElement
          <5> QED BY <2>9, <3>1, <3>3, <4>2, <4>3, <5>1
        <4>4. CASE l # k
          BY <2>9, <3>1, <3>3, <4>2, <4>4
        <4> QED BY <4>3, <4>4
      <3> QED BY <3>2, <3>3
    <2> QED BY <1>0, <2>1, <2>6, <2>11 DEF WritesAreAccepted, Times
  <1> QED BY <1>2, <1>3 DEF RequestAccept

LEMMA WritingUsesAnAcceptance ==
  ASSUME ManagerTypes, WritesAreAccepted, NEW c \in Caller, RequestSend(c)
  PROVE  WritesAreAccepted'
  <1> DEFINE i == calls[c].target.instance
             k == calls[c].key
             n == Len(sent[i]) + 1
  <1>0. /\ calls[c].op = "request" /\ calls[c].at = "send" /\ calls[c] \in RequestCalls
        /\ calls \in [Caller -> CallType]
        /\ UNCHANGED coordinatorVars
    BY CallIsTyped DEF RequestSend, Doing, ManagerTypes, ManagerTypeOK
  <1>1. k \in Key /\ i \in InstanceId
    BY <1>0 DEF RequestCalls, RuntimeTarget
  <1>2. CASE sent' = sent /\ Finish(c)
    <2>1. /\ calls' = [calls EXCEPT ![c] = Idle]
          /\ ~(Idle.op = "request" /\ Idle.at = "send")
      BY <1>2, CallFields DEF Finish
    <2>2. IsFiniteSet(UnderWay')
      BY <2>1, FewCallsAreUnderWay DEF WritesAreAccepted
    <2>3. \A j, l : Sending(j, l)' \subseteq Sending(j, l)
      BY <2>1, SendersStay
    <2> QED BY <1>0, <1>2, <2>2, <2>3, WritesStay DEF coordinatorVars
  <1>3. CASE /\ sent' = [sent EXCEPT ![i] = Append(@, k)]
             /\ calls' = [calls EXCEPT ![c].at = "wait", ![c].position = n]
    <2>1. PICK new : new = [calls[c] EXCEPT !.at = "wait", !.position = n]
      OBVIOUS
    <2>2. calls' = [calls EXCEPT ![c] = new]
      BY <1>3, <2>1
    <2>3. new.at = "wait"
      <3> HIDE DEF n
      <3> QED BY <1>0, <2>1 DEF RequestCalls
    <2>4. calls'[c] = new /\ \A d \in Caller : d # c => calls'[d] = calls[d]
      BY <1>0, <2>2
    <2>5. IsFiniteSet(UnderWay) /\ IsFiniteSet(UnderWay')
      BY <2>2, FewCallsAreUnderWay DEF WritesAreAccepted
    <2>6. /\ accepted \in [DOMAIN instances -> Seq(Key)] /\ sent \in [InstanceId -> Seq(Key)]
          /\ DOMAIN instances \subseteq InstanceId
      BY DEF ManagerTypes, ManagerTypeOK, TypeOK
    <2>7. \A j, l : Sending(j, l)' = Sending(j, l) \ {c}
      BY <2>3, <2>4 DEF Sending, Doing
    <2>8. c \in Sending(i, k)
      BY <1>0 DEF Sending, Doing
    <2>9. \A j, l : c \in Sending(j, l) => j = i /\ l = k
      BY DEF Sending
    <2>10. /\ sent'[i] = Append(sent[i], k) /\ sent[i] \in Seq(Key)
           /\ \A j \in InstanceId : j # i => sent'[j] = sent[j]
      BY <1>1, <1>3, <2>6
    <2>11. instances' = instances /\ accepted' = accepted
      BY <1>0 DEF coordinatorVars
    <2> HIDE DEF i, k, n
    <2>12. ASSUME NEW j \in DOMAIN instances, NEW l \in Key
           PROVE  Times(l, sent'[j]) + Cardinality(Sending(j, l)') <= Times(l, accepted[j])
      <3>1. /\ Times(l, sent[j]) \in Nat /\ Times(l, accepted[j]) \in Nat
            /\ IsFiniteSet(Sending(j, l)) /\ Cardinality(Sending(j, l)) \in Nat
            /\ Times(l, sent[j]) + Cardinality(Sending(j, l)) <= Times(l, accepted[j])
        <4>1. sent[j] \in Seq(Key) /\ accepted[j] \in Seq(Key)
          BY <2>6
        <4> QED BY <2>5, <4>1, TimesAreCounted, SendersAreCounted DEF WritesAreAccepted
      <3>2. CASE j = i /\ l = k
        <4>1. sent'[j] = Append(sent[j], l) /\ sent[j] \in Seq(Key)
          BY <2>10, <3>2
        <4>2. Times(l, sent'[j]) = Times(l, sent[j]) + 1
          BY <4>1, TimesAreCounted
        <4>3. c \in Sending(j, l)
          BY <2>8, <3>2
        <4>4. Cardinality(Sending(j, l) \ {c}) = Cardinality(Sending(j, l)) - 1
          BY <3>1, <4>3, FS_RemoveElement
        <4>5. Sending(j, l)' = Sending(j, l) \ {c}
          BY <2>7
        <4> QED BY <3>1, <4>2, <4>4, <4>5
      <3>3. CASE ~(j = i /\ l = k)
        <4>1. Sending(j, l)' = Sending(j, l)
          BY <2>7, <2>9, <3>3
        <4>2. Times(l, sent'[j]) = Times(l, sent[j])
          <5>1. CASE j = i
            <6>1. sent'[j] = Append(sent[j], k) /\ sent[j] \in Seq(Key) /\ k # l
              BY <2>10, <3>3, <5>1
            <6> QED BY <1>1, <6>1, TimesAreCounted
          <5>2. CASE j # i
            BY <2>6, <2>10, <5>2
          <5> QED BY <5>1, <5>2
        <4> QED BY <3>1, <4>1, <4>2
      <3> QED BY <3>2, <3>3
    <2> QED BY <2>5, <2>11, <2>12 DEF WritesAreAccepted, Times
  <1> QED BY <1>2, <1>3 DEF RequestSend

LEMMA SpawningWritesNothing ==
  ASSUME ManagerTypes, FreshInstances, WritesAreAccepted, NEW c \in Caller, SpawnRegister(c)
  PROVE  WritesAreAccepted'
  <1> DEFINE i == calls[c].target.instance
  <1>1. calls[c].op = "spawn" /\ calls[c] \in SpawnCalls
    BY CallIsTyped DEF SpawnRegister, Doing, ManagerTypes
  <1>2. i \in InstanceId /\ ~Seen(i)
    BY <1>1 DEF SpawnCalls, RuntimeTarget, FreshInstances, Spawning
  <1>3. sent' = sent /\ sent[i] = << >>
    BY <1>2 DEF SpawnRegister, Seen
  <1>4. \A k : Sending(i, k) = {}
    BY <1>2 DEF Sending, Seen, Names, Doing
  <1>5. PICK new : calls' = [calls EXCEPT ![c] = new] /\ new.op # "request"
    BY <1>1, MethodsGoOn DEF CallGoesOn
  <1>6. IsFiniteSet(UnderWay')
    BY <1>5, FewCallsAreUnderWay DEF WritesAreAccepted
  <1>7. \A j, k : Sending(j, k)' \subseteq Sending(j, k)
    BY <1>5, SendersStay
  <1>8. CASE UNCHANGED coordinatorVars
    BY <1>3, <1>6, <1>7, <1>8, WritesStay DEF coordinatorVars
  <1>9. CASE Register(calls[c].target, "starting")
    <2>1. \A j \in DOMAIN instances' : j # i => j \in DOMAIN instances
      BY <1>9 DEF Register, Put
    <2>2. DOMAIN accepted = DOMAIN instances
      BY DEF ManagerTypes, ManagerTypeOK, TypeOK
    <2>3. accepted' = [x \in DOMAIN accepted \cup {i} |-> IF x = i THEN << >> ELSE accepted[x]]
      BY <1>9 DEF Register, Put
    <2>4. accepted'[i] = << >> /\ \A j \in DOMAIN instances : j # i => accepted'[j] = accepted[j]
      BY <2>2, <2>3
    <2>5. << >> \in Seq(Key)
      OBVIOUS
    <2> HIDE DEF i
    <2>6. \A j \in DOMAIN instances' : \A k \in Key :
             \/ /\ j \in DOMAIN instances
                /\ accepted'[j] = accepted[j] /\ sent'[j] = sent[j]
                /\ Sending(j, k)' \subseteq Sending(j, k)
             \/ /\ accepted'[j] \in Seq(Key) /\ sent'[j] = << >> /\ Sending(j, k)' = {}
      BY <1>3, <1>4, <1>7, <2>1, <2>4, <2>5
    <2> QED BY <1>6, <2>6, WritesStay
  <1> QED BY <1>8, <1>9 DEF SpawnRegister

\* The other steps accept nothing and write nothing.
LEMMA OthersWriteNothing ==
  ASSUME ManagerTypes, WritesAreAccepted, NEW c \in Caller,
         CallGoesOn(c), ~RequestAccept(c), ~RequestSend(c), ~SpawnRegister(c)
  PROVE  WritesAreAccepted'
  <1>1. sent' = sent
    BY DEF CallGoesOn, SpawnAttachFails, SpawnDiscard, SpawnInsert, StopValidate, StopRemove,
           StopReap, StopUnregister, BindCoordinate,
           BindRoute, BindPublish, RequestAnswered, RequestFailed, RequestComplete,
           RespondValidate, RespondSend, RespondForget, piVars
  <1>2. \A i \in DOMAIN instances' : i \in DOMAIN instances /\ accepted'[i] = accepted[i]
    <2>1. DOMAIN accepted = DOMAIN instances
      BY DEF ManagerTypes, ManagerTypeOK, TypeOK
    <2>2. CASE StopUnregister(c)
      BY <2>1, <2>2 DEF StopUnregister, Unregister, Without, coordinatorVars
    <2>3. CASE BindCoordinate(c)
      BY <2>3 DEF BindCoordinate, EmitEvent, coordinatorVars
    <2>4. CASE RequestComplete(c)
      BY <2>4 DEF RequestComplete, CompleteMutation, coordinatorVars
    <2>5. CASE UNCHANGED coordinatorVars
      BY <2>5 DEF coordinatorVars
    <2> QED BY <2>2, <2>3, <2>4, <2>5
         DEF CallGoesOn, SpawnAttachFails, SpawnDiscard, SpawnInsert, StopValidate, StopRemove,
             StopReap, BindRoute, BindPublish,
             RequestAnswered, RequestFailed, RespondValidate, RespondSend, RespondForget
  <1>3. \E new : calls' = [calls EXCEPT ![c] = new] /\ ~(new.op = "request" /\ new.at = "send")
    <2>1. CASE RequestFailed(c) \/ RequestComplete(c)
      <3>1. calls' = [calls EXCEPT ![c] = Idle] /\ Idle.op # "request"
        BY <2>1, CallFields DEF RequestFailed, RequestComplete, Finish
      <3> QED BY <3>1
    <2>2. CASE RequestAnswered(c)
      <3>1. calls[c] \in RequestCalls
        BY <2>2, CallIsTyped DEF RequestAnswered, Doing, ManagerTypes
      <3>2. PICK new : new = [calls[c] EXCEPT !.at = "complete"]
        OBVIOUS
      <3>3. new.at = "complete" /\ calls' = [calls EXCEPT ![c] = new]
        BY <2>2, <3>1, <3>2 DEF RequestCalls, RequestAnswered, Goto
      <3> QED BY <3>3
    <2>3. CASE ~RequestFailed(c) /\ ~RequestComplete(c) /\ ~RequestAnswered(c)
      <3>1. calls[c].op # "request"
        BY <2>3 DEF CallGoesOn, SpawnAttachFails, SpawnDiscard, SpawnInsert, StopValidate, StopRemove,
           StopReap, StopUnregister,
               BindCoordinate, BindRoute, BindPublish, RespondValidate, RespondSend,
               RespondForget, Doing
      <3> QED BY <3>1, MethodsGoOn
    <2> QED BY <2>1, <2>2, <2>3
  <1>4. PICK new : calls' = [calls EXCEPT ![c] = new] /\ ~(new.op = "request" /\ new.at = "send")
    BY <1>3
  <1>5. IsFiniteSet(UnderWay')
    BY <1>4, FewCallsAreUnderWay DEF WritesAreAccepted
  <1>6. \A i, k : Sending(i, k)' \subseteq Sending(i, k)
    BY <1>4, SendersStay
  <1> QED BY <1>1, <1>2, <1>5, <1>6, WritesStay

\* A mutation is written to Pi at most once for each time its key was accepted,
\* whatever times out, is retried, is evicted or is bound meanwhile.
THEOREM OneWrite == ManagerSpec => []OneWritePerAcceptance
  <1>1. ManagerInit => WritesAreAccepted
    <2> SUFFICES ASSUME ManagerInit PROVE WritesAreAccepted
      OBVIOUS
    <2>1. UnderWay = {}
      BY DEF UnderWay, ManagerInit
    <2>2. IsFiniteSet(UnderWay)
      BY <2>1, FS_EmptySet
    <2>3. DOMAIN instances = {}
      BY DEF ManagerInit, Init
    <2> QED BY <2>2, <2>3 DEF WritesAreAccepted
  <1>2. ASSUME ManagerTypes, FreshInstances, WritesAreAccepted, [ManagerNext]_managerVars
        PROVE  WritesAreAccepted'
    <2>1. ASSUME calls' = calls, sent' = sent,
                 \A i \in DOMAIN instances' : i \in DOMAIN instances /\ accepted'[i] = accepted[i]
          PROVE  WritesAreAccepted'
      <3>1. IsFiniteSet(UnderWay')
        BY <1>2, <2>1, FewCallsAreUnderWay DEF WritesAreAccepted
      <3>2. \A i, k : Sending(i, k)' \subseteq Sending(i, k)
        BY <2>1 DEF Sending, Doing
      <3> QED BY <1>2, <2>1, <3>1, <3>2, WritesStay
    <2>2. CASE UNCHANGED managerVars
      BY <2>1, <2>2 DEF managerVars, piVars
    <2>3. ASSUME NEW c \in Caller, CallBegins(c) \/ CallGoesOn(c) PROVE WritesAreAccepted'
      BY <1>2, <2>3, BeginsWriteNothing, AcceptingAllowsOneWrite, WritingUsesAnAcceptance,
         SpawningWritesNothing, OthersWriteNothing
    <2>4. ASSUME NEW i \in InstanceId, PumpGoesOn(i) \/ PiGoesOn(i) PROVE WritesAreAccepted'
      <3>1. DOMAIN accepted = DOMAIN instances
        BY <1>2 DEF ManagerTypes, ManagerTypeOK, TypeOK
      <3>2. calls' = calls /\ sent' = sent
        BY <2>4 DEF PumpGoesOn, PumpTake, PumpSequence, PumpRemember, PumpPublish,
               PumpRemoveClosed, PumpUnregister, PumpForget, PiGoesOn, PiWrite, PiRun, PiExit,
               piVars
      <3>3. \A j \in DOMAIN instances' : j \in DOMAIN instances /\ accepted'[j] = accepted[j]
        BY <2>4, <3>1 DEF PumpGoesOn, PumpTake, PumpSequence, PumpRemember, PumpPublish,
               PumpRemoveClosed, PumpUnregister, PumpForget, PiGoesOn, PiWrite, PiRun, PiExit,
               coordinatorVars, Unregister, Without
      <3> QED BY <2>1, <3>2, <3>3
    <2> QED BY <1>2, <2>2, <2>3, <2>4 DEF ManagerNext
  <1>3. ManagerTypes /\ FreshInstances /\ WritesAreAccepted /\ [ManagerNext]_managerVars
            => WritesAreAccepted'
    BY <1>2
  <1>4. ManagerTypes /\ WritesAreAccepted => OneWritePerAcceptance
    <2> SUFFICES ASSUME ManagerTypes, WritesAreAccepted, NEW i \in DOMAIN instances, NEW k \in Key
                 PROVE  Times(k, sent[i]) <= Times(k, accepted[i])
      BY DEF OneWritePerAcceptance
    <2>1. sent[i] \in Seq(Key) /\ accepted[i] \in Seq(Key)
      BY DEF ManagerTypes, ManagerTypeOK, TypeOK
    <2>2. Times(k, sent[i]) \in Nat /\ Times(k, accepted[i]) \in Nat
      BY <2>1, TimesAreCounted
    <2>3. Cardinality(Sending(i, k)) \in Nat
      BY SendersAreCounted DEF WritesAreAccepted
    <2> QED BY <2>2, <2>3 DEF WritesAreAccepted
  <1> QED BY <1>1, <1>3, <1>4, TypesAlways, FreshAlways, PTL DEF ManagerSpec

-----------------------------------------------------------------------------
(* Records                                                                   *)

\* A target is the registered one, where the instance is registered at all and no
\* binding ran into the use of a target read before.
Agrees(t) ==
    t.instance \in DOMAIN instances /\ t.instance \notin overtaken
        => instances[t.instance].target = t

\* The calls that hold a target they will use on the record.
Holding(call) ==
    \/ call.op = "spawn" /\ call.at = "insert"
    \/ call.op = "stop" /\ call.at \in {"remove", "unregister"}

\* Whoever is about to remove a record holds its target; a route has it too, but
\* while a binding is between the record and the route.
TargetsAgree ==
    /\ \A c \in Caller : Holding(calls[c]) => Agrees(calls[c].target)
    /\ \A c \in Caller : Doing(c, "bind", "route") => Agrees(NewRoute(c))
    /\ \A i \in InstanceId : pump[i].at = "unregister" => Agrees(pump[i].target)
    /\ \A i \in DOMAIN runtimes : Agrees(runtimes[i]) \/ Calling(i, "bind", "route")

\* Where the registered targets stay what they are, targets go on agreeing with them.
LEMMA AgreementStays ==
  ASSUME NEW j, overtaken \subseteq overtaken',
         \A i \in DOMAIN instances' : i # j /\ i \notin overtaken' =>
             i \in DOMAIN instances /\ instances'[i].target = instances[i].target
  PROVE  \A t : t.instance # j /\ Agrees(t) => Agrees(t)'
  BY DEF Agrees

LEMMA AllAgreementStays ==
  ASSUME overtaken \subseteq overtaken',
         \A i \in DOMAIN instances' :
             i \in DOMAIN instances /\ instances'[i].target = instances[i].target
  PROVE  \A t : Agrees(t) => Agrees(t)'
  BY DEF Agrees

\* A caller goes on, and it neither was nor is between a record and its route.
LEMMA CallersAgree ==
  ASSUME ManagerTypes, TargetsAgree, NEW c \in Caller, NEW new,
         calls' = [calls EXCEPT ![c] = new], UNCHANGED pump,
         ~Doing(c, "bind", "route"), ~(new.op = "bind" /\ new.at = "route"),
         DOMAIN runtimes' \subseteq DOMAIN runtimes,
         \A i \in DOMAIN runtimes' : runtimes'[i] = runtimes[i],
         \A t : Agrees(t) => Agrees(t)',
         Holding(new) => Agrees(new.target)'
  PROVE  TargetsAgree'
  <1>1. calls'[c] = new /\ \A d \in Caller : d # c => calls'[d] = calls[d]
    BY DEF ManagerTypes, ManagerTypeOK
  <1>2. ASSUME NEW d \in Caller, Holding(calls[d])' PROVE Agrees(calls[d].target)'
    <2>1. PICK t : t = calls'[d].target
      OBVIOUS
    <2>2. Agrees(t)'
      <3>1. CASE d = c
        BY <1>1, <1>2, <2>1, <3>1
      <3>2. CASE d # c
        BY <1>1, <1>2, <2>1, <3>2 DEF TargetsAgree
      <3> QED BY <3>1, <3>2
    <2> QED BY <2>1, <2>2 DEF Agrees
  <1>3. ASSUME NEW d \in Caller, Doing(d, "bind", "route")' PROVE Agrees(NewRoute(d))'
    <2>1. d # c /\ Doing(d, "bind", "route")
      BY <1>1, <1>3 DEF Doing
    <2>2. NewRoute(d)' = NewRoute(d) /\ Agrees(NewRoute(d))
      BY <1>1, <2>1 DEF NewRoute, TargetsAgree
    <2>3. PICK t : t = NewRoute(d)
      OBVIOUS
    <2>4. Agrees(t)'
      BY <2>2, <2>3
    <2>5. NewRoute(d)' = t
      BY <2>2, <2>3
    <2> QED BY <2>4, <2>5 DEF Agrees
  <1>4. \A i : Calling(i, "bind", "route") => Calling(i, "bind", "route")'
    BY <1>1 DEF Calling, Doing
  <1>5. ASSUME NEW i \in InstanceId, pump'[i].at = "unregister" PROVE Agrees(pump[i].target)'
    <2>1. PICK t : t = pump[i].target
      OBVIOUS
    <2>2. Agrees(t)'
      BY <1>5, <2>1 DEF TargetsAgree
    <2> QED BY <2>1, <2>2 DEF Agrees
  <1>6. ASSUME NEW i \in DOMAIN runtimes'
        PROVE  Agrees(runtimes[i])' \/ Calling(i, "bind", "route")'
    <2>1. PICK t : t = runtimes[i]
      OBVIOUS
    <2>2. Agrees(t)' \/ Calling(i, "bind", "route")'
      BY <1>4, <2>1 DEF TargetsAgree
    <2> QED BY <2>1, <2>2 DEF Agrees
  <1> QED BY <1>2, <1>3, <1>5, <1>6 DEF TargetsAgree

\* A registered target stays what it is.
LEMMA RecordsKeepTargets ==
  ASSUME ManagerTypes, NEW t \in RuntimeTarget,
         \/ UNCHANGED coordinatorVars \/ Unregister(t)
         \/ \E k \in Key : AcceptMutation(t, k) \/ CompleteMutation(t, k, TRUE)
  PROVE  \A i \in DOMAIN instances' :
             i \in DOMAIN instances /\ instances'[i].target = instances[i].target
  <1>1. instances \in [DOMAIN instances -> RuntimeRecord]
    BY DEF ManagerTypes, ManagerTypeOK, TypeOK
  <1>2. CASE UNCHANGED coordinatorVars
    BY <1>2 DEF coordinatorVars
  <1>3. CASE Unregister(t)
    BY <1>1, <1>3 DEF Unregister, Without
  <1>4. ASSUME NEW k \in Key, AcceptMutation(t, k)
        PROVE  \A i \in DOMAIN instances' :
                   i \in DOMAIN instances /\ instances'[i].target = instances[i].target
    <2> DEFINE i == t.instance
               ms == Remember(instances[i].mutations, k)
    <2>1. PICK rec : rec = [instances[i] EXCEPT !.mutations = ms]
      OBVIOUS
    <2>2. i \in DOMAIN instances /\ instances' = [instances EXCEPT ![i] = rec]
      BY <1>4, <2>1 DEF AcceptMutation, Valid
    <2> HIDE DEF ms
    <2>3. rec.target = instances[i].target
      BY <1>1, <2>1, <2>2 DEF RuntimeRecord
    <2> HIDE DEF i
    <2> QED BY <1>1, <2>2, <2>3
  <1>5. ASSUME NEW k \in Key, CompleteMutation(t, k, TRUE)
        PROVE  \A i \in DOMAIN instances' :
                   i \in DOMAIN instances /\ instances'[i].target = instances[i].target
    <2> DEFINE i == t.instance
               n == PositionOf(i, k)
               ms == [instances[i].mutations EXCEPT ![n] = [instances[i].mutations[n] EXCEPT
                                                               !.result = TRUE]]
    <2>1. PICK rec : rec = [instances[i] EXCEPT !.mutations = ms]
      OBVIOUS
    <2>2. i \in DOMAIN instances /\ instances' = [instances EXCEPT ![i] = rec]
      BY <1>5, <2>1 DEF CompleteMutation, Valid
    <2> HIDE DEF ms
    <2>3. rec.target = instances[i].target
      BY <1>1, <2>1, <2>2 DEF RuntimeRecord
    <2> HIDE DEF i
    <2> QED BY <1>1, <2>2, <2>3
  <1> QED BY <1>2, <1>3, <1>4, <1>5

LEMMA BeginsAgree ==
  ASSUME ManagerTypes, TargetsAgree, NEW c \in Caller, CallBegins(c)
  PROVE  TargetsAgree'
  <1>1. /\ calls[c] = Idle
        /\ UNCHANGED <<instances, runtimes, pump, overtaken>>
    BY DEF CallBegins, SpawnBegin, StopBegin, StopSetBegin, RestartBegin, BindBegin,
           RequestBegin, RespondBegin, Begin, coordinatorVars, historyVars
  <1>2. \E new : /\ calls' = [calls EXCEPT ![c] = new]
                 /\ new.at \in {"register", "validate", "coordinate", "accept"}
    <2>1. CASE SpawnBegin(c)
      <3>1. PICK t : calls' = [calls EXCEPT ![c] = SpawnCall(t)]
        BY <2>1 DEF SpawnBegin, Begin
      <3>2. PICK new : new = SpawnCall(t)
        OBVIOUS
      <3>3. new.at = "register" /\ calls' = [calls EXCEPT ![c] = new]
        BY <3>1, <3>2, CallFields
      <3> QED BY <3>3
    <2>2. CASE ~SpawnBegin(c)
      BY <2>2, CallsBegin DEF CallBegins
    <2> QED BY <2>1, <2>2
  <1>3. PICK new : /\ calls' = [calls EXCEPT ![c] = new]
                   /\ new.at \in {"register", "validate", "coordinate", "accept"}
    BY <1>2
  <1>4. ~Doing(c, "bind", "route") /\ ~Holding(new) /\ new.at # "route"
    BY <1>1, <1>3, CallFields DEF Doing, Holding
  <1>5. \A t : Agrees(t) => Agrees(t)'
    BY <1>1 DEF Agrees
  <1> QED BY <1>1, <1>3, <1>4, <1>5, CallersAgree

\* The instance a spawn registers is known to nobody else.
LEMMA RegisteringAgrees ==
  ASSUME ManagerTypes, FreshInstances, TargetsAgree, NEW c \in Caller,
         SpawnRegister(c), Register(calls[c].target, "starting"), Goto(c, "insert")
  PROVE  TargetsAgree'
  <1>1. PICK t : t = calls[c].target
    OBVIOUS
  <1>2. PICK i : i = t.instance
    OBVIOUS
  <1>3. calls[c] \in SpawnCalls /\ calls[c].op = "spawn" /\ t \in RuntimeTarget
        /\ i \in InstanceId
    BY <1>1, <1>2, CallIsTyped DEF SpawnRegister, Doing, ManagerTypes, SpawnCalls, RuntimeTarget
  <1>4. ~Seen(i) /\ \A d \in Caller : d # c => ~(calls[d].op = "spawn" /\ calls[d].target.instance = i)
    BY <1>1, <1>2, <1>3 DEF FreshInstances, Spawning
  <1>5. PICK new : new = [calls[c] EXCEPT !.at = "insert"]
    OBVIOUS
  <1>6. new.op = "spawn" /\ new.at = "insert" /\ new.target = t
    BY <1>1, <1>3, <1>5 DEF SpawnCalls
  <1>7. calls'[c] = new /\ \A d \in Caller : d # c => calls'[d] = calls[d]
    BY <1>5 DEF Goto, ManagerTypes, ManagerTypeOK
  <1>8. UNCHANGED <<runtimes, pump, overtaken>>
    BY DEF SpawnRegister
  <1>9. PICK rec : rec = NewRecord(t, "starting")
    OBVIOUS
  <1>10. rec.target = t /\ instances' = Put(instances, i, rec)
    BY <1>1, <1>2, <1>9 DEF Register, NewRecord
  <1>11. instances'[i].target = t /\ \A j \in DOMAIN instances' : i # j =>
             j \in DOMAIN instances /\ instances'[j].target = instances[j].target
    BY <1>10 DEF Put
  <1>12. \A u : u.instance # i /\ Agrees(u) => Agrees(u)'
    BY <1>8, <1>11, AgreementStays
  <1>13. \A d \in Caller : d # c /\ calls[d].op \in {"spawn", "stop", "bind"} =>
             calls[d].target.instance # i
    BY <1>4 DEF Seen, Names
  <1>14. ASSUME NEW d \in Caller, Holding(calls[d])' PROVE Agrees(calls[d].target)'
    <2>1. PICK u : u = calls'[d].target
      OBVIOUS
    <2>2. CASE d = c
      BY <1>2, <1>6, <1>7, <1>11, <2>2 DEF Agrees
    <2>3. CASE d # c
      <3>1. Agrees(u) /\ u.instance # i
        BY <1>7, <1>13, <1>14, <2>1, <2>3 DEF TargetsAgree, Holding
      <3>2. Agrees(u)'
        BY <1>12, <3>1
      <3> QED BY <2>1, <3>2 DEF Agrees
    <2> QED BY <2>2, <2>3
  <1>15. ASSUME NEW d \in Caller, Doing(d, "bind", "route")' PROVE Agrees(NewRoute(d))'
    <2>1. d # c /\ Doing(d, "bind", "route")
      BY <1>6, <1>7, <1>15 DEF Doing
    <2>2. NewRoute(d)' = NewRoute(d)
      BY <1>7, <2>1 DEF NewRoute
    <2>3. PICK u : u = NewRoute(d)
      OBVIOUS
    <2>4. calls[d] \in BindCalls
      BY <2>1, CallIsTyped DEF Doing, ManagerTypes
    <2>5. u.instance = calls[d].target.instance
      BY <2>3, <2>4 DEF NewRoute, BindCalls, RuntimeTarget
    <2>6. Agrees(u) /\ u.instance # i
      BY <1>13, <2>1, <2>3, <2>5 DEF TargetsAgree, Doing
    <2>7. Agrees(u)' /\ NewRoute(d)' = u
      BY <1>12, <2>2, <2>3, <2>6
    <2> QED BY <2>7 DEF Agrees
  <1>16. ASSUME NEW j \in InstanceId, pump'[j].at = "unregister" PROVE Agrees(pump[j].target)'
    <2>1. PICK u : u = pump[j].target
      OBVIOUS
    <2>2. u.instance = j /\ j # i /\ Agrees(u)
      BY <1>4, <1>8, <1>16, <2>1 DEF Seen, ManagerTypes, RoutesAreOwn, TargetsAgree
    <2>3. Agrees(u)' /\ pump'[j].target = u
      BY <1>8, <1>12, <2>1, <2>2
    <2> QED BY <2>3 DEF Agrees
  <1>17. ASSUME NEW j \in DOMAIN runtimes'
         PROVE  Agrees(runtimes[j])' \/ Calling(j, "bind", "route")'
    <2>1. PICK u : u = runtimes[j]
      OBVIOUS
    <2>2. u.instance = j /\ j # i
      BY <1>4, <1>8, <2>1 DEF Seen, ManagerTypes, RoutesAreOwn
    <2>3. CASE Calling(j, "bind", "route")
      BY <1>3, <1>7, <2>3 DEF Calling, Doing
    <2>4. CASE Agrees(u)
      <3>1. Agrees(u)' /\ runtimes'[j] = u
        BY <1>8, <1>12, <2>1, <2>2, <2>4
      <3> QED BY <3>1 DEF Agrees
    <2> QED BY <1>8, <2>1, <2>3, <2>4 DEF TargetsAgree
  <1> QED BY <1>14, <1>15, <1>16, <1>17 DEF TargetsAgree

LEMMA InsertingAgrees ==
  ASSUME ManagerTypes, TargetsAgree, NEW c \in Caller, SpawnInsert(c)
  PROVE  TargetsAgree'
  <1>1. PICK t : t = calls[c].target
    OBVIOUS
  <1>2. PICK i : i = t.instance
    OBVIOUS
  <1>3. Holding(calls[c]) /\ calls[c].op = "spawn"
    BY DEF SpawnInsert, Doing, Holding
  <1>4. Agrees(t)
    BY <1>1, <1>3 DEF TargetsAgree
  <1>5. UNCHANGED <<instances, overtaken>> /\ calls' = [calls EXCEPT ![c] = Idle]
    BY DEF SpawnInsert, Finish, coordinatorVars, historyVars
  <1>6. calls'[c] = Idle /\ \A d \in Caller : d # c => calls'[d] = calls[d]
    BY <1>5 DEF ManagerTypes, ManagerTypeOK
  <1>7. \A j \in DOMAIN runtimes' : \/ runtimes'[j] = t
                                    \/ j \in DOMAIN runtimes /\ runtimes'[j] = runtimes[j]
    BY <1>1 DEF SpawnInsert, Put
  <1>8. PICK q : q = PumpAt("next", t, NoFrame, 0)
    OBVIOUS
  <1>9. q.at = "next" /\ pump' = [pump EXCEPT ![i] = q]
    BY <1>1, <1>2, <1>8 DEF SpawnInsert, PumpAt
  <1>10. \A j \in InstanceId : pump'[j] = pump[j] \/ pump'[j].at = "next"
    BY <1>9 DEF ManagerTypes, ManagerTypeOK
  <1>11. \A u : Agrees(u) => Agrees(u)'
    BY <1>5 DEF Agrees
  <1>12. ASSUME NEW d \in Caller, Holding(calls[d])' PROVE Agrees(calls[d].target)'
    <2>1. d # c /\ Holding(calls[d])
      BY <1>6, <1>12, CallFields DEF Holding
    <2>2. PICK u : u = calls[d].target
      OBVIOUS
    <2>3. Agrees(u)' /\ calls'[d].target = u
      BY <1>6, <1>11, <2>1, <2>2 DEF TargetsAgree
    <2> QED BY <2>3 DEF Agrees
  <1>13. ASSUME NEW d \in Caller, Doing(d, "bind", "route")' PROVE Agrees(NewRoute(d))'
    <2>1. d # c /\ Doing(d, "bind", "route")
      BY <1>6, <1>13, CallFields DEF Doing
    <2>2. PICK u : u = NewRoute(d)
      OBVIOUS
    <2>3. Agrees(u)' /\ NewRoute(d)' = u
      BY <1>6, <1>11, <2>1, <2>2 DEF TargetsAgree, NewRoute
    <2> QED BY <2>3 DEF Agrees
  <1>14. ASSUME NEW j \in InstanceId, pump'[j].at = "unregister" PROVE Agrees(pump[j].target)'
    <2>1. PICK u : u = pump[j].target
      OBVIOUS
    <2>2. Agrees(u)' /\ pump'[j].target = u
      BY <1>10, <1>11, <1>14, <2>1 DEF TargetsAgree
    <2> QED BY <2>2 DEF Agrees
  <1>15. ASSUME NEW j \in DOMAIN runtimes'
         PROVE  Agrees(runtimes[j])' \/ Calling(j, "bind", "route")'
    <2>1. Calling(j, "bind", "route") => Calling(j, "bind", "route")'
      BY <1>3, <1>6 DEF Calling, Doing
    <2>2. PICK u : u = runtimes'[j]
      OBVIOUS
    <2>3. Agrees(u) \/ Calling(j, "bind", "route")
      BY <1>4, <1>7, <2>2 DEF TargetsAgree
    <2>4. Agrees(u)' \/ Calling(j, "bind", "route")'
      BY <1>11, <2>1, <2>3
    <2> QED BY <2>2, <2>4 DEF Agrees
  <1> QED BY <1>12, <1>13, <1>14, <1>15 DEF TargetsAgree

LEMMA StopsGoOn ==
  ASSUME NEW c \in Caller, StopNext(c)
  PROVE  \E new : calls' = [calls EXCEPT ![c] = new] /\ new.at \in {"idle", "validate"}
  <1>1. CASE Finish(c)
    <2>1. calls' = [calls EXCEPT ![c] = Idle] /\ Idle.at = "idle"
      BY <1>1, CallFields DEF Finish
    <2> QED BY <2>1
  <1>2. ASSUME NEW t, calls' = [calls EXCEPT ![c] = StopCall(t, calls[c].rest \ {t}, FALSE)]
        PROVE  \E new : calls' = [calls EXCEPT ![c] = new] /\ new.at \in {"idle", "validate"}
    <2>1. PICK new : new = StopCall(t, calls[c].rest \ {t}, FALSE)
      OBVIOUS
    <2>2. new.at = "validate"
      BY <2>1 DEF StopCall
    <2>3. calls' = [calls EXCEPT ![c] = new]
      BY <1>2, <2>1
    <2> QED BY <2>2, <2>3
  <1> QED BY <1>1, <1>2 DEF StopNext

LEMMA StopsAgree ==
  ASSUME ManagerTypes, TargetsAgree, NEW c \in Caller,
         StopValidate(c) \/ StopRemove(c) \/ StopReap(c) \/ StopUnregister(c)
  PROVE  TargetsAgree'
  <1>1. PICK t : t = calls[c].target
    OBVIOUS
  <1>2. /\ calls[c] \in StopCalls /\ calls[c].op = "stop" /\ t \in RuntimeTarget
        /\ UNCHANGED <<pump, overtaken>>
    BY <1>1, CallIsTyped
       DEF StopValidate, StopRemove, StopReap, StopUnregister, Doing, ManagerTypes, StopCalls,
           historyVars
  <1>3. /\ DOMAIN runtimes' \subseteq DOMAIN runtimes
        /\ \A i \in DOMAIN runtimes' : runtimes'[i] = runtimes[i]
    BY DEF StopValidate, StopRemove, StopReap, StopUnregister, Without
  <1>4. \A i \in DOMAIN instances' :
            i \in DOMAIN instances /\ instances'[i].target = instances[i].target
    <2>1. UNCHANGED coordinatorVars \/ Unregister(t)
      BY <1>1 DEF StopValidate, StopRemove, StopReap, StopUnregister
    <2> QED BY <1>2, <2>1, RecordsKeepTargets
  <1>5. \A u : Agrees(u) => Agrees(u)'
    BY <1>2, <1>4, AllAgreementStays
  <1>6. ~Doing(c, "bind", "route")
    BY <1>2 DEF Doing
  <1>7. ASSUME NEW at \in {"remove", "unregister", "reap"}, Goto(c, at), Agrees(t)
        PROVE  TargetsAgree'
    <2>1. PICK new : new = [calls[c] EXCEPT !.at = at]
      OBVIOUS
    <2>2. new.op = "stop" /\ new.target = t
      BY <1>1, <1>2, <2>1 DEF StopCalls
    <2>3. calls' = [calls EXCEPT ![c] = new]
      BY <1>7, <2>1 DEF Goto
    <2>4. Agrees(t)'
      BY <1>5, <1>7
    <2> QED BY <1>2, <1>3, <1>5, <1>6, <2>2, <2>3, <2>4, CallersAgree
  <1>8. ASSUME NEW new, calls' = [calls EXCEPT ![c] = new],
               new.at \in {"idle", "validate", "register"}
        PROVE  TargetsAgree'
    <2>1. ~Holding(new) /\ new.at # "route"
      BY <1>8 DEF Holding
    <2> QED BY <1>2, <1>3, <1>5, <1>6, <1>8, <2>1, CallersAgree
  <1>9. StopNext(c) => TargetsAgree'
    BY <1>8, StopsGoOn
  <1>10. CASE StopValidate(c) /\ ~StopNext(c)
    <2>1. Valid(t) /\ Goto(c, "remove")
      BY <1>1, <1>10 DEF StopValidate
    <2>2. Agrees(t)
      BY <2>1 DEF Valid, Agrees
    <2> QED BY <1>7, <2>1, <2>2
  <1>11. CASE StopRemove(c) /\ ~StopNext(c)
    <2>1. Holding(calls[c])
      BY <1>2, <1>11 DEF StopRemove, Doing, Holding
    <2>2. Agrees(t)
      BY <1>1, <2>1 DEF TargetsAgree
    <2> QED BY <1>7, <1>11, <2>2 DEF StopRemove
  <1>12. CASE StopUnregister(c) /\ ~StopNext(c)
    <2>1. PICK i \in Unused : calls' = [calls EXCEPT ![c] = SpawnCall([t EXCEPT !.instance = i])]
      BY <1>1, <1>12 DEF StopUnregister
    <2>2. PICK u : u = [t EXCEPT !.instance = i]
      OBVIOUS
    <2>3. PICK new : new = SpawnCall(u)
      OBVIOUS
    <2>4. calls' = [calls EXCEPT ![c] = new] /\ new.at = "register"
      BY <2>1, <2>2, <2>3, CallFields
    <2> QED BY <1>8, <2>4
  <1> QED BY <1>9, <1>10, <1>11, <1>12 DEF StopReap

\* The calls that neither remove nor bind.
LEMMA OtherCallsAgree ==
  ASSUME ManagerTypes, TargetsAgree, NEW c \in Caller,
         \/ SpawnAttachFails(c) \/ SpawnDiscard(c)
         \/ SpawnRegister(c) /\ UNCHANGED coordinatorVars
         \/ RequestAccept(c) \/ RequestSend(c) \/ RequestAnswered(c) \/ RequestFailed(c)
         \/ RequestComplete(c)
         \/ RespondValidate(c) \/ RespondSend(c) \/ RespondForget(c)
  PROVE  TargetsAgree'
  <1>1. PICK t : t = calls[c].target
    OBVIOUS
  <1>2. calls[c].op \in {"spawn", "request", "respond"}
    BY DEF SpawnAttachFails, SpawnRegister, SpawnDiscard, RequestAccept, RequestSend,
           RequestAnswered, RequestFailed, RequestComplete, RespondValidate, RespondSend,
           RespondForget, Doing
  <1>3. t \in RuntimeTarget /\ (calls[c].op = "request" => calls[c].key \in Key)
    BY <1>1, <1>2, CallIsTyped DEF ManagerTypes, SpawnCalls, RequestCalls, RespondCalls
  <1>4. UNCHANGED <<runtimes, pump, overtaken>>
    BY DEF SpawnAttachFails, SpawnRegister, SpawnDiscard, RequestAccept, RequestSend,
           RequestAnswered, RequestFailed, RequestComplete, RespondValidate, RespondSend,
           RespondForget, historyVars
  <1>5. \/ UNCHANGED coordinatorVars
        \/ \E k \in Key : AcceptMutation(t, k) \/ CompleteMutation(t, k, TRUE)
    BY <1>1, <1>3
       DEF SpawnAttachFails, SpawnDiscard, RequestAccept, RequestSend,
           RequestAnswered, RequestFailed, RequestComplete, RespondValidate, RespondSend,
           RespondForget, Doing
  <1>6. \A u : Agrees(u) => Agrees(u)'
    <2>1. \A i \in DOMAIN instances' :
              i \in DOMAIN instances /\ instances'[i].target = instances[i].target
      BY <1>3, <1>5, RecordsKeepTargets
    <2> QED BY <1>4, <2>1, AllAgreementStays
  <1>7. PICK new : calls' = [calls EXCEPT ![c] = new] /\ ~Holding(new) /\ new.op # "bind"
    <2>1. CASE calls[c].op = "spawn"
      <3>1. CASE Finish(c)
        <4>1. ~Holding(Idle) /\ Idle.op = "idle"
          BY CallFields DEF Holding
        <4> QED BY <3>1, <4>1 DEF Finish
      <3>2. CASE Goto(c, "discard")
        <4>1. PICK new : new = [calls[c] EXCEPT !.at = "discard"]
          OBVIOUS
        <4>2. new.op = "spawn" /\ new.at = "discard" /\ calls' = [calls EXCEPT ![c] = new]
          BY <2>1, <3>2, <4>1, CallIsTyped DEF Goto, SpawnCalls, ManagerTypes
        <4> QED BY <4>2 DEF Holding
      <3>3. CASE SpawnRegister(c) /\ UNCHANGED coordinatorVars
        <4>1. Register(t, "starting") => FALSE
          BY <3>3 DEF Register, CanRegister, Put, coordinatorVars
        <4> QED BY <1>1, <3>1, <3>2, <3>3, <4>1 DEF SpawnRegister
      <3>4. CASE SpawnAttachFails(c) \/ SpawnDiscard(c)
        BY <3>1, <3>4 DEF SpawnAttachFails, SpawnDiscard
      <3> QED BY <2>1, <3>3, <3>4
           DEF RequestAccept, RequestSend, RequestAnswered, RequestFailed, RequestComplete,
               RespondValidate, RespondSend, RespondForget, Doing
    <2>2. CASE calls[c].op # "spawn"
      <3>1. PICK new : calls' = [calls EXCEPT ![c] = new] /\ new.op \in {calls[c].op, "idle"}
        BY <1>2, <2>2, MethodsGoOn
           DEF CallGoesOn, SpawnAttachFails, SpawnDiscard, SpawnRegister, StopUnregister, Doing
      <3> QED BY <1>2, <2>2, <3>1 DEF Holding
    <2> QED BY <2>1, <2>2
  <1>8. ~Doing(c, "bind", "route")
    BY <1>2 DEF Doing
  <1> QED BY <1>4, <1>6, <1>7, <1>8, CallersAgree

\* A binding changes a registered target; whoever had read it is overtaken.
LEMMA CoordinatingAgrees ==
  ASSUME ManagerTypes, FreshInstances, TargetsAgree, NEW c \in Caller, BindCoordinate(c)
  PROVE  TargetsAgree'
  <1>1. PICK t : t = calls[c].target
    OBVIOUS
  <1>2. PICK i : i = t.instance
    OBVIOUS
  <1>3. PICK s : s = calls[c].session
    OBVIOUS
  <1>4. calls[c] \in BindCalls /\ calls[c].op = "bind" /\ calls[c].at = "coordinate"
        /\ t \in RuntimeTarget /\ i \in InstanceId
    BY <1>1, <1>2, CallIsTyped DEF BindCoordinate, Doing, ManagerTypes, BindCalls, RuntimeTarget
  <1>5. UNCHANGED <<runtimes, pump>>
    BY DEF BindCoordinate
  <1>6. instances \in [DOMAIN instances -> RuntimeRecord]
    BY DEF ManagerTypes, ManagerTypeOK, TypeOK
  <1>7. CASE Finish(c) /\ UNCHANGED overtaken /\ (UNCHANGED coordinatorVars \/ EmitEvent(t))
    <2>1. \A j \in DOMAIN instances' :
              j \in DOMAIN instances /\ instances'[j].target = instances[j].target
      <3>1. CASE UNCHANGED coordinatorVars
        BY <3>1 DEF coordinatorVars
      <3>2. CASE EmitEvent(t)
        <4>1. PICK rec : rec = [instances[i] EXCEPT !.sequence = @ + 1]
          OBVIOUS
        <4>2. i \in DOMAIN instances /\ instances' = [instances EXCEPT ![i] = rec]
          BY <1>2, <3>2, <4>1 DEF EmitEvent, Valid
        <4>3. rec.target = instances[i].target
          BY <1>6, <4>1, <4>2 DEF RuntimeRecord
        <4> QED BY <1>6, <4>2, <4>3
      <3> QED BY <1>7, <3>1, <3>2
    <2>2. \A u : Agrees(u) => Agrees(u)'
      BY <1>7, <2>1, AllAgreementStays
    <2>3. calls' = [calls EXCEPT ![c] = Idle] /\ ~Holding(Idle) /\ Idle.op # "bind"
      BY <1>7, CallFields DEF Finish, Holding
    <2> QED BY <1>4, <1>5, <2>2, <2>3, CallersAgree DEF Doing
  <1>8. CASE CanBind(t, s)
    <2>1. PICK n : n = NextSequence(i)
      OBVIOUS
    <2>2. PICK new : new = [calls[c] EXCEPT !.at = "route", !.sequence = n]
      OBVIOUS
    <2>3. /\ instances' = [instances EXCEPT ![i].sequence = n, ![i].target.session = s]
          /\ calls' = [calls EXCEPT ![c].at = "route", ![c].sequence = n]
          /\ Overtake(i, TargetInUse(i))
          /\ Valid(t)
      BY <1>1, <1>2, <1>3, <1>8, <2>1 DEF BindCoordinate, CanBind
    <2>4. /\ new.op = "bind" /\ new.at = "route" /\ new.target = t /\ new.session = s
      BY <1>1, <1>3, <1>4, <2>2 DEF BindCalls
    <2>5. calls'[c] = new /\ \A d \in Caller : d # c => calls'[d] = calls[d]
      BY <2>2, <2>3 DEF ManagerTypes, ManagerTypeOK
    <2>6. PICK r : r = [t EXCEPT !.session = s]
      OBVIOUS
    <2>7. r.instance = i
      BY <1>2, <1>4, <2>6 DEF RuntimeTarget
    <2>8. i \in DOMAIN instances /\ instances[i].target = t
      BY <1>2, <2>3 DEF Valid
    <2>9. instances'[i].target = r /\ DOMAIN instances' = DOMAIN instances
          /\ \A j \in DOMAIN instances : i # j => instances'[j] = instances[j]
      <3>1. PICK rec : rec = [instances[i] EXCEPT !.sequence = n, !.target.session = s]
        OBVIOUS
      <3>2. rec.target = r
        BY <1>6, <2>6, <2>8, <3>1 DEF RuntimeRecord
      <3>3. instances' = [instances EXCEPT ![i] = rec]
        BY <1>6, <2>3, <2>8, <3>1 DEF RuntimeRecord
      <3> QED BY <1>6, <2>8, <3>2, <3>3
    <2>10. overtaken \subseteq overtaken' /\ (TargetInUse(i) => i \in overtaken')
      BY <2>3 DEF Overtake
    <2>11. \A u : u.instance # i /\ Agrees(u) => Agrees(u)'
      BY <2>9, <2>10, AgreementStays
    <2>12. \A u : u.instance = i /\ i \in overtaken' => Agrees(u)'
      BY DEF Agrees
    <2>13. Agrees(r)'
      BY <2>7, <2>9 DEF Agrees
    <2>14. ASSUME NEW d \in Caller, Holding(calls[d])' PROVE Agrees(calls[d].target)'
      <3>1. d # c
        BY <2>4, <2>5, <2>14 DEF Holding
      <3>2. PICK u : u = calls[d].target
        OBVIOUS
      <3>3. calls'[d].target = u /\ Holding(calls[d]) /\ Agrees(u)
        BY <2>5, <2>14, <3>1, <3>2 DEF TargetsAgree
      <3>4. CASE u.instance = i
        <4>1. Seen(i)
          BY <1>1, <1>2, <1>4 DEF Seen, Names
        <4>2. calls[d].op = "stop"
          BY <1>4, <3>2, <3>3, <3>4, <4>1 DEF Holding, FreshInstances, Spawning
        <4>3. i \in overtaken'
          BY <2>10, <3>2, <3>3, <3>4, <4>2 DEF Holding, TargetInUse, Calling, Doing
        <4> QED BY <2>12, <3>3, <3>4, <4>3 DEF Agrees
      <3>5. CASE u.instance # i
        <4>1. Agrees(u)'
          BY <2>11, <3>3, <3>5
        <4> QED BY <3>3, <4>1 DEF Agrees
      <3> QED BY <3>4, <3>5
    <2>15. ASSUME NEW d \in Caller, Doing(d, "bind", "route")' PROVE Agrees(NewRoute(d))'
      <3>1. CASE d = c
        <4>1. NewRoute(d)' = r
          BY <2>4, <2>5, <2>6, <3>1 DEF NewRoute
        <4> QED BY <2>13, <4>1 DEF Agrees
      <3>2. CASE d # c
        <4>1. PICK u : u = NewRoute(d)
          OBVIOUS
        <4>2. Doing(d, "bind", "route") /\ NewRoute(d)' = u /\ Agrees(u)
          BY <2>5, <2>15, <3>2, <4>1 DEF Doing, NewRoute, TargetsAgree
        <4>3. u.instance = calls[d].target.instance
          BY <4>1, <4>2, CallIsTyped DEF Doing, ManagerTypes, NewRoute, BindCalls, RuntimeTarget
        <4>4. Agrees(u)'
          <5>1. CASE u.instance = i
            BY <2>10, <2>12, <4>2, <4>3, <5>1 DEF TargetInUse, Calling
          <5>2. CASE u.instance # i
            BY <2>11, <4>2, <5>2
          <5> QED BY <5>1, <5>2
        <4> QED BY <4>2, <4>4 DEF Agrees
      <3> QED BY <3>1, <3>2
    <2>16. ASSUME NEW j \in InstanceId, pump'[j].at = "unregister"
           PROVE  Agrees(pump[j].target)'
      <3>1. PICK u : u = pump[j].target
        OBVIOUS
      <3>2. pump'[j].target = u /\ Agrees(u) /\ u.instance = j /\ pump[j].at = "unregister"
        BY <1>5, <2>16, <3>1 DEF TargetsAgree, ManagerTypes, RoutesAreOwn
      <3>3. Agrees(u)'
        BY <2>10, <2>11, <2>12, <3>2 DEF TargetInUse
      <3> QED BY <3>2, <3>3 DEF Agrees
    <2>17. ASSUME NEW j \in DOMAIN runtimes'
           PROVE  Agrees(runtimes[j])' \/ Calling(j, "bind", "route")'
      <3>1. PICK u : u = runtimes[j]
        OBVIOUS
      <3>2. runtimes'[j] = u /\ u.instance = j
        BY <1>5, <3>1 DEF ManagerTypes, RoutesAreOwn
      <3>3. CASE j = i
        BY <1>2, <2>4, <2>5, <3>3 DEF Calling, Doing
      <3>4. CASE j # i /\ Calling(j, "bind", "route")
        BY <1>1, <1>2, <2>5, <3>4 DEF Calling, Doing
      <3>5. CASE j # i /\ Agrees(u)
        <4>1. Agrees(u)'
          BY <2>11, <3>2, <3>5
        <4> QED BY <3>2, <4>1 DEF Agrees
      <3> QED BY <1>5, <3>1, <3>3, <3>4, <3>5 DEF TargetsAgree
    <2> QED BY <2>14, <2>15, <2>16, <2>17 DEF TargetsAgree
  <1>9. CASE ~CanBind(t, s)
    <2>1. CASE ~Valid(t)
      BY <1>1, <1>3, <1>7, <1>9, <2>1 DEF BindCoordinate, CanBind
    <2>2. CASE Valid(t)
      BY <1>1, <1>3, <1>7, <1>9, <2>2 DEF BindCoordinate, CanBind
    <2> QED BY <2>1, <2>2
  <1> QED BY <1>8, <1>9

LEMMA RoutingAgrees ==
  ASSUME ManagerTypes, TargetsAgree, NEW c \in Caller, BindRoute(c)
  PROVE  TargetsAgree'
  <1>1. PICK i : i = calls[c].target.instance
    OBVIOUS
  <1>2. calls[c] \in BindCalls /\ calls[c].op = "bind" /\ Doing(c, "bind", "route")
        /\ i \in InstanceId
    BY <1>1, CallIsTyped DEF BindRoute, Doing, ManagerTypes, BindCalls, RuntimeTarget
  <1>3. UNCHANGED <<instances, overtaken, pump>>
    BY DEF BindRoute, coordinatorVars, historyVars
  <1>4. PICK new : calls' = [calls EXCEPT ![c] = new] /\ ~Holding(new) /\ new.at # "route"
    <2>1. CASE Finish(c)
      BY <2>1, CallFields DEF Finish, Holding
    <2>2. CASE Goto(c, "publish")
      <3>1. PICK new : new = [calls[c] EXCEPT !.at = "publish"]
        OBVIOUS
      <3>2. new.at = "publish" /\ calls' = [calls EXCEPT ![c] = new]
        BY <1>2, <2>2, <3>1 DEF Goto, BindCalls
      <3> QED BY <3>2 DEF Holding
    <2> QED BY <2>1, <2>2 DEF BindRoute
  <1>5. calls'[c] = new /\ \A d \in Caller : d # c => calls'[d] = calls[d]
    BY <1>4 DEF ManagerTypes, ManagerTypeOK
  <1>6. \A u : Agrees(u) => Agrees(u)'
    BY <1>3 DEF Agrees
  <1>7. PICK r : r = NewRoute(c)
    OBVIOUS
  <1>8. Agrees(r)
    BY <1>2, <1>7 DEF TargetsAgree
  <1>9. ASSUME NEW d \in Caller, Holding(calls[d])' PROVE Agrees(calls[d].target)'
    <2>1. PICK u : u = calls[d].target
      OBVIOUS
    <2>2. Agrees(u)' /\ calls'[d].target = u
      BY <1>4, <1>5, <1>6, <1>9, <2>1 DEF TargetsAgree
    <2> QED BY <2>2 DEF Agrees
  <1>10. ASSUME NEW d \in Caller, Doing(d, "bind", "route")' PROVE Agrees(NewRoute(d))'
    <2>1. d # c /\ Doing(d, "bind", "route")
      BY <1>4, <1>5, <1>10 DEF Doing
    <2>2. PICK u : u = NewRoute(d)
      OBVIOUS
    <2>3. Agrees(u)' /\ NewRoute(d)' = u
      BY <1>5, <1>6, <2>1, <2>2 DEF TargetsAgree, NewRoute
    <2> QED BY <2>3 DEF Agrees
  <1>11. ASSUME NEW j \in InstanceId, pump'[j].at = "unregister" PROVE Agrees(pump[j].target)'
    <2>1. PICK u : u = pump[j].target
      OBVIOUS
    <2>2. Agrees(u)' /\ pump'[j].target = u
      BY <1>3, <1>6, <1>11, <2>1 DEF TargetsAgree
    <2> QED BY <2>2 DEF Agrees
  <1>12. ASSUME NEW j \in DOMAIN runtimes'
         PROVE  Agrees(runtimes[j])' \/ Calling(j, "bind", "route")'
    <2>1. PICK u : u = runtimes'[j]
      OBVIOUS
    <2>2. CASE j = i
      <3>1. u = r
        BY <1>1, <1>7, <1>12, <2>1, <2>2 DEF BindRoute
      <3>2. Agrees(u)'
        BY <1>6, <1>8, <3>1
      <3> QED BY <2>1, <3>2 DEF Agrees
    <2>3. CASE j # i
      <3>1. j \in DOMAIN runtimes /\ u = runtimes[j]
        BY <1>1, <1>12, <2>1, <2>3 DEF BindRoute
      <3>2. Calling(j, "bind", "route") => Calling(j, "bind", "route")'
        BY <1>1, <1>5, <2>3 DEF Calling, Doing
      <3>3. Agrees(u)' \/ Calling(j, "bind", "route")'
        BY <1>6, <3>1, <3>2 DEF TargetsAgree
      <3> QED BY <2>1, <3>3 DEF Agrees
    <2> QED BY <2>2, <2>3
  <1> QED BY <1>9, <1>10, <1>11, <1>12 DEF TargetsAgree

LEMMA BindingPublishAgrees ==
  ASSUME ManagerTypes, TargetsAgree, NEW c \in Caller, BindPublish(c)
  PROVE  TargetsAgree'
  <1>1. UNCHANGED <<instances, overtaken, runtimes, pump>> /\ ~Doing(c, "bind", "route")
    BY DEF BindPublish, Doing, coordinatorVars, historyVars
  <1>2. calls' = [calls EXCEPT ![c] = Idle] /\ ~Holding(Idle) /\ Idle.op # "bind"
    BY CallFields DEF BindPublish, Finish, Holding
  <1>3. \A u : Agrees(u) => Agrees(u)'
    BY <1>1 DEF Agrees
  <1> QED BY <1>1, <1>2, <1>3, CallersAgree

LEMMA CallsAgree ==
  ASSUME ManagerTypes, FreshInstances, TargetsAgree, NEW c \in Caller, CallGoesOn(c)
  PROVE  TargetsAgree'
  <1>1. CASE SpawnRegister(c)
    BY <1>1, RegisteringAgrees, OtherCallsAgree DEF SpawnRegister
  <1>2. CASE ~SpawnRegister(c)
    BY <1>2, InsertingAgrees, StopsAgree, OtherCallsAgree, CoordinatingAgrees, RoutingAgrees,
       BindingPublishAgrees
       DEF CallGoesOn
  <1> QED BY <1>1, <1>2

LEMMA PumpsAgree ==
  ASSUME ManagerTypes, TargetsAgree, NEW i \in InstanceId, PumpGoesOn(i)
  PROVE  TargetsAgree'
  <1>1. /\ calls' = calls /\ pump[i].at # "off" /\ overtaken \subseteq overtaken'
        /\ DOMAIN runtimes' \subseteq DOMAIN runtimes
        /\ \A j \in DOMAIN runtimes' : runtimes'[j] = runtimes[j]
    BY DEF PumpGoesOn, PumpTake, PumpSequence, PumpRemember, PumpPublish, PumpRemoveClosed,
           PumpUnregister, PumpForget, Overtake, Without, historyVars
  <1>2. \A j \in DOMAIN instances' :
            j \in DOMAIN instances /\ instances'[j].target = instances[j].target
    <2>1. instances \in [DOMAIN instances -> RuntimeRecord] /\ pump[i].target \in RuntimeTarget
      <3>1. pump[i] \in RestingPumps \cup BusyPumps
        BY <1>1 DEF ManagerTypes, ManagerTypeOK, PumpType, RestingPumps, BusyPumps
      <3>2. pump[i].target \in RuntimeTarget
        BY <3>1 DEF RestingPumps, BusyPumps
      <3> QED BY <3>2 DEF ManagerTypes, ManagerTypeOK, TypeOK
    <2>2. CASE PumpUnregister(i)
      <3>1. UNCHANGED coordinatorVars \/ Unregister(pump[i].target)
        BY <2>2 DEF PumpUnregister
      <3> QED BY <2>1, <3>1, RecordsKeepTargets
    <2>3. CASE PumpSequence(i) /\ Valid(pump[i].target)
      <3>1. PICK n, st : instances' = [instances EXCEPT ![i].sequence = n, ![i].state = st]
        BY <2>3 DEF PumpSequence
      <3>2. PICK rec : rec = [instances[i] EXCEPT !.sequence = n, !.state = st]
        OBVIOUS
      <3>3. i \in DOMAIN instances
        BY <1>1, <2>3 DEF Valid, ManagerTypes, RoutesAreOwn
      <3>4. instances' = [instances EXCEPT ![i] = rec]
        BY <2>1, <3>1, <3>2, <3>3 DEF RuntimeRecord
      <3>5. rec.target = instances[i].target
        BY <2>1, <3>2, <3>3 DEF RuntimeRecord
      <3> QED BY <2>1, <3>3, <3>4, <3>5
    <2>4. CASE instances' = instances
      BY <2>4
    <2> QED BY <2>2, <2>3, <2>4
         DEF PumpGoesOn, PumpTake, PumpSequence, PumpRemember, PumpPublish, PumpRemoveClosed,
             PumpForget, coordinatorVars
  <1>3. \A u : Agrees(u) => Agrees(u)'
    BY <1>1, <1>2, AllAgreementStays
  <1>4. ASSUME NEW d \in Caller, Holding(calls[d])' PROVE Agrees(calls[d].target)'
    <2>1. PICK u : u = calls[d].target
      OBVIOUS
    <2>2. Agrees(u)' /\ calls'[d].target = u
      BY <1>1, <1>3, <1>4, <2>1 DEF TargetsAgree
    <2> QED BY <2>2 DEF Agrees
  <1>5. ASSUME NEW d \in Caller, Doing(d, "bind", "route")' PROVE Agrees(NewRoute(d))'
    <2>1. Doing(d, "bind", "route")
      BY <1>1, <1>5 DEF Doing
    <2>2. PICK u : u = NewRoute(d)
      OBVIOUS
    <2>3. Agrees(u)' /\ NewRoute(d)' = u
      BY <1>1, <1>3, <2>1, <2>2 DEF TargetsAgree, NewRoute
    <2> QED BY <2>3 DEF Agrees
  <1>6. ASSUME NEW j \in InstanceId, pump'[j].at = "unregister" PROVE Agrees(pump[j].target)'
    <2>1. CASE PumpRemoveClosed(i) /\ i \in DOMAIN runtimes /\ j = i
      <3>1. PICK u : u = runtimes[i]
        OBVIOUS
      <3>2. pump[i] \in RestingPumps \cup BusyPumps
        BY <1>1 DEF ManagerTypes, ManagerTypeOK, PumpType, RestingPumps, BusyPumps
      <3>3. PICK q : q = [pump[i] EXCEPT !.at = "unregister", !.target = u]
        OBVIOUS
      <3>4. q.target = u
        BY <3>2, <3>3 DEF RestingPumps, BusyPumps
      <3>5. pump' = [pump EXCEPT ![i] = q]
        BY <2>1, <3>1, <3>3 DEF PumpRemoveClosed
      <3>6. pump'[j].target = u
        BY <2>1, <3>4, <3>5 DEF ManagerTypes, ManagerTypeOK
      <3>7. u.instance = i
        BY <2>1, <3>1 DEF ManagerTypes, RoutesAreOwn
      <3>8. Agrees(u)'
        <4>1. CASE Calling(i, "bind", "route")
          <5>1. i \in overtaken'
            BY <2>1, <4>1 DEF PumpRemoveClosed, Overtake
          <5> QED BY <3>7, <5>1 DEF Agrees
        <4>2. CASE Agrees(u)
          BY <1>3, <4>2
        <4> QED BY <2>1, <3>1, <4>1, <4>2 DEF TargetsAgree
      <3> QED BY <3>6, <3>8 DEF Agrees
    <2>2. CASE ~(PumpRemoveClosed(i) /\ i \in DOMAIN runtimes /\ j = i)
      <3>1. pump[j].at = "unregister" /\ pump'[j].target = pump[j].target
        <4>1. CASE j # i
          BY <1>6, <4>1 DEF PumpGoesOn, PumpTake, PumpSequence, PumpRemember, PumpPublish,
             PumpRemoveClosed, PumpUnregister, PumpForget, PumpTo, ManagerTypes, ManagerTypeOK
        <4>2. CASE j = i
          <5>1. \A at : PumpTo(i, at) => pump'[i].at = at
            <6>1. ASSUME NEW at, PumpTo(i, at) PROVE pump'[i].at = at
              <7>1. PICK r : r = pump[i]
                OBVIOUS
              <7>2. r \in RestingPumps \cup BusyPumps
                BY <1>1, <7>1 DEF ManagerTypes, ManagerTypeOK, PumpType, RestingPumps, BusyPumps
              <7>3. PICK q : q = [r EXCEPT !.at = at]
                OBVIOUS
              <7>4. q.at = at /\ pump' = [pump EXCEPT ![i] = q]
                BY <6>1, <7>1, <7>2, <7>3 DEF PumpTo, RestingPumps, BusyPumps
              <7> QED BY <7>4 DEF ManagerTypes, ManagerTypeOK
            <6> QED BY <6>1
          <5>2. ~\E at \in {"returned", "next", "publish", "forget"} : PumpTo(i, at)
            BY <1>6, <4>2, <5>1
          <5>3. ~(PumpTake(i) /\ i \in DOMAIN runtimes)
            <6>1. PumpAt("sequence", runtimes[i], Head(pipe[i]), 0).at = "sequence"
              BY DEF PumpAt
            <6> QED BY <1>6, <4>2, <6>1 DEF PumpTake, ManagerTypes, ManagerTypeOK
          <5>4. ~(PumpSequence(i) /\ Valid(pump[i].target))
            <6>1. ASSUME PumpSequence(i), Valid(pump[i].target) PROVE FALSE
              <7>1. PICK at \in {"remember", "publish"}, n \in Nat \cup {NextSequence(i)} :
                        pump' = [pump EXCEPT ![i].at = at, ![i].sequence = n]
                BY <6>1 DEF PumpSequence
              <7>2. PICK r : r = pump[i]
                OBVIOUS
              <7>3. r \in RestingPumps \cup BusyPumps
                BY <1>1, <7>2 DEF ManagerTypes, ManagerTypeOK, PumpType, RestingPumps, BusyPumps
              <7>4. PICK q : q = [r EXCEPT !.at = at, !.sequence = n]
                OBVIOUS
              <7>5. q.at = at
                BY <7>3, <7>4 DEF RestingPumps, BusyPumps
              <7>6. pump' = [pump EXCEPT ![i] = q]
                BY <7>1, <7>2, <7>3, <7>4 DEF RestingPumps, BusyPumps, ManagerTypes, ManagerTypeOK
              <7> QED BY <1>6, <4>2, <7>5, <7>6 DEF ManagerTypes, ManagerTypeOK
            <6> QED BY <6>1
          <5> QED BY <2>2, <4>2, <5>2, <5>3, <5>4
               DEF PumpGoesOn, PumpTake, PumpSequence, PumpRemember, PumpPublish,
                   PumpRemoveClosed, PumpUnregister, PumpForget
        <4> QED BY <4>1, <4>2
      <3>2. PICK u : u = pump[j].target
        OBVIOUS
      <3>3. Agrees(u)' /\ pump'[j].target = u
        BY <1>3, <3>1, <3>2 DEF TargetsAgree
      <3> QED BY <3>3 DEF Agrees
    <2> QED BY <2>1, <2>2
  <1>7. ASSUME NEW j \in DOMAIN runtimes'
        PROVE  Agrees(runtimes[j])' \/ Calling(j, "bind", "route")'
    <2>1. PICK u : u = runtimes[j]
      OBVIOUS
    <2>2. Calling(j, "bind", "route") => Calling(j, "bind", "route")'
      BY <1>1 DEF Calling, Doing
    <2>3. (Agrees(u)' \/ Calling(j, "bind", "route")') /\ runtimes'[j] = u
      BY <1>1, <1>3, <2>1, <2>2 DEF TargetsAgree
    <2> QED BY <2>3 DEF Agrees
  <1> QED BY <1>4, <1>5, <1>6, <1>7 DEF TargetsAgree

\* A call that is elsewhere, before and after.
LEMMA OthersKeepRecords ==
  ASSUME ManagerTypes, NoStrandedRecord, NEW c \in Caller, NEW new,
         calls' = [calls EXCEPT ![c] = new],
         NEW i \in DOMAIN instances,
         DOMAIN runtimes \ {calls[c].target.instance} \subseteq DOMAIN runtimes',
         \A j \in InstanceId : pump[j].at = "unregister" =>
             pump'[j].at = "unregister" \/ j = calls[c].target.instance,
         i # calls[c].target.instance,
         unkilled \subseteq unkilled', overtaken \subseteq overtaken'
  PROVE  \/ i \in DOMAIN runtimes'
         \/ Calling(i, "spawn", "insert")'
         \/ Calling(i, "stop", "unregister")'
         \/ pump'[i].at = "unregister"
         \/ i \in unkilled' \cup overtaken'
  <1>1. \A d \in Caller : d # c => calls'[d] = calls[d]
    BY DEF ManagerTypes, ManagerTypeOK
  <1>2. i \in InstanceId
    BY DEF ManagerTypes, ManagerTypeOK, TypeOK
  <1>3. Calling(i, "spawn", "insert") => Calling(i, "spawn", "insert")'
    BY <1>1 DEF Calling, Doing
  <1>4. Calling(i, "stop", "unregister") => Calling(i, "stop", "unregister")'
    BY <1>1 DEF Calling, Doing
  <1> QED BY <1>2, <1>3, <1>4 DEF NoStrandedRecord

LEMMA RecordsStayOwned ==
  ASSUME ManagerTypes, NoStrandedRecord, NEW c \in Caller, NEW new,
         calls' = [calls EXCEPT ![c] = new],
         ~Doing(c, "spawn", "insert"), ~Doing(c, "stop", "unregister"),
         DOMAIN instances' \subseteq DOMAIN instances,
         DOMAIN runtimes' = DOMAIN runtimes, pump' = pump,
         unkilled \subseteq unkilled', overtaken \subseteq overtaken'
  PROVE  NoStrandedRecord'
  <1>1. \A d \in Caller : d # c => calls'[d] = calls[d]
    BY DEF ManagerTypes, ManagerTypeOK
  <1>2. \A i : Calling(i, "spawn", "insert") => Calling(i, "spawn", "insert")'
    BY <1>1 DEF Calling, Doing
  <1>3. \A i : Calling(i, "stop", "unregister") => Calling(i, "stop", "unregister")'
    BY <1>1 DEF Calling, Doing
  <1> QED BY <1>2, <1>3 DEF NoStrandedRecord

LEMMA CallsStrandNoRecord ==
  ASSUME ManagerTypes, TargetsAgree, NoStrandedRecord, HistoryGrows, NEW c \in Caller,
         CallGoesOn(c)
  PROVE  NoStrandedRecord'
  <1>0. PICK i : i = calls[c].target.instance
    OBVIOUS
  <1>1. CASE SpawnRegister(c)
    <2>1. /\ calls[c] \in SpawnCalls /\ calls[c].op = "spawn" /\ calls[c].at = "register"
          /\ UNCHANGED <<runtimes, pump>>
      BY <1>1, CallIsTyped DEF SpawnRegister, Doing, ManagerTypes
    <2>2. CASE UNCHANGED coordinatorVars
      <3>1. instances' = instances /\ \E new : calls' = [calls EXCEPT ![c] = new]
        BY <2>2, MethodsGoOn DEF coordinatorVars
      <3> QED BY <2>1, <3>1, RecordsStayOwned DEF Doing, HistoryGrows
    <2>3. CASE Register(calls[c].target, "starting") /\ Goto(c, "insert")
      <3>1. PICK new : new = [calls[c] EXCEPT !.at = "insert"]
        OBVIOUS
      <3>2. new.op = "spawn" /\ new.at = "insert" /\ new.target = calls[c].target
        BY <2>1, <3>1 DEF SpawnCalls
      <3>3. calls' = [calls EXCEPT ![c] = new]
        BY <2>3, <3>1 DEF Goto
      <3>4. calls'[c] = new
        BY <3>3 DEF ManagerTypes, ManagerTypeOK
      <3>5. Calling(i, "spawn", "insert")'
        BY <1>0, <3>2, <3>4 DEF Calling, Doing
      <3>6. \A j \in DOMAIN instances' : j = i \/ j \in DOMAIN instances
        BY <1>0, <2>3 DEF Register, Put
      <3>7. \A j \in DOMAIN instances : j # i =>
               \/ j \in DOMAIN runtimes'
               \/ Calling(j, "spawn", "insert")'
               \/ Calling(j, "stop", "unregister")'
               \/ pump'[j].at = "unregister"
             \/ j \in unkilled' \cup overtaken'
               \/ j \in unkilled' \cup overtaken'
        BY <1>0, <2>1, <3>3, OthersKeepRecords DEF HistoryGrows
      <3> QED BY <3>5, <3>6, <3>7 DEF NoStrandedRecord
    <2> QED BY <1>1, <2>2, <2>3 DEF SpawnRegister
  <1>2. CASE SpawnInsert(c)
    <2>1. /\ calls' = [calls EXCEPT ![c] = Idle]
          /\ DOMAIN runtimes' = DOMAIN runtimes \cup {i}
          /\ instances' = instances
      BY <1>0, <1>2 DEF SpawnInsert, Finish, Put, coordinatorVars
    <2>2. \A j \in InstanceId : pump[j].at = "unregister" => pump'[j].at = "unregister" \/ j = i
      BY <1>0, <1>2 DEF SpawnInsert, ManagerTypes, ManagerTypeOK
    <2>3. \A j \in DOMAIN instances : j # i =>
             \/ j \in DOMAIN runtimes'
             \/ Calling(j, "spawn", "insert")'
             \/ Calling(j, "stop", "unregister")'
             \/ pump'[j].at = "unregister"
             \/ j \in unkilled' \cup overtaken'
      BY <1>0, <2>1, <2>2, OthersKeepRecords DEF HistoryGrows
    <2> QED BY <2>1, <2>3 DEF NoStrandedRecord
  <1>3. CASE StopRemove(c)
    <2>1. /\ calls[c] \in StopCalls /\ calls[c].op = "stop" /\ calls[c].at = "remove"
          /\ UNCHANGED <<instances, pump>>
      BY <1>3, CallIsTyped DEF StopRemove, Doing, ManagerTypes, coordinatorVars
    <2>2. CASE runtimes' = runtimes
      <3>1. PICK new : calls' = [calls EXCEPT ![c] = new]
        BY MethodsGoOn
      <3> QED BY <2>1, <2>2, <3>1, RecordsStayOwned DEF Doing, HistoryGrows
    <2>3. CASE runtimes' = Without(runtimes, i) /\ Goto(c, "unregister")
      <3>1. PICK new : new = [calls[c] EXCEPT !.at = "unregister"]
        OBVIOUS
      <3>2. new.op = "stop" /\ new.at = "unregister" /\ new.target = calls[c].target
        BY <2>1, <3>1 DEF StopCalls
      <3>3. calls' = [calls EXCEPT ![c] = new]
        BY <2>3, <3>1 DEF Goto
      <3>4. calls'[c] = new
        BY <3>3 DEF ManagerTypes, ManagerTypeOK
      <3>5. Calling(i, "stop", "unregister")'
        BY <1>0, <3>2, <3>4 DEF Calling, Doing
      <3>6. DOMAIN runtimes \ {i} \subseteq DOMAIN runtimes'
        BY <2>3 DEF Without
      <3>7. \A j \in DOMAIN instances : j # i =>
               \/ j \in DOMAIN runtimes'
               \/ Calling(j, "spawn", "insert")'
               \/ Calling(j, "stop", "unregister")'
               \/ pump'[j].at = "unregister"
             \/ j \in unkilled' \cup overtaken'
               \/ j \in unkilled' \cup overtaken'
        BY <1>0, <2>1, <3>3, <3>6, OthersKeepRecords DEF HistoryGrows
      <3> QED BY <2>1, <3>5, <3>7 DEF NoStrandedRecord
    <2>4. CASE runtimes' = Without(runtimes, i) /\ KillFails(i)
      <3>1. i \in unkilled' /\ DOMAIN runtimes \ {i} \subseteq DOMAIN runtimes'
        BY <2>4 DEF KillFails, Without
      <3>2. PICK new : calls' = [calls EXCEPT ![c] = new]
        BY MethodsGoOn
      <3>3. \A j \in DOMAIN instances : j # i =>
               \/ j \in DOMAIN runtimes'
               \/ Calling(j, "spawn", "insert")'
               \/ Calling(j, "stop", "unregister")'
               \/ pump'[j].at = "unregister"
               \/ j \in unkilled' \cup overtaken'
        BY <1>0, <2>1, <3>1, <3>2, OthersKeepRecords DEF HistoryGrows
      <3> QED BY <2>1, <3>1, <3>3 DEF NoStrandedRecord
    <2> QED BY <1>0, <1>3, <2>2, <2>3, <2>4 DEF StopRemove
  <1>4. CASE StopUnregister(c)
    <2>1. calls[c].op = "stop" /\ UNCHANGED <<runtimes, pump>>
      BY <1>4 DEF StopUnregister, Doing
    <2>2. PICK new : calls' = [calls EXCEPT ![c] = new]
      BY MethodsGoOn
    <2>3. i \in DOMAIN instances => Valid(calls[c].target) \/ i \in overtaken'
      <3>1. Holding(calls[c])
        BY <1>4 DEF StopUnregister, Doing, Holding
      <3>2. Agrees(calls[c].target)
        BY <3>1 DEF TargetsAgree
      <3> QED BY <1>0, <3>2 DEF Agrees, Valid, HistoryGrows
    <2>4. /\ i \notin DOMAIN instances' \/ i \in overtaken'
          /\ DOMAIN instances' \subseteq DOMAIN instances
      <3>1. CASE Valid(calls[c].target)
        BY <1>0, <1>4, <3>1 DEF StopUnregister, Unregister, Without
      <3>2. CASE ~Valid(calls[c].target)
        BY <1>4, <2>3, <3>2 DEF StopUnregister, coordinatorVars
      <3> QED BY <3>1, <3>2
    <2>5. \A j \in DOMAIN instances : j # i =>
             \/ j \in DOMAIN runtimes'
             \/ Calling(j, "spawn", "insert")'
             \/ Calling(j, "stop", "unregister")'
             \/ pump'[j].at = "unregister"
             \/ j \in unkilled' \cup overtaken'
      BY <1>0, <2>1, <2>2, OthersKeepRecords DEF HistoryGrows
    <2> QED BY <2>4, <2>5 DEF NoStrandedRecord
  <1>5. CASE \/ SpawnAttachFails(c) \/ SpawnDiscard(c) \/ StopValidate(c) \/ StopReap(c)
             \/ BindCoordinate(c) \/ BindRoute(c) \/ BindPublish(c)
             \/ RequestAccept(c) \/ RequestSend(c) \/ RequestAnswered(c) \/ RequestFailed(c)
             \/ RequestComplete(c)
             \/ RespondValidate(c) \/ RespondSend(c) \/ RespondForget(c)
    <2>1. ~Doing(c, "spawn", "insert") /\ ~Doing(c, "stop", "unregister")
      BY <1>5 DEF SpawnAttachFails, SpawnDiscard, StopValidate, StopReap, BindCoordinate, BindRoute,
           BindPublish, RequestAccept, RequestSend, RequestAnswered, RequestFailed,
           RequestComplete, RespondValidate, RespondSend, RespondForget, Doing
    <2>2. /\ DOMAIN runtimes' = DOMAIN runtimes /\ UNCHANGED pump
          /\ DOMAIN instances' \subseteq DOMAIN instances
      BY <1>5 DEF SpawnAttachFails, SpawnDiscard, StopValidate, StopReap, BindCoordinate, BindRoute,
           BindPublish, RequestAccept, RequestSend, RequestAnswered, RequestFailed,
           RequestComplete, RespondValidate, RespondSend, RespondForget, coordinatorVars,
           AcceptMutation, CompleteMutation, EmitEvent, historyVars
    <2>3. PICK new : calls' = [calls EXCEPT ![c] = new]
      BY MethodsGoOn
    <2> QED BY <2>1, <2>2, <2>3, RecordsStayOwned DEF HistoryGrows
  <1> QED BY <1>1, <1>2, <1>3, <1>4, <1>5 DEF CallGoesOn

LEMMA PumpsStrandNoRecord ==
  ASSUME ManagerTypes, TargetsAgree, NoStrandedRecord, HistoryGrows, NEW i \in InstanceId,
         PumpGoesOn(i)
  PROVE  NoStrandedRecord'
  <1>0. /\ calls' = calls /\ DOMAIN instances' \subseteq DOMAIN instances
        /\ pump \in [InstanceId -> PumpType] /\ DOMAIN instances \subseteq InstanceId
        /\ pump[i].at # "off"
        /\ pump[i].target.instance = i
    BY DEF PumpGoesOn, PumpTake, PumpSequence, PumpRemember, PumpPublish, PumpRemoveClosed,
           PumpUnregister, PumpForget, coordinatorVars, Unregister, Without, ManagerTypes,
           ManagerTypeOK, TypeOK, RoutesAreOwn
  <1>1. \A j : /\ Calling(j, "spawn", "insert") <=> Calling(j, "spawn", "insert")'
               /\ Calling(j, "stop", "unregister") <=> Calling(j, "stop", "unregister")'
    BY <1>0 DEF Calling, Doing
  <1>2. \A j \in InstanceId : j # i => pump'[j] = pump[j]
    BY <1>0 DEF PumpGoesOn, PumpTake, PumpSequence, PumpRemember, PumpPublish, PumpRemoveClosed,
           PumpUnregister, PumpForget, PumpTo
  <1>3. DOMAIN runtimes \ {i} \subseteq DOMAIN runtimes'
    BY DEF PumpGoesOn, PumpTake, PumpSequence, PumpRemember, PumpPublish, PumpRemoveClosed,
           PumpUnregister, PumpForget, Without
  <1>4. i \in DOMAIN instances' =>
            \/ i \in DOMAIN runtimes'
            \/ Calling(i, "spawn", "insert")'
            \/ Calling(i, "stop", "unregister")'
            \/ pump'[i].at = "unregister"
            \/ i \in unkilled' \cup overtaken'
    <2>1. CASE PumpUnregister(i)
      <3>1. Agrees(pump[i].target)
        BY <2>1 DEF PumpUnregister, TargetsAgree
      <3>2. i \in DOMAIN instances => Valid(pump[i].target) \/ i \in overtaken'
        BY <1>0, <3>1 DEF Agrees, Valid, HistoryGrows
      <3> QED BY <1>0, <2>1, <3>2 DEF PumpUnregister, Unregister, Without
    <2>2. CASE PumpRemoveClosed(i) /\ i \in DOMAIN runtimes
      <3>1. PICK r : r = pump[i]
        OBVIOUS
      <3>2. r \in RestingPumps \cup BusyPumps
        BY <1>0, <3>1 DEF PumpType, RestingPumps, BusyPumps
      <3>3. PICK q : q = [pump[i] EXCEPT !.at = "unregister", !.target = runtimes[i]]
        OBVIOUS
      <3>4. q.at = "unregister"
        BY <3>1, <3>2, <3>3 DEF RestingPumps, BusyPumps
      <3>5. pump'[i] = q
        BY <1>0, <2>2, <3>3 DEF PumpRemoveClosed
      <3> QED BY <3>4, <3>5
    <2>3. CASE ~PumpUnregister(i) /\ ~(PumpRemoveClosed(i) /\ i \in DOMAIN runtimes)
      <3>1. runtimes' = runtimes /\ pump[i].at # "unregister"
        BY <2>3 DEF PumpGoesOn, PumpTake, PumpSequence, PumpRemember, PumpPublish,
               PumpRemoveClosed, PumpUnregister, PumpForget
      <3> QED BY <1>0, <1>1, <3>1 DEF NoStrandedRecord, HistoryGrows
    <2> QED BY <2>1, <2>2, <2>3
  <1> QED BY <1>0, <1>1, <1>2, <1>3, <1>4 DEF NoStrandedRecord, HistoryGrows

\* A record is left behind by nothing but a kill that failed and a binding that ran into
\* the use of a target read before it: else whoever takes a process away, stop or closing
\* pump, holds the registered target, and its unregistration is not refused.
THEOREM RecordsAreNotStranded == ManagerSpec => []NoStrandedRecord
  <1>1. ManagerInit => TargetsAgree /\ NoStrandedRecord
    <2> SUFFICES ASSUME ManagerInit PROVE TargetsAgree /\ NoStrandedRecord
      OBVIOUS
    <2>1. /\ DOMAIN instances = {} /\ DOMAIN runtimes = {}
          /\ \A c \in Caller : calls[c].op = "idle"
      BY CallFields DEF ManagerInit, Init
    <2> QED BY <2>1 DEF TargetsAgree, NoStrandedRecord, Agrees, Doing, Holding
  <1>2. ASSUME ManagerTypes, FreshInstances, TargetsAgree, NoStrandedRecord,
               [ManagerNext]_managerVars
        PROVE  TargetsAgree' /\ NoStrandedRecord'
    <2>1. ASSUME UNCHANGED <<instances, runtimes, pump, calls, historyVars>>
          PROVE  TargetsAgree' /\ NoStrandedRecord'
      <3>1. UNCHANGED <<unkilled, overtaken>>
        BY <2>1 DEF historyVars
      <3>2. TargetsAgree'
        BY <1>2, <2>1, <3>1 DEF TargetsAgree, Agrees, Holding, Doing, Calling, NewRoute
      <3>3. NoStrandedRecord'
        BY <1>2, <2>1, <3>1 DEF NoStrandedRecord, Calling, Doing
      <3> QED BY <3>2, <3>3
    <2>2. CASE UNCHANGED managerVars
      BY <2>1, <2>2 DEF managerVars
    <2>3. ASSUME NEW c \in Caller, CallBegins(c) PROVE TargetsAgree' /\ NoStrandedRecord'
      <3>1. TargetsAgree'
        BY <1>2, <2>3, BeginsAgree
      <3>2. UNCHANGED <<instances, runtimes, pump, unkilled, overtaken>> /\ calls[c] = Idle
        BY <2>3 DEF CallBegins, SpawnBegin, StopBegin, StopSetBegin, RestartBegin, BindBegin,
           RequestBegin, RespondBegin, Begin, coordinatorVars, historyVars
      <3>3. \E new : calls' = [calls EXCEPT ![c] = new]
        BY <2>3 DEF CallBegins, SpawnBegin, StopBegin, StopSetBegin, RestartBegin, BindBegin,
           RequestBegin, RespondBegin, Begin
      <3>4. ~Doing(c, "spawn", "insert") /\ ~Doing(c, "stop", "unregister")
        BY <3>2, CallFields DEF Doing
      <3> QED BY <1>2, <3>1, <3>2, <3>3, <3>4, RecordsStayOwned
    <2>4. ASSUME NEW c \in Caller, CallGoesOn(c) PROVE TargetsAgree' /\ NoStrandedRecord'
      <3>1. HistoryGrows
        BY <1>2, <2>4, HistoryTypes DEF ManagerNext
      <3> QED BY <1>2, <2>4, <3>1, CallsAgree, CallsStrandNoRecord
    <2>5. ASSUME NEW i \in InstanceId, PumpGoesOn(i) PROVE TargetsAgree' /\ NoStrandedRecord'
      <3>1. HistoryGrows
        BY <1>2, <2>5, HistoryTypes DEF ManagerNext
      <3> QED BY <1>2, <2>5, <3>1, PumpsAgree, PumpsStrandNoRecord
    <2>6. ASSUME NEW i \in InstanceId, PiGoesOn(i) PROVE TargetsAgree' /\ NoStrandedRecord'
      BY <2>1, <2>6 DEF PiGoesOn, PiWrite, PiRun, PiExit, coordinatorVars
    <2> QED BY <1>2, <2>2, <2>3, <2>4, <2>5, <2>6 DEF ManagerNext
  <1>3. ManagerTypes /\ FreshInstances /\ TargetsAgree /\ NoStrandedRecord
            /\ [ManagerNext]_managerVars => TargetsAgree' /\ NoStrandedRecord'
    BY <1>2
  <1> QED BY <1>1, <1>3, TypesAlways, FreshAlways, PTL DEF ManagerSpec

=============================================================================
