--------------------------- MODULE ChatChannelProofs ---------------------------
(***************************************************************************)
(* Proofs about ChatChannel, for any number of sessions, connections and   *)
(* updates, any bounds on the faults and any choice of albums and commands.*)
(*                                                                         *)
(* TypesHold and HandoversHaveNoGap follow from one inductive invariant,   *)
(* HandoverInvariant.  What Telegram was told to forget and what a         *)
(* checkpoint in the log covers is accounted for (ForgottenAreAccounted,   *)
(* CheckpointsAreSafe): logged, excused, or an album.  That takes, of each *)
(* connection, that what its poll loop has passed is logged or being       *)
(* written by that same loop, that its batch has no hole, and that every   *)
(* write that may still reach the log keeps the order (InOrder); and that  *)
(* only the connection that holds the session's runtime still moves.       *)
(*                                                                         *)
(* StraysWereOnTheirWay adds StraysAreBounded: the record a task had past  *)
(* the fence when the channel was claimed is the last one it adds under    *)
(* that claim.                                                             *)
(*                                                                         *)
(* OneTurnPerMessage adds TurnsInvariant.  Only the last connection of the *)
(* session that holds the channel serves it, and what was asked for before *)
(* is behind its poll loop or in the batch of its catch-up, which is not   *)
(* armed; a connection handles an update of its batch once.  An album is   *)
(* in one place of a connection at most: held, in the write of its timer,  *)
(* or asked for, and it is not taken again; AlbumsOfSessions adds that a   *)
(* later connection of the session has it behind its poll loop, or gets it *)
(* while it catches up.                                                    *)
(*                                                                         *)
(* The steps come in lemmas of their own, by what they touch: side steps   *)
(* of a session, the poll loop, the taking of an update, the three moments *)
(* of an append, crashes.                                                  *)
(***************************************************************************)
EXTENDS ChatChannel, TLAPS

-----------------------------------------------------------------------------
(* Types.                                                                    *)

LEMMA LargestIsOne ==
    ASSUME NEW S
    PROVE  Largest(S) \in S \/ Largest(S) = 0
<1> DEFINE IsLargest(x) == \A y \in S : y <= x
<1>1. CASE \E x \in S : IsLargest(x)
  <2>1. (CHOOSE x \in S : IsLargest(x)) \in S
    BY <1>1
  <2> QED
    BY <1>1, <2>1 DEF Largest
<1>2. CASE ~ \E x \in S : IsLargest(x)
  BY <1>2 DEF Largest
<1> QED
  BY <1>1, <1>2

LEMMA RecordIsTyped ==
    ASSUME NEW c \in Connections, NEW k \in RuntimeType, NEW kind \in Kinds,
           NEW update \in Nat, NEW ref \in Int
    PROVE  /\ Record(c, k, kind, update, ref) \in RecordType
           /\ Record(c, k, kind, update, ref).kind = kind
           /\ Record(c, k, kind, update, ref).update = update
BY DEF Record, RecordType, RuntimeType, Kinds

LEMMA WritingIsTyped ==
    ASSUME NEW rec \in RecordType
    PROVE  /\ Writing(rec) \in Seq(WriteType) /\ Writing(rec) # <<>>
           /\ Writing(rec)[1].rec = rec /\ ~Writing(rec)[1].fenced
BY DEF Writing, WriteType

LEMMA LogIsTyped ==
    ASSUME TypeOK, NEW i \in DOMAIN log
    PROVE  log[i] \in LogRecordType
BY DEF TypeOK

LEMMA LoadedIsTyped ==
    ASSUME TypeOK, NEW k \in RuntimeType
    PROVE  /\ Loaded(k) \in RuntimeType
           /\ Loaded(k).owner = k.owner /\ Loaded(k).lost = k.lost
           /\ LoadedCursor \in Nat
<1> DEFINE last == Largest({log[i].id : i \in DOMAIN log})
           queued == Largest(Ids("job_queued"))
           boundary == Largest(Ids("job_completed") \cup Ids("job_failed"))
           heard == {[id |-> log[i].id, update |-> log[i].update] :
                        i \in {j \in DOMAIN log : log[j].kind = "inbound"}}
<1>1. LoadedCursor \in Nat
  <2>1. {log[i].update : i \in LastById("checkpoint")} \subseteq Nat
    BY LogIsTyped DEF LastById, LogRecordType
  <2> QED
    BY <2>1, LargestIsOne DEF LoadedCursor
<1>2. \A kind : Ids(kind) \subseteq Int
  BY LogIsTyped DEF Ids, LogRecordType
<1>3. last \in Int
  <2>1. {log[i].id : i \in DOMAIN log} \subseteq Int
    BY LogIsTyped DEF LogRecordType
  <2> QED
    BY <2>1, LargestIsOne
<1>4. queued \in Int
  BY <1>2, LargestIsOne
<1>5. boundary \in Int
  <2>1. Ids("job_completed") \cup Ids("job_failed") \subseteq Int
    BY <1>2
  <2> QED
    BY <2>1, LargestIsOne
<1>6. heard \in SUBSET [id : Int, update : Nat]
  BY LogIsTyped DEF LogRecordType
<1>7. last + 1 \in Int
  BY <1>3
<1>8. Loaded(k) = [k EXCEPT !.next = last + 1, !.tail = last, !.cursor = LoadedCursor, !.queued = queued,
                            !.boundary = boundary, !.heard = heard]
  BY DEF Loaded
<1> HIDE DEF last, queued, boundary, heard
<1> QED
  BY <1>1, <1>3, <1>4, <1>5, <1>6, <1>7, <1>8 DEF RuntimeType

LEMMA PushedIsTyped ==
    ASSUME NEW k \in RuntimeType, NEW rec \in RecordType
    PROVE  /\ Pushed(k, rec) \in RuntimeType
           /\ Pushed(k, rec).owner = k.owner /\ Pushed(k, rec).lost = k.lost
<1> DEFINE next == IF rec.id + 1 > k.next THEN rec.id + 1 ELSE k.next
           cursor == IF rec.kind = "checkpoint" THEN rec.update ELSE k.cursor
           queued == IF rec.kind = "job_queued" /\ rec.ref > k.queued THEN rec.ref ELSE k.queued
           boundary == IF rec.kind \in {"job_completed", "job_failed"} /\ rec.ref > k.boundary
                       THEN rec.ref ELSE k.boundary
           heard == IF rec.kind = "inbound" THEN k.heard \cup {[id |-> rec.id, update |-> rec.update]}
                    ELSE k.heard
<1>1. next \in Int /\ queued \in Int /\ boundary \in Int /\ cursor \in Nat /\ rec.id \in Int
  BY DEF RuntimeType, RecordType
<1>2. heard \in SUBSET [id : Int, update : Nat]
  BY DEF RuntimeType, RecordType
<1>3. Pushed(k, rec) = [k EXCEPT !.next = next, !.tail = rec.id, !.cursor = cursor, !.queued = queued,
                                 !.boundary = boundary, !.heard = heard]
  BY DEF Pushed
<1> HIDE DEF next, cursor, queued, boundary, heard
<1> QED
  BY <1>1, <1>2, <1>3 DEF RuntimeType

LEMMA FinishedIsTyped ==
    ASSUME NEW k \in RuntimeType, NEW rec \in RecordType
    PROVE  /\ Finished(k, rec) \in RuntimeType
           /\ Finished(k, rec).owner = k.owner /\ Finished(k, rec).lost = k.lost
<1>1. Append(k.pending, rec.ref) \in Seq(Int) /\ <<>> \in Seq(Int)
  BY DEF RuntimeType, RecordType
<1>2. CASE rec.kind = "job_queued"
  <2>1. Finished(k, rec) = [k EXCEPT !.pending = Append(k.pending, rec.ref)]
    BY <1>2 DEF Finished
  <2> QED
    BY <1>1, <2>1 DEF RuntimeType
<1>3. CASE rec.kind \in {"job_completed", "job_failed"}
  <2>1. Finished(k, rec) = [k EXCEPT !.active = <<>>]
    BY <1>3 DEF Finished
  <2> QED
    BY <1>1, <2>1 DEF RuntimeType
<1>4. CASE rec.kind \notin {"job_queued", "job_completed", "job_failed"}
  BY <1>4 DEF Finished
<1> QED
  BY <1>2, <1>3, <1>4

LEMMA TriggerIsTyped ==
    ASSUME NEW c \in Connections, NEW k \in RuntimeType, NEW update \in Nat, NEW id \in Int
    PROVE  /\ Trigger(c, k, update, id) \in Seq(WriteType)
           /\ Trigger(c, k, update, id) # <<>> =>
                /\ Trigger(c, k, update, id)[1].rec.kind = "job_queued"
                /\ ~Trigger(c, k, update, id)[1].fenced
<1> DEFINE rec == Record(c, k, "job_queued", update, id)
<1>1. CASE WantsTurn(k, id)
  <2>1. rec \in RecordType /\ rec.kind = "job_queued"
    BY DEF Record, RecordType, RuntimeType, Kinds
  <2>2. Trigger(c, k, update, id) = Writing(rec)
    BY <1>1 DEF Trigger
  <2> HIDE DEF rec
  <2> QED
    BY <2>1, <2>2, WritingIsTyped
<1>2. CASE ~WantsTurn(k, id)
  BY <1>2 DEF Trigger
<1> QED
  BY <1>1, <1>2

LEMMA FollowUpIsTyped ==
    ASSUME NEW c \in Connections, NEW k \in RuntimeType, NEW rec \in RecordType
    PROVE  /\ FollowUp(c, k, rec) \in Seq(WriteType)
           /\ FollowUp(c, k, rec) # <<>> =>
                /\ ~FollowUp(c, k, rec)[1].fenced
                /\ FollowUp(c, k, rec)[1].rec.kind # "inbound"
                /\ FollowUp(c, k, rec)[1].rec.kind = "checkpoint" =>
                      rec.kind = "inbound" /\ FollowUp(c, k, rec)[1].rec.update = rec.update
<1>1. rec.update \in Nat /\ rec.ref \in Int /\ rec.id \in Int
  BY DEF RecordType
<1>2. CASE rec.kind = "inbound" /\ k.cursor # rec.update
  <2> DEFINE new == Record(c, k, "checkpoint", rec.update, rec.id)
  <2>1. new \in RecordType /\ new.kind = "checkpoint" /\ new.update = rec.update
    BY <1>1 DEF Record, RecordType, RuntimeType, Kinds
  <2>2. FollowUp(c, k, rec) = Writing(new)
    BY <1>2 DEF FollowUp
  <2> HIDE DEF new
  <2> QED
    BY <1>2, <2>1, <2>2, WritingIsTyped
<1>3. CASE rec.kind = "inbound" /\ k.cursor = rec.update
  BY <1>1, <1>3, TriggerIsTyped DEF FollowUp
<1>4. CASE rec.kind = "checkpoint"
  BY <1>1, <1>4, TriggerIsTyped DEF FollowUp
<1>5. CASE rec.kind = "outbound"
  <2> DEFINE new == Record(c, k, "job_completed", 0, rec.ref)
  <2>1. new \in RecordType /\ new.kind = "job_completed"
    BY <1>1 DEF Record, RecordType, RuntimeType, Kinds
  <2>2. FollowUp(c, k, rec) = Writing(new)
    BY <1>5 DEF FollowUp
  <2> HIDE DEF new
  <2> QED
    BY <2>1, <2>2, WritingIsTyped
<1>6. CASE rec.kind \notin {"inbound", "checkpoint", "outbound"}
  BY <1>6 DEF FollowUp
<1> QED
  BY <1>2, <1>3, <1>4, <1>5, <1>6

-----------------------------------------------------------------------------
(* What a step leaves of the owners and the sessions.                        *)

\* A connection keeps its session and does not get the channel back.
OwnersStay(rts) ==
    \A d \in Connections :
        rts[d].owner = runtimes[d].owner /\ (runtimes[d].lost => rts[d].lost)

\* A session keeps its connection and gives its runtime up at most.
SessionsStay ==
    \A z \in Sessions :
        sessions'[z].connection = sessions[z].connection /\ (sessions'[z].current => sessions[z].current)

\* v is session s after a step that gives its runtime up at most.
StaysAs(s, v) ==
    v \in SessionType /\ v.connection = sessions[s].connection /\ (v.current => sessions[s].current)

CurrentIsConnected == \A z \in Sessions : sessions[z].current => sessions[z].connection # NoConnection
RuntimesAreOwned == \A z \in Sessions : sessions[z].current => Owner(sessions[z].connection) = z

LEMMA SessionReplaced ==
    ASSUME TypeOK, NEW s \in Sessions, NEW v, StaysAs(s, v), sessions' = [sessions EXCEPT ![s] = v]
    PROVE  sessions' \in [Sessions -> SessionType] /\ SessionsStay
BY DEF TypeOK, StaysAs, SessionsStay

LEMMA TryDispatchStays ==
    ASSUME TypeOK, CurrentIsConnected, NEW rts \in [Connections -> RuntimeType], OwnersStay(rts),
           NEW s \in Sessions, NEW v, StaysAs(s, v), TryDispatch(rts, s, v)
    PROVE  /\ runtimes' \in [Connections -> RuntimeType] /\ OwnersStay(runtimes')
           /\ sessions' \in [Sessions -> SessionType] /\ SessionsStay
           /\ prompted' \subseteq Nat
           /\ \A d \in Connections : runtimes'[d].lost = rts[d].lost
<1> DEFINE c == v.connection
           k == rts[c]
           w == [v EXCEPT !.inFlight = TRUE, !.agent = "chat"]
           new == [k EXCEPT !.active = <<Head(k.pending)>>, !.pending = Tail(@)]
           Starts == v.current /\ ~v.inFlight /\ v.agent = "idle" /\ k.active = <<>> /\ k.pending # <<>>
<1>1. CASE Starts
  <2>1. c \in Connections
    BY <1>1 DEF StaysAs, CurrentIsConnected, SessionType
  <2>2. runtimes' = [rts EXCEPT ![c] = new] /\ sessions' = [sessions EXCEPT ![s] = w]
        /\ prompted' = prompted \cup Prompt(k, Head(k.pending))
    BY <1>1 DEF TryDispatch
  <2>3. k \in RuntimeType
    BY <2>1
  <2>4. Head(k.pending) \in Int /\ Tail(k.pending) \in Seq(Int) /\ <<Head(k.pending)>> \in Seq(Int)
    <3>1. k.pending \in Seq(Int)
      BY <2>3 DEF RuntimeType
    <3> QED
      BY <1>1, <3>1
  <2>5. new \in RuntimeType /\ new.owner = k.owner /\ new.lost = k.lost
    <3> HIDE DEF k
    <3> QED
      BY <2>3, <2>4 DEF RuntimeType
  <2>6. Prompt(k, Head(k.pending)) \subseteq Nat
    BY <2>3 DEF Prompt, RuntimeType
  <2>7. StaysAs(s, w)
    BY DEF StaysAs, SessionType
  <2>8. sessions' \in [Sessions -> SessionType] /\ SessionsStay
    <3> HIDE DEF w
    <3> QED
      BY <2>2, <2>7, SessionReplaced
  <2>9. /\ runtimes' \in [Connections -> RuntimeType] /\ OwnersStay(runtimes')
        /\ \A d \in Connections : runtimes'[d].lost = rts[d].lost
    <3> HIDE DEF new, c
    <3> QED
      BY <2>1, <2>2, <2>5 DEF OwnersStay, k
  <2> QED
    BY <2>2, <2>6, <2>8, <2>9 DEF TypeOK
<1>2. CASE ~Starts
  <2>1. runtimes' = rts /\ sessions' = [sessions EXCEPT ![s] = v] /\ prompted' = prompted
    BY <1>2 DEF TryDispatch
  <2> QED
    BY <2>1, SessionReplaced DEF TypeOK
<1> QED
  BY <1>1, <1>2

LEMMA ContinueStays ==
    ASSUME TypeOK, CurrentIsConnected, NEW c \in Connections, NEW t \in Tasks, Owner(c) \in Sessions,
           NEW rts \in [Connections -> RuntimeType], OwnersStay(rts),
           NEW v, StaysAs(Owner(c), v), NEW rec \in RecordType, Continue(c, t, rts, v, rec)
    PROVE  /\ runtimes' \in [Connections -> RuntimeType] /\ OwnersStay(runtimes')
           /\ sessions' \in [Sessions -> SessionType] /\ SessionsStay
           /\ writes' \in [Connections -> [Tasks -> Seq(WriteType)]]
           /\ writes' = [writes EXCEPT ![c][t] = FollowUp(c, rts[c], rec)]
           /\ prompted' \subseteq Nat
           /\ \A d \in Connections : runtimes'[d].lost = rts[d].lost
<1> DEFINE next == FollowUp(c, rts[c], rec)
           done == [rts EXCEPT ![c] = Finished(@, rec)]
<1>1. rts[c] \in RuntimeType
  OBVIOUS
<1>2. next \in Seq(WriteType)
  BY <1>1, FollowUpIsTyped
<1>3. writes' = [writes EXCEPT ![c][t] = next]
  BY DEF Continue
<1>4. writes' \in [Connections -> [Tasks -> Seq(WriteType)]]
  <2> HIDE DEF next
  <2> QED
    BY <1>2, <1>3 DEF TypeOK
<1>5. /\ done \in [Connections -> RuntimeType] /\ OwnersStay(done)
      /\ \A d \in Connections : done[d].lost = rts[d].lost
  <2>1. Finished(rts[c], rec) \in RuntimeType /\ Finished(rts[c], rec).owner = rts[c].owner
        /\ Finished(rts[c], rec).lost = rts[c].lost
    BY <1>1, FinishedIsTyped
  <2> QED
    BY <2>1 DEF OwnersStay
<1>6. CASE next = <<>> /\ rec.kind # "error"
  <2>1. TryDispatch([rts EXCEPT ![c] = Finished(rts[c], rec)], Owner(c), v)
    BY <1>6 DEF Continue
  <2>2. TryDispatch(done, Owner(c), v)
    BY <2>1
  <2> HIDE DEF done, next
  <2> QED
    BY <1>3, <1>4, <1>5, <2>2, TryDispatchStays DEF next
<1>7. CASE ~(next = <<>> /\ rec.kind # "error")
  <2>1. runtimes' = rts /\ sessions' = [sessions EXCEPT ![Owner(c)] = v] /\ prompted' = prompted
    BY <1>7 DEF Continue
  <2> QED
    BY <1>3, <1>4, <2>1, SessionReplaced DEF TypeOK
<1> QED
  BY <1>6, <1>7

LEMMA NoticedStays ==
    ASSUME TypeOK, NEW s \in Sessions
    PROVE  StaysAs(s, Noticed(sessions[s])) /\ StaysAs(s, sessions[s])
BY DEF TypeOK, StaysAs, SessionType, Noticed

LEMMA FinishJobStays ==
    ASSUME TypeOK, CurrentIsConnected, NEW s \in Sessions, NEW v, StaysAs(s, v),
           NEW kind \in {"outbound", "job_failed"}, FinishJob(s, v, kind)
    PROVE  /\ runtimes' \in [Connections -> RuntimeType] /\ OwnersStay(runtimes')
           /\ sessions' \in [Sessions -> SessionType] /\ SessionsStay
           /\ writes' \in [Connections -> [Tasks -> Seq(WriteType)]]
           /\ \A d \in Connections, t \in Tasks :
                 \/ writes'[d][t] = writes[d][t]
                 \/ /\ t = "turn" /\ writes'[d][t] # <<>> /\ ~writes'[d][t][1].fenced
                    /\ d = v.connection /\ v.current
                    /\ writes'[d][t][1].rec.kind \notin {"inbound", "checkpoint"}
           /\ prompted' \subseteq Nat
<1> DEFINE c == v.connection
           job == runtimes[c].active
<1>1. runtimes \in [Connections -> RuntimeType] /\ OwnersStay(runtimes) /\ prompted \subseteq Nat
      /\ writes \in [Connections -> [Tasks -> Seq(WriteType)]]
  BY DEF TypeOK, OwnersStay
<1>2. CASE ~v.current
  <2>1. sessions' = [sessions EXCEPT ![s] = v] /\ UNCHANGED <<runtimes, writes, prompted>>
    BY <1>2 DEF FinishJob
  <2> QED
    BY <1>1, <2>1, SessionReplaced DEF OwnersStay
<1>3. CASE v.current /\ job = <<>>
  <2>1. TryDispatch(runtimes, s, v) /\ writes' = writes
    BY <1>3 DEF FinishJob
  <2> QED
    BY <1>1, <2>1, TryDispatchStays
<1>4. CASE v.current /\ job # <<>>
  <2> DEFINE rec == Record(c, runtimes[c], kind, 0, job[1])
  <2>1. c \in Connections
    BY <1>4 DEF StaysAs, CurrentIsConnected, SessionType
  <2>2. job[1] \in Int
    BY <1>1, <1>4, <2>1 DEF RuntimeType
  <2>3. rec \in RecordType /\ rec.kind = kind
    BY <1>1, <2>1, <2>2 DEF Record, RecordType, RuntimeType, Kinds
  <2>4. writes' = [writes EXCEPT ![c]["turn"] = Writing(rec)] /\ sessions' = [sessions EXCEPT ![s] = v]
        /\ UNCHANGED <<runtimes, prompted>>
    BY <1>4 DEF FinishJob
  <2> DEFINE new == Writing(rec)
  <2>5. new \in Seq(WriteType) /\ new # <<>> /\ new[1].rec.kind = kind /\ ~new[1].fenced
    BY <2>3, WritingIsTyped
  <2>6. writes' \in [Connections -> [Tasks -> Seq(WriteType)]]
    <3> HIDE DEF new
    <3> QED
      BY <1>1, <2>1, <2>4, <2>5 DEF new
  <2>7. ASSUME NEW d \in Connections, NEW t \in Tasks, ~(d = c /\ t = "turn")
        PROVE  writes'[d][t] = writes[d][t]
    <3> HIDE DEF c, rec
    <3> QED
      BY <1>1, <2>1, <2>4, <2>7
  <2>8. writes'[c]["turn"] = new
    <3> HIDE DEF c, rec
    <3> QED
      BY <1>1, <2>1, <2>4 DEF Tasks
  <2>9. sessions' \in [Sessions -> SessionType] /\ SessionsStay
    BY <2>4, SessionReplaced
  <2>10. OwnersStay(runtimes') /\ runtimes' \in [Connections -> RuntimeType] /\ prompted' \subseteq Nat
    BY <1>1, <2>4 DEF OwnersStay
  <2> HIDE DEF new
  <2> QED
    BY <1>4, <2>5, <2>6, <2>7, <2>8, <2>9, <2>10
<1> QED
  BY <1>2, <1>3, <1>4

-----------------------------------------------------------------------------
(* The invariant.                                                            *)

\* The update is in the log, or among those that need not be.
Accounted(v) == Logged(v) \/ v \in excused \/ v \in Albums
AllBelow(n) == \A v \in 1 .. n - 1 : Accounted(v)

\* HandoverWithoutGap, of every update Telegram forgot.
ForgottenAreAccounted == AllBelow(telegram.confirmed + 1)

\* Who connects reads the last checkpoint and asks for what comes after it.
CheckpointsAreSafe ==
    \A i \in DOMAIN log : log[i].kind = "checkpoint" => AllBelow(log[i].update + 1)

UnusedAreIdle(c) ==
    /\ Owner(c) = NoOwner => polls[c].at = "off" /\ \A t \in Tasks : writes[c][t] = <<>>
    /\ polls[c].at \in {"off", "claiming", "reading"} =>
          polls[c].offset = 0 /\ polls[c].batch = {} /\ polls[c].held = {}

\* A poll loop that runs belongs to the last connection its session made.
ConnectedIsLast(c) ==
    polls[c].at \notin {"off", "ended"} => Owner(c) \in Sessions /\ sessions[Owner(c)].connection = c

\* What is forgotten next is accounted for before the request is made.
AsksForTheRest(c) == polls[c].at \in {"initial", "fetching"} => AllBelow(polls[c].offset)

BeingWritten(c, v) ==
    writes[c]["poll"] # <<>> /\ writes[c]["poll"][1].rec.kind = "inbound" /\ writes[c]["poll"][1].rec.update = v

\* The session still works with the runtime, and it has seen no other owner yet.
Holds(c) == Owner(c) \in Sessions /\ HasRuntime(c) /\ ~runtimes[c].lost

PassedAreCovered(c) ==
    Holds(c) => \A v \in 1 .. polls[c].offset - 1 : Accounted(v) \/ BeingWritten(c, v)

BatchIsAhead(c) == \A v \in polls[c].batch : polls[c].offset <= v \/ v \in Albums

BatchHasNoHoles(c) ==
    \A u \in polls[c].batch : \A v \in 1 .. u - 1 :
        v < polls[c].offset \/ v \in polls[c].batch \/ Accounted(v)

HeldInOrder(c) == Holds(c) => \A u \in polls[c].held : AllBelow(u)

\* A message reaches the log after all before it, and its checkpoint after it:
\* of the writes that the fence let or will let pass.
Safe(rec) ==
    /\ rec.kind = "inbound" => AllBelow(rec.update)
    /\ rec.kind = "checkpoint" => AllBelow(rec.update + 1)

WritesInOrder(c) ==
    \A t \in Tasks :
        writes[c][t] # <<>> /\ (writes[c][t][1].fenced \/ ~runtimes[c].lost) => Safe(writes[c][t][1].rec)

InOrder(c) ==
    /\ UnusedAreIdle(c) /\ ConnectedIsLast(c) /\ AsksForTheRest(c) /\ PassedAreCovered(c)
    /\ BatchIsAhead(c) /\ BatchHasNoHoles(c) /\ HeldInOrder(c) /\ WritesInOrder(c)

HandoverInvariant ==
    /\ TypeOK /\ CurrentIsConnected /\ RuntimesAreOwned
    /\ ForgottenAreAccounted /\ CheckpointsAreSafe
    /\ \A c \in Connections : InOrder(c)

-----------------------------------------------------------------------------
(* Steps.                                                                    *)

\* What is accounted for stays so.
Grows == \A v : Accounted(v) => Accounted(v)'

LEMMA QuietGrows ==
    ASSUME log' = log, excused \subseteq excused'
    PROVE  Grows
BY DEF Grows, Accounted, Logged

LEMMA BelowGrows ==
    ASSUME Grows, NEW n, AllBelow(n)
    PROVE  \A v \in 1 .. n - 1 : Accounted(v)'
BY DEF Grows, AllBelow

\* A step that appends nothing and asks for nothing.
LEMMA QuietStep ==
    ASSUME HandoverInvariant, TypeOK', CurrentIsConnected', RuntimesAreOwned', log' = log, excused \subseteq excused',
           telegram'.confirmed = telegram.confirmed, \A c \in Connections : InOrder(c)'
    PROVE  HandoverInvariant'
<1>1. Grows
  BY QuietGrows
<1>2. ForgottenAreAccounted'
  BY <1>1 DEF HandoverInvariant, ForgottenAreAccounted, AllBelow, Grows
<1>3. CheckpointsAreSafe'
  BY <1>1 DEF HandoverInvariant, CheckpointsAreSafe, AllBelow, Grows
<1> QED
  BY <1>2, <1>3 DEF HandoverInvariant

\* A connection whose poll loop does nothing but let go of albums, and whose
\* other tasks start at most writes that are neither messages nor checkpoints.
LEMMA Bystander ==
    ASSUME TypeOK, TypeOK', Grows, NEW d \in Connections, InOrder(d),
           runtimes'[d].owner = runtimes[d].owner, runtimes[d].lost => runtimes'[d].lost,
           Holds(d)' => Holds(d), ConnectedIsLast(d)',
           polls'[d].at = polls[d].at, polls'[d].offset = polls[d].offset,
           polls'[d].batch = polls[d].batch, polls'[d].held \subseteq polls[d].held,
           \A t \in Tasks :
              \/ writes'[d][t] = writes[d][t]
              \/ /\ t # "poll" /\ Owner(d) # NoOwner
                 /\ writes'[d][t] # <<>> => writes'[d][t][1].rec.kind \notin {"inbound", "checkpoint"}
    PROVE  InOrder(d)'
<1>1. UnusedAreIdle(d)'
  BY DEF InOrder, UnusedAreIdle, Owner
<1>2. AsksForTheRest(d)'
  BY DEF InOrder, AsksForTheRest, AllBelow, Grows
<1>3. PassedAreCovered(d)'
  BY DEF InOrder, PassedAreCovered, BeingWritten, Grows, Tasks
<1>4. BatchIsAhead(d)' /\ BatchHasNoHoles(d)'
  BY DEF InOrder, BatchIsAhead, BatchHasNoHoles, Grows
<1>5. HeldInOrder(d)'
  BY DEF InOrder, HeldInOrder, AllBelow, Grows
<1>6. WritesInOrder(d)'
  <2> SUFFICES ASSUME NEW t \in Tasks, writes'[d][t] # <<>>,
                      writes'[d][t][1].fenced \/ ~runtimes'[d].lost
               PROVE  Safe(writes[d][t][1].rec)'
    BY DEF WritesInOrder
  <2>1. CASE writes'[d][t] = writes[d][t]
    <3>1. Safe(writes[d][t][1].rec)
      BY <2>1 DEF InOrder, WritesInOrder
    <3> QED
      BY <2>1, <3>1 DEF Safe, AllBelow, Grows
  <2>2. CASE writes'[d][t] # writes[d][t]
    BY <2>2 DEF Safe
  <2> QED
    BY <2>1, <2>2
<1> QED
  BY <1>1, <1>2, <1>3, <1>4, <1>5, <1>6 DEF InOrder

LEMMA StayingHolds ==
    ASSUME TypeOK, OwnersStay(runtimes'), SessionsStay, NEW d \in Connections
    PROVE  /\ Owner(d)' = Owner(d)
           /\ Holds(d)' => Holds(d)
           /\ ConnectedIsLast(d) /\ polls'[d].at = polls[d].at => ConnectedIsLast(d)'
<1>1. Owner(d)' = Owner(d) /\ (runtimes[d].lost => runtimes'[d].lost)
  BY DEF OwnersStay, Owner
<1>2. Holds(d)' => Holds(d)
  BY <1>1 DEF SessionsStay, Holds, HasRuntime
<1>3. ConnectedIsLast(d) /\ polls'[d].at = polls[d].at => ConnectedIsLast(d)'
  BY <1>1 DEF SessionsStay, ConnectedIsLast
<1> QED
  BY <1>1, <1>2, <1>3

LEMMA CurrentStays ==
    ASSUME TypeOK, CurrentIsConnected, RuntimesAreOwned, OwnersStay(runtimes'), SessionsStay
    PROVE  CurrentIsConnected' /\ RuntimesAreOwned'
<1>1. CurrentIsConnected'
  BY DEF CurrentIsConnected, SessionsStay
<1>2. RuntimesAreOwned'
  <2> SUFFICES ASSUME NEW z \in Sessions, sessions'[z].current
               PROVE  runtimes'[sessions'[z].connection].owner = z
    BY DEF RuntimesAreOwned, Owner
  <2>1. sessions[z].current /\ sessions'[z].connection = sessions[z].connection
    BY DEF SessionsStay
  <2>2. sessions[z].connection \in Connections /\ Owner(sessions[z].connection) = z
    BY <2>1 DEF TypeOK, SessionType, CurrentIsConnected, RuntimesAreOwned
  <2> QED
    BY <2>1, <2>2 DEF OwnersStay, Owner
<1> QED
  BY <1>1, <1>2

-----------------------------------------------------------------------------
(* The types of each step.                                                   *)

\* The steps of a session that change nothing but itself, the lock and the faults.
SessionOnly(s) ==
    \/ LoopAwaited(s) \/ ReleaseCheck(s) \/ Unlink(s)
    \/ TurnIsLocal(s) \/ TurnEnds(s) \/ LocalTurn(s) \/ LocalTurnEnds(s)

LEMMA SessionOnlyStays ==
    ASSUME TypeOK, CurrentIsConnected, NEW s \in Sessions, SessionOnly(s)
    PROVE  /\ TypeOK' /\ SessionsStay
           /\ UNCHANGED <<log, telegram, runtimes, polls, writes, excused>>
<1>1. UNCHANGED <<log, telegram, runtimes, polls, writes, excused, prompted>>
  BY DEF SessionOnly, LoopAwaited, ReleaseCheck, Unlink, TurnIsLocal, TurnEnds, LocalTurn, LocalTurnEnds
<1>2. lock' \in [owner : Sessions \cup {NoOwner}, claims : Nat]
  BY DEF TypeOK, SessionOnly, LoopAwaited, ReleaseCheck, Unlink, TurnIsLocal, TurnEnds, LocalTurn,
         LocalTurnEnds
<1>3. PICK v : StaysAs(s, v) /\ sessions' = [sessions EXCEPT ![s] = v]
  <2> DEFINE x == sessions[s]
  <2>1. x \in SessionType
    BY DEF TypeOK
  <2>2. CASE LoopAwaited(s)
    <3>1. StaysAs(s, RuntimeGivenUp(x))
      BY <2>1 DEF StaysAs, SessionType, RuntimeGivenUp
    <3> QED
      BY <2>2, <3>1 DEF LoopAwaited
  <2>3. CASE ReleaseCheck(s)
    <3> DEFINE v == [x EXCEPT !.teardown = IF lock.owner = s THEN "unlinking" ELSE "none"]
    <3>1. StaysAs(s, v)
      BY <2>1 DEF StaysAs, SessionType
    <3> QED
      BY <2>3, <3>1 DEF ReleaseCheck
  <2>4. CASE Unlink(s)
    <3> DEFINE v == [x EXCEPT !.teardown = "none"]
    <3>1. StaysAs(s, v)
      BY <2>1 DEF StaysAs, SessionType
    <3> QED
      BY <2>4, <3>1 DEF Unlink
  <2>5. CASE TurnIsLocal(s) \/ LocalTurnEnds(s)
    <3> DEFINE v == [x EXCEPT !.agent = "idle"]
    <3>1. StaysAs(s, v)
      BY <2>1 DEF StaysAs, SessionType
    <3> QED
      BY <2>5, <3>1 DEF TurnIsLocal, LocalTurnEnds
  <2>6. CASE TurnEnds(s)
    <3> DEFINE n == x.sending + 1
               v == [x EXCEPT !.agent = "idle", !.sending = n]
    <3>1. StaysAs(s, v)
      <4>1. n \in Int
        BY <2>1 DEF SessionType
      <4> HIDE DEF n
      <4> QED
        BY <2>1, <4>1 DEF StaysAs, SessionType
    <3> QED
      BY <2>6, <3>1 DEF TurnEnds
  <2>7. CASE LocalTurn(s)
    <3> DEFINE v == [x EXCEPT !.agent = "busy"]
    <3>1. StaysAs(s, v)
      BY <2>1 DEF StaysAs, SessionType
    <3> QED
      BY <2>7, <3>1 DEF LocalTurn
  <2> QED
    BY <2>2, <2>3, <2>4, <2>5, <2>6, <2>7 DEF SessionOnly
<1>4. sessions' \in [Sessions -> SessionType] /\ SessionsStay
  BY <1>3, SessionReplaced
<1> QED
  BY <1>1, <1>2, <1>4 DEF TypeOK

\* A session is disconnected, or its job finished: the poll loop stays as it is
\* but for albums let go and the wish to end.
PollsLetGo ==
    \A d \in Connections :
        /\ polls'[d].at = polls[d].at /\ polls'[d].offset = polls[d].offset
        /\ polls'[d].batch = polls[d].batch /\ polls'[d].held \subseteq polls[d].held

LEMMA DisconnectingStays ==
    ASSUME TypeOK, NEW s \in Sessions, Disconnecting(s)
    PROVE  /\ sessions' \in [Sessions -> SessionType] /\ SessionsStay
           /\ polls' \in [Connections -> PollType] /\ PollsLetGo
<1> DEFINE c == sessions[s].connection
<1>1. sessions[s] \in SessionType
  BY DEF TypeOK
<1>2. CASE sessions[s].live
  <2> DEFINE v == [sessions[s] EXCEPT !.live = FALSE, !.teardown = "stopping"]
             p == [polls[c] EXCEPT !.abort = TRUE, !.held = {}]
  <2>1. polls' = [polls EXCEPT ![c] = p] /\ sessions' = [sessions EXCEPT ![s] = v]
    BY <1>2 DEF Disconnecting
  <2>2. StaysAs(s, v)
    BY <1>1 DEF StaysAs, SessionType
  <2>3. sessions' \in [Sessions -> SessionType] /\ SessionsStay
    BY <2>1, <2>2, SessionReplaced
  <2>4. ASSUME c \in Connections
        PROVE  /\ p \in PollType /\ p.at = polls[c].at /\ p.offset = polls[c].offset
               /\ p.batch = polls[c].batch /\ p.held = {}
    <3>1. polls[c] \in PollType
      BY <2>4 DEF TypeOK
    <3> QED
      BY <3>1 DEF PollType
  <2>5. polls' \in [Connections -> PollType]
    <3> HIDE DEF p, c
    <3> QED
      BY <2>1, <2>4 DEF TypeOK
  <2>6. PollsLetGo
    <3> HIDE DEF p, c
    <3> QED
      BY <2>1, <2>4 DEF TypeOK, PollsLetGo
  <2> QED
    BY <2>3, <2>5, <2>6
<1>3. CASE ~sessions[s].live
  <2>1. polls' = polls /\ sessions' = [sessions EXCEPT ![s] = RuntimeGivenUp(sessions[s])]
    BY <1>3 DEF Disconnecting
  <2>2. StaysAs(s, RuntimeGivenUp(sessions[s]))
    BY <1>1 DEF StaysAs, SessionType, RuntimeGivenUp
  <2>3. sessions' \in [Sessions -> SessionType] /\ SessionsStay
    BY <2>1, <2>2, SessionReplaced
  <2> QED
    BY <2>1, <2>3 DEF TypeOK, PollsLetGo
<1> QED
  BY <1>2, <1>3

\* A write a job's end or an error starts is neither a message nor a checkpoint.
WritesOfNoMessage ==
    \A d \in Connections, t \in Tasks :
        \/ writes'[d][t] = writes[d][t]
        \/ /\ t # "poll" /\ Owner(d) # NoOwner
           /\ writes'[d][t] # <<>> =>
                 writes'[d][t][1].rec.kind \notin {"inbound", "checkpoint"} /\ ~writes'[d][t][1].fenced

\* The steps that leave every poll loop where it is and start no write of a message.
SideStep(s) ==
    \/ SessionOnly(s) \/ Disconnect(s) \/ EvictionGoesOn(s) \/ TurnFails(s)
    \/ \E kind \in {"outbound", "job_failed"} : ReplySent(s, kind)

LEMMA SideStepStays ==
    ASSUME TypeOK, CurrentIsConnected, RuntimesAreOwned, NEW s \in Sessions, SideStep(s)
    PROVE  /\ TypeOK' /\ SessionsStay /\ OwnersStay(runtimes')
           /\ PollsLetGo /\ WritesOfNoMessage
           /\ UNCHANGED <<log, telegram, excused>>
<1>1. CASE SessionOnly(s)
  BY <1>1, SessionOnlyStays DEF OwnersStay, PollsLetGo, WritesOfNoMessage
<1>2. CASE Disconnect(s) \/ EvictionGoesOn(s)
  <2>1. Disconnecting(s) /\ UNCHANGED <<log, lock, telegram, runtimes, writes, excused, prompted>>
    BY <1>2 DEF Disconnect, EvictionGoesOn
  <2> QED
    BY <2>1, DisconnectingStays DEF TypeOK, OwnersStay, WritesOfNoMessage
<1>3. CASE TurnFails(s) \/ \E kind \in {"outbound", "job_failed"} : ReplySent(s, kind)
  <2>1. UNCHANGED <<log, lock, telegram, polls, excused>>
    BY <1>3 DEF TurnFails, ReplySent
  <2>2. \E kind \in {"outbound", "job_failed"} : \E v : StaysAs(s, v) /\ FinishJob(s, v, kind)
    <3> DEFINE x == sessions[s]
               v == [x EXCEPT !.agent = "idle", !.inFlight = FALSE]
               n == x.sending - 1
               w == [x EXCEPT !.sending = n, !.inFlight = FALSE]
    <3>1. x \in SessionType
      BY DEF TypeOK
    <3>2. StaysAs(s, v)
      BY <3>1 DEF StaysAs, SessionType
    <3>3. StaysAs(s, w)
      <4>1. n \in Int
        BY <3>1 DEF SessionType
      <4> HIDE DEF n
      <4> QED
        BY <3>1, <4>1 DEF StaysAs, SessionType
    <3>4. FinishJob(s, v, "job_failed") \/ \E kind \in {"outbound", "job_failed"} : FinishJob(s, w, kind)
      BY <1>3 DEF TurnFails, ReplySent
    <3> HIDE DEF v, w
    <3> QED
      BY <3>2, <3>3, <3>4
  <2>3. PICK kind \in {"outbound", "job_failed"} : \E v : StaysAs(s, v) /\ FinishJob(s, v, kind)
    BY <2>2
  <2>4. PICK v : StaysAs(s, v) /\ FinishJob(s, v, kind)
    BY <2>3
  <2>5. v.current => v.connection \in Connections /\ Owner(v.connection) # NoOwner
    BY <2>4, NoOwnerAssumption
    DEF StaysAs, CurrentIsConnected, RuntimesAreOwned, SessionType
  <2>6. WritesOfNoMessage
    BY <2>4, <2>5, FinishJobStays DEF WritesOfNoMessage
  <2> QED
    BY <2>1, <2>4, <2>6, FinishJobStays DEF TypeOK, PollsLetGo
<1> QED
  BY <1>1, <1>2, <1>3 DEF SideStep

LEMMA SideStepInvariant ==
    ASSUME HandoverInvariant, NEW s \in Sessions, SideStep(s)
    PROVE  HandoverInvariant'
<1>1. TypeOK /\ CurrentIsConnected /\ RuntimesAreOwned
  BY DEF HandoverInvariant
<1>2. /\ TypeOK' /\ SessionsStay /\ OwnersStay(runtimes')
      /\ PollsLetGo /\ WritesOfNoMessage
      /\ UNCHANGED <<log, telegram, excused>>
  BY <1>1, SideStepStays
<1>3. Grows
  BY <1>2, QuietGrows
<1>4. CurrentIsConnected' /\ RuntimesAreOwned'
  BY <1>1, <1>2, CurrentStays
<1>5. ASSUME NEW d \in Connections PROVE InOrder(d)'
  <2>1. InOrder(d) /\ ConnectedIsLast(d)
    BY DEF HandoverInvariant, InOrder
  <2>2. /\ runtimes'[d].owner = runtimes[d].owner /\ (runtimes[d].lost => runtimes'[d].lost)
        /\ polls'[d].at = polls[d].at /\ polls'[d].offset = polls[d].offset
        /\ polls'[d].batch = polls[d].batch /\ polls'[d].held \subseteq polls[d].held
    BY <1>2 DEF OwnersStay, PollsLetGo
  <2>3. (Holds(d)' => Holds(d)) /\ ConnectedIsLast(d)'
    BY <1>1, <1>2, <2>1, <2>2, StayingHolds
  <2> QED
    BY <1>1, <1>2, <1>3, <2>1, <2>2, <2>3, Bystander DEF WritesOfNoMessage
<1> QED
  BY <1>2, <1>4, <1>5, QuietStep

-----------------------------------------------------------------------------
(* The steps of a poll loop.                                                 *)

\* The connections a step of connection c leaves alone.
OthersStay(c) ==
    \A d \in Connections \ {c} : polls'[d] = polls[d] /\ writes'[d] = writes[d]

LEMMA OthersInOrder ==
    ASSUME HandoverInvariant, TypeOK', Grows, OwnersStay(runtimes'), SessionsStay,
           NEW c \in Connections, OthersStay(c), NEW d \in Connections, d # c
    PROVE  InOrder(d)'
<1>1. TypeOK /\ InOrder(d) /\ ConnectedIsLast(d)
  BY DEF HandoverInvariant, InOrder
<1>2. /\ runtimes'[d].owner = runtimes[d].owner /\ (runtimes[d].lost => runtimes'[d].lost)
      /\ polls'[d] = polls[d] /\ writes'[d] = writes[d]
  BY DEF OthersStay, OwnersStay
<1>3. (Holds(d)' => Holds(d)) /\ ConnectedIsLast(d)'
  BY <1>1, <1>2, StayingHolds
<1> QED
  BY <1>1, <1>2, <1>3, Bystander

\* A step of connection c that appends nothing to the log and asks for nothing.
LEMMA QuietConnectionStep ==
    ASSUME HandoverInvariant, TypeOK', OwnersStay(runtimes'), SessionsStay, log' = log,
           excused \subseteq excused', telegram'.confirmed = telegram.confirmed,
           NEW c \in Connections, OthersStay(c), InOrder(c)'
    PROVE  HandoverInvariant'
<1>1. CurrentIsConnected' /\ RuntimesAreOwned'
  BY CurrentStays DEF HandoverInvariant
<1>2. \A d \in Connections : InOrder(d)'
  BY QuietGrows, OthersInOrder
<1> QED
  BY <1>1, <1>2, QuietStep

LEMMA AliveIsOwned ==
    ASSUME NEW c, Alive(c)
    PROVE  Owner(c) \in Sessions /\ Owner(c) # NoOwner
BY NoOwnerAssumption DEF Alive

LEMMA ClaimInvariant ==
    ASSUME HandoverInvariant, NEW c \in Connections, Claim(c)
    PROVE  HandoverInvariant'
<1> DEFINE p == [polls[c] EXCEPT !.at = "reading"]
<1>1. /\ polls[c].at = "claiming" /\ polls' = [polls EXCEPT ![c] = p]
      /\ lock' = [owner |-> Owner(c), claims |-> lock.claims + 1]
      /\ UNCHANGED <<log, telegram, runtimes, writes, sessions, excused, prompted, faults>>
      /\ Owner(c) \in Sessions /\ Owner(c) # NoOwner
  BY AliveIsOwned DEF Claim
<1>2. TypeOK /\ InOrder(c)
  BY DEF HandoverInvariant
<1>3. /\ p \in PollType /\ p.at = "reading" /\ p.offset = polls[c].offset
      /\ p.batch = polls[c].batch /\ p.held = polls[c].held
  BY <1>2 DEF TypeOK, PollType
<1> HIDE DEF p
<1>4. polls' \in [Connections -> PollType] /\ polls'[c] = p
  BY <1>1, <1>2, <1>3 DEF TypeOK
<1>5. TypeOK'
  BY <1>1, <1>2, <1>4 DEF TypeOK
<1>6. OwnersStay(runtimes') /\ SessionsStay /\ OthersStay(c)
  BY <1>1, <1>2 DEF OwnersStay, SessionsStay, OthersStay, TypeOK
<1>7. Grows
  BY <1>1, QuietGrows
<1>8. InOrder(c)'
  <2>1. UnusedAreIdle(c)' /\ ConnectedIsLast(c)' /\ AsksForTheRest(c)'
    BY <1>1, <1>2, <1>3, <1>4 DEF InOrder, UnusedAreIdle, ConnectedIsLast, AsksForTheRest, Owner
  <2>2. PassedAreCovered(c)' /\ WritesInOrder(c)' /\ HeldInOrder(c)'
    BY <1>1, <1>2, <1>3, <1>4
    DEF InOrder, PassedAreCovered, WritesInOrder, HeldInOrder, Holds, HasRuntime, Owner, BeingWritten,
        Accounted, Logged, AllBelow, Safe
  <2>3. BatchIsAhead(c)' /\ BatchHasNoHoles(c)'
    BY <1>1, <1>2, <1>3, <1>4 DEF InOrder, BatchIsAhead, BatchHasNoHoles, Accounted, Logged
  <2> QED
    BY <2>1, <2>2, <2>3 DEF InOrder
<1> QED
  BY <1>1, <1>5, <1>6, <1>8, QuietConnectionStep

LEMMA EndedIsTyped ==
    ASSUME NEW p \in PollType
    PROVE  /\ Ended(p) \in PollType /\ Ended(p).at = "ended" /\ Ended(p).offset = 0
           /\ Ended(p).batch = {} /\ Ended(p).held = p.held
BY DEF Ended, NewPoll, PollType

\* A loop that ended asks for nothing more; what it wrote or holds stays in order.
LEMMA LoopEndedInvariant ==
    ASSUME HandoverInvariant, OwnersStay(runtimes'), SessionsStay,
           runtimes' \in [Connections -> RuntimeType], sessions' \in [Sessions -> SessionType],
           NEW c \in Connections, Alive(c), polls' = [polls EXCEPT ![c] = Ended(@)],
           \A d \in Connections \ {c} : runtimes'[d] = runtimes[d],
           UNCHANGED <<log, lock, telegram, writes, excused, prompted>>
    PROVE  HandoverInvariant'
<1>1. TypeOK /\ InOrder(c) /\ Owner(c) # NoOwner
  BY AliveIsOwned DEF HandoverInvariant
<1>2. /\ polls' \in [Connections -> PollType] /\ OthersStay(c)
      /\ polls'[c].at = "ended" /\ polls'[c].offset = 0
      /\ polls'[c].batch = {} /\ polls'[c].held = polls[c].held
  <2>1. polls[c] \in PollType
    BY <1>1 DEF TypeOK
  <2>2. /\ Ended(polls[c]) \in PollType /\ Ended(polls[c]).at = "ended" /\ Ended(polls[c]).offset = 0
        /\ Ended(polls[c]).batch = {} /\ Ended(polls[c]).held = polls[c].held
    BY <2>1, EndedIsTyped
  <2> QED
    BY <1>1, <2>2 DEF TypeOK, OthersStay
<1>3. TypeOK'
  BY <1>1, <1>2 DEF TypeOK
<1>4. Grows
  BY QuietGrows
<1>5. (Holds(c)' => Holds(c)) /\ Owner(c)' = Owner(c)
  BY <1>1, StayingHolds
<1>6. InOrder(c)'
  <2>1. UnusedAreIdle(c)' /\ ConnectedIsLast(c)' /\ AsksForTheRest(c)'
    BY <1>1, <1>2, <1>5 DEF UnusedAreIdle, ConnectedIsLast, AsksForTheRest
  <2>2. PassedAreCovered(c)' /\ BatchIsAhead(c)' /\ BatchHasNoHoles(c)'
    BY <1>2 DEF PassedAreCovered, BatchIsAhead, BatchHasNoHoles
  <2>3. HeldInOrder(c)'
    BY <1>1, <1>2, <1>4, <1>5 DEF InOrder, HeldInOrder, AllBelow, Grows
  <2>4. WritesInOrder(c)'
    BY <1>1, <1>4 DEF InOrder, WritesInOrder, OwnersStay, Safe, AllBelow, Grows
  <2> QED
    BY <2>1, <2>2, <2>3, <2>4 DEF InOrder
<1> QED
  BY <1>2, <1>3, <1>6, QuietConnectionStep

LEMMA StandDownStays ==
    ASSUME TypeOK, NEW c \in Connections, Alive(c), StandDown(c)
    PROVE  /\ OwnersStay(runtimes') /\ SessionsStay
           /\ runtimes' \in [Connections -> RuntimeType] /\ sessions' \in [Sessions -> SessionType]
           /\ \A d \in Connections \ {c} : runtimes'[d] = runtimes[d]
<1>1. Owner(c) \in Sessions
  BY AliveIsOwned
<1>2. SessionsStay /\ sessions' \in [Sessions -> SessionType]
  <2>1. sessions' = [sessions EXCEPT ![Owner(c)] = Noticed(sessions[Owner(c)])]
    BY DEF StandDown
  <2> QED
    BY <1>1, <2>1, NoticedStays, SessionReplaced
<1>3. CASE HasRuntime(c)
  <2> DEFINE k == [runtimes[c] EXCEPT !.lost = TRUE]
  <2>1. runtimes' = [runtimes EXCEPT ![c] = k]
    BY <1>3 DEF StandDown
  <2>2. k \in RuntimeType /\ k.owner = runtimes[c].owner /\ k.lost
    BY DEF TypeOK, RuntimeType
  <2> HIDE DEF k
  <2> QED
    BY <1>2, <2>1, <2>2 DEF OwnersStay, TypeOK
<1>4. CASE ~HasRuntime(c)
  BY <1>2, <1>4 DEF StandDown, OwnersStay, TypeOK
<1> QED
  BY <1>3, <1>4

LEMMA StandDownInvariant ==
    ASSUME HandoverInvariant, NEW c \in Connections, CheckFails(c) \/ FetchConflict(c)
    PROVE  HandoverInvariant'
<1>1. Alive(c) /\ StandDown(c)
  BY DEF CheckFails, BetweenPolls, FetchConflict, Fetching
<1>2. polls' = [polls EXCEPT ![c] = Ended(@)] /\ UNCHANGED <<log, lock, telegram, writes, excused, prompted>>
  BY <1>1 DEF StandDown
<1> QED
  BY <1>1, <1>2, StandDownStays, LoopEndedInvariant DEF HandoverInvariant

LEMMA LoopEndsInvariant ==
    ASSUME HandoverInvariant, NEW c \in Connections, LoopEnds(c)
    PROVE  HandoverInvariant'
<1>1. /\ Alive(c) /\ polls' = [polls EXCEPT ![c] = Ended(@)]
      /\ UNCHANGED <<log, lock, telegram, runtimes, writes, sessions, excused, prompted>>
  BY DEF LoopEnds, BetweenPolls
<1>2. OwnersStay(runtimes') /\ SessionsStay
  BY <1>1 DEF OwnersStay, SessionsStay
<1> QED
  BY <1>1, <1>2, LoopEndedInvariant DEF HandoverInvariant, TypeOK

LEMMA ConnectFailsInvariant ==
    ASSUME HandoverInvariant, NEW c \in Connections, ConnectFails(c)
    PROVE  HandoverInvariant'
<1> DEFINE s == Owner(c)
           v == [sessions[s] EXCEPT !.current = FALSE,
                                    !.teardown = IF HasRuntime(c) /\ @ = "none" THEN "releasing" ELSE @]
<1>1. /\ Alive(c) /\ polls' = [polls EXCEPT ![c] = Ended(@)] /\ sessions' = [sessions EXCEPT ![s] = v]
      /\ UNCHANGED <<log, lock, telegram, runtimes, writes, excused, prompted>>
  BY DEF ConnectFails
<1>2. TypeOK /\ s \in Sessions
  BY <1>1, AliveIsOwned DEF HandoverInvariant
<1>3. StaysAs(s, v)
  <2>1. sessions[s] \in SessionType
    BY <1>2 DEF TypeOK
  <2> QED
    BY <2>1 DEF StaysAs, SessionType
<1>4. sessions' \in [Sessions -> SessionType] /\ SessionsStay
  <2> HIDE DEF v
  <2> QED
    BY <1>1, <1>2, <1>3, SessionReplaced
<1>5. OwnersStay(runtimes') /\ runtimes' \in [Connections -> RuntimeType]
  BY <1>1, <1>2 DEF OwnersStay, TypeOK
<1> QED
  BY <1>1, <1>4, <1>5, LoopEndedInvariant

\* The poll loop goes on with the same updates, and asks only for what may be forgotten.
LEMMA LoopGoesOnInvariant ==
    ASSUME HandoverInvariant, OwnersStay(runtimes'), SessionsStay,
           runtimes' \in [Connections -> RuntimeType], sessions' \in [Sessions -> SessionType],
           NEW c \in Connections, Alive(c), polls[c].at \notin {"off", "ended"},
           NEW at \in {"polling", "fetching"}, at = "fetching" => AllBelow(polls[c].offset),
           polls' = [polls EXCEPT ![c].at = at],
           \A d \in Connections \ {c} : runtimes'[d] = runtimes[d],
           UNCHANGED <<log, lock, telegram, writes, excused, prompted>>
    PROVE  HandoverInvariant'
<1> DEFINE p == [polls[c] EXCEPT !.at = at]
<1>1. TypeOK /\ InOrder(c) /\ Owner(c) # NoOwner
  BY AliveIsOwned DEF HandoverInvariant
<1>2. /\ polls' \in [Connections -> PollType] /\ OthersStay(c)
      /\ polls'[c].at = at /\ polls'[c].offset = polls[c].offset
      /\ polls'[c].batch = polls[c].batch /\ polls'[c].held = polls[c].held
  <2>1. polls[c] \in PollType
    BY <1>1 DEF TypeOK
  <2>2. /\ p \in PollType /\ p.at = at /\ p.offset = polls[c].offset
        /\ p.batch = polls[c].batch /\ p.held = polls[c].held
    BY <2>1 DEF PollType
  <2>3. polls' = [polls EXCEPT ![c] = p]
    OBVIOUS
  <2> HIDE DEF p
  <2> QED
    BY <1>1, <2>2, <2>3 DEF TypeOK, OthersStay
<1>3. TypeOK'
  BY <1>1, <1>2 DEF TypeOK
<1>4. Grows
  BY QuietGrows
<1>5. (Holds(c)' => Holds(c)) /\ Owner(c)' = Owner(c)
  BY <1>1, StayingHolds
<1>6. InOrder(c)'
  <2>1. UnusedAreIdle(c)' /\ AsksForTheRest(c)'
    BY <1>1, <1>2, <1>4, <1>5 DEF UnusedAreIdle, AsksForTheRest, AllBelow, Grows
  <2>2. ConnectedIsLast(c)'
    BY <1>1, <1>2, <1>5 DEF InOrder, ConnectedIsLast, SessionsStay
  <2>3. PassedAreCovered(c)'
    BY <1>1, <1>2, <1>4, <1>5 DEF InOrder, PassedAreCovered, BeingWritten, Grows
  <2>4. BatchIsAhead(c)' /\ BatchHasNoHoles(c)'
    BY <1>1, <1>2, <1>4 DEF InOrder, BatchIsAhead, BatchHasNoHoles, Grows
  <2>5. HeldInOrder(c)'
    BY <1>1, <1>2, <1>4, <1>5 DEF InOrder, HeldInOrder, AllBelow, Grows
  <2>6. WritesInOrder(c)'
    BY <1>1, <1>4 DEF InOrder, WritesInOrder, OwnersStay, Safe, AllBelow, Grows
  <2> QED
    BY <2>1, <2>2, <2>3, <2>4, <2>5, <2>6 DEF InOrder
<1> QED
  BY <1>2, <1>3, <1>6, QuietConnectionStep

LEMMA CaughtUpInvariant ==
    ASSUME HandoverInvariant, NEW c \in Connections, CaughtUp(c)
    PROVE  HandoverInvariant'
<1> DEFINE s == Owner(c)
           v == [sessions[s] EXCEPT !.live = TRUE]
           k == [runtimes[c] EXCEPT !.armed = runtimes[c].tail]
<1>1. /\ Alive(c) /\ polls[c].at = "catching up" /\ polls' = [polls EXCEPT ![c].at = "polling"]
      /\ sessions' = [sessions EXCEPT ![s] = v]
      /\ runtimes' = runtimes \/ runtimes' = [runtimes EXCEPT ![c] = k]
      /\ UNCHANGED <<log, lock, telegram, writes, excused, prompted>>
  BY DEF CaughtUp
<1>2. TypeOK /\ s \in Sessions
  BY <1>1, AliveIsOwned DEF HandoverInvariant
<1>3. StaysAs(s, v)
  <2>1. sessions[s] \in SessionType
    BY <1>2 DEF TypeOK
  <2> QED
    BY <2>1 DEF StaysAs, SessionType
<1>4. sessions' \in [Sessions -> SessionType] /\ SessionsStay
  <2> HIDE DEF v
  <2> QED
    BY <1>1, <1>2, <1>3, SessionReplaced
<1>5. k \in RuntimeType /\ k.owner = runtimes[c].owner /\ k.lost = runtimes[c].lost
  BY <1>2 DEF TypeOK, RuntimeType
<1>6. /\ OwnersStay(runtimes') /\ runtimes' \in [Connections -> RuntimeType]
      /\ \A d \in Connections \ {c} : runtimes'[d] = runtimes[d]
  <2> HIDE DEF k
  <2> QED
    BY <1>1, <1>2, <1>5 DEF OwnersStay, TypeOK
<1> QED
  BY <1>1, <1>4, <1>6, LoopGoesOnInvariant

LEMMA CheckPassesInvariant ==
    ASSUME HandoverInvariant, NEW c \in Connections, CheckPasses(c)
    PROVE  HandoverInvariant'
<1>1. /\ Alive(c) /\ polls[c].at = "polling" /\ polls' = [polls EXCEPT ![c].at = "fetching"]
      /\ writes[c]["poll"] = <<>> /\ HasRuntime(c) /\ Owns(c)
      /\ UNCHANGED <<log, lock, telegram, runtimes, writes, sessions, excused, prompted>>
  BY DEF CheckPasses, BetweenPolls
<1>2. Holds(c)
  BY <1>1, AliveIsOwned DEF Holds, Owns
<1>3. AllBelow(polls[c].offset)
  BY <1>1, <1>2 DEF HandoverInvariant, InOrder, PassedAreCovered, BeingWritten, AllBelow
<1>4. OwnersStay(runtimes') /\ SessionsStay
  BY <1>1 DEF OwnersStay, SessionsStay
<1> QED
  BY <1>1, <1>3, <1>4, LoopGoesOnInvariant DEF HandoverInvariant, TypeOK

LEMMA WhatWaits ==
    ASSUME NEW o \in Nat, telegram.confirmed \in Nat, telegram.sent \in Nat
    PROVE  /\ Before(o) \in Nat /\ o <= Before(o) + 1 /\ telegram.confirmed <= Before(o)
           /\ Before(o) = telegram.confirmed \/ Before(o) = o - 1
           /\ Waiting(o) = (Before(o) + 1) .. telegram.sent /\ Waiting(o) \subseteq Nat
<1> DEFINE n == telegram.confirmed
<1>1. n \in Nat
  OBVIOUS
<1> HIDE DEF n
<1>2. Before(o) = IF o - 1 > n THEN o - 1 ELSE n
  BY DEF Before, n
<1>3. Before(o) \in Nat /\ o <= Before(o) + 1 /\ n <= Before(o) /\ (Before(o) = n \/ Before(o) = o - 1)
  BY <1>1, <1>2
<1>4. Waiting(o) = (Before(o) + 1) .. telegram.sent
  BY DEF Waiting
<1> QED
  BY <1>3, <1>4 DEF n

LEMMA WaitingHasNoHoles ==
    ASSUME NEW n \in Nat, NEW sent \in Nat, NEW o \in Nat, NEW u \in (n + 1) .. sent
    PROVE  /\ o <= n + 1 => o <= u
           /\ \A v \in 1 .. u - 1 : v \in (n + 1) .. sent \/ v \in 1 .. (n + 1) - 1
OBVIOUS

LEMMA BelowBoth ==
    ASSUME NEW o \in Nat, NEW m \in Nat, NEW n \in Nat, n = m \/ n = o - 1, AllBelow(o), AllBelow(m + 1)
    PROVE  AllBelow(n + 1)
BY DEF AllBelow

LEMMA FetchInvariant ==
    ASSUME HandoverInvariant, NEW c \in Connections, FetchInitial(c) \/ Fetch(c)
    PROVE  HandoverInvariant'
<1> DEFINE o == polls[c].offset
           n == Before(o)
           b == Waiting(o)
           forgotten == telegram.confirmed
           sent == telegram.sent
<1>1. PICK at \in {"catching up", "polling"} :
        /\ Alive(c) /\ polls[c].at \in {"initial", "fetching"} /\ Confirm(o)
        /\ polls' = [polls EXCEPT ![c].at = at, ![c].batch = b]
        /\ UNCHANGED <<log, lock, runtimes, writes, sessions, excused, prompted>>
  BY DEF FetchInitial, Fetch, Fetching
<1>2. TypeOK /\ InOrder(c) /\ Owner(c) # NoOwner /\ CurrentIsConnected /\ RuntimesAreOwned
  BY <1>1, AliveIsOwned DEF HandoverInvariant
<1>3. polls[c] \in PollType /\ o \in Nat /\ forgotten \in Nat /\ sent \in Nat
  BY <1>2 DEF TypeOK, PollType
<1>4. /\ n \in Nat /\ o <= n + 1 /\ forgotten <= n
      /\ n = o - 1 \/ n = forgotten
  BY <1>3, WhatWaits
<1>5. b = (n + 1) .. sent /\ b \subseteq Nat
  BY <1>3, WhatWaits
<1>6. telegram' \in [sent : Nat, confirmed : Nat] /\ telegram'.confirmed = n
  BY <1>1, <1>2, <1>4 DEF Confirm, TypeOK
<1> HIDE DEF b, n, sent, forgotten
<1>7. /\ polls' \in [Connections -> PollType] /\ OthersStay(c)
      /\ polls'[c].at = at /\ polls'[c].offset = o
      /\ polls'[c].batch = b /\ polls'[c].held = polls[c].held
  <2> DEFINE p == [polls[c] EXCEPT !.at = at, !.batch = b]
  <2>1. p \in PollType /\ p.at = at /\ p.offset = o /\ p.batch = b /\ p.held = polls[c].held
    BY <1>3, <1>5 DEF PollType
  <2>2. polls' = [polls EXCEPT ![c] = p]
    BY <1>1
  <2> HIDE DEF p
  <2> QED
    BY <1>1, <1>2, <2>1, <2>2 DEF TypeOK, OthersStay
<1>8. TypeOK' /\ OwnersStay(runtimes') /\ SessionsStay
  BY <1>1, <1>2, <1>6, <1>7 DEF TypeOK, OwnersStay, SessionsStay
<1>9. Grows
  BY <1>1, QuietGrows
<1>10. (Holds(c)' => Holds(c)) /\ Owner(c)' = Owner(c)
  BY <1>2, <1>8, StayingHolds
<1>11. AllBelow(n + 1)
  <2>1. AllBelow(o) /\ AllBelow(forgotten + 1)
    BY <1>1, <1>2 DEF InOrder, AsksForTheRest, HandoverInvariant, ForgottenAreAccounted, forgotten
  <2> HIDE DEF o
  <2> QED
    BY <1>3, <1>4, <2>1, BelowBoth
<1>12. ForgottenAreAccounted' /\ CheckpointsAreSafe'
  <2>1. ForgottenAreAccounted'
    BY <1>6, <1>9, <1>11 DEF ForgottenAreAccounted, AllBelow, Grows
  <2>2. CheckpointsAreSafe'
    BY <1>1, <1>9 DEF HandoverInvariant, CheckpointsAreSafe, AllBelow, Grows
  <2> QED
    BY <2>1, <2>2
<1>13. InOrder(c)'
  <2>1. UnusedAreIdle(c)' /\ AsksForTheRest(c)'
    BY <1>2, <1>7, <1>10 DEF UnusedAreIdle, AsksForTheRest
  <2>2. ConnectedIsLast(c)'
    BY <1>1, <1>2, <1>8, <1>10 DEF InOrder, ConnectedIsLast, SessionsStay
  <2>3. PassedAreCovered(c)'
    BY <1>1, <1>2, <1>7, <1>9, <1>10 DEF InOrder, PassedAreCovered, BeingWritten, Grows
  <2>4. BatchIsAhead(c)'
    <3>1. \A v \in b : o <= v
      BY <1>3, <1>4, <1>5, WaitingHasNoHoles
    <3> QED
      BY <1>7, <3>1 DEF BatchIsAhead
  <2>5. BatchHasNoHoles(c)'
    <3> SUFFICES ASSUME NEW u \in b, NEW v \in 1 .. u - 1, v \notin b
                 PROVE  Accounted(v)'
      BY <1>7 DEF BatchHasNoHoles
    <3>1. v \in 1 .. (n + 1) - 1
      BY <1>3, <1>4, <1>5, WaitingHasNoHoles
    <3> QED
      BY <1>9, <1>11, <3>1 DEF AllBelow, Grows
  <2>6. HeldInOrder(c)'
    BY <1>2, <1>7, <1>9, <1>10 DEF InOrder, HeldInOrder, AllBelow, Grows
  <2>7. WritesInOrder(c)'
    BY <1>1, <1>2, <1>8, <1>9 DEF InOrder, WritesInOrder, OwnersStay, Safe, AllBelow, Grows
  <2> QED
    BY <2>1, <2>2, <2>3, <2>4, <2>5, <2>6, <2>7 DEF InOrder
<1>14. \A d \in Connections : InOrder(d)'
  BY <1>7, <1>8, <1>9, <1>13, OthersInOrder
<1> QED
  BY <1>2, <1>8, <1>12, <1>14, CurrentStays DEF HandoverInvariant

-----------------------------------------------------------------------------
(* Connecting.                                                               *)

LEMMA LoadedCursorIsSafe ==
    ASSUME HandoverInvariant
    PROVE  AllBelow(LoadedCursor + 1)
<1> DEFINE S == {log[i].update : i \in LastById("checkpoint")}
<1>1. CASE LoadedCursor \in S
  <2>1. PICK i \in LastById("checkpoint") : LoadedCursor = log[i].update
    BY <1>1
  <2>2. i \in DOMAIN log /\ log[i].kind = "checkpoint"
    BY DEF LastById
  <2> QED
    BY <2>1, <2>2 DEF HandoverInvariant, CheckpointsAreSafe
<1>2. CASE LoadedCursor = 0
  BY <1>2 DEF AllBelow
<1>3. LoadedCursor = Largest(S)
  BY DEF LoadedCursor
<1> QED
  BY <1>1, <1>2, <1>3, LargestIsOne

LEMMA LoadInvariant ==
    ASSUME HandoverInvariant, NEW c \in Connections, Load(c)
    PROVE  HandoverInvariant'
<1> DEFINE s == Owner(c)
           o == LoadedCursor + 1
           k == Loaded(runtimes[c])
           v == [sessions[s] EXCEPT !.current = TRUE]
           p == [polls[c] EXCEPT !.at = "initial", !.offset = o]
<1>1. /\ polls[c].at = "reading" /\ polls' = [polls EXCEPT ![c] = p]
      /\ runtimes' = [runtimes EXCEPT ![c] = k] /\ sessions' = [sessions EXCEPT ![s] = v]
      /\ UNCHANGED <<log, lock, telegram, writes, excused, prompted, faults>>
      /\ s \in Sessions /\ s # NoOwner
  BY AliveIsOwned DEF Load
<1>2. TypeOK /\ InOrder(c) /\ CurrentIsConnected /\ RuntimesAreOwned
  BY DEF HandoverInvariant
<1>3. sessions[s].connection = c /\ polls[c].offset = 0 /\ polls[c].batch = {} /\ polls[c].held = {}
  BY <1>1, <1>2 DEF InOrder, ConnectedIsLast, UnusedAreIdle
<1>4. k \in RuntimeType /\ k.owner = runtimes[c].owner /\ k.lost = runtimes[c].lost /\ o \in Nat
  <2>1. runtimes[c] \in RuntimeType
    BY <1>2 DEF TypeOK
  <2>2. k \in RuntimeType /\ k.owner = runtimes[c].owner /\ k.lost = runtimes[c].lost /\ LoadedCursor \in Nat
    BY <1>2, <2>1, LoadedIsTyped
  <2> HIDE DEF k
  <2> QED
    BY <2>2
<1>5. v \in SessionType /\ v.connection = sessions[s].connection
  <2>1. sessions[s] \in SessionType
    BY <1>1, <1>2 DEF TypeOK
  <2> QED
    BY <2>1 DEF SessionType
<1>6. AllBelow(o)
  BY LoadedCursorIsSafe
<1> HIDE DEF k, v, o
<1>7. p \in PollType /\ p.at = "initial" /\ p.offset = o /\ p.batch = {} /\ p.held = {}
  BY <1>2, <1>3, <1>4 DEF TypeOK, PollType
<1> HIDE DEF p
<1>8. TypeOK'
  BY <1>1, <1>2, <1>4, <1>5, <1>7 DEF TypeOK
<1>9. /\ \A d \in Connections \ {c} : runtimes'[d] = runtimes[d] /\ polls'[d] = polls[d]
      /\ runtimes'[c] = k /\ polls'[c] = p
      /\ \A z \in Sessions : sessions'[z].connection = sessions[z].connection
      /\ \A z \in Sessions \ {s} : sessions'[z] = sessions[z]
  BY <1>1, <1>2, <1>5 DEF TypeOK
<1>10. CurrentIsConnected'
  BY <1>2, <1>3, <1>9 DEF CurrentIsConnected, Connections, NoConnection
<1>11. RuntimesAreOwned'
  <2> SUFFICES ASSUME NEW z \in Sessions, sessions'[z].current
               PROVE  runtimes'[sessions'[z].connection].owner = z
    BY DEF RuntimesAreOwned, Owner
  <2>1. CASE z = s
    BY <1>3, <1>4, <1>9, <2>1 DEF Owner
  <2>2. CASE z # s
    <3>1. sessions[z].current
      BY <1>9, <2>2
    <3>2. sessions[z].connection \in Connections /\ runtimes[sessions[z].connection].owner = z
      BY <1>2, <3>1 DEF TypeOK, SessionType, CurrentIsConnected, RuntimesAreOwned, Owner
    <3> QED
      BY <1>4, <1>9, <3>2
  <2> QED
    BY <2>1, <2>2
<1>12. Grows
  BY <1>1, QuietGrows
<1>13. ASSUME NEW d \in Connections, d # c
       PROVE  InOrder(d)'
  <2>1. InOrder(d) /\ ConnectedIsLast(d)
    BY DEF HandoverInvariant, InOrder
  <2>2. runtimes'[d] = runtimes[d] /\ polls'[d] = polls[d] /\ writes'[d] = writes[d]
    BY <1>1, <1>9, <1>13
  <2>3. Holds(d)' => Holds(d)
    BY <1>3, <1>9, <1>13, <2>2 DEF Holds, HasRuntime, Owner
  <2>4. ConnectedIsLast(d)'
    BY <1>9, <2>1, <2>2 DEF ConnectedIsLast, Owner
  <2> QED
    BY <1>2, <1>8, <1>12, <2>1, <2>2, <2>3, <2>4, Bystander
<1>14. InOrder(c)'
  <2>1. Owner(c)' = Owner(c)
    BY <1>4, <1>9 DEF Owner
  <2>2. UnusedAreIdle(c)' /\ ConnectedIsLast(c)'
    BY <1>1, <1>3, <1>7, <1>9, <2>1 DEF UnusedAreIdle, ConnectedIsLast
  <2>3. AsksForTheRest(c)' /\ PassedAreCovered(c)'
    BY <1>6, <1>7, <1>9, <1>12 DEF AsksForTheRest, PassedAreCovered, AllBelow, Grows
  <2>4. BatchIsAhead(c)' /\ BatchHasNoHoles(c)' /\ HeldInOrder(c)'
    BY <1>7, <1>9 DEF BatchIsAhead, BatchHasNoHoles, HeldInOrder
  <2>5. WritesInOrder(c)'
    BY <1>1, <1>2, <1>4, <1>9, <1>12 DEF InOrder, WritesInOrder, Safe, AllBelow, Grows
  <2> QED
    BY <2>2, <2>3, <2>4, <2>5 DEF InOrder
<1> QED
  BY <1>1, <1>8, <1>10, <1>11, <1>13, <1>14, QuietStep

LEMMA ConnectInvariant ==
    ASSUME HandoverInvariant, NEW s \in Sessions, NEW c \in Connections, ConnectBegin(s, c)
    PROVE  HandoverInvariant'
<1> DEFINE k == NewRuntime(s)
           v == [sessions[s] EXCEPT !.connection = c, !.live = FALSE, !.noticed = FALSE]
<1>1. PICK at \in {"reading", "claiming"} :
        /\ polls' = [polls EXCEPT ![c].at = at]
        /\ runtimes' = [runtimes EXCEPT ![c] = k] /\ sessions' = [sessions EXCEPT ![s] = v]
        /\ UNCHANGED <<log, lock, telegram, writes, excused, prompted, faults>>
        /\ ~sessions[s].current /\ Owner(c) = NoOwner
        /\ \A old \in Connections : Owner(old) = s => polls[old].at = "ended"
  BY DEF ConnectBegin
<1> DEFINE p == [polls[c] EXCEPT !.at = at]
<1>2. TypeOK /\ InOrder(c) /\ CurrentIsConnected /\ RuntimesAreOwned
  BY DEF HandoverInvariant
<1>3. /\ polls[c].at = "off" /\ polls[c].offset = 0 /\ polls[c].batch = {} /\ polls[c].held = {}
      /\ \A t \in Tasks : writes[c][t] = <<>>
  BY <1>1, <1>2 DEF InOrder, UnusedAreIdle
<1>4. k \in RuntimeType /\ k.owner = s
  BY DEF NewRuntime, RuntimeType, NotArmed
<1>5. v \in SessionType /\ v.connection = c /\ v.current = sessions[s].current
  <2>1. sessions[s] \in SessionType
    BY <1>2 DEF TypeOK
  <2> QED
    BY <2>1 DEF SessionType
<1>6. p \in PollType /\ p.at = at /\ p.offset = 0 /\ p.batch = {} /\ p.held = {}
  <2>1. polls[c] \in PollType
    BY <1>2 DEF TypeOK
  <2> QED
    BY <1>3, <2>1 DEF PollType
<1>7. polls' = [polls EXCEPT ![c] = p]
  BY <1>1
<1> HIDE DEF k, v, p
<1>8. TypeOK'
  <2>1. polls' \in [Connections -> PollType]
    BY <1>2, <1>6, <1>7 DEF TypeOK
  <2>2. runtimes' \in [Connections -> RuntimeType] /\ sessions' \in [Sessions -> SessionType]
    BY <1>1, <1>2, <1>4, <1>5 DEF TypeOK
  <2> QED
    BY <1>1, <1>2, <2>1, <2>2 DEF TypeOK
<1>9. /\ \A d \in Connections \ {c} : runtimes'[d] = runtimes[d] /\ polls'[d] = polls[d]
      /\ runtimes'[c] = k /\ polls'[c] = p /\ sessions'[s] = v
      /\ \A z \in Sessions \ {s} : sessions'[z] = sessions[z]
  BY <1>1, <1>2, <1>7 DEF TypeOK
<1>10. CurrentIsConnected'
  BY <1>1, <1>2, <1>5, <1>9 DEF CurrentIsConnected
<1>11. RuntimesAreOwned'
  <2> SUFFICES ASSUME NEW z \in Sessions, sessions'[z].current
               PROVE  runtimes'[sessions'[z].connection].owner = z
    BY DEF RuntimesAreOwned, Owner
  <2>1. z # s
    BY <1>1, <1>5, <1>9
  <2>2. sessions'[z] = sessions[z] /\ sessions[z].current
    BY <1>9, <2>1
  <2>3. sessions[z].connection \in Connections /\ runtimes[sessions[z].connection].owner = z
    BY <1>2, <2>2 DEF TypeOK, SessionType, CurrentIsConnected, RuntimesAreOwned, Owner
  <2>4. sessions[z].connection # c
    BY <1>1, <2>3, NoOwnerAssumption DEF Owner
  <2> QED
    BY <1>9, <2>2, <2>3, <2>4
<1>12. Grows
  BY <1>1, QuietGrows
<1>13. ASSUME NEW d \in Connections, d # c
       PROVE  InOrder(d)'
  <2>1. InOrder(d) /\ ConnectedIsLast(d)
    BY DEF HandoverInvariant, InOrder
  <2>2. runtimes'[d] = runtimes[d] /\ polls'[d] = polls[d] /\ writes'[d] = writes[d]
    BY <1>1, <1>9, <1>13
  <2>3. Holds(d)' => Holds(d)
    BY <1>5, <1>9, <1>13, <2>2 DEF Holds, HasRuntime, Owner
  <2>4. ConnectedIsLast(d)'
    <3> SUFFICES ASSUME polls[d].at \notin {"off", "ended"}
                 PROVE  Owner(d)' \in Sessions /\ sessions'[Owner(d)'].connection = d
      BY <2>2 DEF ConnectedIsLast
    <3>1. Owner(d) \in Sessions /\ sessions[Owner(d)].connection = d /\ Owner(d) # s
      BY <1>1, <2>1 DEF ConnectedIsLast
    <3> QED
      BY <1>9, <2>2, <3>1 DEF Owner
  <2> QED
    BY <1>2, <1>8, <1>12, <2>1, <2>2, <2>3, <2>4, Bystander
<1>14. InOrder(c)'
  <2>1. Owner(c)' = s /\ s # NoOwner
    BY <1>4, <1>9, NoOwnerAssumption DEF Owner
  <2>2. UnusedAreIdle(c)' /\ ConnectedIsLast(c)' /\ AsksForTheRest(c)'
    BY <1>1, <1>5, <1>6, <1>9, <2>1 DEF UnusedAreIdle, ConnectedIsLast, AsksForTheRest
  <2>3. PassedAreCovered(c)' /\ BatchIsAhead(c)' /\ BatchHasNoHoles(c)' /\ HeldInOrder(c)'
    BY <1>6, <1>9 DEF PassedAreCovered, BatchIsAhead, BatchHasNoHoles, HeldInOrder
  <2>4. WritesInOrder(c)'
    BY <1>1, <1>3 DEF WritesInOrder
  <2> QED
    BY <2>2, <2>3, <2>4 DEF InOrder
<1> QED
  BY <1>1, <1>8, <1>10, <1>11, <1>13, <1>14, QuietStep

-----------------------------------------------------------------------------
(* Taking the updates of a batch.                                            *)

LEMMA UpdatesAreNumbers ==
    ASSUME NEW u \in Updates
    PROVE  u \in Nat /\ u \in Int /\ 1 <= u
BY BoundsAssumption DEF Updates

LEMMA PollIsTyped ==
    ASSUME TypeOK, NEW c \in Connections
    PROVE  polls[c] \in PollType /\ polls[c].offset \in Nat /\ polls[c].batch \subseteq Nat
<1>1. polls[c] \in PollType
  BY DEF TypeOK
<1> QED
  BY <1>1 DEF PollType

LEMMA NextIsLeast ==
    ASSUME NEW c, NEW u, NextUpdate(c, u)
    PROVE  /\ writes[c]["poll"] = <<>> /\ u \in polls[c].batch
           /\ \A v \in polls[c].batch : u <= v \/ v \in Albums
<1> DEFINE b == polls[c].batch
           Mixed(v) == polls[c].at = "catching up" /\ ~(u \in Albums <=> v \in Albums)
<1>1. /\ writes[c]["poll"] = <<>> /\ u \in b
      /\ \A v \in b : IF Mixed(v) THEN u \notin Albums ELSE u <= v
  BY DEF NextUpdate, IsNext
<1>2. \A v : Mixed(v) /\ u \notin Albums => v \in Albums
  OBVIOUS
<1> HIDE DEF Mixed
<1>3. ASSUME NEW v \in b PROVE u <= v \/ v \in Albums
  <2>1. CASE Mixed(v)
    BY <1>1, <1>2, <2>1
  <2>2. CASE ~Mixed(v)
    BY <1>1, <2>2
  <2> QED
    BY <2>1, <2>2
<1> QED
  BY <1>1, <1>3

\* The next update is taken after all before it.
LEMMA NextIsCovered ==
    ASSUME TypeOK, NEW c \in Connections, InOrder(c), NEW u \in Updates, NextUpdate(c, u), Holds(c)
    PROVE  AllBelow(u)
<1> DEFINE o == polls[c].offset
           b == polls[c].batch
<1>1. /\ writes[c]["poll"] = <<>> /\ u \in b
      /\ \A v \in b : u <= v \/ v \in Albums
  BY NextIsLeast
<1>2. \A v \in 1 .. o - 1 : Accounted(v)
  BY <1>1 DEF InOrder, PassedAreCovered, BeingWritten
<1>3. \A v \in 1 .. u - 1 : v < o \/ v \in b \/ Accounted(v)
  BY <1>1 DEF InOrder, BatchHasNoHoles
<1>4. u \in Int /\ o \in Nat
  BY UpdatesAreNumbers, PollIsTyped
<1> HIDE DEF o, b
<1> SUFFICES ASSUME NEW v \in 1 .. u - 1 PROVE Accounted(v)
  BY DEF AllBelow
<1>5. v \in Int /\ 1 <= v /\ v < u
  BY <1>4
<1>6. CASE v < o
  BY <1>2, <1>4, <1>5, <1>6
<1>7. CASE v \in b
  <2>1. ~(u <= v)
    BY <1>4, <1>5
  <2>2. v \in Albums
    BY <1>1, <1>7, <2>1
  <2> QED
    BY <2>2 DEF Accounted
<1> QED
  BY <1>3, <1>6, <1>7

\* What stays of the batch lies ahead and leaves no hole.
LEMMA RestIsInOrder ==
    ASSUME TypeOK, NEW c \in Connections, InOrder(c), NEW u \in Updates, NextUpdate(c, u),
           NEW o, o = IF u >= polls[c].offset THEN u + 1 ELSE polls[c].offset,
           NEW b, b = polls[c].batch \ {u}
    PROVE  /\ o \in Nat
           /\ \A v \in b : o <= v \/ v \in Albums
           /\ \A x \in b : \A v \in 1 .. x - 1 : v < o \/ v \in b \/ Accounted(v)
           /\ \A v \in 1 .. o - 1 : v < polls[c].offset \/ v = u \/ v \in 1 .. u - 1
<1> DEFINE q == polls[c].offset
           a == polls[c].batch
<1>1. /\ u \in a
      /\ \A v \in a : u <= v \/ v \in Albums
  BY NextIsLeast
<1>2. \A v \in a : q <= v \/ v \in Albums
  BY DEF InOrder, BatchIsAhead
<1>3. \A x \in a : \A v \in 1 .. x - 1 : v < q \/ v \in a \/ Accounted(v)
  BY DEF InOrder, BatchHasNoHoles
<1>4. u \in Int /\ 1 <= u /\ q \in Nat /\ a \subseteq Nat
  BY UpdatesAreNumbers, PollIsTyped
<1>5. o = (IF u >= q THEN u + 1 ELSE q) /\ b = a \ {u}
  OBVIOUS
<1> HIDE DEF q, a
<1>6. o \in Nat /\ q <= o /\ u < o /\ (o = q \/ o = u + 1)
  BY <1>4, <1>5
<1>7. ASSUME NEW v \in b PROVE o <= v \/ v \in Albums
  <2>1. v \in a /\ v # u /\ v \in Nat
    BY <1>4, <1>5
  <2>2. CASE o = q
    BY <1>2, <2>1, <2>2
  <2>3. CASE o = u + 1
    <3>1. u <= v \/ v \in Albums
      BY <1>1, <2>1
    <3> QED
      BY <1>4, <2>1, <2>3, <3>1
  <2> QED
    BY <1>6, <2>2, <2>3
<1>8. ASSUME NEW x \in b, NEW v \in 1 .. x - 1 PROVE v < o \/ v \in b \/ Accounted(v)
  <2>1. x \in a /\ x \in Nat
    BY <1>4, <1>5
  <2>2. v \in Int
    BY <2>1
  <2>3. v < q \/ v \in a \/ Accounted(v)
    BY <1>3, <2>1
  <2> QED
    BY <1>4, <1>5, <1>6, <2>2, <2>3
<1>9. ASSUME NEW v \in 1 .. o - 1 PROVE v < q \/ v = u \/ v \in 1 .. u - 1
  BY <1>4, <1>6
<1> QED
  BY <1>6, <1>7, <1>8, <1>9 DEF q

\* An update is taken: it is written, excused, held or nobody's.
LEMMA TakenInvariant ==
    ASSUME HandoverInvariant, NEW c \in Connections, NEW u \in Updates, NextUpdate(c, u),
           NEW p \in PollType, polls' = [polls EXCEPT ![c] = p], p.at = polls[c].at,
           p.offset = Passed(polls[c], u).offset,
           p.batch = Passed(polls[c], u).batch \/ p.batch = {},
           p.held \subseteq polls[c].held \cup {u},
           writes' \in [Connections -> [Tasks -> Seq(WriteType)]],
           \A d \in Connections \ {c} : writes'[d] = writes[d],
           \A t \in Tasks \ {"poll"} : writes'[c][t] = writes[c][t],
           writes'[c]["poll"] # <<>> =>
              /\ ~writes'[c]["poll"][1].fenced
              /\ writes'[c]["poll"][1].rec.kind # "checkpoint"
              /\ writes'[c]["poll"][1].rec.kind = "inbound" =>
                    writes'[c]["poll"][1].rec.update = u /\ HasRuntime(c),
           Holds(c) => u \in Albums \/ u \in excused' \/
              (writes'[c]["poll"] # <<>> /\ writes'[c]["poll"][1].rec.kind = "inbound"),
           excused \subseteq excused', excused' \subseteq Nat,
           UNCHANGED <<log, lock, telegram, runtimes, sessions, prompted>>
    PROVE  HandoverInvariant'
<1>1. TypeOK /\ InOrder(c) /\ Owner(c) # NoOwner
  BY AliveIsOwned DEF HandoverInvariant, NextUpdate
<1>2. polls[c].at \in {"catching up", "polling"} /\ writes[c]["poll"] = <<>>
  BY DEF NextUpdate
<1> DEFINE o == IF u >= polls[c].offset THEN u + 1 ELSE polls[c].offset
           b == polls[c].batch \ {u}
<1>3. Passed(polls[c], u).offset = o /\ Passed(polls[c], u).batch = b
  BY <1>1 DEF Passed, TypeOK, PollType
<1>4. /\ polls' \in [Connections -> PollType] /\ OthersStay(c) /\ polls'[c] = p
  BY <1>1 DEF TypeOK, OthersStay
<1>5. TypeOK' /\ OwnersStay(runtimes') /\ SessionsStay
  BY <1>1, <1>4 DEF TypeOK, OwnersStay, SessionsStay
<1>6. Grows
  BY QuietGrows
<1>7. Holds(c)' = Holds(c) /\ Owner(c)' = Owner(c)
  BY DEF Holds, HasRuntime, Owner
<1>8. Holds(c) => AllBelow(u)
  BY <1>1, NextIsCovered
<1>9. /\ \A v \in b : o <= v \/ v \in Albums
      /\ \A x \in b : \A v \in 1 .. x - 1 : v < o \/ v \in b \/ Accounted(v)
      /\ \A v \in 1 .. o - 1 : v < polls[c].offset \/ v = u \/ v \in 1 .. u - 1
  BY <1>1, RestIsInOrder
<1>10. polls'[c].offset = o /\ (polls'[c].batch = b \/ polls'[c].batch = {}) /\ o \in Nat
  BY <1>1, <1>3, <1>4, RestIsInOrder
<1>11. InOrder(c)'
  <2>1. UnusedAreIdle(c)' /\ AsksForTheRest(c)'
    BY <1>1, <1>2, <1>4, <1>7 DEF UnusedAreIdle, AsksForTheRest
  <2>2. ConnectedIsLast(c)'
    BY <1>1, <1>4, <1>7 DEF InOrder, ConnectedIsLast
  <2>3. PassedAreCovered(c)'
    <3> SUFFICES ASSUME Holds(c), NEW v \in 1 .. o - 1
                 PROVE  Accounted(v)' \/ BeingWritten(c, v)'
      BY <1>7, <1>10 DEF PassedAreCovered
    <3> HIDE DEF o
    <3>1. CASE v < polls[c].offset
      <4>1. v \in 1 .. polls[c].offset - 1
        <5>1. polls[c].offset \in Nat
          BY <1>1 DEF TypeOK, PollType
        <5> QED
          BY <1>10, <3>1, <5>1
      <4>2. Accounted(v)
        BY <1>1, <1>2, <4>1 DEF InOrder, PassedAreCovered, BeingWritten
      <4> QED
        BY <1>6, <4>2 DEF Grows
    <3>2. CASE v = u
      BY <3>2 DEF Accounted, BeingWritten
    <3>3. CASE v \in 1 .. u - 1
      BY <1>6, <1>8, <3>3 DEF AllBelow, Grows
    <3> QED
      BY <1>9, <3>1, <3>2, <3>3 DEF o
  <2>4. BatchIsAhead(c)' /\ BatchHasNoHoles(c)'
    BY <1>6, <1>9, <1>10 DEF BatchIsAhead, BatchHasNoHoles, Grows
  <2>5. HeldInOrder(c)'
    <3> SUFFICES ASSUME Holds(c), NEW x \in p.held PROVE AllBelow(x)'
      BY <1>4, <1>7 DEF HeldInOrder
    <3>1. AllBelow(x)
      BY <1>1, <1>8 DEF InOrder, HeldInOrder
    <3> QED
      BY <1>6, <3>1 DEF AllBelow, Grows
  <2>6. WritesInOrder(c)'
    <3> SUFFICES ASSUME NEW t \in Tasks, writes'[c][t] # <<>>,
                        writes'[c][t][1].fenced \/ ~runtimes[c].lost
                 PROVE  Safe(writes[c][t][1].rec)'
      BY DEF WritesInOrder
    <3>1. CASE t # "poll"
      <4>1. Safe(writes[c][t][1].rec) /\ writes'[c][t] = writes[c][t]
        BY <1>1, <3>1 DEF InOrder, WritesInOrder
      <4> QED
        BY <1>6, <4>1 DEF Safe, AllBelow, Grows
    <3>2. CASE t = "poll"
      <4>1. CASE writes'[c]["poll"][1].rec.kind = "inbound"
        <5>1. ~runtimes[c].lost /\ writes'[c]["poll"][1].rec.update = u
          BY <3>2, <4>1
        <5>2. AllBelow(u)
          BY <1>1, <1>8, <3>2, <4>1, <5>1, AliveIsOwned DEF Holds, NextUpdate
        <5> QED
          BY <1>6, <3>2, <4>1, <5>1, <5>2 DEF Safe, AllBelow, Grows
      <4>2. CASE writes'[c]["poll"][1].rec.kind # "inbound"
        BY <3>2, <4>2 DEF Safe
      <4> QED
        BY <4>1, <4>2
    <3> QED
      BY <3>1, <3>2
  <2> QED
    BY <2>1, <2>2, <2>3, <2>4, <2>5, <2>6 DEF InOrder
<1> QED
  BY <1>4, <1>5, <1>11, QuietConnectionStep

LEMMA PassedIsTyped ==
    ASSUME TypeOK, NEW c \in Connections, NEW u \in Updates
    PROVE  /\ Passed(polls[c], u) \in PollType
           /\ Passed(polls[c], u).at = polls[c].at /\ Passed(polls[c], u).held = polls[c].held
<1> DEFINE o == IF u >= polls[c].offset THEN u + 1 ELSE polls[c].offset
           b == polls[c].batch \ {u}
<1>1. polls[c] \in PollType
  BY PollIsTyped
<1>2. o \in Nat
  BY UpdatesAreNumbers, PollIsTyped
<1>3. b \in SUBSET Nat
  BY PollIsTyped
<1>4. Passed(polls[c], u) = [polls[c] EXCEPT !.batch = b, !.offset = o]
  BY DEF Passed
<1> HIDE DEF o, b
<1> QED
  BY <1>1, <1>2, <1>3, <1>4 DEF PollType

\* The poll loop's next write: of an update, of an error, or none.
LEMMA PollWrites ==
    ASSUME TypeOK, NEW c \in Connections, NEW w \in Seq(WriteType),
           writes' = [writes EXCEPT ![c]["poll"] = w]
    PROVE  /\ writes' \in [Connections -> [Tasks -> Seq(WriteType)]]
           /\ \A d \in Connections \ {c} : writes'[d] = writes[d]
           /\ \A t \in Tasks \ {"poll"} : writes'[c][t] = writes[c][t]
           /\ writes'[c]["poll"] = w
BY DEF TypeOK, Tasks

LEMMA NoWrite ==
    ASSUME TypeOK, NEW c \in Connections, writes' = writes
    PROVE  /\ writes' \in [Connections -> [Tasks -> Seq(WriteType)]]
           /\ \A d \in Connections \ {c} : writes'[d] = writes[d]
           /\ \A t \in Tasks \ {"poll"} : writes'[c][t] = writes[c][t]
           /\ writes'[c]["poll"] = writes[c]["poll"]
BY DEF TypeOK

LEMMA NewWrite ==
    ASSUME TypeOK, NEW c \in Connections, NEW kind \in Kinds, NEW u \in Nat,
           NEW w, w = Writing(Record(c, runtimes[c], kind, u, 0))
    PROVE  /\ w \in Seq(WriteType) /\ w # <<>> /\ ~w[1].fenced
           /\ w[1].rec.kind = kind /\ w[1].rec.update = u
<1> DEFINE rec == Record(c, runtimes[c], kind, u, 0)
<1>1. runtimes[c] \in RuntimeType
  BY DEF TypeOK
<1>2. rec \in RecordType /\ rec.kind = kind /\ rec.update = u
  BY <1>1, RecordIsTyped
<1> HIDE DEF rec
<1>3. Writing(rec) \in Seq(WriteType) /\ Writing(rec) # <<>> /\ Writing(rec)[1].rec = rec /\ ~Writing(rec)[1].fenced
  BY <1>2, WritingIsTyped
<1> QED
  BY <1>2, <1>3 DEF rec

LEMMA NewMessage ==
    ASSUME TypeOK, NEW c \in Connections, NEW u \in Updates,
           NEW w, w = Writing(Record(c, runtimes[c], "inbound", u, 0))
    PROVE  /\ w \in Seq(WriteType) /\ w # <<>> /\ ~w[1].fenced
           /\ w[1].rec.kind = "inbound" /\ w[1].rec.update = u
<1>1. "inbound" \in Kinds /\ u \in Nat
  BY UpdatesAreNumbers DEF Kinds
<1> QED
  BY <1>1, NewWrite

LEMMA TakeMessageInvariant ==
    ASSUME HandoverInvariant, NEW c \in Connections, NEW u \in Updates, TakeMessage(c, u)
    PROVE  HandoverInvariant'
<1> DEFINE w == Writing(Record(c, runtimes[c], "inbound", u, 0))
           p == Passed(polls[c], u)
<1>1. /\ NextUpdate(c, u) /\ HasRuntime(c)
      /\ writes' = [writes EXCEPT ![c]["poll"] = w] /\ polls' = [polls EXCEPT ![c] = p]
      /\ UNCHANGED <<log, lock, telegram, runtimes, sessions, excused, prompted>>
  BY DEF TakeMessage
<1>2. TypeOK
  BY DEF HandoverInvariant
<1>3. p \in PollType /\ p.at = polls[c].at /\ p.held = polls[c].held
  BY <1>2, PassedIsTyped
<1>4. /\ w \in Seq(WriteType) /\ w # <<>> /\ ~w[1].fenced
      /\ w[1].rec.kind = "inbound" /\ w[1].rec.update = u
  <2>1. w = Writing(Record(c, runtimes[c], "inbound", u, 0))
    OBVIOUS
  <2> HIDE DEF w
  <2> QED
    BY <1>2, <2>1, NewMessage
<1> HIDE DEF w
<1>5. /\ writes' \in [Connections -> [Tasks -> Seq(WriteType)]]
      /\ \A d \in Connections \ {c} : writes'[d] = writes[d]
      /\ \A t \in Tasks \ {"poll"} : writes'[c][t] = writes[c][t]
      /\ writes'[c]["poll"] = w
  BY <1>1, <1>2, <1>4, PollWrites
<1>6. excused \subseteq excused' /\ excused' \subseteq Nat
  BY <1>1, <1>2 DEF TypeOK
<1> QED
  BY <1>1, <1>3, <1>4, <1>5, <1>6, TakenInvariant

LEMMA TakeCommandInvariant ==
    ASSUME HandoverInvariant, NEW c \in Connections, NEW u \in Updates, TakeCommand(c, u)
    PROVE  HandoverInvariant'
<1> DEFINE p == Passed(polls[c], u)
<1>1. /\ NextUpdate(c, u) /\ excused' = excused \cup {u} /\ polls' = [polls EXCEPT ![c] = p]
      /\ UNCHANGED <<log, lock, telegram, runtimes, writes, sessions, prompted>>
      /\ writes[c]["poll"] = <<>>
  BY DEF TakeCommand, NextUpdate
<1>2. TypeOK
  BY DEF HandoverInvariant
<1>3. p \in PollType /\ p.at = polls[c].at /\ p.held = polls[c].held
  BY <1>2, PassedIsTyped
<1>4. excused \subseteq excused' /\ excused' \subseteq Nat /\ u \in excused'
  BY <1>1, <1>2, UpdatesAreNumbers DEF TypeOK
<1> QED
  BY <1>1, <1>2, <1>3, <1>4, NoWrite, TakenInvariant

LEMMA TakeNothingInvariant ==
    ASSUME HandoverInvariant, NEW c \in Connections, NEW u \in Updates, TakeNothing(c, u)
    PROVE  HandoverInvariant'
<1> DEFINE p == Passed(polls[c], u)
<1>1. /\ NextUpdate(c, u) /\ polls' = [polls EXCEPT ![c] = p]
      /\ UNCHANGED <<log, lock, telegram, runtimes, writes, sessions, excused, prompted>>
      /\ writes[c]["poll"] = <<>> /\ ~Holds(c)
  BY DEF TakeNothing, NextUpdate, Holds
<1>2. TypeOK
  BY DEF HandoverInvariant
<1>3. p \in PollType /\ p.at = polls[c].at /\ p.held = polls[c].held
  BY <1>2, PassedIsTyped
<1>4. excused \subseteq excused' /\ excused' \subseteq Nat
  BY <1>1, <1>2 DEF TypeOK
<1> QED
  BY <1>1, <1>2, <1>3, <1>4, NoWrite, TakenInvariant

LEMMA TakeAlbumInvariant ==
    ASSUME HandoverInvariant, NEW c \in Connections, NEW u \in Updates, TakeAlbum(c, u)
    PROVE  HandoverInvariant'
<1> DEFINE q == Passed(polls[c], u)
           p == [q EXCEPT !.held = @ \cup {u}]
<1>1. /\ NextUpdate(c, u) /\ polls' = [polls EXCEPT ![c] = p]
      /\ UNCHANGED <<log, lock, telegram, runtimes, writes, sessions, excused, prompted>>
      /\ writes[c]["poll"] = <<>> /\ u \in Albums
  BY DEF TakeAlbum, NextUpdate, IsHeld
<1>2. TypeOK
  BY DEF HandoverInvariant
<1>3. q \in PollType /\ q.at = polls[c].at /\ q.held = polls[c].held
  BY <1>2, PassedIsTyped
<1>4. /\ p \in PollType /\ p.at = q.at /\ p.offset = q.offset /\ p.batch = q.batch
      /\ p.held = q.held \cup {u}
  <2> HIDE DEF q
  <2> QED
    BY <1>3, UpdatesAreNumbers DEF PollType
<1>5. excused \subseteq excused' /\ excused' \subseteq Nat
  BY <1>1, <1>2 DEF TypeOK
<1> HIDE DEF p
<1> QED
  BY <1>1, <1>2, <1>3, <1>4, <1>5, NoWrite, TakenInvariant

\* An error is noted: a write of the poll loop that is no message.
LEMMA NoteErrorWrites ==
    ASSUME TypeOK, NEW c \in Connections, NoteError(c)
    PROVE  /\ writes' \in [Connections -> [Tasks -> Seq(WriteType)]]
           /\ \A d \in Connections \ {c} : writes'[d] = writes[d]
           /\ \A t \in Tasks \ {"poll"} : writes'[c][t] = writes[c][t]
           /\ \/ writes'[c]["poll"] = writes[c]["poll"]
              \/ ~writes'[c]["poll"][1].fenced /\ writes'[c]["poll"][1].rec.kind = "error"
<1> DEFINE w == Writing(Record(c, runtimes[c], "error", 0, 0))
<1>1. w \in Seq(WriteType) /\ w # <<>> /\ ~w[1].fenced /\ w[1].rec.kind = "error"
  <2>1. "error" \in Kinds /\ 0 \in Nat
    BY DEF Kinds
  <2>2. w = Writing(Record(c, runtimes[c], "error", 0, 0))
    OBVIOUS
  <2> HIDE DEF w
  <2> QED
    BY <2>1, <2>2, NewWrite
<1>2. writes' = writes \/ writes' = [writes EXCEPT ![c]["poll"] = w]
  BY DEF NoteError
<1> HIDE DEF w
<1> QED
  BY <1>1, <1>2, NoWrite, PollWrites

LEMMA TakeFailsInvariant ==
    ASSUME HandoverInvariant, NEW c \in Connections, NEW u \in Updates, TakeFails(c, u)
    PROVE  HandoverInvariant'
<1> DEFINE q == Passed(polls[c], u)
           p == [q EXCEPT !.batch = {}]
<1>1. /\ NextUpdate(c, u) /\ excused' = excused \cup {u} /\ polls' = [polls EXCEPT ![c] = p]
      /\ NoteError(c) /\ writes[c]["poll"] = <<>>
      /\ UNCHANGED <<log, lock, telegram, runtimes, sessions, prompted>>
  BY DEF TakeFails, NextUpdate
<1>2. TypeOK
  BY DEF HandoverInvariant
<1>3. q \in PollType /\ q.at = polls[c].at /\ q.held = polls[c].held
  BY <1>2, PassedIsTyped
<1>4. /\ p \in PollType /\ p.at = q.at /\ p.offset = q.offset /\ p.batch = {} /\ p.held = q.held
  <2> HIDE DEF q
  <2> QED
    BY <1>3 DEF PollType
<1>5. excused \subseteq excused' /\ excused' \subseteq Nat /\ u \in excused'
  BY <1>1, <1>2, UpdatesAreNumbers DEF TypeOK
<1> HIDE DEF p
<1> QED
  BY <1>1, <1>2, <1>3, <1>4, <1>5, NoteErrorWrites, TakenInvariant

LEMMA FetchFailsInvariant ==
    ASSUME HandoverInvariant, NEW c \in Connections, FetchFails(c)
    PROVE  HandoverInvariant'
<1> DEFINE p == [polls[c] EXCEPT !.at = "polling"]
<1>1. /\ Alive(c) /\ polls[c].at = "fetching" /\ polls' = [polls EXCEPT ![c] = p] /\ NoteError(c)
      /\ UNCHANGED <<log, lock, telegram, runtimes, sessions, excused, prompted>>
  BY DEF FetchFails, Fetching
<1>2. TypeOK /\ InOrder(c) /\ Owner(c) # NoOwner
  BY <1>1, AliveIsOwned DEF HandoverInvariant
<1>3. /\ p \in PollType /\ p.at = "polling" /\ p.offset = polls[c].offset
      /\ p.batch = polls[c].batch /\ p.held = polls[c].held
  <2>1. polls[c] \in PollType
    BY <1>2, PollIsTyped
  <2> QED
    BY <2>1 DEF PollType
<1> HIDE DEF p
<1>4. polls' \in [Connections -> PollType] /\ polls'[c] = p /\ \A d \in Connections \ {c} : polls'[d] = polls[d]
  BY <1>1, <1>2, <1>3 DEF TypeOK
<1>5. /\ writes' \in [Connections -> [Tasks -> Seq(WriteType)]]
      /\ \A d \in Connections \ {c} : writes'[d] = writes[d]
      /\ \A t \in Tasks \ {"poll"} : writes'[c][t] = writes[c][t]
      /\ \/ writes'[c]["poll"] = writes[c]["poll"]
         \/ ~writes'[c]["poll"][1].fenced /\ writes'[c]["poll"][1].rec.kind = "error"
  BY <1>1, <1>2, NoteErrorWrites
<1>6. TypeOK' /\ OwnersStay(runtimes') /\ SessionsStay /\ OthersStay(c)
  BY <1>1, <1>2, <1>4, <1>5 DEF TypeOK, OwnersStay, SessionsStay, OthersStay
<1>7. Grows
  BY <1>1, QuietGrows
<1>8. Holds(c)' = Holds(c) /\ Owner(c)' = Owner(c)
  BY <1>1 DEF Holds, HasRuntime, Owner
<1>9. AllBelow(polls[c].offset)
  BY <1>1, <1>2 DEF InOrder, AsksForTheRest
<1>10. InOrder(c)'
  <2>1. UnusedAreIdle(c)' /\ AsksForTheRest(c)'
    BY <1>2, <1>3, <1>4, <1>8 DEF UnusedAreIdle, AsksForTheRest
  <2>2. ConnectedIsLast(c)'
    BY <1>1, <1>2, <1>8 DEF InOrder, ConnectedIsLast
  <2>3. PassedAreCovered(c)'
    BY <1>3, <1>4, <1>7, <1>9 DEF PassedAreCovered, AllBelow, Grows
  <2>4. BatchIsAhead(c)' /\ BatchHasNoHoles(c)'
    BY <1>2, <1>3, <1>4, <1>7 DEF InOrder, BatchIsAhead, BatchHasNoHoles, Grows
  <2>5. HeldInOrder(c)'
    BY <1>2, <1>3, <1>4, <1>7, <1>8 DEF InOrder, HeldInOrder, AllBelow, Grows
  <2>6. WritesInOrder(c)'
    <3> SUFFICES ASSUME NEW t \in Tasks, writes'[c][t] # <<>>,
                        writes'[c][t][1].fenced \/ ~runtimes[c].lost
                 PROVE  Safe(writes[c][t][1].rec)'
      BY <1>1 DEF WritesInOrder
    <3>1. CASE writes'[c][t] = writes[c][t]
      <4>1. Safe(writes[c][t][1].rec)
        BY <1>2, <3>1 DEF InOrder, WritesInOrder
      <4> QED
        BY <1>7, <3>1, <4>1 DEF Safe, AllBelow, Grows
    <3>2. CASE writes'[c][t] # writes[c][t]
      BY <1>5, <3>2 DEF Safe
    <3> QED
      BY <3>1, <3>2
  <2> QED
    BY <2>1, <2>2, <2>3, <2>4, <2>5, <2>6 DEF InOrder
<1> QED
  BY <1>1, <1>6, <1>10, QuietConnectionStep

LEMMA FlushAlbumInvariant ==
    ASSUME HandoverInvariant, NEW c \in Connections, NEW u \in Updates, FlushAlbum(c, u)
    PROVE  HandoverInvariant'
<1> DEFINE p == [polls[c] EXCEPT !.held = @ \ {u}]
           w == Writing(Record(c, runtimes[c], "inbound", u, 0))
<1>1. /\ Alive(c) /\ u \in polls[c].held /\ polls' = [polls EXCEPT ![c] = p]
      /\ writes' = writes \/ (HasRuntime(c) /\ writes' = [writes EXCEPT ![c]["flush"] = w])
      /\ UNCHANGED <<log, lock, telegram, runtimes, sessions, excused, prompted>>
  BY DEF FlushAlbum
<1>2. TypeOK /\ InOrder(c) /\ Owner(c) # NoOwner /\ Owner(c) \in Sessions
  BY <1>1, AliveIsOwned DEF HandoverInvariant
<1>3. /\ p \in PollType /\ p.at = polls[c].at /\ p.offset = polls[c].offset
      /\ p.batch = polls[c].batch /\ p.held \subseteq polls[c].held
  <2>1. polls[c] \in PollType
    BY <1>2, PollIsTyped
  <2> QED
    BY <2>1 DEF PollType
<1>4. /\ w \in Seq(WriteType) /\ w # <<>> /\ ~w[1].fenced
      /\ w[1].rec.kind = "inbound" /\ w[1].rec.update = u
  <2>1. w = Writing(Record(c, runtimes[c], "inbound", u, 0))
    OBVIOUS
  <2> HIDE DEF w
  <2> QED
    BY <1>2, <2>1, NewMessage
<1> HIDE DEF p, w
<1>5. polls' \in [Connections -> PollType] /\ polls'[c] = p /\ \A d \in Connections \ {c} : polls'[d] = polls[d]
  BY <1>1, <1>2, <1>3 DEF TypeOK
<1>6. /\ writes' \in [Connections -> [Tasks -> Seq(WriteType)]]
      /\ \A d \in Connections \ {c} : writes'[d] = writes[d]
      /\ \A t \in Tasks \ {"flush"} : writes'[c][t] = writes[c][t]
      /\ writes'[c]["flush"] = writes[c]["flush"] \/ (HasRuntime(c) /\ writes'[c]["flush"] = w)
  <2>1. writes \in [Connections -> [Tasks -> Seq(WriteType)]]
    BY <1>2 DEF TypeOK
  <2>2. CASE writes' = writes
    BY <2>1, <2>2
  <2>3. CASE HasRuntime(c) /\ writes' = [writes EXCEPT ![c]["flush"] = w]
    BY <1>4, <2>1, <2>3 DEF Tasks
  <2> QED
    BY <1>1, <2>2, <2>3
<1>7. TypeOK' /\ OwnersStay(runtimes') /\ SessionsStay /\ OthersStay(c)
  BY <1>1, <1>2, <1>5, <1>6 DEF TypeOK, OwnersStay, SessionsStay, OthersStay
<1>8. Grows
  BY <1>1, QuietGrows
<1>9. Holds(c)' = Holds(c) /\ Owner(c)' = Owner(c)
  BY <1>1 DEF Holds, HasRuntime, Owner
<1>10. InOrder(c)'
  <2>1. UnusedAreIdle(c)' /\ AsksForTheRest(c)'
    BY <1>1, <1>2, <1>3, <1>5, <1>8, <1>9 DEF InOrder, UnusedAreIdle, AsksForTheRest, AllBelow, Grows
  <2>2. ConnectedIsLast(c)'
    BY <1>1, <1>2, <1>3, <1>5, <1>9 DEF InOrder, ConnectedIsLast
  <2>3. PassedAreCovered(c)'
    BY <1>2, <1>3, <1>5, <1>6, <1>8, <1>9 DEF InOrder, PassedAreCovered, BeingWritten, Grows, Tasks
  <2>4. BatchIsAhead(c)' /\ BatchHasNoHoles(c)'
    BY <1>2, <1>3, <1>5, <1>8 DEF InOrder, BatchIsAhead, BatchHasNoHoles, Grows
  <2>5. HeldInOrder(c)'
    BY <1>2, <1>3, <1>5, <1>8, <1>9 DEF InOrder, HeldInOrder, AllBelow, Grows
  <2>6. WritesInOrder(c)'
    <3> SUFFICES ASSUME NEW t \in Tasks, writes'[c][t] # <<>>,
                        writes'[c][t][1].fenced \/ ~runtimes[c].lost
                 PROVE  Safe(writes[c][t][1].rec)'
      BY <1>1 DEF WritesInOrder
    <3>1. CASE writes'[c][t] = writes[c][t]
      <4>1. Safe(writes[c][t][1].rec)
        BY <1>2, <3>1 DEF InOrder, WritesInOrder
      <4> QED
        BY <1>8, <3>1, <4>1 DEF Safe, AllBelow, Grows
    <3>2. CASE writes'[c][t] # writes[c][t]
      <4>1. writes'[c][t] = w /\ HasRuntime(c) /\ ~runtimes[c].lost
        BY <1>4, <1>6, <3>2
      <4>2. AllBelow(u)
        BY <1>1, <1>2, <4>1 DEF InOrder, HeldInOrder, Holds
      <4> QED
        BY <1>4, <1>8, <4>1, <4>2 DEF Safe, AllBelow, Grows
    <3> QED
      BY <3>1, <3>2
  <2> QED
    BY <2>1, <2>2, <2>3, <2>4, <2>5, <2>6 DEF InOrder
<1> QED
  BY <1>1, <1>7, <1>10, QuietConnectionStep

-----------------------------------------------------------------------------
(* Writing to the log.                                                       *)

LEMMA WriteIsTyped ==
    ASSUME TypeOK, NEW c \in Connections, NEW t \in Tasks, writes[c][t] # <<>>
    PROVE  writes[c][t][1] \in WriteType /\ writes[c][t][1].rec \in RecordType
<1>1. writes[c][t] \in Seq(WriteType)
  BY DEF TypeOK
<1>2. writes[c][t][1] \in WriteType
  BY <1>1
<1> QED
  BY <1>2 DEF WriteType

LEMMA FencedIsTyped ==
    ASSUME NEW x \in Seq(WriteType), x # <<>>
    PROVE  LET y == [x EXCEPT ![1].fenced = TRUE]
           IN  y \in Seq(WriteType) /\ y # <<>> /\ y[1].rec = x[1].rec
<1> DEFINE e == [x[1] EXCEPT !.fenced = TRUE]
<1>1. x[1] \in WriteType
  OBVIOUS
<1>2. e \in WriteType /\ e.rec = x[1].rec
  BY <1>1 DEF WriteType
<1>3. [x EXCEPT ![1].fenced = TRUE] = [x EXCEPT ![1] = e]
  OBVIOUS
<1> HIDE DEF e
<1>4. [x EXCEPT ![1] = e] \in Seq(WriteType) /\ [x EXCEPT ![1] = e] # <<>> /\ [x EXCEPT ![1] = e][1] = e
  BY <1>2
<1> QED
  BY <1>2, <1>3, <1>4

\* The fence lets the record pass.
LEMMA FencePassedInvariant ==
    ASSUME HandoverInvariant, NEW c \in Connections, NEW t \in Tasks, Fence(c, t), Owns(c)
    PROVE  HandoverInvariant'
<1> DEFINE x == writes[c][t]
           y == [x EXCEPT ![1].fenced = TRUE]
           rec == x[1].rec
           k == Pushed(runtimes[c], rec)
<1>1. /\ Alive(c) /\ x # <<>>
      /\ runtimes' = [runtimes EXCEPT ![c] = k] /\ writes' = [writes EXCEPT ![c][t] = y]
      /\ UNCHANGED <<log, lock, telegram, polls, sessions, excused, prompted>>
  BY DEF Fence
<1>2. TypeOK /\ InOrder(c) /\ Owner(c) # NoOwner /\ x \in Seq(WriteType) /\ runtimes[c] \in RuntimeType
  BY <1>1, AliveIsOwned DEF HandoverInvariant, TypeOK
<1>3. rec \in RecordType
  BY <1>1, <1>2, WriteIsTyped
<1>4. k \in RuntimeType /\ k.owner = runtimes[c].owner /\ k.lost = runtimes[c].lost
  BY <1>2, <1>3, PushedIsTyped
<1>5. y \in Seq(WriteType) /\ y # <<>> /\ y[1].rec = rec
  <2> HIDE DEF x
  <2> QED
    BY <1>1, <1>2, FencedIsTyped
<1>6. Safe(rec) /\ ~runtimes[c].lost
  BY <1>1, <1>2 DEF InOrder, WritesInOrder, Owns
<1> HIDE DEF y, k, rec
<1>7. /\ writes' \in [Connections -> [Tasks -> Seq(WriteType)]]
      /\ writes'[c][t] = y /\ \A r \in Tasks \ {t} : writes'[c][r] = writes[c][r]
      /\ \A d \in Connections \ {c} : writes'[d] = writes[d]
  BY <1>1, <1>2, <1>5 DEF TypeOK
<1>8. runtimes' \in [Connections -> RuntimeType] /\ OwnersStay(runtimes') /\ runtimes'[c].lost = runtimes[c].lost
  BY <1>1, <1>2, <1>4 DEF TypeOK, OwnersStay
<1>9. TypeOK' /\ SessionsStay /\ OthersStay(c)
  BY <1>1, <1>2, <1>7, <1>8 DEF TypeOK, SessionsStay, OthersStay
<1>10. Grows
  BY <1>1, QuietGrows
<1>11. (Holds(c)' => Holds(c)) /\ Owner(c)' = Owner(c)
       /\ (ConnectedIsLast(c) /\ polls'[c].at = polls[c].at => ConnectedIsLast(c)')
  BY <1>2, <1>8, <1>9, StayingHolds
<1>12. InOrder(c)'
  <2>1. UnusedAreIdle(c)' /\ AsksForTheRest(c)' /\ ConnectedIsLast(c)'
    BY <1>1, <1>2, <1>10, <1>11 DEF InOrder, UnusedAreIdle, AsksForTheRest, AllBelow, Grows
  <2>2. PassedAreCovered(c)'
    <3> SUFFICES ASSUME Holds(c), NEW v \in 1 .. polls[c].offset - 1
                 PROVE  Accounted(v)' \/ BeingWritten(c, v)'
      BY <1>1, <1>11 DEF PassedAreCovered
    <3>1. Accounted(v) \/ BeingWritten(c, v)
      BY <1>2 DEF InOrder, PassedAreCovered
    <3>2. BeingWritten(c, v) => BeingWritten(c, v)'
      <4>1. CASE t = "poll"
        BY <1>5, <1>7, <4>1 DEF BeingWritten, rec
      <4>2. CASE t # "poll"
        BY <1>7, <4>2 DEF BeingWritten, Tasks
      <4> QED
        BY <4>1, <4>2
    <3> QED
      BY <1>10, <3>1, <3>2 DEF Grows
  <2>3. BatchIsAhead(c)' /\ BatchHasNoHoles(c)'
    BY <1>1, <1>2, <1>10 DEF InOrder, BatchIsAhead, BatchHasNoHoles, Grows
  <2>4. HeldInOrder(c)'
    BY <1>1, <1>2, <1>10, <1>11 DEF InOrder, HeldInOrder, AllBelow, Grows
  <2>5. WritesInOrder(c)'
    <3> SUFFICES ASSUME NEW r \in Tasks, writes'[c][r] # <<>>,
                        writes'[c][r][1].fenced \/ ~runtimes'[c].lost
                 PROVE  Safe(writes[c][r][1].rec)'
      BY DEF WritesInOrder
    <3>1. CASE r = t
      BY <1>5, <1>6, <1>7, <1>10, <3>1 DEF Safe, AllBelow, Grows
    <3>2. CASE r # t
      <4>1. writes'[c][r] = writes[c][r]
        BY <1>7, <3>2
      <4>2. Safe(writes[c][r][1].rec)
        BY <1>2, <1>8, <4>1 DEF InOrder, WritesInOrder
      <4> QED
        BY <1>10, <4>1, <4>2 DEF Safe, AllBelow, Grows
    <3> QED
      BY <3>1, <3>2
  <2> QED
    BY <2>1, <2>2, <2>3, <2>4, <2>5 DEF InOrder
<1> QED
  BY <1>1, <1>8, <1>9, <1>12, QuietConnectionStep

\* The fence drops the record: the runtime has seen another owner.
LEMMA FenceDroppedInvariant ==
    ASSUME HandoverInvariant, NEW c \in Connections, NEW t \in Tasks, Fence(c, t), ~Owns(c)
    PROVE  HandoverInvariant'
<1> DEFINE rec == writes[c][t][1].rec
           k == [runtimes[c] EXCEPT !.lost = TRUE]
           rts == [runtimes EXCEPT ![c].lost = TRUE]
           s == Owner(c)
           v == IF runtimes[c].lost THEN sessions[s] ELSE Noticed(sessions[s])
           w == FollowUp(c, rts[c], rec)
<1>1. /\ Alive(c) /\ writes[c][t] # <<>> /\ Continue(c, t, rts, v, rec)
      /\ UNCHANGED <<log, lock, telegram, polls, excused>>
  BY DEF Fence
<1>2. TypeOK /\ InOrder(c) /\ CurrentIsConnected /\ s # NoOwner /\ s \in Sessions
  BY <1>1, AliveIsOwned DEF HandoverInvariant
<1>3. rec \in RecordType
  BY <1>1, <1>2, WriteIsTyped
<1>4. rts \in [Connections -> RuntimeType] /\ OwnersStay(rts) /\ rts[c].lost
  <2>1. k \in RuntimeType /\ k.owner = runtimes[c].owner /\ k.lost
    BY <1>2 DEF TypeOK, RuntimeType
  <2>2. rts = [runtimes EXCEPT ![c] = k]
    OBVIOUS
  <2> HIDE DEF k, rts
  <2> QED
    BY <1>2, <2>1, <2>2 DEF TypeOK, OwnersStay
<1>5. StaysAs(s, v)
  BY <1>2, NoticedStays
<1> HIDE DEF rec, rts, v
<1>6. /\ runtimes' \in [Connections -> RuntimeType] /\ OwnersStay(runtimes')
      /\ sessions' \in [Sessions -> SessionType] /\ SessionsStay
      /\ writes' \in [Connections -> [Tasks -> Seq(WriteType)]]
      /\ writes' = [writes EXCEPT ![c][t] = w]
      /\ prompted' \subseteq Nat
      /\ \A d \in Connections : runtimes'[d].lost = rts[d].lost
  BY <1>1, <1>2, <1>3, <1>4, <1>5, ContinueStays
<1>7. w # <<>> => ~w[1].fenced
  BY <1>3, <1>4, FollowUpIsTyped
<1> HIDE DEF w
<1>8. /\ writes'[c][t] = w /\ \A r \in Tasks \ {t} : writes'[c][r] = writes[c][r]
      /\ \A d \in Connections \ {c} : writes'[d] = writes[d]
  BY <1>2, <1>6 DEF TypeOK
<1>9. TypeOK' /\ OthersStay(c)
  BY <1>1, <1>2, <1>6, <1>8 DEF TypeOK, OthersStay
<1>10. Grows
  BY <1>1, QuietGrows
<1>11. runtimes'[c].lost /\ ~Holds(c)' /\ Owner(c)' = Owner(c)
       /\ (ConnectedIsLast(c) /\ polls'[c].at = polls[c].at => ConnectedIsLast(c)')
  <2>1. runtimes'[c].lost
    BY <1>4, <1>6
  <2> QED
    BY <1>2, <1>6, <2>1, StayingHolds DEF Holds
<1>12. InOrder(c)'
  <2>1. UnusedAreIdle(c)' /\ AsksForTheRest(c)' /\ ConnectedIsLast(c)'
    BY <1>1, <1>2, <1>10, <1>11 DEF InOrder, UnusedAreIdle, AsksForTheRest, AllBelow, Grows
  <2>2. PassedAreCovered(c)' /\ HeldInOrder(c)'
    BY <1>11 DEF PassedAreCovered, HeldInOrder
  <2>3. BatchIsAhead(c)' /\ BatchHasNoHoles(c)'
    BY <1>1, <1>2, <1>10 DEF InOrder, BatchIsAhead, BatchHasNoHoles, Grows
  <2>4. WritesInOrder(c)'
    <3> SUFFICES ASSUME NEW r \in Tasks, writes'[c][r] # <<>>, writes'[c][r][1].fenced
                 PROVE  Safe(writes[c][r][1].rec)'
      BY <1>11 DEF WritesInOrder
    <3>1. r # t /\ writes'[c][r] = writes[c][r]
      BY <1>7, <1>8
    <3>2. Safe(writes[c][r][1].rec)
      BY <1>2, <3>1 DEF InOrder, WritesInOrder
    <3> QED
      BY <1>10, <3>1, <3>2 DEF Safe, AllBelow, Grows
  <2> QED
    BY <2>1, <2>2, <2>3, <2>4 DEF InOrder
<1> QED
  BY <1>1, <1>6, <1>9, <1>12, QuietConnectionStep

LEMMA LogGrows ==
    ASSUME TypeOK, NEW e \in LogRecordType, log' = Append(log, e), excused' = excused
    PROVE  /\ log' \in Seq(LogRecordType) /\ Grows
           /\ e.kind = "inbound" => Accounted(e.update)'
           /\ \A i \in DOMAIN log' : (i \in DOMAIN log /\ log'[i] = log[i]) \/ log'[i] = e
<1>1. log \in Seq(LogRecordType)
  BY DEF TypeOK
<1>2. /\ log' \in Seq(LogRecordType)
      /\ \A i \in DOMAIN log : i \in DOMAIN log' /\ log'[i] = log[i]
      /\ Len(log) + 1 \in DOMAIN log' /\ log'[Len(log) + 1] = e
      /\ \A i \in DOMAIN log' : (i \in DOMAIN log /\ log'[i] = log[i]) \/ log'[i] = e
  BY <1>1
<1>3. Grows
  BY <1>2 DEF Grows, Accounted, Logged
<1>4. e.kind = "inbound" => Accounted(e.update)'
  BY <1>2 DEF Accounted, Logged
<1> QED
  BY <1>2, <1>3, <1>4

LEMMA AppendInvariant ==
    ASSUME HandoverInvariant, NEW c \in Connections, NEW t \in Tasks, AppendRecord(c, t)
    PROVE  HandoverInvariant'
<1>0. PICK rec : rec = writes[c][t][1].rec
  OBVIOUS
<1> DEFINE s == Owner(c)
           claim == IF lock.owner # s THEN lock.claims ELSE 0
           stray == lock.owner # s
           w == FollowUp(c, runtimes[c], rec)
<1>a. PICK e : e = [kind |-> rec.kind, id |-> rec.id, update |-> rec.update, ref |-> rec.ref,
                    by |-> c, task |-> t, stray |-> stray, claim |-> claim]
  OBVIOUS
<1>1. /\ Alive(c) /\ writes[c][t] # <<>> /\ writes[c][t][1].fenced
      /\ log' = Append(log, e) /\ Continue(c, t, runtimes, sessions[s], rec)
      /\ UNCHANGED <<lock, telegram, polls, excused>>
  BY <1>0, <1>a DEF AppendRecord
<1>2. TypeOK /\ InOrder(c) /\ CurrentIsConnected /\ RuntimesAreOwned /\ s # NoOwner /\ s \in Sessions
  BY <1>1, AliveIsOwned DEF HandoverInvariant
<1>3. rec \in RecordType
  BY <1>0, <1>1, <1>2, WriteIsTyped
<1>4. Safe(rec)
  BY <1>0, <1>1, <1>2 DEF InOrder, WritesInOrder
<1>5. e \in LogRecordType /\ e.kind = rec.kind /\ e.update = rec.update
  <2>1. claim \in Nat
    BY <1>2 DEF TypeOK
  <2>2. stray \in BOOLEAN
    OBVIOUS
  <2> HIDE DEF claim, stray
  <2> QED
    BY <1>3, <1>a, <2>1, <2>2 DEF RecordType, LogRecordType
<1>6. runtimes \in [Connections -> RuntimeType] /\ OwnersStay(runtimes) /\ StaysAs(s, sessions[s])
  BY <1>2, NoticedStays DEF TypeOK, OwnersStay
<1>7. /\ runtimes' \in [Connections -> RuntimeType] /\ OwnersStay(runtimes')
      /\ sessions' \in [Sessions -> SessionType] /\ SessionsStay
      /\ writes' \in [Connections -> [Tasks -> Seq(WriteType)]]
      /\ writes' = [writes EXCEPT ![c][t] = w]
      /\ prompted' \subseteq Nat
      /\ \A d \in Connections : runtimes'[d].lost = runtimes[d].lost
  BY <1>1, <1>2, <1>3, <1>6, ContinueStays
<1>8. w # <<>> =>
        /\ ~w[1].fenced /\ w[1].rec.kind # "inbound"
        /\ w[1].rec.kind = "checkpoint" => rec.kind = "inbound" /\ w[1].rec.update = rec.update
  BY <1>3, <1>6, FollowUpIsTyped
<1> HIDE DEF w
<1>9. /\ writes'[c][t] = w /\ \A r \in Tasks \ {t} : writes'[c][r] = writes[c][r]
      /\ \A d \in Connections \ {c} : writes'[d] = writes[d]
  BY <1>2, <1>7 DEF TypeOK
<1>10. /\ log' \in Seq(LogRecordType) /\ Grows
       /\ rec.kind = "inbound" => Accounted(rec.update)'
       /\ \A i \in DOMAIN log' : (i \in DOMAIN log /\ log'[i] = log[i]) \/ log'[i] = e
  BY <1>1, <1>2, <1>5, LogGrows
<1>11. TypeOK' /\ OthersStay(c)
  BY <1>1, <1>2, <1>7, <1>9, <1>10 DEF TypeOK, OthersStay
<1>12. (Holds(c)' => Holds(c)) /\ Owner(c)' = Owner(c)
       /\ (ConnectedIsLast(c) /\ polls'[c].at = polls[c].at => ConnectedIsLast(c)')
  BY <1>2, <1>7, StayingHolds
<1>13. ForgottenAreAccounted'
  BY <1>1, <1>10 DEF HandoverInvariant, ForgottenAreAccounted, AllBelow, Grows
<1>14. CheckpointsAreSafe'
  <2> SUFFICES ASSUME NEW i \in DOMAIN log', log'[i].kind = "checkpoint"
               PROVE  \A v \in 1 .. (log'[i].update + 1) - 1 : Accounted(v)'
    BY DEF CheckpointsAreSafe, AllBelow
  <2>1. CASE i \in DOMAIN log /\ log'[i] = log[i]
    BY <1>10, <2>1 DEF HandoverInvariant, CheckpointsAreSafe, AllBelow, Grows
  <2>2. CASE log'[i] = e
    BY <1>4, <1>5, <1>10, <2>2 DEF Safe, AllBelow, Grows
  <2> QED
    BY <1>10, <2>1, <2>2
<1>15. InOrder(c)'
  <2>1. UnusedAreIdle(c)' /\ AsksForTheRest(c)' /\ ConnectedIsLast(c)'
    BY <1>1, <1>2, <1>10, <1>12 DEF InOrder, UnusedAreIdle, AsksForTheRest, AllBelow, Grows
  <2>2. PassedAreCovered(c)'
    <3> SUFFICES ASSUME Holds(c), NEW v \in 1 .. polls[c].offset - 1
                 PROVE  Accounted(v)' \/ BeingWritten(c, v)'
      BY <1>1, <1>12 DEF PassedAreCovered
    <3>1. Accounted(v) \/ BeingWritten(c, v)
      BY <1>2 DEF InOrder, PassedAreCovered
    <3>2. BeingWritten(c, v) => BeingWritten(c, v)' \/ Accounted(v)'
      <4>1. CASE t = "poll"
        BY <1>0, <1>10, <4>1 DEF BeingWritten
      <4>2. CASE t # "poll"
        BY <1>9, <4>2 DEF BeingWritten, Tasks
      <4> QED
        BY <4>1, <4>2
    <3> QED
      BY <1>10, <3>1, <3>2 DEF Grows
  <2>3. BatchIsAhead(c)' /\ BatchHasNoHoles(c)'
    BY <1>1, <1>2, <1>10 DEF InOrder, BatchIsAhead, BatchHasNoHoles, Grows
  <2>4. HeldInOrder(c)'
    BY <1>1, <1>2, <1>10, <1>12 DEF InOrder, HeldInOrder, AllBelow, Grows
  <2>5. WritesInOrder(c)'
    <3> SUFFICES ASSUME NEW r \in Tasks, writes'[c][r] # <<>>,
                        writes'[c][r][1].fenced \/ ~runtimes[c].lost
                 PROVE  Safe(writes[c][r][1].rec)'
      BY <1>7 DEF WritesInOrder
    <3>1. CASE r = t
      <4> SUFFICES ASSUME w[1].rec.kind = "checkpoint"
                   PROVE  \A v \in 1 .. (w[1].rec.update + 1) - 1 : Accounted(v)'
        BY <1>8, <1>9, <3>1 DEF Safe, AllBelow
      <4>1. rec.kind = "inbound" /\ w[1].rec.update = rec.update /\ rec.update \in Nat
        BY <1>3, <1>8, <1>9, <3>1 DEF RecordType
      <4>2. AllBelow(rec.update) /\ Accounted(rec.update)'
        BY <1>4, <1>10, <4>1 DEF Safe
      <4>3. ASSUME NEW v \in 1 .. (rec.update + 1) - 1 PROVE Accounted(v)'
        <5>1. v = rec.update \/ v \in 1 .. rec.update - 1
          BY <4>1
        <5> QED
          BY <1>10, <4>2, <5>1 DEF AllBelow, Grows
      <4> QED
        BY <4>1, <4>3
    <3>2. CASE r # t
      <4>1. writes'[c][r] = writes[c][r]
        BY <1>9, <3>2
      <4>2. Safe(writes[c][r][1].rec)
        BY <1>2, <4>1 DEF InOrder, WritesInOrder
      <4> QED
        BY <1>10, <4>1, <4>2 DEF Safe, AllBelow, Grows
    <3> QED
      BY <3>1, <3>2
  <2> QED
    BY <2>1, <2>2, <2>3, <2>4, <2>5 DEF InOrder
<1>16. \A d \in Connections : InOrder(d)'
  BY <1>7, <1>10, <1>11, <1>15, OthersInOrder
<1> QED
  BY <1>2, <1>7, <1>11, <1>13, <1>14, <1>16, CurrentStays DEF HandoverInvariant

-----------------------------------------------------------------------------
(* A crash, a message of the user, and all steps together.                   *)

LEMMA CrashTypes ==
    ASSUME TypeOK, NEW s \in Sessions, Crash(s)
    PROVE  /\ TypeOK' /\ sessions'[s].connection = NoConnection /\ ~sessions'[s].current
           /\ \A z \in Sessions \ {s} : sessions'[z] = sessions[z]
           /\ \A d \in Connections :
                IF Owner(d) = s
                THEN /\ polls'[d].at = "ended" /\ polls'[d].offset = 0 /\ polls'[d].batch = {}
                     /\ polls'[d].held = {} /\ \A t \in Tasks : writes'[d][t] = <<>>
                ELSE polls'[d] = polls[d] /\ writes'[d] = writes[d]
<1> DEFINE v == [NewSession EXCEPT !.alive = FALSE]
           p == Ended(NewPoll)
           w == [t \in Tasks |-> <<>>]
<1>1. /\ sessions' = [sessions EXCEPT ![s] = v]
      /\ polls' = [d \in Connections |-> IF Owner(d) = s THEN p ELSE polls[d]]
      /\ writes' = [d \in Connections |-> IF Owner(d) = s THEN w ELSE writes[d]]
      /\ UNCHANGED <<log, lock, telegram, runtimes, excused, prompted>>
  BY DEF Crash
<1>2. v \in SessionType /\ v.connection = NoConnection /\ ~v.current
  <2>1. NewSession \in SessionType /\ NewSession.connection = NoConnection /\ ~NewSession.current
    BY DEF NewSession, SessionType
  <2> QED
    BY <2>1 DEF SessionType
<1>3. p \in PollType /\ p.at = "ended" /\ p.offset = 0 /\ p.batch = {} /\ p.held = {}
  BY DEF NewPoll, Ended, PollType
<1>4. w \in [Tasks -> Seq(WriteType)] /\ \A t \in Tasks : w[t] = <<>>
  <2>1. <<>> \in Seq(WriteType)
    OBVIOUS
  <2> QED
    BY <2>1
<1> HIDE DEF v, p, w
<1>5. sessions' \in [Sessions -> SessionType] /\ sessions'[s] = v /\ \A z \in Sessions \ {s} : sessions'[z] = sessions[z]
  BY <1>1, <1>2 DEF TypeOK
<1>6. /\ polls' \in [Connections -> PollType]
      /\ \A d \in Connections : polls'[d] = IF Owner(d) = s THEN p ELSE polls[d]
  BY <1>1, <1>3 DEF TypeOK
<1>7. /\ writes' \in [Connections -> [Tasks -> Seq(WriteType)]]
      /\ \A d \in Connections : writes'[d] = IF Owner(d) = s THEN w ELSE writes[d]
  BY <1>1, <1>4 DEF TypeOK
<1>8. TypeOK'
  BY <1>1, <1>5, <1>6, <1>7 DEF TypeOK
<1> QED
  BY <1>2, <1>3, <1>4, <1>5, <1>6, <1>7, <1>8

LEMMA CrashInvariant ==
    ASSUME HandoverInvariant, NEW s \in Sessions, Crash(s)
    PROVE  HandoverInvariant'
<1>1. /\ TypeOK /\ CurrentIsConnected /\ RuntimesAreOwned /\ s # NoOwner
      /\ UNCHANGED <<log, lock, telegram, runtimes, excused>>
  BY NoOwnerAssumption DEF HandoverInvariant, Crash
<1>2. /\ TypeOK' /\ sessions'[s].connection = NoConnection /\ ~sessions'[s].current
      /\ \A z \in Sessions \ {s} : sessions'[z] = sessions[z]
      /\ \A d \in Connections :
           IF Owner(d) = s
           THEN /\ polls'[d].at = "ended" /\ polls'[d].offset = 0 /\ polls'[d].batch = {}
                /\ polls'[d].held = {} /\ \A t \in Tasks : writes'[d][t] = <<>>
           ELSE polls'[d] = polls[d] /\ writes'[d] = writes[d]
  BY <1>1, CrashTypes
<1>3. CurrentIsConnected'
  BY <1>1, <1>2 DEF CurrentIsConnected
<1>4. RuntimesAreOwned'
  BY <1>1, <1>2 DEF RuntimesAreOwned, Owner
<1>5. Grows
  BY <1>1, QuietGrows
<1>6. ASSUME NEW d \in Connections, Owner(d) = s PROVE InOrder(d)'
  <2>1. Owner(d)' = s
    BY <1>1, <1>6 DEF Owner
  <2>2. UnusedAreIdle(d)' /\ ConnectedIsLast(d)' /\ AsksForTheRest(d)'
    BY <1>1, <1>2, <1>6, <2>1 DEF UnusedAreIdle, ConnectedIsLast, AsksForTheRest
  <2>3. PassedAreCovered(d)' /\ BatchIsAhead(d)' /\ BatchHasNoHoles(d)' /\ HeldInOrder(d)'
    BY <1>2, <1>6 DEF PassedAreCovered, BatchIsAhead, BatchHasNoHoles, HeldInOrder
  <2>4. WritesInOrder(d)'
    BY <1>2, <1>6 DEF WritesInOrder
  <2> QED
    BY <2>2, <2>3, <2>4 DEF InOrder
<1>7. ASSUME NEW d \in Connections, Owner(d) # s PROVE InOrder(d)'
  <2>1. InOrder(d) /\ ConnectedIsLast(d)
    BY DEF HandoverInvariant, InOrder
  <2>2. runtimes'[d] = runtimes[d] /\ polls'[d] = polls[d] /\ writes'[d] = writes[d]
    BY <1>1, <1>2, <1>7
  <2>3. Holds(d)' => Holds(d)
    BY <1>2, <1>7, <2>2 DEF Holds, HasRuntime, Owner
  <2>4. ConnectedIsLast(d)'
    BY <1>2, <1>7, <2>1, <2>2 DEF ConnectedIsLast, Owner
  <2> QED
    BY <1>1, <1>2, <1>5, <2>1, <2>2, <2>3, <2>4, Bystander
<1> QED
  BY <1>1, <1>2, <1>3, <1>4, <1>6, <1>7, QuietStep

\* A step of nothing the invariant is about.
LEMMA IdleInvariant ==
    ASSUME HandoverInvariant, TypeOK',
           UNCHANGED <<log, runtimes, polls, writes, sessions, excused>>,
           telegram'.confirmed = telegram.confirmed
    PROVE  HandoverInvariant'
<1>1. OwnersStay(runtimes') /\ SessionsStay /\ TypeOK
  BY DEF HandoverInvariant, OwnersStay, SessionsStay
<1>2. Grows
  BY QuietGrows
<1>3. ASSUME NEW d \in Connections PROVE InOrder(d)'
  <2>1. InOrder(d) /\ ConnectedIsLast(d)
    BY DEF HandoverInvariant, InOrder
  <2>2. (Holds(d)' => Holds(d)) /\ ConnectedIsLast(d)'
    BY <1>1, <2>1, StayingHolds
  <2> QED
    BY <1>1, <1>2, <2>1, <2>2, Bystander
<1>4. CurrentIsConnected' /\ RuntimesAreOwned'
  BY <1>1, CurrentStays DEF HandoverInvariant
<1> QED
  BY <1>3, <1>4, QuietStep

LEMMA SendInvariant == HandoverInvariant /\ Send => HandoverInvariant'
<1> SUFFICES ASSUME HandoverInvariant, Send PROVE HandoverInvariant'
  OBVIOUS
<1>1. /\ UNCHANGED <<log, lock, runtimes, polls, writes, sessions, excused, prompted>>
      /\ telegram' \in [sent : Nat, confirmed : Nat] /\ telegram'.confirmed = telegram.confirmed
  <2> DEFINE n == telegram.sent + 1
  <2>1. telegram \in [sent : Nat, confirmed : Nat] /\ n \in Nat
    BY DEF HandoverInvariant, TypeOK
  <2>2. /\ UNCHANGED <<log, lock, runtimes, polls, writes, sessions, excused, prompted>>
        /\ telegram' = [telegram EXCEPT !.sent = n]
    BY DEF Send
  <2> HIDE DEF n
  <2> QED
    BY <2>1, <2>2
<1>2. TypeOK'
  BY <1>1 DEF HandoverInvariant, TypeOK
<1> QED
  BY <1>1, <1>2, IdleInvariant

LEMMA InitInvariant == Init => HandoverInvariant
<1> SUFFICES ASSUME Init PROVE HandoverInvariant
  OBVIOUS
<1>1. TypeOK
  <2>1. NewRuntime(NoOwner) \in RuntimeType
    BY DEF NewRuntime, RuntimeType, NotArmed
  <2>2. NewPoll \in PollType
    BY DEF NewPoll, PollType
  <2>3. NewSession \in SessionType
    BY DEF NewSession, SessionType
  <2>4. [t \in Tasks |-> <<>>] \in [Tasks -> Seq(WriteType)]
    <3>1. <<>> \in Seq(WriteType)
      OBVIOUS
    <3> QED
      BY <3>1
  <2>5. log \in Seq(LogRecordType)
    BY DEF Init
  <2> QED
    BY <2>1, <2>2, <2>3, <2>4, <2>5 DEF Init, TypeOK
<1>2. CurrentIsConnected /\ RuntimesAreOwned
  BY DEF Init, CurrentIsConnected, RuntimesAreOwned, NewSession
<1>3. ForgottenAreAccounted /\ CheckpointsAreSafe
  BY DEF Init, ForgottenAreAccounted, CheckpointsAreSafe, AllBelow
<1>4. ASSUME NEW d \in Connections PROVE InOrder(d)
  <2>1. /\ Owner(d) = NoOwner /\ polls[d].at = "off" /\ polls[d].offset = 0 /\ polls[d].batch = {}
        /\ polls[d].held = {} /\ \A t \in Tasks : writes[d][t] = <<>>
    BY DEF Init, Owner, NewRuntime, NewPoll
  <2> QED
    BY <2>1 DEF InOrder, UnusedAreIdle, ConnectedIsLast, AsksForTheRest, PassedAreCovered,
       BatchIsAhead, BatchHasNoHoles, HeldInOrder, WritesInOrder
<1> QED
  BY <1>1, <1>2, <1>3, <1>4 DEF HandoverInvariant

LEMMA ChannelStepInvariant ==
    ASSUME HandoverInvariant, NEW c \in Connections, ChannelStep(c)
    PROVE  HandoverInvariant'
<1>1. CASE Claim(c) \/ Load(c)
  BY <1>1, ClaimInvariant, LoadInvariant
<1>2. CASE FetchInitial(c) \/ Fetch(c)
  BY <1>2, FetchInvariant
<1>3. CASE CaughtUp(c) \/ CheckPasses(c)
  BY <1>3, CaughtUpInvariant, CheckPassesInvariant
<1>4. CASE CheckFails(c) \/ FetchConflict(c) \/ LoopEnds(c)
  BY <1>4, StandDownInvariant, LoopEndsInvariant
<1>5. CASE \E u \in Updates : TakeMessage(c, u) \/ TakeCommand(c, u) \/ TakeNothing(c, u)
  BY <1>5, TakeMessageInvariant, TakeCommandInvariant, TakeNothingInvariant
<1>6. CASE \E u \in Updates : TakeAlbum(c, u) \/ FlushAlbum(c, u)
  BY <1>6, TakeAlbumInvariant, FlushAlbumInvariant
<1>7. CASE \E t \in Tasks : Fence(c, t) \/ AppendRecord(c, t)
  BY <1>7, FencePassedInvariant, FenceDroppedInvariant, AppendInvariant
<1> QED
  BY <1>1, <1>2, <1>3, <1>4, <1>5, <1>6, <1>7 DEF ChannelStep

LEMMA NextInvariant == HandoverInvariant /\ [Next]_vars => HandoverInvariant'
<1> SUFFICES ASSUME HandoverInvariant, [Next]_vars PROVE HandoverInvariant'
  OBVIOUS
<1>1. CASE Send
  BY <1>1, SendInvariant
<1>2. ASSUME NEW s \in Sessions, SessionStep(s) \/ TurnStep(s) \/ Disconnect(s)
      PROVE  HandoverInvariant'
  <2>1. SideStep(s)
    BY <1>2 DEF SessionStep, TurnStep, SideStep, SessionOnly
  <2> QED
    BY <2>1, SideStepInvariant
<1>3. ASSUME NEW s \in Sessions, Crash(s) PROVE HandoverInvariant'
  BY <1>3, CrashInvariant
<1>4. ASSUME NEW s \in Sessions, NEW c \in Connections, Connect(s, c) \/ Restore(s, c)
      PROVE  HandoverInvariant'
  BY <1>4, ConnectInvariant DEF Connect, Restore
<1>5. ASSUME NEW c \in Connections, ChannelStep(c) \/ ConnectFails(c) \/ FetchFails(c)
      PROVE  HandoverInvariant'
  BY <1>5, ChannelStepInvariant, ConnectFailsInvariant, FetchFailsInvariant
<1>6. ASSUME NEW c \in Connections, NEW u \in Updates, TakeFails(c, u)
      PROVE  HandoverInvariant'
  BY <1>6, TakeFailsInvariant
<1>7. CASE UNCHANGED vars
  <2>1. UNCHANGED <<log, runtimes, polls, writes, sessions, excused>> /\ telegram' = telegram /\ TypeOK'
    BY <1>7 DEF vars, HandoverInvariant, TypeOK
  <2> QED
    BY <2>1, IdleInvariant
<1> QED
  BY <1>1, <1>2, <1>3, <1>4, <1>5, <1>6, <1>7 DEF Next

-----------------------------------------------------------------------------
(* Records that come late.                                                   *)

\* A record that came late belongs to a past claim, or to the present one of
\* another session; only a task that is past the fence can add one, and the
\* fence lets none pass that already has one under the present claim.
StraysAreBounded ==
    \A i \in DOMAIN log : log[i].stray =>
        /\ Owner(log[i].by) \in Sessions
        /\ log[i].claim <= lock.claims
        /\ log[i].claim = lock.claims => lock.owner # Owner(log[i].by)
        /\ writes[log[i].by][log[i].task] # <<>> /\ writes[log[i].by][log[i].task][1].fenced =>
              log[i].claim < lock.claims

StraysInvariant == HandoverInvariant /\ StraysAreBounded /\ StraysAreOnTheirWay

\* No write gets past the fence.
NoneFenced ==
    \A d \in Connections, t \in Tasks :
        writes'[d][t] = writes[d][t] \/ writes'[d][t] = <<>> \/ ~writes'[d][t][1].fenced

OwnersKept == \A d \in Connections : Owner(d) \in Sessions => runtimes'[d].owner = runtimes[d].owner

\* The lock file is as it was, gone, or claimed once more.
LockMoves ==
    \/ lock'.claims = lock.claims /\ (lock'.owner = lock.owner \/ lock'.owner = NoOwner)
    \/ lock'.claims = lock.claims + 1

LEMMA StraysStay ==
    ASSUME TypeOK, StraysAreBounded, StraysAreOnTheirWay, log' = log, NoneFenced, OwnersKept, LockMoves
    PROVE  StraysAreBounded' /\ StraysAreOnTheirWay'
<1>1. StraysAreOnTheirWay'
  BY DEF StraysAreOnTheirWay
<1>2. ASSUME NEW i \in DOMAIN log, log[i].stray
      PROVE  /\ runtimes'[log[i].by].owner \in Sessions
             /\ log[i].claim <= lock'.claims
             /\ log[i].claim = lock'.claims => lock'.owner # runtimes'[log[i].by].owner
             /\ writes'[log[i].by][log[i].task] # <<>> /\ writes'[log[i].by][log[i].task][1].fenced =>
                   log[i].claim < lock'.claims
  <2> DEFINE c == log[i].by
             t == log[i].task
             claim == log[i].claim
             claims == lock.claims
  <2>1. log[i] \in LogRecordType
    BY <1>2, LogIsTyped
  <2>2. c \in Connections /\ t \in Tasks /\ claim \in Nat /\ claims \in Nat
    BY <2>1 DEF LogRecordType, TypeOK
  <2>3. /\ Owner(c) \in Sessions /\ claim <= claims
        /\ claim = claims => lock.owner # Owner(c)
        /\ writes[c][t] # <<>> /\ writes[c][t][1].fenced => claim < claims
    BY <1>2 DEF StraysAreBounded
  <2>4. runtimes'[c].owner = Owner(c) /\ Owner(c) # NoOwner
    BY <2>2, <2>3, NoOwnerAssumption DEF OwnersKept, Owner
  <2>5. writes'[c][t] # <<>> /\ writes'[c][t][1].fenced => claim < claims
    BY <2>2, <2>3 DEF NoneFenced
  <2> HIDE DEF c, t, claim, claims
  <2>6. CASE lock'.claims = claims /\ (lock'.owner = lock.owner \/ lock'.owner = NoOwner)
    BY <2>2, <2>3, <2>4, <2>5, <2>6 DEF c, t, claim
  <2>7. CASE lock'.claims = claims + 1
    <3>1. claim < claims + 1 /\ claim <= claims + 1 /\ claim # claims + 1
      BY <2>2, <2>3
    <3> QED
      BY <2>3, <2>4, <2>7, <3>1 DEF c, t, claim
  <2> QED
    BY <2>6, <2>7 DEF LockMoves, claims
<1>3. StraysAreBounded'
  BY <1>2 DEF StraysAreBounded, Owner
<1> QED
  BY <1>1, <1>3

LEMMA SideStepStrays ==
    ASSUME StraysInvariant, NEW s \in Sessions, SideStep(s)
    PROVE  log' = log /\ NoneFenced /\ OwnersKept /\ LockMoves
<1>1. TypeOK /\ CurrentIsConnected /\ RuntimesAreOwned
  BY DEF StraysInvariant, HandoverInvariant
<1>2. OwnersStay(runtimes') /\ WritesOfNoMessage /\ log' = log
  BY <1>1, SideStepStays
<1>3. lock' = lock \/ lock' = [lock EXCEPT !.owner = NoOwner]
  BY DEF SideStep, SessionOnly, LoopAwaited, ReleaseCheck, Unlink, TurnIsLocal, TurnEnds, LocalTurn,
         LocalTurnEnds, Disconnect, EvictionGoesOn, TurnFails, ReplySent
<1>4. LockMoves
  BY <1>1, <1>3 DEF LockMoves, TypeOK
<1> QED
  BY <1>2, <1>4 DEF OwnersStay, OwnersKept, WritesOfNoMessage, NoneFenced

LEMMA ConnectStrays ==
    ASSUME StraysInvariant, NEW s \in Sessions, NEW c \in Connections, ConnectBegin(s, c)
    PROVE  log' = log /\ NoneFenced /\ OwnersKept /\ LockMoves
<1>1. /\ runtimes' = [runtimes EXCEPT ![c] = NewRuntime(s)] /\ Owner(c) = NoOwner
      /\ UNCHANGED <<log, lock, writes>>
  BY DEF ConnectBegin
<1>2. runtimes \in [Connections -> RuntimeType]
  BY DEF StraysInvariant, HandoverInvariant, TypeOK
<1>3. OwnersKept
  BY <1>1, <1>2, NoOwnerAssumption DEF OwnersKept, Owner
<1> QED
  BY <1>1, <1>3 DEF NoneFenced, LockMoves

LEMMA CrashStrays ==
    ASSUME StraysInvariant, NEW s \in Sessions, Crash(s)
    PROVE  log' = log /\ NoneFenced /\ OwnersKept /\ LockMoves
<1>1. UNCHANGED <<log, lock, runtimes>>
  BY DEF Crash
<1>2. \A d \in Connections, t \in Tasks : writes'[d][t] = writes[d][t] \/ writes'[d][t] = <<>>
  BY CrashTypes DEF StraysInvariant, HandoverInvariant
<1> QED
  BY <1>1, <1>2 DEF NoneFenced, OwnersKept, LockMoves

\* The steps of a poll loop that write nothing.
LEMMA LoopStrays ==
    ASSUME StraysInvariant, NEW c \in Connections,
           \/ Claim(c) \/ Load(c) \/ FetchInitial(c) \/ Fetch(c) \/ CaughtUp(c) \/ CheckPasses(c)
           \/ CheckFails(c) \/ FetchConflict(c) \/ LoopEnds(c) \/ ConnectFails(c)
    PROVE  log' = log /\ NoneFenced /\ OwnersKept /\ LockMoves
<1>1. TypeOK /\ runtimes[c] \in RuntimeType /\ lock \in [owner : Sessions \cup {NoOwner}, claims : Nat]
  BY DEF StraysInvariant, HandoverInvariant, TypeOK
<1>2. UNCHANGED <<log, writes>>
  BY DEF Claim, Load, FetchInitial, Fetch, CaughtUp, CheckPasses, CheckFails, FetchConflict, LoopEnds,
         ConnectFails, StandDown
<1>3. LockMoves
  <2>1. lock' = lock \/ lock' = [owner |-> Owner(c), claims |-> lock.claims + 1]
    BY DEF Claim, Load, FetchInitial, Fetch, CaughtUp, CheckPasses, CheckFails, FetchConflict, LoopEnds,
           ConnectFails, StandDown
  <2> QED
    BY <2>1 DEF LockMoves
<1>4. OwnersKept
  <2>1. CASE Load(c)
    <3> DEFINE k == Loaded(runtimes[c])
    <3>1. k.owner = runtimes[c].owner
      BY <1>1, LoadedIsTyped
    <3>2. runtimes' = [runtimes EXCEPT ![c] = k]
      BY <2>1 DEF Load
    <3> HIDE DEF k
    <3> QED
      BY <1>1, <3>1, <3>2 DEF OwnersKept, TypeOK
  <2>2. CASE CaughtUp(c)
    <3> DEFINE k == [runtimes[c] EXCEPT !.armed = runtimes[c].tail]
    <3>1. k.owner = runtimes[c].owner
      BY <1>1 DEF RuntimeType
    <3>2. runtimes' = runtimes \/ runtimes' = [runtimes EXCEPT ![c] = k]
      BY <2>2 DEF CaughtUp
    <3> HIDE DEF k
    <3> QED
      BY <1>1, <3>1, <3>2 DEF OwnersKept, TypeOK
  <2>3. CASE CheckFails(c) \/ FetchConflict(c)
    <3>1. Alive(c) /\ StandDown(c)
      BY <2>3 DEF CheckFails, BetweenPolls, FetchConflict, Fetching
    <3> QED
      BY <1>1, <3>1, StandDownStays DEF OwnersKept, OwnersStay
  <2>4. CASE runtimes' = runtimes
    BY <2>4 DEF OwnersKept
  <2> QED
    BY <2>1, <2>2, <2>3, <2>4 DEF Claim, FetchInitial, Fetch, CheckPasses, LoopEnds, ConnectFails
<1> QED
  BY <1>2, <1>3, <1>4 DEF NoneFenced

\* The steps that take an update or note an error.
LEMMA TakeStrays ==
    ASSUME StraysInvariant, NEW c \in Connections,
           \/ FetchFails(c)
           \/ \E u \in Updates : \/ TakeMessage(c, u) \/ TakeCommand(c, u) \/ TakeNothing(c, u)
                                 \/ TakeAlbum(c, u) \/ FlushAlbum(c, u) \/ TakeFails(c, u)
    PROVE  log' = log /\ NoneFenced /\ OwnersKept /\ LockMoves
<1>1. TypeOK /\ writes \in [Connections -> [Tasks -> Seq(WriteType)]]
  BY DEF StraysInvariant, HandoverInvariant, TypeOK
<1>2. UNCHANGED <<log, lock, runtimes>>
  BY DEF FetchFails, TakeMessage, TakeCommand, TakeNothing, TakeAlbum, FlushAlbum, TakeFails
<1>3. NoneFenced
  <2>1. CASE \E u \in Updates : TakeMessage(c, u) \/ FlushAlbum(c, u)
    <3>1. PICK u \in Updates : TakeMessage(c, u) \/ FlushAlbum(c, u)
      BY <2>1
    <3> DEFINE w == Writing(Record(c, runtimes[c], "inbound", u, 0))
    <3>2. ~w[1].fenced
      BY <1>1, NewMessage
    <3>3. PICK t \in Tasks : writes' = writes \/ writes' = [writes EXCEPT ![c][t] = w]
      BY <3>1 DEF TakeMessage, FlushAlbum, Tasks
    <3> HIDE DEF w
    <3>4. CASE writes' = [writes EXCEPT ![c][t] = w]
      <4>1. \A d \in Connections, r \in Tasks : writes'[d][r] = writes[d][r] \/ writes'[d][r] = w
        BY <1>1, <3>4
      <4> QED
        BY <3>2, <4>1 DEF NoneFenced
    <3> QED
      BY <3>3, <3>4 DEF NoneFenced
  <2>2. CASE FetchFails(c) \/ \E u \in Updates : TakeFails(c, u)
    <3>1. NoteError(c)
      BY <2>2 DEF FetchFails, TakeFails
    <3> QED
      BY <1>1, <3>1, NoteErrorWrites DEF NoneFenced
  <2>3. CASE \E u \in Updates : TakeCommand(c, u) \/ TakeNothing(c, u) \/ TakeAlbum(c, u)
    BY <2>3 DEF TakeCommand, TakeNothing, TakeAlbum, NoneFenced
  <2> QED
    BY <2>1, <2>2, <2>3
<1> QED
  BY <1>2, <1>3 DEF OwnersKept, LockMoves

LEMMA FencePassedStrays ==
    ASSUME StraysInvariant, NEW c \in Connections, NEW t \in Tasks, Fence(c, t), Owns(c)
    PROVE  StraysAreBounded' /\ StraysAreOnTheirWay'
<1> DEFINE rec == writes[c][t][1].rec
           k == Pushed(runtimes[c], rec)
           y == [writes[c][t] EXCEPT ![1].fenced = TRUE]
<1>1. /\ Alive(c) /\ writes[c][t] # <<>> /\ lock.owner = Owner(c)
      /\ runtimes' = [runtimes EXCEPT ![c] = k] /\ writes' = [writes EXCEPT ![c][t] = y]
      /\ UNCHANGED <<log, lock>>
  BY DEF Fence, Owns
<1>2. /\ TypeOK /\ runtimes[c] \in RuntimeType
      /\ runtimes \in [Connections -> RuntimeType]
      /\ writes \in [Connections -> [Tasks -> Seq(WriteType)]]
  BY DEF StraysInvariant, HandoverInvariant, TypeOK
<1>3. k.owner = runtimes[c].owner
  <2>1. rec \in RecordType
    BY <1>1, <1>2, WriteIsTyped
  <2> QED
    BY <1>2, <2>1, PushedIsTyped
<1> HIDE DEF k, y
<1>4. /\ \A d \in Connections : runtimes'[d].owner = runtimes[d].owner
      /\ \A d \in Connections, r \in Tasks : ~(d = c /\ r = t) => writes'[d][r] = writes[d][r]
  BY <1>1, <1>2, <1>3
<1>5. StraysAreOnTheirWay'
  BY <1>1 DEF StraysInvariant, StraysAreOnTheirWay
<1>6. ASSUME NEW i \in DOMAIN log, log[i].stray
      PROVE  /\ runtimes'[log[i].by].owner \in Sessions
             /\ log[i].claim <= lock.claims
             /\ log[i].claim = lock.claims => lock.owner # runtimes'[log[i].by].owner
             /\ writes'[log[i].by][log[i].task] # <<>> /\ writes'[log[i].by][log[i].task][1].fenced =>
                   log[i].claim < lock.claims
  <2>1. log[i] \in LogRecordType
    BY <1>2, LogIsTyped
  <2> DEFINE b == log[i].by
             claim == log[i].claim
             claims == lock.claims
  <2>2. b \in Connections /\ log[i].task \in Tasks /\ claim \in Nat /\ claims \in Nat
    BY <1>2, <2>1 DEF LogRecordType, TypeOK
  <2>3. /\ Owner(b) \in Sessions /\ claim <= claims /\ (claim = claims => lock.owner # Owner(b))
        /\ writes[b][log[i].task] # <<>> /\ writes[b][log[i].task][1].fenced => claim < claims
    BY <1>6 DEF StraysInvariant, StraysAreBounded
  <2>4. runtimes'[b].owner = Owner(b)
    BY <1>4, <2>2 DEF Owner
  <2> HIDE DEF claim, claims
  <2>5. b = c => claim < claims
    BY <1>1, <2>2, <2>3
  <2>6. writes'[b][log[i].task] # <<>> /\ writes'[b][log[i].task][1].fenced => claim < claims
    BY <1>4, <2>2, <2>3, <2>5
  <2> QED
    BY <2>3, <2>4, <2>6 DEF claim, claims
<1>7. StraysAreBounded'
  BY <1>1, <1>6 DEF StraysAreBounded, Owner
<1> QED
  BY <1>5, <1>7

LEMMA FenceDroppedStrays ==
    ASSUME StraysInvariant, NEW c \in Connections, NEW t \in Tasks, Fence(c, t), ~Owns(c)
    PROVE  log' = log /\ NoneFenced /\ OwnersKept /\ LockMoves
<1> DEFINE rec == writes[c][t][1].rec
           k == [runtimes[c] EXCEPT !.lost = TRUE]
           rts == [runtimes EXCEPT ![c].lost = TRUE]
           s == Owner(c)
           v == IF runtimes[c].lost THEN sessions[s] ELSE Noticed(sessions[s])
           w == FollowUp(c, rts[c], rec)
<1>1. Alive(c) /\ writes[c][t] # <<>> /\ Continue(c, t, rts, v, rec) /\ UNCHANGED <<log, lock>>
  BY DEF Fence
<1>2. TypeOK /\ CurrentIsConnected /\ s \in Sessions
  BY <1>1, AliveIsOwned DEF StraysInvariant, HandoverInvariant
<1>3. rec \in RecordType
  BY <1>1, <1>2, WriteIsTyped
<1>4. rts \in [Connections -> RuntimeType] /\ OwnersStay(rts)
  <2>1. k \in RuntimeType /\ k.owner = runtimes[c].owner /\ k.lost
    BY <1>2 DEF TypeOK, RuntimeType
  <2>2. rts = [runtimes EXCEPT ![c] = k]
    OBVIOUS
  <2> HIDE DEF k, rts
  <2> QED
    BY <1>2, <2>1, <2>2 DEF TypeOK, OwnersStay
<1>5. StaysAs(s, v)
  BY <1>2, NoticedStays
<1> HIDE DEF rec, rts, v
<1>6. OwnersStay(runtimes') /\ writes' = [writes EXCEPT ![c][t] = w]
  BY <1>1, <1>2, <1>3, <1>4, <1>5, ContinueStays
<1>7. w # <<>> => ~w[1].fenced
  BY <1>3, <1>4, FollowUpIsTyped
<1> HIDE DEF w
<1>8. \A d \in Connections, r \in Tasks : writes'[d][r] = writes[d][r] \/ writes'[d][r] = w
  BY <1>2, <1>6 DEF TypeOK
<1> QED
  BY <1>1, <1>6, <1>7, <1>8 DEF OwnersStay, OwnersKept, LockMoves, NoneFenced

LEMMA AppendStrays ==
    ASSUME StraysInvariant, NEW c \in Connections, NEW t \in Tasks, AppendRecord(c, t)
    PROVE  StraysAreBounded' /\ StraysAreOnTheirWay'
<1> DEFINE s == Owner(c)
           claims == lock.claims
           claim == IF lock.owner # s THEN claims ELSE 0
           stray == lock.owner # s
<1>1. PICK rec : rec = writes[c][t][1].rec
  OBVIOUS
<1>2. PICK e : e = [kind |-> rec.kind, id |-> rec.id, update |-> rec.update, ref |-> rec.ref,
                    by |-> c, task |-> t, stray |-> stray, claim |-> claim]
  OBVIOUS
<1> DEFINE w == FollowUp(c, runtimes[c], rec)
<1>3. /\ Alive(c) /\ writes[c][t] # <<>> /\ writes[c][t][1].fenced
      /\ log' = Append(log, e) /\ Continue(c, t, runtimes, sessions[s], rec) /\ lock' = lock
  BY <1>1, <1>2 DEF AppendRecord
<1>4. /\ TypeOK /\ CurrentIsConnected /\ s \in Sessions /\ log \in Seq(LogRecordType)
      /\ runtimes \in [Connections -> RuntimeType] /\ OwnersStay(runtimes) /\ claims \in Nat
  BY <1>3, AliveIsOwned DEF StraysInvariant, HandoverInvariant, TypeOK, OwnersStay
<1>5. rec \in RecordType
  BY <1>1, <1>3, <1>4, WriteIsTyped
<1>6. OwnersStay(runtimes') /\ writes' = [writes EXCEPT ![c][t] = w]
  BY <1>3, <1>4, <1>5, NoticedStays, ContinueStays
<1>7. w # <<>> => ~w[1].fenced
  BY <1>4, <1>5, FollowUpIsTyped
<1> HIDE DEF w
<1>8. /\ writes'[c][t] = w
      /\ \A d \in Connections, r \in Tasks : ~(d = c /\ r = t) => writes'[d][r] = writes[d][r]
  BY <1>4, <1>6 DEF TypeOK
<1>9. e.by = c /\ e.task = t /\ e.stray = stray /\ e.claim = claim
  BY <1>2
<1> HIDE DEF claims
<1>10. e.stray => e.claim = claims /\ lock.owner # s
  BY <1>9
<1>11. /\ \A i \in DOMAIN log' : (i \in DOMAIN log /\ log'[i] = log[i]) \/ (i = Len(log) + 1 /\ log'[i] = e)
  BY <1>3, <1>4
<1>12. ASSUME NEW i \in DOMAIN log, log[i].stray
       PROVE  /\ log[i].by \in Connections /\ log[i].task \in Tasks /\ log[i].claim \in Nat
              /\ Owner(log[i].by) \in Sessions /\ log[i].claim <= claims
              /\ log[i].claim = claims => lock.owner # Owner(log[i].by)
              /\ writes[log[i].by][log[i].task] # <<>> /\ writes[log[i].by][log[i].task][1].fenced =>
                    log[i].claim < claims
  <2>1. log[i] \in LogRecordType
    BY <1>4, LogIsTyped
  <2> QED
    BY <1>12, <2>1 DEF StraysInvariant, StraysAreBounded, LogRecordType, claims
\* A task that was past the fence had no such record under this claim yet.
<1>13. ASSUME NEW i \in DOMAIN log, log[i].stray, log[i].by = c, log[i].task = t
       PROVE  log[i].claim # claims
  BY <1>3, <1>4, <1>12, <1>13
<1>14. StraysAreOnTheirWay'
  <2> SUFFICES ASSUME NEW i \in DOMAIN log', NEW j \in DOMAIN log', log'[i].stray, log'[j].stray,
                      log'[i].by = log'[j].by, log'[i].task = log'[j].task, log'[i].claim = log'[j].claim
               PROVE  i = j
    BY DEF StraysAreOnTheirWay
  <2>1. CASE i \in DOMAIN log /\ log'[i] = log[i] /\ j \in DOMAIN log /\ log'[j] = log[j]
    BY <2>1 DEF StraysInvariant, StraysAreOnTheirWay
  <2>2. CASE i \in DOMAIN log /\ log'[i] = log[i] /\ log'[j] = e
    BY <1>9, <1>10, <1>13, <2>2
  <2>3. CASE j \in DOMAIN log /\ log'[j] = log[j] /\ log'[i] = e
    BY <1>9, <1>10, <1>13, <2>3
  <2>4. CASE i = Len(log) + 1 /\ j = Len(log) + 1
    BY <2>4
  <2> QED
    BY <1>11, <2>1, <2>2, <2>3, <2>4
<1>15. ASSUME NEW i \in DOMAIN log', log'[i].stray
       PROVE  /\ runtimes'[log'[i].by].owner \in Sessions
              /\ log'[i].claim <= claims
              /\ log'[i].claim = claims => lock.owner # runtimes'[log'[i].by].owner
              /\ writes'[log'[i].by][log'[i].task] # <<>> /\ writes'[log'[i].by][log'[i].task][1].fenced =>
                    log'[i].claim < claims
  <2>1. \A d \in Connections : runtimes'[d].owner = Owner(d)
    BY <1>6 DEF OwnersStay, Owner
  <2>2. CASE i \in DOMAIN log /\ log'[i] = log[i]
    <3>1. /\ log[i].by \in Connections /\ log[i].task \in Tasks /\ log[i].claim \in Nat
          /\ Owner(log[i].by) \in Sessions /\ log[i].claim <= claims
          /\ log[i].claim = claims => lock.owner # Owner(log[i].by)
          /\ writes[log[i].by][log[i].task] # <<>> /\ writes[log[i].by][log[i].task][1].fenced =>
                log[i].claim < claims
      BY <1>12, <1>15, <2>2
    <3>2. writes'[log[i].by][log[i].task] # <<>> /\ writes'[log[i].by][log[i].task][1].fenced =>
             log[i].claim < claims
      BY <1>7, <1>8, <3>1
    <3> QED
      BY <2>1, <2>2, <3>1, <3>2
  <2>3. CASE log'[i] = e
    <3>1. claims <= claims
      BY <1>4 DEF claims
    <3> QED
      BY <1>4, <1>7, <1>8, <1>9, <1>10, <1>15, <2>1, <2>3, <3>1
  <2> QED
    BY <1>11, <2>2, <2>3
<1>16. StraysAreBounded'
  BY <1>3, <1>15 DEF StraysAreBounded, Owner, claims
<1> QED
  BY <1>14, <1>16

LEMMA StraysNext == StraysInvariant /\ [Next]_vars => StraysInvariant'
<1> SUFFICES ASSUME StraysInvariant, [Next]_vars PROVE StraysAreBounded' /\ StraysAreOnTheirWay'
  BY NextInvariant DEF StraysInvariant
<1> DEFINE Quiet == log' = log /\ NoneFenced /\ OwnersKept /\ LockMoves
<1>1. Quiet => StraysAreBounded' /\ StraysAreOnTheirWay'
  BY StraysStay DEF StraysInvariant, HandoverInvariant
<1>2. CASE Send \/ UNCHANGED vars
  BY <1>1, <1>2 DEF Send, vars, NoneFenced, OwnersKept, LockMoves
<1>3. ASSUME NEW s \in Sessions, SessionStep(s) \/ TurnStep(s) \/ Disconnect(s)
      PROVE  Quiet
  <2>1. SideStep(s)
    BY <1>3 DEF SessionStep, TurnStep, SideStep, SessionOnly
  <2> QED
    BY <2>1, SideStepStrays
<1>4. ASSUME NEW s \in Sessions, Crash(s) PROVE Quiet
  BY <1>4, CrashStrays
<1>5. ASSUME NEW s \in Sessions, NEW c \in Connections, Connect(s, c) \/ Restore(s, c)
      PROVE  Quiet
  BY <1>5, ConnectStrays DEF Connect, Restore
<1>6. ASSUME NEW c \in Connections, ChannelStep(c) \/ ConnectFails(c) \/ FetchFails(c)
      PROVE  StraysAreBounded' /\ StraysAreOnTheirWay'
  <2>1. CASE \E t \in Tasks : Fence(c, t) /\ Owns(c)
    BY <2>1, FencePassedStrays
  <2>2. CASE \E t \in Tasks : Fence(c, t) /\ ~Owns(c)
    BY <1>1, <2>2, FenceDroppedStrays
  <2>3. CASE \E t \in Tasks : AppendRecord(c, t)
    BY <2>3, AppendStrays
  <2>4. CASE \/ Claim(c) \/ Load(c) \/ FetchInitial(c) \/ Fetch(c) \/ CaughtUp(c) \/ CheckPasses(c)
             \/ CheckFails(c) \/ FetchConflict(c) \/ LoopEnds(c) \/ ConnectFails(c)
    BY <1>1, <2>4, LoopStrays
  <2>5. CASE \/ FetchFails(c)
             \/ \E u \in Updates : \/ TakeMessage(c, u) \/ TakeCommand(c, u) \/ TakeNothing(c, u)
                                   \/ TakeAlbum(c, u) \/ FlushAlbum(c, u) \/ TakeFails(c, u)
    BY <1>1, <2>5, TakeStrays
  <2> QED
    BY <1>6, <2>1, <2>2, <2>3, <2>4, <2>5 DEF ChannelStep
<1>7. ASSUME NEW c \in Connections, NEW u \in Updates, TakeFails(c, u) PROVE Quiet
  BY <1>7, TakeStrays
<1> HIDE DEF Quiet
<1> QED
  BY <1>1, <1>2, <1>3, <1>4, <1>5, <1>6, <1>7 DEF Next

-----------------------------------------------------------------------------
(* One turn for a message.                                                   *)

\* A poll loop asks for the turns of messages, a timer for those of albums.
Messages == Nat \ Albums

TurnAsked(u) == \E i \in DOMAIN log : log[i].kind = "job_queued" /\ log[i].update = u

\* A task that writes it may come to ask for a turn.
Leads(rec) == rec.kind \in {"inbound", "checkpoint", "job_queued"}

\* The poll loop of c is at update u, and may come to ask for a turn.
Handling(c, u) ==
    writes[c]["poll"] # <<>> /\ Leads(writes[c]["poll"][1].rec) /\ writes[c]["poll"][1].rec.update = u

\* It has asked: the record is past the fence.
AskingFor(c, u) ==
    Handling(c, u) /\ writes[c]["poll"][1].fenced /\ writes[c]["poll"][1].rec.kind = "job_queued"

\* The turn was asked for, or another connection is about to add that to the log.
Served(c, u) == TurnAsked(u) \/ \E d \in Connections \ {c} : AskingFor(d, u)

\* What c writes gets past the fence.
Serves(c) ==
    Owner(c) \in Sessions /\ lock.owner = Owner(c) /\ polls[c].at \notin {"off", "claiming", "ended"}

\* The poll loop of c does not get the update again.
Behind(c, u) == u < polls[c].offset \/ u <= telegram.confirmed

ArmedWhenCaughtUp(c) ==
    /\ polls[c].at \notin {"catching up", "polling"} => writes[c]["poll"] = <<>>
    /\ polls[c].at \notin {"polling", "fetching", "ended"} => runtimes[c].armed = NotArmed
    /\ writes[c]["poll"] # <<>> /\ writes[c]["poll"][1].rec.kind = "job_queued" => runtimes[c].armed # NotArmed

OthersAreAlbums(c) ==
    /\ polls[c].held \subseteq Albums
    /\ \A t \in Tasks \ {"poll"} :
          writes[c][t] # <<>> /\ Leads(writes[c][t][1].rec) => writes[c][t][1].rec.update \in Albums

WereSent(c) ==
    /\ \A u \in polls[c].batch : u <= telegram.sent
    /\ \A u \in Messages : Handling(c, u) => u <= telegram.sent

HandledOnce(c) ==
    \A u \in Messages :
        /\ polls[c].at = "polling" /\ Handling(c, u) => Behind(c, u) /\ u \notin polls[c].batch
        /\ AskingFor(c, u) => ~Served(c, u)

\* Of the connection that has the channel: a turn asked for before is not asked
\* for again, for what it was asked for is caught up with or past.
ServesTheRest(c) ==
    Serves(c) => \A u \in Messages :
        /\ runtimes[c].armed # NotArmed /\ Handling(c, u) => ~Served(c, u)
        /\ polls[c].at = "catching up" /\ Served(c, u) => Behind(c, u) \/ u \in polls[c].batch
        /\ polls[c].at \in {"polling", "fetching"} /\ Served(c, u) => Behind(c, u) /\ u \notin polls[c].batch

TurnsOfMessages(c) ==
    ArmedWhenCaughtUp(c) /\ OthersAreAlbums(c) /\ WereSent(c) /\ HandledOnce(c) /\ ServesTheRest(c)

\* Connection c asked for the turn.
AskedBy(c, u) == \E i \in DOMAIN log : log[i].kind = "job_queued" /\ log[i].update = u /\ log[i].by = c

\* The album's timer is at update u, and may come to ask for a turn.
Flushing(c, u) ==
    writes[c]["flush"] # <<>> /\ Leads(writes[c]["flush"][1].rec) /\ writes[c]["flush"][1].rec.update = u

Placed(c, u) == u \in polls[c].held \/ Flushing(c, u) \/ AskedBy(c, u)

Polls(c) == polls[c].at \in {"polling", "fetching"}

\* An album is in one place of a connection at most, from the moment the poll
\* loop holds it until its turn is asked for, and is not taken again.
TurnsOfAlbums(c) ==
    /\ writes[c]["turn"] # <<>> => ~Leads(writes[c]["turn"][1].rec)
    /\ \A u \in Albums :
        /\ Handling(c, u) => polls[c].at = "catching up"
        /\ Placed(c, u) => Polls(c) \/ polls[c].at = "ended"
        /\ u \in polls[c].held => ~Flushing(c, u)
        /\ u \in polls[c].held \/ Flushing(c, u) => ~AskedBy(c, u)
        /\ Polls(c) /\ Placed(c, u) => Behind(c, u) /\ u \notin polls[c].batch

TurnsOf(c) == TurnsOfMessages(c) /\ TurnsOfAlbums(c)

AskedWereSent == \A u \in Messages : TurnAsked(u) => u <= telegram.sent

\* A connection asks for one turn of an album, and only one connection for that of a message.
OneJobOfConnection ==
    \A i, j \in DOMAIN log :
        /\ log[i].kind = "job_queued" /\ log[j].kind = "job_queued" /\ log[i].update = log[j].update
        => i = j \/ (log[i].update \in Albums /\ log[i].by # log[j].by)

TurnsInvariant ==
    /\ HandoverInvariant /\ AskedWereSent /\ OneJobOfConnection
    /\ \A c \in Connections : TurnsOf(c)

\* Telegram gets more updates, and forgets more.
TelegramGoesOn ==
    /\ telegram.sent \in Nat /\ telegram'.sent \in Nat /\ telegram.sent <= telegram'.sent
    /\ telegram.confirmed \in Nat /\ telegram'.confirmed \in Nat /\ telegram.confirmed <= telegram'.confirmed

LEMMA BehindStays ==
    ASSUME TelegramGoesOn, NEW c, polls'[c].offset = polls[c].offset
    PROVE  \A u \in Nat : Behind(c, u) => Behind(c, u)'
<1> PICK n, m : n = telegram.confirmed /\ m = telegram'.confirmed
  OBVIOUS
<1>1. n \in Nat /\ m \in Nat /\ n <= m
  BY DEF TelegramGoesOn
<1>2. \A u \in Nat : u <= n => u <= m
  BY <1>1
<1> QED
  BY <1>2 DEF Behind

LEMMA AlbumsAreNumbers == Albums \subseteq Nat /\ Messages \subseteq Nat
BY UpdatesAssumption, UpdatesAreNumbers DEF Messages

\* What a step may do of the albums of a connection without a proof of its own.
LEMMA AlbumsStay ==
    ASSUME NEW c \in Connections, TurnsOfAlbums(c),
           \A u \in Albums : AskedBy(c, u)' => AskedBy(c, u),
           \A u \in Albums : Flushing(c, u)' => Flushing(c, u),
           polls'[c].held \subseteq polls[c].held,
           writes'[c]["turn"] # <<>> => ~Leads(writes'[c]["turn"][1].rec),
           \A u \in Albums : Handling(c, u)' => polls'[c].at = "catching up",
           Polls(c) \/ polls[c].at = "ended" => Polls(c)' \/ polls'[c].at = "ended",
           Polls(c)' => \A u \in Albums : Placed(c, u) => Behind(c, u)' /\ u \notin polls'[c].batch
    PROVE  TurnsOfAlbums(c)'
<1>1. \A u \in Albums : Placed(c, u)' => Placed(c, u)
  BY DEF Placed
<1> QED
  BY <1>1 DEF TurnsOfAlbums

LEMMA AlbumsBystander ==
    ASSUME TelegramGoesOn, NEW d \in Connections, TurnsOf(d),
           polls'[d].at = polls[d].at, polls'[d].offset = polls[d].offset,
           polls'[d].batch = polls[d].batch, polls'[d].held \subseteq polls[d].held,
           writes'[d]["poll"] = writes[d]["poll"],
           \A t \in Tasks \ {"poll"} :
              writes'[d][t] = writes[d][t] \/ (writes'[d][t] # <<>> => ~Leads(writes'[d][t][1].rec)),
           \A u \in Albums : AskedBy(d, u)' => AskedBy(d, u)
    PROVE  TurnsOfAlbums(d)'
<1>1. "flush" \in Tasks \ {"poll"} /\ "turn" \in Tasks \ {"poll"}
  BY DEF Tasks
<1>2. \A u : (Flushing(d, u)' => Flushing(d, u)) /\ (Handling(d, u)' <=> Handling(d, u))
  BY <1>1 DEF Flushing, Handling
<1>3. TurnsOfAlbums(d) /\ (writes'[d]["turn"] # <<>> => ~Leads(writes'[d]["turn"][1].rec))
  BY <1>1 DEF TurnsOf, TurnsOfAlbums
<1>4. Polls(d)' = Polls(d)
  BY DEF Polls
<1>5. \A u \in Albums : Behind(d, u) => Behind(d, u)'
  BY BehindStays, AlbumsAreNumbers
<1>6. Polls(d) => \A u \in Albums : Placed(d, u) => Behind(d, u)' /\ u \notin polls'[d].batch
  BY <1>3, <1>5 DEF TurnsOfAlbums
<1>7. \A u \in Albums : Handling(d, u)' => polls'[d].at = "catching up"
  BY <1>2, <1>3 DEF TurnsOfAlbums
<1> QED
  BY <1>2, <1>3, <1>4, <1>6, <1>7, AlbumsStay

\* A connection whose poll loop neither moves nor writes.
LEMMA TurnsBystander ==
    ASSUME TelegramGoesOn, NEW d \in Connections, TurnsOf(d), polls[d].batch \subseteq Nat,
           polls'[d].at = polls[d].at, polls'[d].offset = polls[d].offset,
           polls'[d].batch = polls[d].batch, polls'[d].held \subseteq polls[d].held,
           runtimes'[d].armed = runtimes[d].armed, writes'[d]["poll"] = writes[d]["poll"],
           \A t \in Tasks \ {"poll"} :
              \/ writes'[d][t] = writes[d][t]
              \/ writes'[d][t] # <<>> /\ Leads(writes'[d][t][1].rec) => writes'[d][t][1].rec.update \in Albums,
           \A u \in Messages : Served(d, u)' => Served(d, u),
           Serves(d)' => Serves(d), TurnsOfAlbums(d)'
    PROVE  TurnsOf(d)'
<1>1. ASSUME NEW u \in Messages
      PROVE  /\ Handling(d, u)' <=> Handling(d, u)
             /\ AskingFor(d, u)' <=> AskingFor(d, u)
             /\ Behind(d, u) => Behind(d, u)'
  BY BehindStays, AlbumsAreNumbers DEF Handling, AskingFor
<1>2. \A u \in Nat : u <= telegram.sent => u <= telegram'.sent
  <2> PICK n, m : n = telegram.sent /\ m = telegram'.sent
    OBVIOUS
  <2>1. n \in Nat /\ m \in Nat /\ n <= m
    BY DEF TelegramGoesOn
  <2>2. \A u \in Nat : u <= n => u <= m
    BY <2>1
  <2> QED
    BY <2>2
<1>3. ArmedWhenCaughtUp(d)'
  BY DEF TurnsOf, TurnsOfMessages, ArmedWhenCaughtUp
<1>4. OthersAreAlbums(d)'
  BY DEF TurnsOf, TurnsOfMessages, OthersAreAlbums
<1>5. WereSent(d)'
  BY <1>1, <1>2 DEF TurnsOf, TurnsOfMessages, WereSent, Messages
<1>6. HandledOnce(d)'
  BY <1>1 DEF TurnsOf, TurnsOfMessages, HandledOnce
<1>7. ServesTheRest(d)'
  BY <1>1 DEF TurnsOf, TurnsOfMessages, ServesTheRest
<1> QED
  BY <1>3, <1>4, <1>5, <1>6, <1>7 DEF TurnsOf, TurnsOfMessages

\* A step that appends nothing, and asks for no turn.
LEMMA ServedStays ==
    ASSUME NEW u, TurnAsked(u)' => TurnAsked(u), \A d \in Connections : AskingFor(d, u)' => AskingFor(d, u)
    PROVE  \A c \in Connections : Served(c, u)' => Served(c, u)
BY DEF Served

LEMMA LogStays ==
    ASSUME TurnsInvariant, TelegramGoesOn, log' = log
    PROVE  /\ AskedWereSent' /\ OneJobOfConnection'
           /\ \A u : (TurnAsked(u)' <=> TurnAsked(u)) /\ \A d : AskedBy(d, u)' <=> AskedBy(d, u)
<1>1. \A u : (TurnAsked(u)' <=> TurnAsked(u)) /\ \A d : AskedBy(d, u)' <=> AskedBy(d, u)
  BY DEF TurnAsked, AskedBy
<1>2. OneJobOfConnection'
  BY DEF TurnsInvariant, OneJobOfConnection
<1>3. AskedWereSent'
  <2> PICK n, m : n = telegram.sent /\ m = telegram'.sent
    OBVIOUS
  <2>1. n \in Nat /\ m \in Nat /\ n <= m
    BY DEF TelegramGoesOn
  <2>2. \A u \in Messages : u <= n => u <= m
    BY <2>1 DEF Messages
  <2> QED
    BY <1>1, <2>2 DEF TurnsInvariant, AskedWereSent
<1> QED
  BY <1>1, <1>2, <1>3

LEMMA TelegramStays ==
    ASSUME TypeOK, telegram' = telegram
    PROVE  TelegramGoesOn
<1> PICK n, m : n = telegram.sent /\ m = telegram.confirmed
  OBVIOUS
<1>1. n \in Nat /\ m \in Nat
  BY DEF TypeOK
<1>2. n <= n /\ m <= m
  BY <1>1
<1> QED
  BY <1>1, <1>2 DEF TelegramGoesOn

\* A step of connection c that appends nothing and lets no new request past the fence.
LEMMA OthersTurns ==
    ASSUME TurnsInvariant, TelegramGoesOn, log' = log, NEW c \in Connections, OthersStay(c),
           lock'.owner = lock.owner,
           \A d \in Connections \ {c} : runtimes'[d].armed = runtimes[d].armed /\ runtimes'[d].owner = runtimes[d].owner,
           \A u \in Messages : AskingFor(c, u)' => AskingFor(c, u)
    PROVE  /\ \A d \in Connections \ {c} : TurnsOf(d)'
           /\ \A u \in Messages : Served(c, u)' => Served(c, u)
<1>1. ASSUME NEW u \in Messages, NEW d \in Connections PROVE AskingFor(d, u)' => AskingFor(d, u)
  BY DEF OthersStay, AskingFor, Handling
<1>2. ASSUME NEW u \in Messages, NEW d \in Connections PROVE Served(d, u)' => Served(d, u)
  BY <1>1, LogStays, ServedStays
<1>3. ASSUME NEW d \in Connections \ {c} PROVE TurnsOf(d)'
  <2>1. polls'[d] = polls[d] /\ writes'[d] = writes[d]
    BY DEF OthersStay
  <2>2. Serves(d)' => Serves(d)
    BY <2>1 DEF Serves, Owner
  <2>3. TurnsOf(d) /\ polls[d].batch \subseteq Nat
    BY PollIsTyped DEF TurnsInvariant, HandoverInvariant
  <2>4. TurnsOfAlbums(d)'
    BY <2>1, <2>3, LogStays, AlbumsBystander
  <2> QED
    BY <1>2, <2>1, <2>2, <2>3, <2>4, TurnsBystander
<1> QED
  BY <1>2, <1>3

LEMMA ConnectionTurns ==
    ASSUME TurnsInvariant, HandoverInvariant', TelegramGoesOn, log' = log, NEW c \in Connections, OthersStay(c),
           lock'.owner = lock.owner,
           \A d \in Connections \ {c} : runtimes'[d].armed = runtimes[d].armed /\ runtimes'[d].owner = runtimes[d].owner,
           \A u \in Messages : AskingFor(c, u)' => AskingFor(c, u),
           TurnsOf(c)'
    PROVE  TurnsInvariant'
<1>1. AskedWereSent' /\ OneJobOfConnection'
  BY LogStays
<1>2. \A d \in Connections \ {c} : TurnsOf(d)'
  BY OthersTurns
<1> QED
  BY <1>1, <1>2 DEF TurnsInvariant

\* A step of a poll loop that gets no album and gets none back.
LEMMA LoopAlbums ==
    ASSUME TurnsInvariant, TelegramGoesOn, log' = log, NEW c \in Connections,
           \A t \in Tasks \ {"poll"} : writes'[c][t] = writes[c][t],
           writes'[c]["poll"] # <<>> => ~Leads(writes'[c]["poll"][1].rec),
           polls'[c].held \subseteq polls[c].held,
           Polls(c) \/ polls[c].at = "ended" => Polls(c)' \/ polls'[c].at = "ended",
           Polls(c)' => \A u \in Albums : Placed(c, u) => Behind(c, u)' /\ u \notin polls'[c].batch
    PROVE  TurnsOfAlbums(c)'
<1>1. "flush" \in Tasks \ {"poll"} /\ "turn" \in Tasks \ {"poll"}
  BY DEF Tasks
<1>2. \A u : (Flushing(c, u)' => Flushing(c, u)) /\ ~Handling(c, u)'
  BY <1>1 DEF Flushing, Handling
<1>3. TurnsOfAlbums(c) /\ (writes'[c]["turn"] # <<>> => ~Leads(writes'[c]["turn"][1].rec))
  BY <1>1 DEF TurnsInvariant, TurnsOf, TurnsOfAlbums
<1>4. \A u : AskedBy(c, u)' => AskedBy(c, u)
  BY LogStays
<1> QED
  BY <1>2, <1>3, <1>4, AlbumsStay

\* A step of connection c after which its poll loop writes nothing that leads to a turn.
LEMMA LoopStepTurns ==
    ASSUME TurnsInvariant, HandoverInvariant', TelegramGoesOn, log' = log, NEW c \in Connections, OthersStay(c),
           lock'.owner = lock.owner,
           \A d \in Connections \ {c} : runtimes'[d].armed = runtimes[d].armed /\ runtimes'[d].owner = runtimes[d].owner,
           \A t \in Tasks \ {"poll"} : writes'[c][t] = writes[c][t],
           writes'[c]["poll"] # <<>> => ~Leads(writes'[c]["poll"][1].rec),
           polls'[c].held \subseteq Albums,
           polls'[c].at \notin {"catching up", "polling"} => writes'[c]["poll"] = <<>>,
           polls'[c].at \notin {"polling", "fetching", "ended"} => runtimes'[c].armed = NotArmed,
           \A u \in polls'[c].batch : u <= telegram'.sent,
           Serves(c)' => \A u \in Messages : Served(c, u) =>
              /\ polls'[c].at = "catching up" => Behind(c, u)' \/ u \in polls'[c].batch
              /\ polls'[c].at \in {"polling", "fetching"} => Behind(c, u)' /\ u \notin polls'[c].batch,
           TurnsOfAlbums(c)'
    PROVE  TurnsInvariant'
<1>1. \A u : ~Handling(c, u)' /\ ~AskingFor(c, u)'
  BY DEF Handling, AskingFor
<1>2. \A u \in Messages : Served(c, u)' => Served(c, u)
  BY <1>1, OthersTurns
<1>3. ArmedWhenCaughtUp(c)'
  BY DEF ArmedWhenCaughtUp, Leads
<1>4. OthersAreAlbums(c)'
  BY DEF TurnsInvariant, TurnsOf, TurnsOfMessages, OthersAreAlbums
<1>5. WereSent(c)' /\ HandledOnce(c)'
  BY <1>1 DEF WereSent, HandledOnce
<1>6. ServesTheRest(c)'
  BY <1>1, <1>2 DEF ServesTheRest
<1>7. TurnsOf(c)'
  BY <1>3, <1>4, <1>5, <1>6 DEF TurnsOf, TurnsOfMessages
<1> QED
  BY <1>1, <1>7, ConnectionTurns

-----------------------------------------------------------------------------
(* Sessions, crashes and claims.                                             *)

\* What a runtime does of a turn leaves armed as it is.
ArmedStays(rts) == \A d \in Connections : rts[d].armed = runtimes[d].armed

LEMMA DispatchLeavesArmed ==
    ASSUME NEW rts \in [Connections -> RuntimeType], ArmedStays(rts), NEW s, NEW v, TryDispatch(rts, s, v)
    PROVE  ArmedStays(runtimes')
<1> DEFINE c == v.connection
           k == rts[c]
           new == [k EXCEPT !.active = <<Head(k.pending)>>, !.pending = Tail(@)]
<1>1. runtimes' = rts \/ runtimes' = [rts EXCEPT ![c] = new]
  BY DEF TryDispatch
<1>2. c \in Connections => new.armed = rts[c].armed
  <2> SUFFICES ASSUME c \in Connections PROVE new.armed = k.armed
    OBVIOUS
  <2>1. k \in RuntimeType
    OBVIOUS
  <2> HIDE DEF k
  <2> QED
    BY <2>1 DEF RuntimeType
<1> HIDE DEF new, c
<1> QED
  BY <1>1, <1>2 DEF ArmedStays

LEMMA FinishedLeavesArmed ==
    ASSUME NEW k \in RuntimeType, NEW rec
    PROVE  Finished(k, rec).armed = k.armed
BY DEF Finished, RuntimeType

LEMMA ContinueLeavesArmed ==
    ASSUME NEW c \in Connections, NEW t, NEW rts \in [Connections -> RuntimeType], ArmedStays(rts),
           NEW v, NEW rec \in RecordType, Continue(c, t, rts, v, rec)
    PROVE  ArmedStays(runtimes')
<1> DEFINE done == [rts EXCEPT ![c] = Finished(rts[c], rec)]
<1>1. runtimes' = rts \/ TryDispatch(done, Owner(c), v)
  BY DEF Continue
<1>2. rts[c] \in RuntimeType /\ Finished(rts[c], rec) \in RuntimeType
      /\ Finished(rts[c], rec).armed = rts[c].armed
  BY FinishedIsTyped, FinishedLeavesArmed
<1>3. done \in [Connections -> RuntimeType] /\ ArmedStays(done)
  BY <1>2 DEF ArmedStays
<1> HIDE DEF done
<1> QED
  BY <1>1, <1>3, DispatchLeavesArmed

\* The end of a job starts no write that leads to a turn.
LEMMA FinishLeads ==
    ASSUME TypeOK, CurrentIsConnected, NEW s \in Sessions, NEW v, StaysAs(s, v),
           NEW kind \in {"outbound", "job_failed"}, FinishJob(s, v, kind)
    PROVE  /\ ArmedStays(runtimes')
           /\ \A d \in Connections, t \in Tasks :
                 \/ writes'[d][t] = writes[d][t]
                 \/ t # "poll" /\ (writes'[d][t] # <<>> => ~Leads(writes'[d][t][1].rec))
<1> DEFINE c == v.connection
           rec == Record(c, runtimes[c], kind, 0, runtimes[c].active[1])
           w == Writing(rec)
<1>1. runtimes \in [Connections -> RuntimeType] /\ ArmedStays(runtimes)
  BY DEF TypeOK, ArmedStays
<1>2. CASE UNCHANGED <<runtimes, writes>>
  BY <1>1, <1>2
<1>3. CASE TryDispatch(runtimes, s, v) /\ writes' = writes
  BY <1>1, <1>3, DispatchLeavesArmed
<1>4. CASE runtimes' = runtimes /\ writes' = [writes EXCEPT ![c]["turn"] = w]
  <2>1. w # <<>> /\ ~Leads(w[1].rec)
    BY DEF Writing, Record, Leads
  <2> HIDE DEF w, c
  <2>2. \A d \in Connections, t \in Tasks : writes'[d][t] = writes[d][t] \/ (t = "turn" /\ writes'[d][t] = w)
    BY <1>4 DEF TypeOK
  <2> QED
    BY <1>1, <1>4, <2>1, <2>2
<1> QED
  BY <1>2, <1>3, <1>4 DEF FinishJob

LEMMA SideStepLeads ==
    ASSUME TypeOK, CurrentIsConnected, NEW s \in Sessions, SideStep(s)
    PROVE  /\ ArmedStays(runtimes')
           /\ lock' = lock \/ lock' = [lock EXCEPT !.owner = NoOwner]
           /\ \A d \in Connections, t \in Tasks :
                 \/ writes'[d][t] = writes[d][t]
                 \/ t # "poll" /\ (writes'[d][t] # <<>> => ~Leads(writes'[d][t][1].rec))
<1>1. lock' = lock \/ lock' = [lock EXCEPT !.owner = NoOwner]
  BY DEF SideStep, SessionOnly, LoopAwaited, ReleaseCheck, Unlink, TurnIsLocal, TurnEnds, LocalTurn,
         LocalTurnEnds, Disconnect, EvictionGoesOn, TurnFails, ReplySent
<1>2. CASE UNCHANGED <<runtimes, writes>>
  BY <1>1, <1>2 DEF ArmedStays
<1>3. CASE TurnFails(s) \/ \E kind \in {"outbound", "job_failed"} : ReplySent(s, kind)
  <2> DEFINE x == sessions[s]
             v == [x EXCEPT !.agent = "idle", !.inFlight = FALSE]
             n == x.sending - 1
             w == [x EXCEPT !.sending = n, !.inFlight = FALSE]
  <2>1. x \in SessionType
    BY DEF TypeOK
  <2>2. StaysAs(s, v)
    BY <2>1 DEF StaysAs, SessionType
  <2>3. StaysAs(s, w)
    <3>1. n \in Int
      BY <2>1 DEF SessionType
    <3> HIDE DEF n
    <3> QED
      BY <2>1, <3>1 DEF StaysAs, SessionType
  <2>4. FinishJob(s, v, "job_failed") \/ \E kind \in {"outbound", "job_failed"} : FinishJob(s, w, kind)
    BY <1>3 DEF TurnFails, ReplySent
  <2> HIDE DEF v, w
  <2> QED
    BY <1>1, <2>2, <2>3, <2>4, FinishLeads
<1> QED
  BY <1>2, <1>3 DEF SideStep, SessionOnly, LoopAwaited, ReleaseCheck, Unlink, TurnIsLocal, TurnEnds, LocalTurn,
         LocalTurnEnds, Disconnect, EvictionGoesOn, Disconnecting

LEMMA SideStepTurns ==
    ASSUME TurnsInvariant, HandoverInvariant', NEW s \in Sessions, SideStep(s)
    PROVE  TurnsInvariant'
<1>1. TypeOK /\ CurrentIsConnected /\ RuntimesAreOwned
  BY DEF TurnsInvariant, HandoverInvariant
<1>2. OwnersStay(runtimes') /\ PollsLetGo /\ UNCHANGED <<log, telegram>>
  BY <1>1, SideStepStays
<1>3. /\ ArmedStays(runtimes')
      /\ lock' = lock \/ lock' = [lock EXCEPT !.owner = NoOwner]
      /\ \A d \in Connections, t \in Tasks :
            \/ writes'[d][t] = writes[d][t]
            \/ t # "poll" /\ (writes'[d][t] # <<>> => ~Leads(writes'[d][t][1].rec))
  BY <1>1, SideStepLeads
<1>4. TelegramGoesOn
  BY <1>1, <1>2, TelegramStays
<1>5. \A d \in Connections : writes'[d]["poll"] = writes[d]["poll"]
  BY <1>3 DEF Tasks
<1>6. \A u \in Messages, d \in Connections : AskingFor(d, u)' => AskingFor(d, u)
  BY <1>5 DEF AskingFor, Handling
<1>7. AskedWereSent' /\ OneJobOfConnection' /\ \A u \in Messages, d \in Connections : Served(d, u)' => Served(d, u)
  BY <1>2, <1>4, <1>6, LogStays, ServedStays
<1>10. \A d, u : AskedBy(d, u)' => AskedBy(d, u)
  BY <1>2, <1>4, LogStays
<1>8. lock'.owner = lock.owner \/ lock'.owner = NoOwner
  BY <1>1, <1>3 DEF TypeOK
<1>9. ASSUME NEW d \in Connections PROVE TurnsOf(d)'
  <2>1. Serves(d)' => Serves(d)
    BY <1>2, <1>8, NoOwnerAssumption DEF Serves, OwnersStay, Owner, PollsLetGo
  <2>2. TurnsOf(d) /\ polls[d].batch \subseteq Nat
    BY <1>1, PollIsTyped DEF TurnsInvariant
  <2>3. /\ polls'[d].at = polls[d].at /\ polls'[d].offset = polls[d].offset
        /\ polls'[d].batch = polls[d].batch /\ polls'[d].held \subseteq polls[d].held
        /\ runtimes'[d].armed = runtimes[d].armed
    BY <1>2, <1>3 DEF PollsLetGo, ArmedStays
  <2>4. \A t \in Tasks \ {"poll"} :
           \/ writes'[d][t] = writes[d][t]
           \/ writes'[d][t] # <<>> /\ Leads(writes'[d][t][1].rec) => writes'[d][t][1].rec.update \in Albums
    BY <1>3
  <2>5. \A u \in Messages : Served(d, u)' => Served(d, u)
    BY <1>7
  <2>6. TurnsOfAlbums(d)'
    BY <1>3, <1>4, <1>5, <1>10, <2>2, <2>3, AlbumsBystander
  <2> QED
    BY <1>4, <1>5, <2>1, <2>2, <2>3, <2>4, <2>5, <2>6, TurnsBystander
<1> QED
  BY <1>7, <1>9 DEF TurnsInvariant

LEMMA SendTurns ==
    ASSUME TurnsInvariant, HandoverInvariant', Send
    PROVE  TurnsInvariant'
<1>1. /\ telegram' = [telegram EXCEPT !.sent = @ + 1]
      /\ UNCHANGED <<log, lock, runtimes, polls, writes>>
  BY DEF Send
<1>2. TypeOK
  BY DEF TurnsInvariant, HandoverInvariant
<1>3. TelegramGoesOn
  BY <1>1, <1>2 DEF TelegramGoesOn, TypeOK
<1>4. \A u \in Messages, d \in Connections : AskingFor(d, u)' => AskingFor(d, u)
  BY <1>1 DEF AskingFor, Handling
<1>5. AskedWereSent' /\ OneJobOfConnection' /\ \A u \in Messages, d \in Connections : Served(d, u)' => Served(d, u)
  BY <1>1, <1>3, <1>4, LogStays, ServedStays
<1>6. ASSUME NEW d \in Connections PROVE TurnsOf(d)'
  <2>1. Serves(d)' => Serves(d)
    BY <1>1 DEF Serves, Owner
  <2>2. TurnsOf(d) /\ polls[d].batch \subseteq Nat
    BY <1>2, PollIsTyped DEF TurnsInvariant
  <2>3. TurnsOfAlbums(d)'
    BY <1>1, <1>3, <2>2, LogStays, AlbumsBystander
  <2> QED
    BY <1>1, <1>3, <1>5, <2>1, <2>2, <2>3, TurnsBystander
<1> QED
  BY <1>5, <1>6 DEF TurnsInvariant

LEMMA IdleTurns ==
    ASSUME TurnsInvariant, HandoverInvariant', UNCHANGED vars
    PROVE  TurnsInvariant'
<1>1. UNCHANGED <<log, lock, telegram, runtimes, polls, writes>> /\ TypeOK
  BY DEF vars, TurnsInvariant, HandoverInvariant
<1>2. TelegramGoesOn
  BY <1>1, TelegramStays
<1>3. \A u \in Messages, d \in Connections : AskingFor(d, u)' => AskingFor(d, u)
  BY <1>1 DEF AskingFor, Handling
<1>4. AskedWereSent' /\ OneJobOfConnection' /\ \A u \in Messages, d \in Connections : Served(d, u)' => Served(d, u)
  BY <1>1, <1>2, <1>3, LogStays, ServedStays
<1>5. ASSUME NEW d \in Connections PROVE TurnsOf(d)'
  <2>1. Serves(d)' => Serves(d)
    BY <1>1 DEF Serves, Owner
  <2>2. TurnsOf(d) /\ polls[d].batch \subseteq Nat
    BY <1>1, PollIsTyped DEF TurnsInvariant
  <2>3. TurnsOfAlbums(d)'
    BY <1>1, <1>2, <2>2, LogStays, AlbumsBystander
  <2> QED
    BY <1>1, <1>2, <1>4, <2>1, <2>2, <2>3, TurnsBystander
<1> QED
  BY <1>4, <1>5 DEF TurnsInvariant

LEMMA CrashTurns ==
    ASSUME TurnsInvariant, HandoverInvariant', NEW s \in Sessions, Crash(s)
    PROVE  TurnsInvariant'
<1>1. UNCHANGED <<log, lock, telegram, runtimes>> /\ TypeOK
  BY DEF Crash, TurnsInvariant, HandoverInvariant
<1>2. \A d \in Connections :
         IF Owner(d) = s
         THEN /\ polls'[d].at = "ended" /\ polls'[d].batch = {}
              /\ polls'[d].held = {} /\ \A t \in Tasks : writes'[d][t] = <<>>
         ELSE polls'[d] = polls[d] /\ writes'[d] = writes[d]
  BY <1>1, CrashTypes
<1>3. TelegramGoesOn
  BY <1>1, TelegramStays
<1>4. \A u \in Messages, d \in Connections : AskingFor(d, u)' => AskingFor(d, u)
  BY <1>2 DEF AskingFor, Handling, Tasks
<1>5. AskedWereSent' /\ OneJobOfConnection' /\ \A u \in Messages, d \in Connections : Served(d, u)' => Served(d, u)
  BY <1>1, <1>3, <1>4, LogStays, ServedStays
<1>6. ASSUME NEW d \in Connections PROVE TurnsOf(d)'
  <2>1. CASE Owner(d) = s
    <3>1. /\ polls'[d].at = "ended" /\ polls'[d].batch = {} /\ polls'[d].held = {}
          /\ \A t \in Tasks : writes'[d][t] = <<>>
      BY <1>2, <2>1
    <3>2. \A u : ~Handling(d, u)' /\ ~AskingFor(d, u)'
      BY <3>1 DEF Handling, AskingFor, Tasks
    <3>3. ArmedWhenCaughtUp(d)' /\ OthersAreAlbums(d)'
      BY <3>1 DEF ArmedWhenCaughtUp, OthersAreAlbums, Tasks
    <3>4. WereSent(d)' /\ HandledOnce(d)' /\ ServesTheRest(d)'
      BY <3>1, <3>2 DEF WereSent, HandledOnce, ServesTheRest, Serves
    <3>5. TurnsOfAlbums(d)'
      BY <3>1, <3>2 DEF TurnsOfAlbums, Placed, Flushing, Polls, Tasks
    <3> QED
      BY <3>3, <3>4, <3>5 DEF TurnsOf, TurnsOfMessages
  <2>2. CASE Owner(d) # s
    <3>1. polls'[d] = polls[d] /\ writes'[d] = writes[d]
      BY <1>2, <2>2
    <3>2. Serves(d)' => Serves(d)
      BY <1>1, <3>1 DEF Serves, Owner
    <3>3. TurnsOf(d) /\ polls[d].batch \subseteq Nat
      BY <1>1, PollIsTyped DEF TurnsInvariant
    <3>4. TurnsOfAlbums(d)'
      BY <1>1, <1>3, <3>1, <3>3, LogStays, AlbumsBystander
    <3> QED
      BY <1>1, <1>3, <1>5, <3>1, <3>2, <3>3, <3>4, TurnsBystander
  <2> QED
    BY <2>1, <2>2
<1> QED
  BY <1>5, <1>6 DEF TurnsInvariant

-----------------------------------------------------------------------------
(* The turns and the poll loop.                                              *)

\* The channel is claimed for a connection that has not asked for updates yet.
LEMMA ClaimTurns ==
    ASSUME TurnsInvariant, HandoverInvariant', NEW c \in Connections, Claim(c)
    PROVE  TurnsInvariant'
<1>1. /\ Owner(c) \in Sessions /\ polls[c].at = "claiming" /\ polls' = [polls EXCEPT ![c].at = "reading"]
      /\ lock' = [owner |-> Owner(c), claims |-> lock.claims + 1]
      /\ UNCHANGED <<log, telegram, runtimes, writes, sessions>>
  BY AliveIsOwned DEF Claim
<1>2. TypeOK /\ \A d \in Connections : ConnectedIsLast(d)
  BY DEF TurnsInvariant, HandoverInvariant, InOrder
<1>3. TelegramGoesOn
  BY <1>1, <1>2, TelegramStays
<1>4. \A u \in Messages, d \in Connections : AskingFor(d, u)' => AskingFor(d, u)
  BY <1>1 DEF AskingFor, Handling
<1>5. AskedWereSent' /\ OneJobOfConnection' /\ \A u \in Messages, d \in Connections : Served(d, u)' => Served(d, u)
  BY <1>1, <1>3, <1>4, LogStays, ServedStays
<1>6. /\ polls'[c].at = "reading" /\ polls'[c].batch = polls[c].batch /\ polls'[c].held = polls[c].held
      /\ \A d \in Connections \ {c} : polls'[d] = polls[d]
  <2>1. polls[c] \in PollType
    BY <1>2, PollIsTyped
  <2> QED
    BY <1>1, <1>2, <2>1 DEF TypeOK, PollType
<1>7. ASSUME NEW d \in Connections, d # c PROVE TurnsOf(d)'
  <2>1. Owner(d) = Owner(c) => polls[d].at \in {"off", "ended"}
    BY <1>1, <1>2, <1>7 DEF ConnectedIsLast
  <2>2. ~Serves(d)'
    BY <1>1, <1>6, <1>7, <2>1 DEF Serves, Owner
  <2>3. TurnsOf(d) /\ polls[d].batch \subseteq Nat /\ polls'[d] = polls[d]
    BY <1>2, <1>6, <1>7, PollIsTyped DEF TurnsInvariant
  <2>4. TurnsOfAlbums(d)'
    BY <1>1, <1>3, <2>3, LogStays, AlbumsBystander
  <2> QED
    BY <1>1, <1>3, <1>5, <2>2, <2>3, <2>4, TurnsBystander
<1>8. TurnsOf(c)'
  <2>1. TurnsOf(c)
    BY DEF TurnsInvariant
  <2>2. writes[c]["poll"] = <<>> /\ runtimes[c].armed = NotArmed
    BY <1>1, <2>1 DEF TurnsOf, TurnsOfMessages, ArmedWhenCaughtUp
  <2>3. \A u : ~Handling(c, u)' /\ ~AskingFor(c, u)'
    BY <1>1, <2>2 DEF Handling, AskingFor
  <2>4. ArmedWhenCaughtUp(c)' /\ OthersAreAlbums(c)'
    BY <1>1, <1>6, <2>1, <2>2 DEF TurnsOf, TurnsOfMessages, ArmedWhenCaughtUp, OthersAreAlbums
  <2>5. WereSent(c)'
    BY <1>1, <1>6, <2>1, <2>3 DEF TurnsOf, TurnsOfMessages, WereSent
  <2>6. HandledOnce(c)' /\ ServesTheRest(c)'
    BY <1>6, <2>3 DEF HandledOnce, ServesTheRest
  <2>7. TurnsOfAlbums(c)'
    BY <1>1, <1>3, <1>6, <2>2, LoopAlbums DEF Polls
  <2> QED
    BY <2>4, <2>5, <2>6, <2>7 DEF TurnsOf, TurnsOfMessages
<1> QED
  BY <1>5, <1>7, <1>8 DEF TurnsInvariant

LEMMA ConnectTurns ==
    ASSUME TurnsInvariant, HandoverInvariant', NEW s \in Sessions, NEW c \in Connections, ConnectBegin(s, c)
    PROVE  TurnsInvariant'
<1>1. PICK at \in {"reading", "claiming"} :
        /\ polls' = [polls EXCEPT ![c].at = at] /\ runtimes' = [runtimes EXCEPT ![c] = NewRuntime(s)]
        /\ UNCHANGED <<log, lock, telegram, writes>> /\ Owner(c) = NoOwner
  BY DEF ConnectBegin
<1>2. TypeOK /\ UnusedAreIdle(c)
  BY DEF TurnsInvariant, HandoverInvariant, InOrder
<1>3. /\ polls[c].at = "off" /\ polls[c].batch = {} /\ polls[c].held = {}
      /\ \A t \in Tasks : writes[c][t] = <<>>
  BY <1>1, <1>2 DEF UnusedAreIdle
<1>4. /\ polls'[c].at = at /\ polls'[c].batch = {} /\ polls'[c].held = {}
      /\ \A d \in Connections \ {c} : polls'[d] = polls[d] /\ runtimes'[d] = runtimes[d]
      /\ runtimes'[c].armed = NotArmed
  <2>1. polls[c] \in PollType
    BY <1>2, PollIsTyped
  <2>2. runtimes'[c] = NewRuntime(s) /\ \A d \in Connections \ {c} : runtimes'[d] = runtimes[d]
    BY <1>1, <1>2 DEF TypeOK
  <2>3. NewRuntime(s).armed = NotArmed
    BY DEF NewRuntime
  <2> QED
    BY <1>1, <1>2, <1>3, <2>1, <2>2, <2>3 DEF TypeOK, PollType
<1>5. TelegramGoesOn
  BY <1>1, <1>2, TelegramStays
<1>6. OthersStay(c) /\ writes'[c]["poll"] = <<>>
  BY <1>1, <1>3, <1>4 DEF OthersStay, Tasks
<1>7. TurnsOfAlbums(c)'
  BY <1>1, <1>3, <1>4, <1>5, <1>6, LoopAlbums DEF Polls
<1> QED
  BY <1>1, <1>4, <1>5, <1>6, <1>7, LoopStepTurns

LEMMA LoadTurns ==
    ASSUME TurnsInvariant, HandoverInvariant', NEW c \in Connections, Load(c)
    PROVE  TurnsInvariant'
<1> DEFINE k == Loaded(runtimes[c])
           p == [polls[c] EXCEPT !.at = "initial", !.offset = LoadedCursor + 1]
<1>1. /\ polls[c].at = "reading" /\ runtimes' = [runtimes EXCEPT ![c] = k]
      /\ polls' = [polls EXCEPT ![c] = p]
      /\ UNCHANGED <<log, lock, telegram, writes>>
  BY DEF Load
<1>2. TypeOK /\ TurnsOf(c)
  BY DEF TurnsInvariant, HandoverInvariant
<1>3. writes[c]["poll"] = <<>> /\ runtimes[c].armed = NotArmed /\ polls[c].held \subseteq Albums
  BY <1>1, <1>2 DEF TurnsOf, TurnsOfMessages, ArmedWhenCaughtUp, OthersAreAlbums
<1>4. k.armed = runtimes[c].armed
  BY <1>2 DEF Loaded, TypeOK, RuntimeType
<1>5. p.at = "initial" /\ p.batch = polls[c].batch /\ p.held = polls[c].held
  BY <1>2, PollIsTyped DEF PollType
<1> HIDE DEF k, p
<1>6. /\ polls'[c] = p /\ runtimes'[c] = k
      /\ \A d \in Connections \ {c} : polls'[d] = polls[d] /\ runtimes'[d] = runtimes[d]
  BY <1>1, <1>2 DEF TypeOK
<1>7. TelegramGoesOn /\ OthersStay(c)
  BY <1>1, <1>2, <1>6, TelegramStays DEF OthersStay
<1>8. \A u \in polls[c].batch : u <= telegram.sent
  BY <1>2 DEF TurnsOf, TurnsOfMessages, WereSent
<1>9. TurnsOfAlbums(c)'
  BY <1>1, <1>3, <1>5, <1>6, <1>7, LoopAlbums DEF Polls
<1> QED
  BY <1>1, <1>3, <1>4, <1>5, <1>6, <1>7, <1>8, <1>9, LoopStepTurns

LEMMA ServedWereSent ==
    ASSUME TurnsInvariant, NEW c \in Connections, NEW u \in Messages, Served(c, u)
    PROVE  u <= telegram.sent
BY DEF TurnsInvariant, TurnsOf, TurnsOfMessages, WereSent, AskedWereSent, Served, AskingFor

LEMMA WhatIsBehind ==
    ASSUME NEW o \in Nat, NEW n \in Nat, NEW forgotten \in Nat, NEW sent \in Nat, NEW u \in Nat,
           o <= n + 1, forgotten <= n, n = forgotten \/ n = o - 1
    PROVE  /\ u <= sent => u < o \/ u <= n \/ u \in (n + 1) .. sent
           /\ u < o \/ u <= forgotten => (u < o \/ u <= n) /\ u \notin (n + 1) .. sent
OBVIOUS

FetchedAt(c) ==
    \/ polls[c].at = "initial" /\ polls'[c].at = "catching up"
    \/ polls[c].at = "fetching" /\ polls'[c].at = "polling"

\* What a request of updates gets: all that is not forgotten and not before the offset.
LEMMA WhatIsFetched ==
    ASSUME TypeOK, NEW c \in Connections, FetchInitial(c) \/ Fetch(c)
    PROVE  /\ FetchedAt(c) /\ TelegramGoesOn /\ polls'[c].held = polls[c].held
           /\ \A d \in Connections \ {c} : polls'[d] = polls[d]
           /\ \A u \in polls'[c].batch : u <= telegram'.sent
           /\ \A u \in Nat : u <= telegram.sent => Behind(c, u)' \/ u \in polls'[c].batch
           /\ \A u \in Nat : Behind(c, u) => Behind(c, u)' /\ u \notin polls'[c].batch
<1>1. PICK o, n, b, forgotten, sent :
        /\ o = polls[c].offset /\ n = Before(polls[c].offset) /\ b = Waiting(polls[c].offset)
        /\ forgotten = telegram.confirmed /\ sent = telegram.sent
  OBVIOUS
<1>2. PICK at :
        /\ Confirm(polls[c].offset) /\ polls' = [polls EXCEPT ![c].at = at, ![c].batch = b]
        /\ \/ polls[c].at = "initial" /\ at = "catching up"
           \/ polls[c].at = "fetching" /\ at = "polling"
  BY <1>1 DEF FetchInitial, Fetch, Fetching
<1>3. polls[c] \in PollType
  BY PollIsTyped
<1>4. o \in Nat /\ forgotten \in Nat /\ sent \in Nat
  BY <1>1, <1>3 DEF TypeOK, PollType
<1>5. /\ n \in Nat /\ o <= n + 1 /\ forgotten <= n /\ (n = forgotten \/ n = o - 1)
      /\ b = (n + 1) .. sent
  <2>1. /\ Before(o) \in Nat /\ o <= Before(o) + 1 /\ telegram.confirmed <= Before(o)
        /\ Before(o) = telegram.confirmed \/ Before(o) = o - 1
        /\ Waiting(o) = (Before(o) + 1) .. telegram.sent
    BY <1>1, <1>4, WhatWaits
  <2> QED
    BY <1>1, <2>1
<1>6. telegram'.sent = sent /\ telegram'.confirmed = n
  BY <1>1, <1>2 DEF Confirm, TypeOK
<1>7. TelegramGoesOn
  <2>1. sent <= sent
    BY <1>4
  <2> QED
    BY <1>1, <1>4, <1>5, <1>6, <2>1 DEF TelegramGoesOn
<1>8. /\ polls'[c].at = at /\ polls'[c].offset = o /\ polls'[c].batch = b /\ polls'[c].held = polls[c].held
      /\ \A d \in Connections \ {c} : polls'[d] = polls[d]
  <2> DEFINE p == [polls[c] EXCEPT !.at = at, !.batch = b]
  <2>1. p.at = at /\ p.offset = o /\ p.batch = b /\ p.held = polls[c].held
    BY <1>1, <1>3 DEF PollType
  <2>2. polls' = [polls EXCEPT ![c] = p]
    BY <1>2
  <2> HIDE DEF p
  <2> QED
    BY <2>1, <2>2 DEF TypeOK
<1>9. ASSUME NEW u \in Nat
      PROVE  /\ u <= sent => u < o \/ u <= n \/ u \in b
             /\ u < o \/ u <= forgotten => (u < o \/ u <= n) /\ u \notin b
  <2>1. /\ u <= sent => u < o \/ u <= n \/ u \in (n + 1) .. sent
        /\ u < o \/ u <= forgotten => (u < o \/ u <= n) /\ u \notin (n + 1) .. sent
    BY <1>4, <1>5, WhatIsBehind
  <2> QED
    BY <1>5, <2>1
<1>10. \A u \in Nat : (Behind(c, u) <=> u < o \/ u <= forgotten) /\ (Behind(c, u)' <=> u < o \/ u <= n)
  BY <1>1, <1>6, <1>8 DEF Behind
<1>11. \A u \in b : u <= sent
  BY <1>4, <1>5
<1> QED
  BY <1>1, <1>2, <1>6, <1>7, <1>8, <1>9, <1>10, <1>11 DEF FetchedAt

\* Whatever was asked for before is in the first batch, or not sent again.
LEMMA FetchTurns ==
    ASSUME TurnsInvariant, HandoverInvariant', NEW c \in Connections, FetchInitial(c) \/ Fetch(c)
    PROVE  TurnsInvariant'
<1>1. TypeOK /\ TurnsOf(c)
  BY DEF TurnsInvariant, HandoverInvariant
<1>2. /\ UNCHANGED <<log, lock, runtimes, writes>>
  BY DEF FetchInitial, Fetch
<1>3. /\ FetchedAt(c) /\ TelegramGoesOn /\ polls'[c].held = polls[c].held
      /\ \A d \in Connections \ {c} : polls'[d] = polls[d]
      /\ \A u \in polls'[c].batch : u <= telegram'.sent
      /\ \A u \in Nat : u <= telegram.sent => Behind(c, u)' \/ u \in polls'[c].batch
      /\ \A u \in Nat : Behind(c, u) => Behind(c, u)' /\ u \notin polls'[c].batch
  BY <1>1, WhatIsFetched
<1>4. writes[c]["poll"] = <<>> /\ polls[c].held \subseteq Albums
      /\ (polls'[c].at = "catching up" => runtimes[c].armed = NotArmed)
  BY <1>1, <1>3 DEF FetchedAt, TurnsOf, TurnsOfMessages, ArmedWhenCaughtUp, OthersAreAlbums
<1>5. ASSUME Serves(c)', NEW u \in Messages, Served(c, u)
      PROVE  /\ polls'[c].at = "catching up" => Behind(c, u)' \/ u \in polls'[c].batch
             /\ polls'[c].at \in {"polling", "fetching"} => Behind(c, u)' /\ u \notin polls'[c].batch
  <2>1. u <= telegram.sent /\ u \in Nat
    BY <1>5, ServedWereSent DEF Messages
  <2>2. Serves(c)
    BY <1>2, <1>3, <1>5 DEF FetchedAt, Serves, Owner
  <2>3. polls[c].at = "fetching" => Behind(c, u)
    BY <1>1, <1>5, <2>2 DEF TurnsOf, TurnsOfMessages, ServesTheRest
  <2> QED
    BY <1>2, <1>3, <2>1, <2>3 DEF FetchedAt
<1>6. TurnsOfAlbums(c)'
  <2>1. ASSUME NEW u \in Albums, Placed(c, u), polls'[c].at = "polling"
        PROVE  Behind(c, u)' /\ u \notin polls'[c].batch
    <3>1. Behind(c, u) /\ u \in Nat
      BY <1>1, <1>3, <2>1, AlbumsAreNumbers DEF FetchedAt, TurnsOf, TurnsOfAlbums, Polls
    <3> QED
      BY <1>3, <3>1
  <2> QED
    BY <1>2, <1>3, <1>4, <2>1, LoopAlbums DEF FetchedAt, Polls
<1>7. OthersStay(c)
  BY <1>2, <1>3 DEF OthersStay
<1> QED
  BY <1>2, <1>3, <1>4, <1>5, <1>6, <1>7, LoopStepTurns DEF FetchedAt

\* What a step leaves of a connection but where its poll loop is.
LEMMA AtIsTyped ==
    ASSUME TypeOK, NEW c \in Connections, NEW at, polls' = [polls EXCEPT ![c].at = at]
    PROVE  /\ polls'[c].at = at /\ polls'[c].offset = polls[c].offset
           /\ polls'[c].batch = polls[c].batch /\ polls'[c].held = polls[c].held
           /\ \A d \in Connections \ {c} : polls'[d] = polls[d]
<1>1. polls[c] \in PollType
  BY PollIsTyped
<1> QED
  BY <1>1 DEF TypeOK, PollType

LEMMA CaughtUpTurns ==
    ASSUME TurnsInvariant, HandoverInvariant', NEW c \in Connections, CaughtUp(c)
    PROVE  TurnsInvariant'
<1> DEFINE k == [runtimes[c] EXCEPT !.armed = runtimes[c].tail]
<1>1. /\ polls[c].at = "catching up" /\ polls[c].batch = {} /\ writes[c]["poll"] = <<>>
      /\ polls' = [polls EXCEPT ![c].at = "polling"]
      /\ runtimes' = runtimes \/ runtimes' = [runtimes EXCEPT ![c] = k]
      /\ UNCHANGED <<log, lock, telegram, writes>>
  BY DEF CaughtUp
<1>2. TypeOK /\ TurnsOf(c)
  BY DEF TurnsInvariant, HandoverInvariant
<1>3. k.owner = runtimes[c].owner
  BY <1>2 DEF TypeOK, RuntimeType
<1> HIDE DEF k
<1>4. runtimes'[c].owner = runtimes[c].owner /\ \A d \in Connections \ {c} : runtimes'[d] = runtimes[d]
  BY <1>1, <1>2, <1>3 DEF TypeOK
<1>5. /\ polls'[c].at = "polling" /\ polls'[c].offset = polls[c].offset
      /\ polls'[c].batch = {} /\ polls'[c].held = polls[c].held
      /\ \A d \in Connections \ {c} : polls'[d] = polls[d]
  BY <1>1, <1>2, AtIsTyped
<1>6. TelegramGoesOn /\ OthersStay(c)
  BY <1>1, <1>2, <1>5, TelegramStays DEF OthersStay
<1>7. polls[c].held \subseteq Albums
  BY <1>2 DEF TurnsOf, TurnsOfMessages, OthersAreAlbums
<1>8. ASSUME Serves(c)', NEW u \in Messages, Served(c, u) PROVE Behind(c, u)'
  <2>1. Serves(c)
    BY <1>1, <1>4, <1>8 DEF Serves, Owner
  <2>2. Behind(c, u)
    BY <1>1, <1>2, <1>8, <2>1 DEF TurnsOf, TurnsOfMessages, ServesTheRest
  <2> QED
    BY <1>5, <1>6, <2>2, BehindStays, AlbumsAreNumbers
<1>9. TurnsOfAlbums(c)'
  <2>1. \A u \in Albums : ~Placed(c, u)
    BY <1>1, <1>2 DEF TurnsOf, TurnsOfAlbums, Polls
  <2> QED
    BY <1>1, <1>5, <1>6, <2>1, LoopAlbums DEF Polls
<1> QED
  BY <1>1, <1>4, <1>5, <1>6, <1>7, <1>8, <1>9, LoopStepTurns

LEMMA CheckPassesTurns ==
    ASSUME TurnsInvariant, HandoverInvariant', NEW c \in Connections, CheckPasses(c)
    PROVE  TurnsInvariant'
<1>1. /\ polls[c].at = "polling" /\ polls' = [polls EXCEPT ![c].at = "fetching"] /\ writes[c]["poll"] = <<>>
      /\ UNCHANGED <<log, lock, telegram, runtimes, writes>>
  BY DEF CheckPasses, BetweenPolls
<1>2. TypeOK /\ TurnsOf(c)
  BY DEF TurnsInvariant, HandoverInvariant
<1>3. /\ polls'[c].at = "fetching" /\ polls'[c].offset = polls[c].offset
      /\ polls'[c].batch = polls[c].batch /\ polls'[c].held = polls[c].held
      /\ \A d \in Connections \ {c} : polls'[d] = polls[d]
  BY <1>1, <1>2, AtIsTyped
<1>4. TelegramGoesOn /\ OthersStay(c)
  BY <1>1, <1>2, <1>3, TelegramStays DEF OthersStay
<1>5. polls[c].held \subseteq Albums /\ \A u \in polls[c].batch : u <= telegram.sent
  BY <1>2 DEF TurnsOf, TurnsOfMessages, OthersAreAlbums, WereSent
<1>6. ASSUME Serves(c)', NEW u \in Messages, Served(c, u) PROVE Behind(c, u)' /\ u \notin polls[c].batch
  <2>1. Serves(c)
    BY <1>1, <1>6 DEF Serves, Owner
  <2>2. Behind(c, u) /\ u \notin polls[c].batch
    BY <1>1, <1>2, <1>6, <2>1 DEF TurnsOf, TurnsOfMessages, ServesTheRest
  <2> QED
    BY <1>3, <1>4, <2>2, BehindStays, AlbumsAreNumbers
<1>7. TurnsOfAlbums(c)'
  <2>1. \A u \in Albums : Behind(c, u) => Behind(c, u)'
    BY <1>3, <1>4, BehindStays, AlbumsAreNumbers
  <2>2. \A u \in Albums : Placed(c, u) => Behind(c, u)' /\ u \notin polls'[c].batch
    BY <1>1, <1>2, <1>3, <2>1 DEF TurnsOf, TurnsOfAlbums, Polls
  <2> QED
    BY <1>1, <1>3, <1>4, <1>5, <1>6, <2>2, LoopAlbums DEF Polls
<1> QED
  BY <1>1, <1>3, <1>4, <1>5, <1>6, <1>7, LoopStepTurns

LEMMA EndedTurns ==
    ASSUME TurnsInvariant, HandoverInvariant', NEW c \in Connections,
           CheckFails(c) \/ FetchConflict(c) \/ LoopEnds(c) \/ ConnectFails(c)
    PROVE  TurnsInvariant'
<1> DEFINE k == [runtimes[c] EXCEPT !.lost = TRUE]
<1>1. TypeOK /\ TurnsOf(c)
  BY DEF TurnsInvariant, HandoverInvariant
<1>2. /\ polls' = [polls EXCEPT ![c] = Ended(@)] /\ writes[c]["poll"] = <<>>
      /\ runtimes' = runtimes \/ runtimes' = [runtimes EXCEPT ![c] = k]
      /\ UNCHANGED <<log, lock, telegram, writes>>
  <2>1. polls[c].at = "fetching" => writes[c]["poll"] = <<>>
    BY <1>1 DEF TurnsOf, TurnsOfMessages, ArmedWhenCaughtUp
  <2> QED
    BY <2>1 DEF CheckFails, FetchConflict, LoopEnds, ConnectFails, StandDown, BetweenPolls, Fetching
<1>3. /\ polls'[c].at = "ended" /\ polls'[c].batch = {} /\ polls'[c].held = polls[c].held
      /\ \A d \in Connections \ {c} : polls'[d] = polls[d]
  <2>1. Ended(polls[c]).at = "ended" /\ Ended(polls[c]).batch = {} /\ Ended(polls[c]).held = polls[c].held
    BY <1>1, PollIsTyped, EndedIsTyped
  <2> QED
    BY <1>1, <1>2, <2>1 DEF TypeOK
<1> HIDE DEF k
<1>4. \A d \in Connections \ {c} : runtimes'[d] = runtimes[d]
  BY <1>1, <1>2 DEF TypeOK
<1>5. TelegramGoesOn /\ OthersStay(c)
  BY <1>1, <1>2, <1>3, TelegramStays DEF OthersStay
<1>6. polls[c].held \subseteq Albums
  BY <1>1 DEF TurnsOf, TurnsOfMessages, OthersAreAlbums
<1>7. TurnsOfAlbums(c)'
  BY <1>2, <1>3, <1>5, LoopAlbums DEF Polls
<1> QED
  BY <1>2, <1>3, <1>4, <1>5, <1>6, <1>7, LoopStepTurns

-----------------------------------------------------------------------------
(* The turns and the updates taken.                                          *)

LEMMA PassedMovesOn ==
    ASSUME TypeOK, NEW c \in Connections, NEW u \in Updates, telegram' = telegram,
           polls'[c].offset = Passed(polls[c], u).offset
    PROVE  /\ Behind(c, u)'
           /\ \A v \in Nat : Behind(c, v) => Behind(c, v)'
<1> PICK o, q : o = polls[c].offset /\ q = polls'[c].offset
  OBVIOUS
<1>1. o \in Nat /\ u \in Nat
  BY PollIsTyped, UpdatesAreNumbers
<1>2. q = IF u >= o THEN u + 1 ELSE o
  <2>1. polls[c] \in PollType
    BY PollIsTyped
  <2> QED
    BY <2>1 DEF Passed, PollType
<1>3. u < q /\ \A v \in Nat : v < o => v < q
  BY <1>1, <1>2
<1> QED
  BY <1>3 DEF Behind

\* The connection that serves passes an update and still asks for no turn twice.
LEMMA PassedServes ==
    ASSUME TurnsInvariant, NEW c \in Connections, NEW u \in Updates, NextUpdate(c, u), telegram' = telegram,
           polls'[c].at = polls[c].at, polls'[c].offset = Passed(polls[c], u).offset,
           \/ polls'[c].batch = polls[c].batch \ {u}
           \/ polls[c].at = "polling" /\ polls'[c].batch = {}
    PROVE  /\ \A v \in polls'[c].batch : v <= telegram'.sent
           /\ Serves(c) => \A v \in Messages : Served(c, v) =>
                 /\ polls'[c].at = "catching up" => Behind(c, v)' \/ v \in polls'[c].batch
                 /\ polls'[c].at \in {"polling", "fetching"} => Behind(c, v)' /\ v \notin polls'[c].batch
<1>1. TypeOK /\ TurnsOf(c)
  BY DEF TurnsInvariant, HandoverInvariant
<1>2. Behind(c, u)' /\ \A v \in Messages : Behind(c, v) => Behind(c, v)'
  BY <1>1, PassedMovesOn, AlbumsAreNumbers
<1>3. \A v \in polls'[c].batch : v <= telegram'.sent
  BY <1>1 DEF TurnsOf, TurnsOfMessages, WereSent
<1>4. ASSUME Serves(c), NEW v \in Messages, Served(c, v)
      PROVE  /\ polls'[c].at = "catching up" => Behind(c, v)' \/ v \in polls'[c].batch
             /\ polls'[c].at \in {"polling", "fetching"} => Behind(c, v)' /\ v \notin polls'[c].batch
  <2>1. /\ polls[c].at = "catching up" => Behind(c, v) \/ v \in polls[c].batch
        /\ polls[c].at \in {"polling", "fetching"} => Behind(c, v) /\ v \notin polls[c].batch
    BY <1>1, <1>4 DEF TurnsOf, TurnsOfMessages, ServesTheRest
  <2>2. v \in polls[c].batch => v = u \/ v \in polls[c].batch \ {u}
    OBVIOUS
  <2> QED
    BY <1>2, <2>1, <2>2
<1> QED
  BY <1>3, <1>4

\* An update is passed and nothing written of it.
LEMMA PassedTurns ==
    ASSUME TurnsInvariant, HandoverInvariant', NEW c \in Connections, NEW u \in Updates, NextUpdate(c, u),
           UNCHANGED <<log, lock, telegram, runtimes>>, OthersStay(c),
           \A t \in Tasks \ {"poll"} : writes'[c][t] = writes[c][t],
           writes'[c]["poll"] # <<>> => ~Leads(writes'[c]["poll"][1].rec),
           polls'[c].held \subseteq Albums,
           polls'[c].at = polls[c].at, polls'[c].offset = Passed(polls[c], u).offset,
           \/ polls'[c].batch = polls[c].batch \ {u}
           \/ polls[c].at = "polling" /\ polls'[c].batch = {},
           TurnsOfAlbums(c)'
    PROVE  TurnsInvariant'
<1>1. TypeOK /\ TurnsOf(c) /\ polls[c].at \in {"catching up", "polling"}
  BY DEF TurnsInvariant, HandoverInvariant, NextUpdate
<1>2. TelegramGoesOn
  BY <1>1, TelegramStays
<1>3. /\ \A v \in polls'[c].batch : v <= telegram'.sent
      /\ Serves(c) => \A v \in Messages : Served(c, v) =>
            /\ polls'[c].at = "catching up" => Behind(c, v)' \/ v \in polls'[c].batch
            /\ polls'[c].at \in {"polling", "fetching"} => Behind(c, v)' /\ v \notin polls'[c].batch
  BY PassedServes
<1>4. Serves(c)' => Serves(c)
  BY DEF Serves, Owner
<1>5. /\ polls'[c].at \notin {"catching up", "polling"} => writes'[c]["poll"] = <<>>
      /\ polls'[c].at \notin {"polling", "fetching", "ended"} => runtimes'[c].armed = NotArmed
  BY <1>1 DEF TurnsOf, TurnsOfMessages, ArmedWhenCaughtUp
<1> QED
  BY <1>2, <1>3, <1>4, <1>5, LoopStepTurns

LEMMA TakeNothingTurns ==
    ASSUME TurnsInvariant, HandoverInvariant', NEW c \in Connections, NEW u \in Updates,
           TakeCommand(c, u) \/ TakeNothing(c, u) \/ TakeAlbum(c, u) \/ TakeFails(c, u)
    PROVE  TurnsInvariant'
<1> DEFINE q == Passed(polls[c], u)
<1>1. TypeOK /\ TurnsOf(c)
  BY DEF TurnsInvariant, HandoverInvariant
<1>2. /\ q \in PollType /\ q.at = polls[c].at /\ q.held = polls[c].held
      /\ q.batch = polls[c].batch \ {u}
  <2>1. polls[c] \in PollType
    BY <1>1, PollIsTyped
  <2> QED
    BY <1>1, <2>1, PassedIsTyped DEF Passed, PollType
<1> HIDE DEF q
<1>3. PICK p :
        /\ NextUpdate(c, u) /\ polls' = [polls EXCEPT ![c] = p]
        /\ p.at = q.at /\ p.offset = q.offset
        /\ p.batch = q.batch \/ (polls[c].at = "polling" /\ p.batch = {})
        /\ p.held = q.held \/ (TakeAlbum(c, u) /\ p.held = q.held \cup {u})
        /\ writes' = writes \/ NoteError(c)
        /\ UNCHANGED <<log, lock, telegram, runtimes>>
  <2>1. CASE TakeCommand(c, u) \/ TakeNothing(c, u)
    BY <2>1 DEF TakeCommand, TakeNothing, q
  <2>2. CASE TakeAlbum(c, u)
    <3> DEFINE r == [q EXCEPT !.held = @ \cup {u}]
    <3>1. r.at = q.at /\ r.offset = q.offset /\ r.batch = q.batch /\ r.held = q.held \cup {u}
      BY <1>2 DEF PollType
    <3>2. /\ NextUpdate(c, u) /\ u \in Albums /\ polls' = [polls EXCEPT ![c] = r]
          /\ UNCHANGED <<log, lock, telegram, runtimes, writes>>
      BY <2>2 DEF TakeAlbum, IsHeld, q
    <3> HIDE DEF r
    <3> QED
      BY <2>2, <3>1, <3>2
  <2>3. CASE TakeFails(c, u)
    <3> DEFINE r == [q EXCEPT !.batch = {}]
    <3>1. r.at = q.at /\ r.offset = q.offset /\ r.batch = {} /\ r.held = q.held
      BY <1>2 DEF PollType
    <3>2. /\ NextUpdate(c, u) /\ polls[c].at = "polling" /\ polls' = [polls EXCEPT ![c] = r]
          /\ NoteError(c) /\ UNCHANGED <<log, lock, telegram, runtimes>>
      BY <2>3 DEF TakeFails, q
    <3> HIDE DEF r
    <3> QED
      BY <3>1, <3>2
  <2> QED
    BY <2>1, <2>2, <2>3
<1>4. writes[c]["poll"] = <<>>
  BY <1>3 DEF NextUpdate
<1>5. /\ \A d \in Connections \ {c} : writes'[d] = writes[d]
      /\ \A t \in Tasks \ {"poll"} : writes'[c][t] = writes[c][t]
      /\ writes'[c]["poll"] # <<>> => ~Leads(writes'[c]["poll"][1].rec)
  <2>1. CASE writes' = writes
    BY <1>4, <2>1
  <2>2. CASE NoteError(c)
    BY <1>1, <1>4, <2>2, NoteErrorWrites DEF Leads
  <2> QED
    BY <1>3, <2>1, <2>2
<1>6. polls'[c] = p /\ \A d \in Connections \ {c} : polls'[d] = polls[d]
  BY <1>1, <1>3 DEF TypeOK
<1>7. OthersStay(c)
  BY <1>5, <1>6 DEF OthersStay
<1>8. polls'[c].held \subseteq Albums
  BY <1>1, <1>2, <1>3, <1>6 DEF TurnsOf, TurnsOfMessages, OthersAreAlbums, TakeAlbum, IsHeld
<1>9. /\ polls'[c].at = polls[c].at /\ polls'[c].offset = Passed(polls[c], u).offset
      /\ polls'[c].batch = polls[c].batch \ {u} \/ (polls[c].at = "polling" /\ polls'[c].batch = {})
  BY <1>2, <1>3, <1>6 DEF q
<1>10. TelegramGoesOn
  BY <1>1, <1>3, TelegramStays
<1>11. Behind(c, u)' /\ \A v \in Albums : Behind(c, v) => Behind(c, v)'
  BY <1>1, <1>3, <1>9, PassedMovesOn, AlbumsAreNumbers
<1>12. Polls(c)' = Polls(c) /\ polls'[c].batch \subseteq polls[c].batch \ {u}
  BY <1>9 DEF Polls
<1>13. \A v \in Albums : Polls(c) /\ Placed(c, v) => Behind(c, v)' /\ v \notin polls'[c].batch
  BY <1>1, <1>11, <1>12 DEF TurnsOf, TurnsOfAlbums
<1>14. TurnsOfAlbums(c)'
  <2>1. CASE p.held = q.held
    BY <1>2, <1>3, <1>5, <1>6, <1>9, <1>10, <1>12, <1>13, <2>1, LoopAlbums
  <2>2. CASE TakeAlbum(c, u)
    <3>1. /\ u \in Albums /\ u \in polls[c].batch /\ polls[c].at = "polling" /\ writes' = writes
          /\ \A v \in polls'[c].held : v \in polls[c].held \/ v = u
      BY <1>2, <1>3, <1>6, <2>2 DEF TakeAlbum, NextUpdate, IsNext, IsHeld
    <3>2. \A v : (Flushing(c, v)' <=> Flushing(c, v)) /\ (AskedBy(c, v)' <=> AskedBy(c, v))
                 /\ (Handling(c, v)' <=> Handling(c, v))
      BY <1>3, <1>10, <3>1, LogStays DEF Flushing, Handling
    <3>3. ~Placed(c, u)
      BY <1>1, <3>1 DEF TurnsOf, TurnsOfAlbums, Polls
    <3>4. \A v : Placed(c, v)' => Placed(c, v) \/ v = u
      BY <3>1, <3>2 DEF Placed
    <3> QED
      BY <1>1, <1>9, <1>11, <1>12, <1>13, <3>1, <3>2, <3>3, <3>4 DEF TurnsOf, TurnsOfAlbums, Placed, Polls
  <2> QED
    BY <1>3, <2>1, <2>2
<1> QED
  BY <1>3, <1>5, <1>7, <1>8, <1>9, <1>14, PassedTurns

LEMMA TakeMessageTurns ==
    ASSUME TurnsInvariant, HandoverInvariant', NEW c \in Connections, NEW u \in Updates, TakeMessage(c, u)
    PROVE  TurnsInvariant'
<1> DEFINE q == Passed(polls[c], u)
           w == Writing(Record(c, runtimes[c], "inbound", u, 0))
<1>1. TypeOK /\ TurnsOf(c)
  BY DEF TurnsInvariant, HandoverInvariant
<1>2. /\ NextUpdate(c, u) /\ polls' = [polls EXCEPT ![c] = q] /\ writes' = [writes EXCEPT ![c]["poll"] = w]
      /\ UNCHANGED <<log, lock, telegram, runtimes>>
  BY DEF TakeMessage
<1>3. polls[c].at \in {"catching up", "polling"} /\ u \in polls[c].batch
  BY <1>2 DEF NextUpdate, IsNext
<1>4. q.at = polls[c].at /\ q.held = polls[c].held /\ q.batch = polls[c].batch \ {u}
  <2>1. polls[c] \in PollType
    BY <1>1, PollIsTyped
  <2> QED
    BY <1>1, <2>1, PassedIsTyped DEF Passed, PollType
<1>5. w \in Seq(WriteType) /\ w # <<>> /\ ~w[1].fenced /\ w[1].rec.kind = "inbound" /\ w[1].rec.update = u
  <2>1. w = Writing(Record(c, runtimes[c], "inbound", u, 0))
    OBVIOUS
  <2> HIDE DEF w
  <2> QED
    BY <1>1, <2>1, NewMessage
<1> HIDE DEF w
<1>6. /\ polls'[c] = q /\ \A d \in Connections \ {c} : polls'[d] = polls[d] /\ writes'[d] = writes[d]
      /\ \A t \in Tasks \ {"poll"} : writes'[c][t] = writes[c][t]
      /\ writes'[c]["poll"] = w
  BY <1>1, <1>2, <1>5, PollWrites DEF TypeOK
<1>7. TelegramGoesOn /\ OthersStay(c)
  BY <1>1, <1>2, <1>6, TelegramStays DEF OthersStay
<1>8. \A v : (Handling(c, v)' <=> v = u) /\ ~AskingFor(c, v)'
  BY <1>5, <1>6 DEF Handling, AskingFor, Leads
<1>9. \A v \in Messages : Served(c, v)' => Served(c, v)
  BY <1>2, <1>7, <1>8, OthersTurns
<1>10. polls'[c].at = polls[c].at /\ polls'[c].offset = Passed(polls[c], u).offset
       /\ polls'[c].batch = polls[c].batch \ {u}
  BY <1>4, <1>6
<1>11. Behind(c, u)' /\ \A v \in Albums : Behind(c, v) => Behind(c, v)'
  BY <1>1, <1>2, <1>10, PassedMovesOn, AlbumsAreNumbers
<1>12. /\ \A v \in polls'[c].batch : v <= telegram'.sent
       /\ Serves(c) => \A v \in Messages : Served(c, v) =>
             /\ polls'[c].at = "catching up" => Behind(c, v)' \/ v \in polls'[c].batch
             /\ polls'[c].at \in {"polling", "fetching"} => Behind(c, v)' /\ v \notin polls'[c].batch
  BY <1>2, <1>10, PassedServes
<1>13. ArmedWhenCaughtUp(c)'
  BY <1>1, <1>2, <1>3, <1>5, <1>6, <1>10 DEF TurnsOf, TurnsOfMessages, ArmedWhenCaughtUp
<1>14. OthersAreAlbums(c)'
  BY <1>1, <1>4, <1>6 DEF TurnsOf, TurnsOfMessages, OthersAreAlbums
<1>15. WereSent(c)'
  BY <1>1, <1>2, <1>3, <1>8, <1>12 DEF TurnsOf, TurnsOfMessages, WereSent
<1>16. HandledOnce(c)'
  BY <1>8, <1>10, <1>11 DEF HandledOnce
<1>17. ServesTheRest(c)'
  <2>1. Serves(c)' => Serves(c)
    BY <1>2, <1>10 DEF Serves, Owner
  <2>2. ASSUME Serves(c), runtimes[c].armed # NotArmed, u \in Messages, Served(c, u) PROVE FALSE
    <3>1. polls[c].at = "polling"
      BY <1>1, <1>3, <2>2 DEF TurnsOf, TurnsOfMessages, ArmedWhenCaughtUp
    <3> QED
      BY <1>1, <1>3, <2>2, <3>1 DEF TurnsOf, TurnsOfMessages, ServesTheRest
  <2> QED
    BY <1>2, <1>8, <1>9, <1>12, <2>1, <2>2 DEF ServesTheRest
<1>19. TurnsOfAlbums(c)'
  <2>1. u \in Albums => polls[c].at = "catching up"
    BY <1>3 DEF TakeMessage, IsHeld
  <2>2. "flush" \in Tasks \ {"poll"} /\ "turn" \in Tasks \ {"poll"}
    BY DEF Tasks
  <2>3. \A v : (Flushing(c, v)' => Flushing(c, v)) /\ (AskedBy(c, v)' => AskedBy(c, v))
    BY <1>2, <1>6, <1>7, <2>2, LogStays DEF Flushing
  <2>4. TurnsOfAlbums(c) /\ (writes'[c]["turn"] # <<>> => ~Leads(writes'[c]["turn"][1].rec))
    BY <1>1, <1>6, <2>2 DEF TurnsOf, TurnsOfAlbums
  <2>5. Polls(c)' = Polls(c) /\ polls'[c].held = polls[c].held
    BY <1>4, <1>6 DEF Polls
  <2>6. Polls(c) => \A v \in Albums : Placed(c, v) => Behind(c, v)' /\ v \notin polls'[c].batch
    BY <1>10, <1>11, <2>4 DEF TurnsOfAlbums
  <2> QED
    BY <1>8, <1>10, <2>1, <2>3, <2>4, <2>5, <2>6, AlbumsStay
<1>18. TurnsOf(c)'
  BY <1>13, <1>14, <1>15, <1>16, <1>17, <1>19 DEF TurnsOf, TurnsOfMessages
<1> QED
  BY <1>2, <1>7, <1>8, <1>18, ConnectionTurns

LEMMA FetchFailsTurns ==
    ASSUME TurnsInvariant, HandoverInvariant', NEW c \in Connections, FetchFails(c)
    PROVE  TurnsInvariant'
<1>1. /\ polls[c].at = "fetching" /\ polls' = [polls EXCEPT ![c].at = "polling"] /\ NoteError(c)
      /\ UNCHANGED <<log, lock, telegram, runtimes>>
  BY DEF FetchFails, Fetching
<1>2. TypeOK /\ TurnsOf(c)
  BY DEF TurnsInvariant, HandoverInvariant
<1>3. /\ polls'[c].at = "polling" /\ polls'[c].offset = polls[c].offset
      /\ polls'[c].batch = polls[c].batch /\ polls'[c].held = polls[c].held
      /\ \A d \in Connections \ {c} : polls'[d] = polls[d]
  BY <1>1, <1>2, AtIsTyped
<1>4. writes[c]["poll"] = <<>> /\ polls[c].held \subseteq Albums /\ \A u \in polls[c].batch : u <= telegram.sent
  BY <1>1, <1>2 DEF TurnsOf, TurnsOfMessages, ArmedWhenCaughtUp, OthersAreAlbums, WereSent
<1>5. /\ \A d \in Connections \ {c} : writes'[d] = writes[d]
      /\ \A t \in Tasks \ {"poll"} : writes'[c][t] = writes[c][t]
      /\ writes'[c]["poll"] # <<>> => ~Leads(writes'[c]["poll"][1].rec)
  BY <1>1, <1>2, <1>4, NoteErrorWrites DEF Leads
<1>6. TelegramGoesOn /\ OthersStay(c)
  BY <1>1, <1>2, <1>3, <1>5, TelegramStays DEF OthersStay
<1>7. ASSUME Serves(c)', NEW u \in Messages, Served(c, u) PROVE Behind(c, u)' /\ u \notin polls[c].batch
  <2>1. Serves(c)
    BY <1>1, <1>7 DEF Serves, Owner
  <2>2. Behind(c, u) /\ u \notin polls[c].batch
    BY <1>1, <1>2, <1>7, <2>1 DEF TurnsOf, TurnsOfMessages, ServesTheRest
  <2> QED
    BY <1>3, <1>6, <2>2, BehindStays, AlbumsAreNumbers
<1>8. TurnsOfAlbums(c)'
  <2>1. \A u \in Albums : Behind(c, u) => Behind(c, u)'
    BY <1>3, <1>6, BehindStays, AlbumsAreNumbers
  <2>2. \A u \in Albums : Placed(c, u) => Behind(c, u)' /\ u \notin polls'[c].batch
    BY <1>1, <1>2, <1>3, <2>1 DEF TurnsOf, TurnsOfAlbums, Polls
  <2> QED
    BY <1>1, <1>3, <1>4, <1>5, <1>6, <2>2, LoopAlbums DEF Polls
<1> QED
  BY <1>1, <1>3, <1>4, <1>5, <1>6, <1>7, <1>8, LoopStepTurns

-----------------------------------------------------------------------------
(* The turns and the writes.                                                 *)

\* What follows a write leads to a turn only if the write did, of the same update.
LEMMA WhatFollows ==
    ASSUME NEW c \in Connections, NEW k \in RuntimeType, NEW rec \in RecordType,
           NEW w, w = FollowUp(c, k, rec), w # <<>>
    PROVE  /\ ~w[1].fenced
           /\ Leads(w[1].rec) => Leads(rec) /\ w[1].rec.update = rec.update /\ rec.kind # "job_queued"
           /\ w[1].rec.kind = "job_queued" => k.armed # NotArmed
<1>1. rec.update \in Nat /\ rec.ref \in Int /\ rec.id \in Int
  BY DEF RecordType
<1>2. ASSUME NEW id \in Int, w = Trigger(c, k, rec.update, id)
      PROVE  ~w[1].fenced /\ w[1].rec.update = rec.update /\ k.armed # NotArmed
  <2> DEFINE new == Record(c, k, "job_queued", rec.update, id)
  <2>1. new \in RecordType /\ new.update = rec.update
    BY <1>1 DEF Record, RecordType, RuntimeType, Kinds
  <2>2. w = Writing(new) /\ k.armed # NotArmed
    BY <1>2 DEF Trigger, WantsTurn
  <2> HIDE DEF new
  <2>3. Writing(new)[1].rec = new /\ ~Writing(new)[1].fenced
    BY <2>1, WritingIsTyped
  <2> QED
    BY <2>1, <2>2, <2>3
<1>3. CASE rec.kind = "inbound" /\ k.cursor # rec.update
  <2> DEFINE new == Record(c, k, "checkpoint", rec.update, rec.id)
  <2>1. new \in RecordType /\ new.kind = "checkpoint" /\ new.update = rec.update
    BY <1>1 DEF Record, RecordType, RuntimeType, Kinds
  <2>2. w = Writing(new)
    BY <1>3 DEF FollowUp
  <2> HIDE DEF new
  <2>3. Writing(new)[1].rec = new /\ ~Writing(new)[1].fenced
    BY <2>1, WritingIsTyped
  <2> QED
    BY <1>3, <2>1, <2>2, <2>3 DEF Leads
<1>4. CASE rec.kind = "inbound" /\ k.cursor = rec.update
  <2>1. w = Trigger(c, k, rec.update, rec.id)
    BY <1>4 DEF FollowUp
  <2> QED
    BY <1>1, <1>2, <1>4, <2>1 DEF Leads
<1>5. CASE rec.kind = "checkpoint"
  <2>1. w = Trigger(c, k, rec.update, rec.ref)
    BY <1>5 DEF FollowUp
  <2> QED
    BY <1>1, <1>2, <1>5, <2>1 DEF Leads
<1>6. CASE rec.kind = "outbound"
  <2> DEFINE new == Record(c, k, "job_completed", 0, rec.ref)
  <2>1. new \in RecordType /\ new.kind = "job_completed"
    BY <1>1 DEF Record, RecordType, RuntimeType, Kinds
  <2>2. w = Writing(new)
    BY <1>6 DEF FollowUp
  <2> HIDE DEF new
  <2>3. Writing(new)[1].rec = new /\ ~Writing(new)[1].fenced
    BY <2>1, WritingIsTyped
  <2> QED
    BY <2>1, <2>2, <2>3 DEF Leads
<1>7. CASE rec.kind \notin {"inbound", "checkpoint", "outbound"}
  BY <1>7 DEF FollowUp
<1> QED
  BY <1>3, <1>4, <1>5, <1>6, <1>7

LEMMA PushedLeavesArmed ==
    ASSUME NEW k \in RuntimeType, NEW rec
    PROVE  Pushed(k, rec).armed = k.armed
BY DEF Pushed, RuntimeType

\* A step of connection c of a task that is not its poll loop: it asks for no
\* turn of a message.
LEMMA OtherTaskTurns ==
    ASSUME TurnsInvariant, HandoverInvariant', NEW c \in Connections, OthersStay(c),
           UNCHANGED <<lock, telegram>>, ArmedStays(runtimes'), OwnersStay(runtimes'),
           polls'[c].at = polls[c].at, polls'[c].offset = polls[c].offset,
           polls'[c].batch = polls[c].batch, polls'[c].held \subseteq polls[c].held,
           writes'[c]["poll"] = writes[c]["poll"],
           \A t \in Tasks \ {"poll"} :
              \/ writes'[c][t] = writes[c][t]
              \/ writes'[c][t] # <<>> /\ Leads(writes'[c][t][1].rec) => writes'[c][t][1].rec.update \in Albums,
           \A u \in Messages : TurnAsked(u)' => TurnAsked(u),
           \A d \in Connections \ {c} : \A u \in Albums : AskedBy(d, u)' => AskedBy(d, u),
           TurnsOfAlbums(c)', OneJobOfConnection'
    PROVE  TurnsInvariant'
<1>1. TypeOK
  BY DEF TurnsInvariant, HandoverInvariant
<1>2. TelegramGoesOn
  BY <1>1, TelegramStays
<1>3. AskedWereSent'
  BY DEF TurnsInvariant, AskedWereSent
<1>4. \A u \in Messages, d \in Connections : AskingFor(d, u)' => AskingFor(d, u)
  BY DEF OthersStay, AskingFor, Handling
<1>5. \A u \in Messages, d \in Connections : Served(d, u)' => Served(d, u)
  BY <1>4, ServedStays
<1>6. ASSUME NEW d \in Connections PROVE TurnsOf(d)'
  <2>1. /\ polls'[d].at = polls[d].at /\ polls'[d].offset = polls[d].offset
        /\ polls'[d].batch = polls[d].batch /\ polls'[d].held \subseteq polls[d].held
        /\ writes'[d]["poll"] = writes[d]["poll"]
        /\ \A t \in Tasks \ {"poll"} :
              \/ writes'[d][t] = writes[d][t]
              \/ writes'[d][t] # <<>> /\ Leads(writes'[d][t][1].rec) => writes'[d][t][1].rec.update \in Albums
    BY DEF OthersStay
  <2>2. Serves(d)' => Serves(d)
    BY <2>1 DEF Serves, Owner, OwnersStay
  <2>3. TurnsOf(d) /\ polls[d].batch \subseteq Nat /\ runtimes'[d].armed = runtimes[d].armed
    BY <1>1, PollIsTyped DEF TurnsInvariant, ArmedStays
  <2>4. \A u \in Messages : Served(d, u)' => Served(d, u)
    BY <1>5
  <2>5. TurnsOfAlbums(d)'
    <3>1. CASE d # c
      <4>1. \A t \in Tasks : writes'[d][t] = writes[d][t]
        BY <3>1 DEF OthersStay
      <4> QED
        BY <1>2, <2>1, <2>3, <3>1, <4>1, AlbumsBystander
    <3> QED
      BY <3>1
  <2> QED
    BY <1>2, <2>1, <2>2, <2>3, <2>4, <2>5, TurnsBystander
<1> QED
  BY <1>3, <1>6 DEF TurnsInvariant

LEMMA FlushAlbumTurns ==
    ASSUME TurnsInvariant, HandoverInvariant', NEW c \in Connections, NEW u \in Updates, FlushAlbum(c, u)
    PROVE  TurnsInvariant'
<1> DEFINE p == [polls[c] EXCEPT !.held = @ \ {u}]
           w == Writing(Record(c, runtimes[c], "inbound", u, 0))
<1>1. /\ u \in polls[c].held /\ polls' = [polls EXCEPT ![c] = p]
      /\ writes' = writes \/ writes' = [writes EXCEPT ![c]["flush"] = w]
      /\ UNCHANGED <<log, lock, telegram, runtimes>> /\ writes[c]["flush"] = <<>>
  BY DEF FlushAlbum
<1>2. TypeOK /\ TurnsOf(c)
  BY DEF TurnsInvariant, HandoverInvariant
<1>3. /\ p.at = polls[c].at /\ p.offset = polls[c].offset
      /\ p.batch = polls[c].batch /\ p.held = polls[c].held \ {u}
  <2>1. polls[c] \in PollType
    BY <1>2, PollIsTyped
  <2> QED
    BY <2>1 DEF PollType
<1>4. w # <<>> /\ w[1].rec.update = u
  <2>1. w = Writing(Record(c, runtimes[c], "inbound", u, 0))
    OBVIOUS
  <2> HIDE DEF w
  <2> QED
    BY <1>2, <2>1, NewMessage
<1> HIDE DEF p, w
<1>5. polls'[c] = p /\ \A d \in Connections \ {c} : polls'[d] = polls[d]
  BY <1>1, <1>2 DEF TypeOK
<1>6. /\ \A d \in Connections \ {c} : writes'[d] = writes[d]
      /\ writes'[c]["poll"] = writes[c]["poll"]
      /\ \A t \in Tasks \ {"poll"} : writes'[c][t] = writes[c][t] \/ writes'[c][t] = w
  BY <1>1, <1>2 DEF TypeOK, Tasks
<1>7. OthersStay(c) /\ ArmedStays(runtimes') /\ OwnersStay(runtimes')
  BY <1>1, <1>5, <1>6 DEF OthersStay, ArmedStays, OwnersStay
<1>8. u \in Albums
  BY <1>1, <1>2 DEF TurnsOf, TurnsOfMessages, OthersAreAlbums
<1>9. TelegramGoesOn
  BY <1>1, <1>2, TelegramStays
<1>10. OneJobOfConnection' /\ \A v : (TurnAsked(v)' => TurnAsked(v)) /\ \A d : AskedBy(d, v)' <=> AskedBy(d, v)
  BY <1>1, <1>9, LogStays
\* The album goes from where it was held into the timer's write.
<1>11. TurnsOfAlbums(c)'
  <2>1. polls'[c].at = polls[c].at /\ polls'[c].batch = polls[c].batch /\ polls'[c].held = polls[c].held \ {u}
    BY <1>3, <1>5
  <2>2. \A v : (Handling(c, v)' <=> Handling(c, v)) /\ (Behind(c, v)' <=> Behind(c, v))
    BY <1>1, <1>3, <1>5, <1>6 DEF Handling, Behind
  <2>3. \A v : ~Flushing(c, v) /\ (Flushing(c, v)' => v = u)
    BY <1>1, <1>2, <1>4 DEF Flushing, TypeOK, Tasks
  <2>4. writes'[c]["turn"] = writes[c]["turn"]
    BY <1>1, <1>2 DEF TypeOK, Tasks
  <2>5. Polls(c)' = Polls(c)
    BY <2>1 DEF Polls
  <2>6. \A v : Placed(c, v)' => Placed(c, v)
    BY <1>1, <1>10, <2>1, <2>3 DEF Placed
  <2>7. TurnsOfAlbums(c)
    BY <1>2 DEF TurnsOf
  <2> QED
    BY <1>1, <1>10, <2>1, <2>2, <2>3, <2>4, <2>5, <2>6, <2>7 DEF TurnsOfAlbums
<1> QED
  BY <1>1, <1>3, <1>4, <1>5, <1>6, <1>7, <1>8, <1>10, <1>11, OtherTaskTurns

\* The poll loop's write is over, dropped or in the log, and what follows it is begun.
LEMMA WrittenTurns ==
    ASSUME TurnsInvariant, HandoverInvariant', NEW c \in Connections, OthersStay(c),
           UNCHANGED <<lock, telegram, polls>>, ArmedStays(runtimes'), OwnersStay(runtimes'),
           \A t \in Tasks \ {"poll"} : writes'[c][t] = writes[c][t],
           writes[c]["poll"] # <<>>,
           writes'[c]["poll"] # <<>> /\ writes'[c]["poll"][1].rec.kind = "job_queued" => runtimes[c].armed # NotArmed,
           \A u : (Handling(c, u)' => Handling(c, u)) /\ ~AskingFor(c, u)',
           \A d \in Connections, u \in Albums : AskedBy(d, u)' => AskedBy(d, u),
           \A u \in Messages : TurnAsked(u)' => TurnAsked(u) \/ (AskingFor(c, u) /\ ~Handling(c, u)'),
           OneJobOfConnection'
    PROVE  TurnsInvariant'
<1>1. TypeOK /\ TurnsOf(c)
  BY DEF TurnsInvariant, HandoverInvariant
<1>2. TelegramGoesOn
  BY <1>1, TelegramStays
<1>3. AskedWereSent'
  BY <1>1 DEF TurnsInvariant, AskedWereSent, TurnsOf, TurnsOfMessages, WereSent, AskingFor
<1>4. \A u \in Messages, d \in Connections : AskingFor(d, u)' => AskingFor(d, u) /\ d # c
  BY DEF OthersStay, AskingFor, Handling
<1>5. ASSUME NEW d \in Connections, d # c PROVE TurnsOf(d)'
  <2>1. polls'[d] = polls[d] /\ writes'[d] = writes[d]
    BY <1>5 DEF OthersStay
  <2>2. \A u \in Messages : Served(d, u)' => Served(d, u)
    BY <1>4, <1>5 DEF Served
  <2>3. Serves(d)' => Serves(d)
    BY <2>1 DEF Serves, Owner, OwnersStay
  <2>4. TurnsOf(d) /\ polls[d].batch \subseteq Nat /\ runtimes'[d].armed = runtimes[d].armed
    BY <1>1, PollIsTyped DEF TurnsInvariant, ArmedStays
  <2>5. TurnsOfAlbums(d)'
    BY <1>2, <2>1, <2>4, AlbumsBystander
  <2> QED
    BY <1>2, <2>1, <2>2, <2>3, <2>4, <2>5, TurnsBystander
<1>6. \A u \in Messages : Served(c, u)' => Served(c, u) \/ (AskingFor(c, u) /\ ~Handling(c, u)')
  BY <1>4 DEF Served
<1>7. polls[c].at \in {"catching up", "polling"} /\ runtimes'[c].armed = runtimes[c].armed
  BY <1>1 DEF TurnsOf, TurnsOfMessages, ArmedWhenCaughtUp, ArmedStays
<1>8. ArmedWhenCaughtUp(c)'
  BY <1>1, <1>7 DEF TurnsOf, TurnsOfMessages, ArmedWhenCaughtUp
<1>9. OthersAreAlbums(c)' /\ WereSent(c)'
  BY <1>1 DEF TurnsOf, TurnsOfMessages, OthersAreAlbums, WereSent
<1>10. \A u : Behind(c, u)' <=> Behind(c, u)
  BY DEF Behind
<1>11. HandledOnce(c)'
  BY <1>1, <1>10 DEF TurnsOf, TurnsOfMessages, HandledOnce
<1>12. ASSUME NEW u \in Messages, AskingFor(c, u)
       PROVE  polls[c].at = "polling" /\ Behind(c, u) /\ u \notin polls[c].batch
  <2>1. polls[c].at = "polling"
    BY <1>1, <1>7, <1>12 DEF TurnsOf, TurnsOfMessages, ArmedWhenCaughtUp, AskingFor, Handling
  <2> QED
    BY <1>1, <1>12, <2>1 DEF TurnsOf, TurnsOfMessages, HandledOnce, AskingFor
<1>13. ServesTheRest(c)'
  <2>1. Serves(c)' => Serves(c)
    BY DEF Serves, Owner, OwnersStay
  <2> QED
    BY <1>1, <1>6, <1>7, <1>10, <1>12, <2>1 DEF TurnsOf, TurnsOfMessages, ServesTheRest
<1>15. TurnsOfAlbums(c)'
  <2>1. "flush" \in Tasks \ {"poll"} /\ "turn" \in Tasks \ {"poll"}
    BY DEF Tasks
  <2>2. TurnsOfAlbums(c) /\ \A u : Flushing(c, u)' => Flushing(c, u)
    BY <1>1, <2>1 DEF TurnsOf, Flushing
  <2>3. writes'[c]["turn"] # <<>> => ~Leads(writes'[c]["turn"][1].rec)
    BY <2>1, <2>2 DEF TurnsOfAlbums
  <2>4. Polls(c)' = Polls(c) /\ polls'[c] = polls[c]
    BY DEF Polls
  <2> QED
    BY <1>10, <2>2, <2>3, <2>4, AlbumsStay DEF TurnsOfAlbums
<1>14. TurnsOf(c)'
  BY <1>8, <1>9, <1>11, <1>13, <1>15 DEF TurnsOf, TurnsOfMessages
<1> QED
  BY <1>3, <1>5, <1>14 DEF TurnsInvariant

\* The fence lets a record of the poll loop pass: from here on it is asked for.
LEMMA PollFencedTurns ==
    ASSUME TurnsInvariant, HandoverInvariant', NEW c \in Connections, OthersStay(c), Owns(c), Owner(c) \in Sessions,
           UNCHANGED <<log, lock, telegram, polls>>, ArmedStays(runtimes'), OwnersStay(runtimes'),
           \A t \in Tasks \ {"poll"} : writes'[c][t] = writes[c][t],
           writes[c]["poll"] # <<>>, writes'[c]["poll"] # <<>>,
           writes'[c]["poll"][1].rec = writes[c]["poll"][1].rec
    PROVE  TurnsInvariant'
<1>1. TypeOK /\ TurnsOf(c) /\ \A d \in Connections : ConnectedIsLast(d)
  BY DEF TurnsInvariant, HandoverInvariant, InOrder
<1>2. TelegramGoesOn
  BY <1>1, TelegramStays
<1>3. /\ AskedWereSent' /\ OneJobOfConnection'
      /\ \A u : (TurnAsked(u)' <=> TurnAsked(u)) /\ \A d : AskedBy(d, u)' <=> AskedBy(d, u)
  BY <1>2, LogStays
<1>4. \A u : Handling(c, u)' <=> Handling(c, u)
  BY DEF Handling
<1>5. \A u : \A d \in Connections : d # c => (Handling(d, u)' <=> Handling(d, u)) /\ (AskingFor(d, u)' <=> AskingFor(d, u))
  BY DEF OthersStay, Handling, AskingFor
<1>6. \A u \in Messages : Served(c, u)' => Served(c, u)
  BY <1>3, <1>5 DEF Served
<1>7. polls[c].at \in {"catching up", "polling"}
  BY <1>1 DEF TurnsOf, TurnsOfMessages, ArmedWhenCaughtUp
<1>8. Serves(c)
  BY <1>7 DEF Serves, Owns
<1>9. ASSUME NEW u \in Messages, AskingFor(c, u)' PROVE ~Served(c, u)
  <2>1. Handling(c, u) /\ writes[c]["poll"][1].rec.kind = "job_queued"
    BY <1>4, <1>9 DEF AskingFor
  <2>2. runtimes[c].armed # NotArmed
    BY <1>1, <2>1 DEF TurnsOf, TurnsOfMessages, ArmedWhenCaughtUp
  <2> QED
    BY <1>1, <1>8, <2>1, <2>2 DEF TurnsOf, TurnsOfMessages, ServesTheRest
<1>10. \A u : \A d \in Connections : Behind(d, u)' <=> Behind(d, u)
  BY DEF Behind
<1>13. TurnsOfAlbums(c)'
  <2>1. "flush" \in Tasks \ {"poll"} /\ "turn" \in Tasks \ {"poll"}
    BY DEF Tasks
  <2>2. TurnsOfAlbums(c) /\ \A u : Flushing(c, u)' => Flushing(c, u)
    BY <1>1, <2>1 DEF TurnsOf, Flushing
  <2>3. writes'[c]["turn"] # <<>> => ~Leads(writes'[c]["turn"][1].rec)
    BY <2>1, <2>2 DEF TurnsOfAlbums
  <2>4. Polls(c)' = Polls(c) /\ polls'[c] = polls[c]
    BY DEF Polls
  <2> QED
    BY <1>3, <1>4, <1>10, <2>2, <2>3, <2>4, AlbumsStay DEF TurnsOfAlbums
<1>11. TurnsOf(c)'
  <2>1. runtimes'[c].armed = runtimes[c].armed
    BY DEF ArmedStays
  <2>2. ArmedWhenCaughtUp(c)' /\ OthersAreAlbums(c)'
    BY <1>1, <2>1 DEF TurnsOf, TurnsOfMessages, ArmedWhenCaughtUp, OthersAreAlbums
  <2>3. WereSent(c)'
    BY <1>1, <1>4 DEF TurnsOf, TurnsOfMessages, WereSent
  <2>4. HandledOnce(c)'
    BY <1>1, <1>4, <1>6, <1>9, <1>10 DEF TurnsOf, TurnsOfMessages, HandledOnce
  <2>5. ServesTheRest(c)'
    BY <1>1, <1>4, <1>6, <1>8, <1>10, <2>1 DEF TurnsOf, TurnsOfMessages, ServesTheRest
  <2> QED
    BY <1>13, <2>2, <2>3, <2>4, <2>5 DEF TurnsOf, TurnsOfMessages
\* No other connection was asking for it, and none of them serves.
<1>12. ASSUME NEW d \in Connections, d # c PROVE TurnsOf(d)'
  <2>1. TurnsOf(d) /\ polls'[d] = polls[d] /\ writes'[d] = writes[d] /\ runtimes'[d].armed = runtimes[d].armed
    BY <1>12 DEF OthersStay, TurnsInvariant, ArmedStays
  <2>2. ~Serves(d)'
    <3>1. Owner(d) = Owner(c) => polls[d].at \in {"off", "ended"}
      BY <1>1, <1>7, <1>12 DEF ConnectedIsLast
    <3> QED
      BY <2>1, <3>1 DEF Serves, Owner, Owns, OwnersStay
  <2>3. ASSUME NEW u \in Messages, AskingFor(d, u)' PROVE ~Served(d, u)'
    <3>1. AskingFor(d, u)
      BY <1>5, <1>12, <2>3
    <3>2. ~Served(d, u) /\ Served(c, u)
      BY <1>12, <2>1, <3>1 DEF TurnsOf, TurnsOfMessages, HandledOnce, Served
    <3>3. ~AskingFor(c, u)'
      BY <1>9, <3>2
    <3> QED
      BY <1>3, <1>5, <3>2, <3>3 DEF Served
  <2>4. ArmedWhenCaughtUp(d)' /\ OthersAreAlbums(d)'
    BY <2>1 DEF TurnsOf, TurnsOfMessages, ArmedWhenCaughtUp, OthersAreAlbums
  <2>5. WereSent(d)'
    BY <1>5, <1>12, <2>1 DEF TurnsOf, TurnsOfMessages, WereSent
  <2>6. HandledOnce(d)'
    BY <1>5, <1>10, <1>12, <2>1, <2>3 DEF TurnsOf, TurnsOfMessages, HandledOnce
  <2>7. ServesTheRest(d)'
    BY <2>2 DEF ServesTheRest
  <2>8. TurnsOfAlbums(d)'
    BY <1>2, <1>3, <2>1, AlbumsBystander
  <2> QED
    BY <2>4, <2>5, <2>6, <2>7, <2>8 DEF TurnsOf, TurnsOfMessages
<1> QED
  BY <1>3, <1>11, <1>12 DEF TurnsInvariant

LEMMA FencePassedTurns ==
    ASSUME TurnsInvariant, HandoverInvariant', NEW c \in Connections, NEW t \in Tasks, Fence(c, t), Owns(c)
    PROVE  TurnsInvariant'
<1> DEFINE x == writes[c][t]
           y == [x EXCEPT ![1].fenced = TRUE]
           rec == x[1].rec
           k == Pushed(runtimes[c], rec)
<1>1. /\ Alive(c) /\ x # <<>>
      /\ runtimes' = [runtimes EXCEPT ![c] = k] /\ writes' = [writes EXCEPT ![c][t] = y]
      /\ UNCHANGED <<log, lock, telegram, polls>>
  BY DEF Fence
<1>2. TypeOK /\ TurnsOf(c) /\ Owner(c) \in Sessions /\ x \in Seq(WriteType) /\ runtimes[c] \in RuntimeType
  BY <1>1, AliveIsOwned DEF TurnsInvariant, HandoverInvariant, TypeOK
<1>3. rec \in RecordType
  BY <1>1, <1>2, WriteIsTyped
<1>4. k.owner = runtimes[c].owner /\ k.lost = runtimes[c].lost /\ k.armed = runtimes[c].armed
  BY <1>2, <1>3, PushedIsTyped, PushedLeavesArmed
<1>5. y # <<>> /\ y[1].rec = rec
  <2> HIDE DEF x
  <2> QED
    BY <1>1, <1>2, FencedIsTyped
<1> HIDE DEF y, k
<1>6. /\ writes'[c][t] = y /\ \A r \in Tasks \ {t} : writes'[c][r] = writes[c][r]
      /\ \A d \in Connections \ {c} : writes'[d] = writes[d]
  BY <1>1, <1>2 DEF TypeOK
<1>7. ArmedStays(runtimes') /\ OwnersStay(runtimes') /\ OthersStay(c)
  BY <1>1, <1>2, <1>4, <1>6 DEF TypeOK, ArmedStays, OwnersStay, OthersStay
<1>8. CASE t = "poll"
  BY <1>1, <1>2, <1>5, <1>6, <1>7, <1>8, PollFencedTurns
<1>9. CASE t # "poll"
  <2>1. writes'[c]["poll"] = writes[c]["poll"]
    BY <1>6, <1>9 DEF Tasks
  <2>2. \A r \in Tasks \ {"poll"} :
           \/ writes'[c][r] = writes[c][r]
           \/ writes'[c][r] # <<>> /\ Leads(writes'[c][r][1].rec) => writes'[c][r][1].rec.update \in Albums
    BY <1>1, <1>2, <1>5, <1>6, <1>9 DEF TurnsOf, TurnsOfMessages, OthersAreAlbums
  <2>3. OneJobOfConnection' /\ \A u : (TurnAsked(u)' => TurnAsked(u)) /\ \A d : AskedBy(d, u)' <=> AskedBy(d, u)
    BY <1>1, <1>2, TelegramStays, LogStays
  <2>4. \A r \in Tasks : (writes'[c][r] # <<>> <=> writes[c][r] # <<>>) /\ writes'[c][r][1].rec = writes[c][r][1].rec
    BY <1>1, <1>5, <1>6
  <2>5. TurnsOfAlbums(c) /\ \A u : (Flushing(c, u)' <=> Flushing(c, u)) /\ (Handling(c, u)' <=> Handling(c, u))
    BY <1>2, <2>4 DEF TurnsOf, Flushing, Handling, Tasks
  <2>6. writes'[c]["turn"] # <<>> => ~Leads(writes'[c]["turn"][1].rec)
    BY <2>4, <2>5 DEF TurnsOfAlbums, Tasks
  <2>7. Polls(c)' = Polls(c) /\ polls'[c] = polls[c] /\ \A u : Behind(c, u)' <=> Behind(c, u)
    BY <1>1 DEF Polls, Behind
  <2>8. TurnsOfAlbums(c)'
    BY <2>3, <2>5, <2>6, <2>7, AlbumsStay DEF TurnsOfAlbums
  <2> QED
    BY <1>1, <1>7, <2>1, <2>2, <2>3, <2>8, OtherTaskTurns
<1> QED
  BY <1>8, <1>9

\* A write is over: how its task goes on.
LEMMA ContinueTurns ==
    ASSUME TurnsInvariant, HandoverInvariant', NEW c \in Connections, NEW t \in Tasks, Owner(c) \in Sessions,
           writes[c][t] # <<>>, NEW rec, rec = writes[c][t][1].rec,
           NEW rts \in [Connections -> RuntimeType], OwnersStay(rts), ArmedStays(rts),
           NEW v, StaysAs(Owner(c), v), Continue(c, t, rts, v, rec),
           UNCHANGED <<lock, telegram, polls>>,
           \A u \in Messages : TurnAsked(u)' =>
              TurnAsked(u) \/ (t = "poll" /\ rec.kind = "job_queued" /\ AskingFor(c, u)),
           \A d \in Connections, u \in Albums : AskedBy(d, u)' =>
              AskedBy(d, u) \/ (d = c /\ t = "flush" /\ rec.kind = "job_queued" /\ Flushing(c, u)),
           OneJobOfConnection'
    PROVE  TurnsInvariant'
<1> DEFINE w == FollowUp(c, rts[c], rec)
<1>1. TypeOK /\ CurrentIsConnected /\ TurnsOf(c) /\ rts[c] \in RuntimeType
  BY DEF TurnsInvariant, HandoverInvariant
<1>2. rec \in RecordType
  BY <1>1, WriteIsTyped
<1>3. OwnersStay(runtimes') /\ writes' = [writes EXCEPT ![c][t] = w]
  BY <1>1, <1>2, ContinueStays
<1>4. ArmedStays(runtimes')
  BY <1>2, ContinueLeavesArmed
<1>5. w # <<>> =>
        /\ ~w[1].fenced
        /\ Leads(w[1].rec) => Leads(rec) /\ w[1].rec.update = rec.update /\ rec.kind # "job_queued"
        /\ w[1].rec.kind = "job_queued" => runtimes[c].armed # NotArmed
  <2>1. w = FollowUp(c, rts[c], rec)
    OBVIOUS
  <2>2. rts[c].armed = runtimes[c].armed
    BY DEF ArmedStays
  <2> HIDE DEF w
  <2> QED
    BY <1>1, <1>2, <2>1, <2>2, WhatFollows
<1> HIDE DEF w
<1>6. /\ writes'[c][t] = w /\ \A r \in Tasks \ {t} : writes'[c][r] = writes[c][r]
      /\ \A d \in Connections \ {c} : writes'[d] = writes[d]
  BY <1>1, <1>3 DEF TypeOK
<1>7. OthersStay(c)
  BY <1>6 DEF OthersStay
<1>8. CASE t = "poll"
  <2>1. \A u : (Handling(c, u)' => Handling(c, u)) /\ ~AskingFor(c, u)'
    BY <1>5, <1>6, <1>8 DEF Handling, AskingFor
  <2>2. \A u \in Messages : rec.kind = "job_queued" => ~Handling(c, u)'
    BY <1>5, <1>6, <1>8 DEF Handling
  <2>3. \A r \in Tasks \ {"poll"} : writes'[c][r] = writes[c][r]
    BY <1>6, <1>8
  <2>4. writes'[c]["poll"] # <<>> /\ writes'[c]["poll"][1].rec.kind = "job_queued" => runtimes[c].armed # NotArmed
    BY <1>5, <1>6, <1>8
  <2>5. \A u \in Messages : TurnAsked(u)' => TurnAsked(u) \/ (AskingFor(c, u) /\ ~Handling(c, u)')
    BY <2>2
  <2>6. writes[c]["poll"] # <<>>
    BY <1>8
  <2>7. \A d \in Connections, u \in Albums : AskedBy(d, u)' => AskedBy(d, u)
    BY <1>8
  <2> QED
    BY <1>3, <1>4, <1>7, <2>1, <2>3, <2>4, <2>5, <2>6, <2>7, WrittenTurns
<1>9. CASE t # "poll"
  <2>1. writes'[c]["poll"] = writes[c]["poll"]
    BY <1>6, <1>9 DEF Tasks
  <2>2. \A r \in Tasks \ {"poll"} :
           \/ writes'[c][r] = writes[c][r]
           \/ writes'[c][r] # <<>> /\ Leads(writes'[c][r][1].rec) => writes'[c][r][1].rec.update \in Albums
    BY <1>1, <1>5, <1>6, <1>9 DEF TurnsOf, TurnsOfMessages, OthersAreAlbums
  <2>3. polls[c].held \subseteq polls[c].held
    OBVIOUS
  <2>4. \A u \in Messages : TurnAsked(u)' => TurnAsked(u)
    BY <1>9
  <2>5. /\ \A u : Handling(c, u)' <=> Handling(c, u)
        /\ \A u : Flushing(c, u)' => Flushing(c, u)
        /\ \A u : t = "flush" /\ rec.kind = "job_queued" => ~Flushing(c, u)'
    BY <1>5, <1>6, <2>1 DEF Handling, Flushing, Tasks
  <2>6. writes'[c]["turn"] # <<>> => ~Leads(writes'[c]["turn"][1].rec)
    BY <1>1, <1>5, <1>6 DEF TurnsOf, TurnsOfAlbums, Tasks
  <2>7. Polls(c)' = Polls(c) /\ polls'[c] = polls[c] /\ \A u : Behind(c, u)' <=> Behind(c, u)
    BY DEF Polls, Behind
  <2>8. \A u \in Albums : Placed(c, u)' => Placed(c, u)
    BY <2>5, <2>7 DEF Placed
  <2>9. TurnsOfAlbums(c)'
    BY <1>1, <2>5, <2>6, <2>7, <2>8 DEF TurnsOf, TurnsOfAlbums
  <2>10. \A d \in Connections \ {c} : \A u \in Albums : AskedBy(d, u)' => AskedBy(d, u)
    OBVIOUS
  <2> QED
    BY <1>3, <1>4, <1>7, <2>1, <2>2, <2>3, <2>4, <2>9, <2>10, OtherTaskTurns
<1> QED
  BY <1>8, <1>9

LEMMA FenceDroppedTurns ==
    ASSUME TurnsInvariant, HandoverInvariant', NEW c \in Connections, NEW t \in Tasks, Fence(c, t), ~Owns(c)
    PROVE  TurnsInvariant'
<1>0. PICK rec : rec = writes[c][t][1].rec
  OBVIOUS
<1> DEFINE k == [runtimes[c] EXCEPT !.lost = TRUE]
           rts == [runtimes EXCEPT ![c].lost = TRUE]
           s == Owner(c)
           v == IF runtimes[c].lost THEN sessions[s] ELSE Noticed(sessions[s])
<1>1. /\ Alive(c) /\ writes[c][t] # <<>> /\ Continue(c, t, rts, v, rec)
      /\ UNCHANGED <<log, lock, telegram, polls>>
  BY <1>0 DEF Fence
<1>2. TypeOK /\ s \in Sessions
  BY <1>1, AliveIsOwned DEF TurnsInvariant, HandoverInvariant
<1>3. rts \in [Connections -> RuntimeType] /\ OwnersStay(rts) /\ ArmedStays(rts)
  <2>1. k \in RuntimeType /\ k.owner = runtimes[c].owner /\ k.lost /\ k.armed = runtimes[c].armed
    BY <1>2 DEF TypeOK, RuntimeType
  <2>2. rts = [runtimes EXCEPT ![c] = k]
    OBVIOUS
  <2> HIDE DEF k, rts
  <2> QED
    BY <1>2, <2>1, <2>2 DEF TypeOK, OwnersStay, ArmedStays
<1>4. StaysAs(s, v)
  BY <1>2, NoticedStays
<1>5. OneJobOfConnection' /\ \A u : (TurnAsked(u)' => TurnAsked(u)) /\ \A d : AskedBy(d, u)' => AskedBy(d, u)
  BY <1>1, <1>2, TelegramStays, LogStays
<1> HIDE DEF rts, v
<1> QED
  BY <1>0, <1>1, <1>2, <1>3, <1>4, <1>5, ContinueTurns

\* Only a timer asks for the turn of an album.
LEMMA AlbumsAskFromTimers ==
    ASSUME NEW c \in Connections, TurnsOf(c), NEW t \in Tasks, writes[c][t] # <<>>,
           writes[c][t][1].rec.kind = "job_queued", writes[c][t][1].rec.update \in Albums
    PROVE  t = "flush"
<1>1. t # "turn"
  BY DEF TurnsOf, TurnsOfAlbums, Leads
<1>2. t # "poll"
  <2> SUFFICES ASSUME t = "poll" PROVE FALSE
    OBVIOUS
  <2>1. Handling(c, writes[c][t][1].rec.update) /\ runtimes[c].armed # NotArmed
    BY DEF Handling, Leads, TurnsOf, TurnsOfMessages, ArmedWhenCaughtUp
  <2>2. polls[c].at = "catching up"
    BY <2>1 DEF TurnsOf, TurnsOfAlbums
  <2> QED
    BY <2>1, <2>2 DEF TurnsOf, TurnsOfMessages, ArmedWhenCaughtUp
<1> QED
  BY <1>1, <1>2 DEF Tasks

LEMMA AppendTurns ==
    ASSUME TurnsInvariant, HandoverInvariant', NEW c \in Connections, NEW t \in Tasks, AppendRecord(c, t)
    PROVE  TurnsInvariant'
<1>0. PICK rec : rec = writes[c][t][1].rec
  OBVIOUS
<1> DEFINE s == Owner(c)
<1>a. PICK stray, claim, e :
        /\ log' = Append(log, e)
        /\ e = [kind |-> rec.kind, id |-> rec.id, update |-> rec.update, ref |-> rec.ref,
                by |-> c, task |-> t, stray |-> stray, claim |-> claim]
  BY <1>0 DEF AppendRecord
<1>1. /\ Alive(c) /\ writes[c][t] # <<>> /\ writes[c][t][1].fenced
      /\ Continue(c, t, runtimes, sessions[s], rec)
      /\ UNCHANGED <<lock, telegram, polls>>
  BY <1>0 DEF AppendRecord
<1>2. TypeOK /\ TurnsOf(c) /\ s \in Sessions /\ OneJobOfConnection /\ log \in Seq(LogRecordType)
  BY <1>1, AliveIsOwned DEF TurnsInvariant, HandoverInvariant, TypeOK
<1>3. /\ runtimes \in [Connections -> RuntimeType] /\ OwnersStay(runtimes) /\ ArmedStays(runtimes)
      /\ StaysAs(s, sessions[s])
  BY <1>2, NoticedStays DEF TypeOK, OwnersStay, ArmedStays
<1>4. rec \in RecordType
  BY <1>0, <1>1, <1>2, WriteIsTyped
<1>5. e.kind = rec.kind /\ e.update = rec.update /\ e.by = c /\ rec.update \in Nat
  BY <1>4, <1>a DEF RecordType
<1>6. \A i \in DOMAIN log' : (i \in DOMAIN log /\ log'[i] = log[i]) \/ (i = Len(log) + 1 /\ log'[i] = e)
  BY <1>2, <1>a
\* Only a timer asks for the turn of an album, and its connection had asked for none.
<1>10. ASSUME e.kind = "job_queued", e.update \in Albums
       PROVE  t = "flush" /\ Flushing(c, e.update) /\ ~AskedBy(c, e.update)
  <2>1. t = "flush"
    BY <1>0, <1>1, <1>2, <1>5, <1>10, AlbumsAskFromTimers
  <2>2. Flushing(c, e.update)
    BY <1>0, <1>1, <1>5, <1>10, <2>1 DEF Flushing, Leads
  <2> QED
    BY <1>2, <1>10, <2>1, <2>2 DEF TurnsOf, TurnsOfAlbums
\* Only a poll loop asks for the turn of a message, and it had asked for none.
<1>7. ASSUME e.kind = "job_queued", e.update \notin Albums
      PROVE  t = "poll" /\ AskingFor(c, e.update) /\ ~TurnAsked(e.update)
  <2>1. t = "poll"
    BY <1>0, <1>1, <1>2, <1>5, <1>7 DEF TurnsOf, TurnsOfMessages, OthersAreAlbums, Leads
  <2>2. AskingFor(c, e.update)
    BY <1>0, <1>1, <1>5, <1>7, <2>1 DEF AskingFor, Handling, Leads
  <2> QED
    BY <1>2, <1>5, <1>7, <2>1, <2>2 DEF TurnsOf, TurnsOfMessages, HandledOnce, Served, Messages
<1>8. ASSUME NEW u \in Messages, TurnAsked(u)'
      PROVE  TurnAsked(u) \/ (t = "poll" /\ rec.kind = "job_queued" /\ AskingFor(c, u))
  <2>1. PICK i \in DOMAIN log' : log'[i].kind = "job_queued" /\ log'[i].update = u
    BY <1>8 DEF TurnAsked
  <2> QED
    BY <1>5, <1>6, <1>7, <2>1 DEF TurnAsked, Messages
<1>11. ASSUME NEW d \in Connections, NEW u \in Albums, AskedBy(d, u)'
       PROVE  AskedBy(d, u) \/ (d = c /\ t = "flush" /\ rec.kind = "job_queued" /\ Flushing(c, u))
  <2>1. PICK i \in DOMAIN log' : log'[i].kind = "job_queued" /\ log'[i].update = u /\ log'[i].by = d
    BY <1>11 DEF AskedBy
  <2> QED
    BY <1>5, <1>6, <1>10, <2>1 DEF AskedBy
<1>12. ASSUME NEW i \in DOMAIN log, log[i].kind = "job_queued", e.kind = "job_queued", log[i].update = e.update
       PROVE  e.update \in Albums /\ log[i].by # c
  <2>1. TurnAsked(e.update) /\ (log[i].by = c => AskedBy(c, e.update))
    BY <1>12 DEF TurnAsked, AskedBy
  <2> QED
    BY <1>7, <1>10, <1>12, <2>1
<1>9. OneJobOfConnection'
  <2> SUFFICES ASSUME NEW i \in DOMAIN log', NEW j \in DOMAIN log',
                      log'[i].kind = "job_queued", log'[j].kind = "job_queued",
                      log'[i].update = log'[j].update
               PROVE  i = j \/ (log'[i].update \in Albums /\ log'[i].by # log'[j].by)
    BY DEF OneJobOfConnection
  <2>1. CASE i \in DOMAIN log /\ log'[i] = log[i] /\ j \in DOMAIN log /\ log'[j] = log[j]
    BY <1>2, <2>1 DEF OneJobOfConnection
  <2>2. CASE i \in DOMAIN log /\ log'[i] = log[i] /\ log'[j] = e
    BY <1>5, <1>12, <2>2
  <2>3. CASE j \in DOMAIN log /\ log'[j] = log[j] /\ log'[i] = e
    BY <1>5, <1>12, <2>3
  <2>4. CASE i = Len(log) + 1 /\ j = Len(log) + 1
    BY <2>4
  <2> QED
    BY <1>6, <2>1, <2>2, <2>3, <2>4
<1> QED
  BY <1>0, <1>1, <1>2, <1>3, <1>8, <1>9, <1>11, ContinueTurns

LEMMA InitTurns == Init => TurnsInvariant
<1> SUFFICES ASSUME Init PROVE TurnsInvariant
  OBVIOUS
<1>1. HandoverInvariant
  BY InitInvariant
<1>2. log = <<>> /\ DOMAIN log = {}
  BY DEF Init
<1>3. AskedWereSent /\ OneJobOfConnection
  BY <1>2 DEF AskedWereSent, TurnAsked, OneJobOfConnection
<1>4. ASSUME NEW c \in Connections PROVE TurnsOf(c)
  <2>1. /\ \A t \in Tasks : writes[c][t] = <<>>
        /\ polls[c] = NewPoll /\ runtimes[c] = NewRuntime(NoOwner)
    BY DEF Init
  <2>2. polls[c].at = "off" /\ polls[c].batch = {} /\ polls[c].held = {} /\ runtimes[c].armed = NotArmed
    BY <2>1 DEF NewPoll, NewRuntime
  <2>3. ArmedWhenCaughtUp(c) /\ OthersAreAlbums(c)
    BY <2>1, <2>2 DEF ArmedWhenCaughtUp, OthersAreAlbums, Tasks
  <2>4. WereSent(c) /\ HandledOnce(c) /\ ServesTheRest(c)
    BY <2>1, <2>2 DEF WereSent, HandledOnce, ServesTheRest, Serves, AskingFor, Handling, Tasks
  <2>5. TurnsOfAlbums(c)
    BY <1>2, <2>1, <2>2 DEF TurnsOfAlbums, Placed, Polls, Handling, Flushing, AskedBy, Tasks
  <2> QED
    BY <2>3, <2>4, <2>5 DEF TurnsOf, TurnsOfMessages
<1> QED
  BY <1>1, <1>3, <1>4 DEF TurnsInvariant

LEMMA TurnsNext == TurnsInvariant /\ [Next]_vars => TurnsInvariant'
<1> SUFFICES ASSUME TurnsInvariant, [Next]_vars PROVE TurnsInvariant'
  OBVIOUS
<1>0. HandoverInvariant'
  BY NextInvariant DEF TurnsInvariant
<1>1. CASE Send
  BY <1>0, <1>1, SendTurns
<1>2. CASE UNCHANGED vars
  BY <1>0, <1>2, IdleTurns
<1>3. ASSUME NEW s \in Sessions, SessionStep(s) \/ TurnStep(s) \/ Disconnect(s)
      PROVE  TurnsInvariant'
  <2>1. SideStep(s)
    BY <1>3 DEF SessionStep, TurnStep, SideStep, SessionOnly
  <2> QED
    BY <1>0, <2>1, SideStepTurns
<1>4. ASSUME NEW s \in Sessions, Crash(s) PROVE TurnsInvariant'
  BY <1>0, <1>4, CrashTurns
<1>5. ASSUME NEW s \in Sessions, NEW c \in Connections, Connect(s, c) \/ Restore(s, c)
      PROVE  TurnsInvariant'
  BY <1>0, <1>5, ConnectTurns DEF Connect, Restore
<1>6. ASSUME NEW c \in Connections, NEW u \in Updates,
             \/ TakeMessage(c, u) \/ TakeCommand(c, u) \/ TakeNothing(c, u)
             \/ TakeAlbum(c, u) \/ FlushAlbum(c, u) \/ TakeFails(c, u)
      PROVE  TurnsInvariant'
  BY <1>0, <1>6, TakeMessageTurns, TakeNothingTurns, FlushAlbumTurns
<1>7. ASSUME NEW c \in Connections, NEW t \in Tasks, Fence(c, t) \/ AppendRecord(c, t)
      PROVE  TurnsInvariant'
  BY <1>0, <1>7, FencePassedTurns, FenceDroppedTurns, AppendTurns
<1>8. ASSUME NEW c \in Connections, ChannelStep(c) \/ ConnectFails(c) \/ FetchFails(c)
      PROVE  TurnsInvariant'
  <2>1. CASE Claim(c) \/ Load(c)
    BY <1>0, <2>1, ClaimTurns, LoadTurns
  <2>2. CASE FetchInitial(c) \/ Fetch(c)
    BY <1>0, <2>2, FetchTurns
  <2>3. CASE CaughtUp(c) \/ CheckPasses(c) \/ FetchFails(c)
    BY <1>0, <2>3, CaughtUpTurns, CheckPassesTurns, FetchFailsTurns
  <2>4. CASE CheckFails(c) \/ FetchConflict(c) \/ LoopEnds(c) \/ ConnectFails(c)
    BY <1>0, <2>4, EndedTurns
  <2> QED
    BY <1>6, <1>7, <1>8, <2>1, <2>2, <2>3, <2>4 DEF ChannelStep
<1> QED
  BY <1>1, <1>2, <1>3, <1>4, <1>5, <1>6, <1>8 DEF Next

-----------------------------------------------------------------------------
(* One turn for an album of a session.                                       *)

\* The poll loop of c has the album behind it, or gets it while it catches up.
SeenBy(c, u) ==
    /\ polls[c].at = "catching up" => Behind(c, u) \/ u \in polls[c].batch
    /\ Polls(c) => Behind(c, u) /\ u \notin polls[c].batch

\* An album in a place of one connection is in none of another of its session.
AlbumsOfSessions ==
    \A d \in Connections : \A u \in Albums : Placed(d, u) =>
        /\ u <= telegram.sent /\ Owner(d) \in Sessions
        /\ \A c \in Connections \ {d} : Owner(c) = Owner(d) => SeenBy(c, u) /\ ~Placed(c, u)

\* What each step does of a connection: it places an album its poll loop got
\* just now, it sees what it saw, and it is made with nothing placed.
Places(c) == \A u \in Albums : Placed(c, u)' => Placed(c, u) \/ (Polls(c) /\ u \in polls[c].batch)
StillSees(c) == \A u \in Albums : u <= telegram.sent /\ SeenBy(c, u) => SeenBy(c, u)'
IsOwned(c) ==
    \/ Owner(c)' = Owner(c)
    \/ polls'[c].at \in {"reading", "claiming"} /\ \A u \in Albums : ~Placed(c, u)'
Remembers(c) == Places(c) /\ StillSees(c) /\ IsOwned(c)

LEMMA SentStays ==
    ASSUME TelegramGoesOn
    PROVE  \A u \in Nat : u <= telegram.sent => u <= telegram'.sent
<1> PICK n, m : n = telegram.sent /\ m = telegram'.sent
  OBVIOUS
<1>1. n \in Nat /\ m \in Nat /\ n <= m
  BY DEF TelegramGoesOn
<1>2. \A u \in Nat : u <= n => u <= m
  BY <1>1
<1> QED
  BY <1>2

LEMMA AlbumsOfSessionsStay ==
    ASSUME TurnsInvariant, AlbumsOfSessions, TelegramGoesOn, \A c \in Connections : Remembers(c)
    PROVE  AlbumsOfSessions'
<1>1. \A c \in Connections : ConnectedIsLast(c) /\ TurnsOf(c)
  BY DEF TurnsInvariant, HandoverInvariant, InOrder
<1>2. ASSUME NEW d \in Connections, NEW u \in Albums, Polls(d), u \in polls[d].batch
      PROVE  /\ u <= telegram.sent /\ Owner(d) \in Sessions
             /\ \A c \in Connections \ {d} : Owner(c) = Owner(d) => SeenBy(c, u) /\ ~Polls(c) /\ ~Placed(c, u)
  <2>1. u <= telegram.sent
    BY <1>1, <1>2 DEF TurnsOf, TurnsOfMessages, WereSent
  <2>2. Owner(d) \in Sessions /\ sessions[Owner(d)].connection = d
    BY <1>1, <1>2 DEF ConnectedIsLast, Polls
  <2>3. ASSUME NEW c \in Connections \ {d}, Owner(c) = Owner(d)
        PROVE  SeenBy(c, u) /\ ~Polls(c) /\ ~Placed(c, u)
    <3>1. polls[c].at \in {"off", "ended"}
      BY <1>1, <2>2, <2>3 DEF ConnectedIsLast
    <3>2. Placed(c, u) => SeenBy(d, u)
      BY <2>3 DEF AlbumsOfSessions
    <3> QED
      BY <1>2, <3>1, <3>2 DEF SeenBy, Polls
  <2> QED
    BY <2>1, <2>2, <2>3
<1>3. ASSUME NEW d \in Connections, NEW u \in Albums, Placed(d, u)'
      PROVE  /\ Owner(d)' = Owner(d) /\ (Placed(d, u) \/ (Polls(d) /\ u \in polls[d].batch))
             /\ u <= telegram.sent /\ Owner(d) \in Sessions
             /\ \A c \in Connections \ {d} : Owner(c) = Owner(d) => SeenBy(c, u)
  <2>1. Owner(d)' = Owner(d) /\ (Placed(d, u) \/ (Polls(d) /\ u \in polls[d].batch))
    BY <1>3 DEF Remembers, Places, IsOwned
  <2> QED
    BY <1>2, <2>1 DEF AlbumsOfSessions
<1>4. \A u \in Albums : u <= telegram.sent => u <= telegram'.sent
  BY SentStays, AlbumsAreNumbers
<1>5. ASSUME NEW d \in Connections, NEW u \in Albums, Placed(d, u)',
             NEW c \in Connections \ {d}, Owner(c)' = Owner(d)'
      PROVE  SeenBy(c, u)' /\ ~Placed(c, u)'
  <2>1. CASE Owner(c)' = Owner(c)
    <3>1. Owner(c) = Owner(d) /\ u <= telegram.sent /\ SeenBy(c, u)
      BY <1>3, <1>5, <2>1
    <3>2. SeenBy(c, u)'
      BY <3>1 DEF Remembers, StillSees
    <3>3. SUFFICES ASSUME Placed(c, u)' PROVE FALSE
      BY <3>2
    <3>4. /\ Placed(c, u) \/ (Polls(c) /\ u \in polls[c].batch)
          /\ Placed(d, u) \/ (Polls(d) /\ u \in polls[d].batch)
      BY <1>3, <1>5, <3>3
    <3>5. Placed(d, u) => ~Placed(c, u)
      BY <3>1 DEF AlbumsOfSessions
    <3>6. Polls(d) /\ u \in polls[d].batch => ~Polls(c) /\ ~Placed(c, u)
      BY <1>2, <3>1
    <3>7. Polls(c) /\ u \in polls[c].batch => ~Polls(d) /\ ~Placed(d, u)
      BY <1>2, <3>1
    <3> QED
      BY <3>4, <3>5, <3>6, <3>7
  <2>2. CASE Owner(c)' # Owner(c)
    <3>1. polls'[c].at \in {"reading", "claiming"} /\ ~Placed(c, u)'
      BY <2>2 DEF Remembers, IsOwned
    <3> QED
      BY <3>1 DEF SeenBy, Polls
  <2> QED
    BY <2>1, <2>2
<1>6. ASSUME NEW d \in Connections, NEW u \in Albums, Placed(d, u)'
      PROVE  u <= telegram'.sent /\ Owner(d)' \in Sessions
  BY <1>3, <1>4, <1>6
<1> QED
  BY <1>5, <1>6 DEF AlbumsOfSessions

\* A connection whose poll loop does not move, and whose timer takes up no album.
LEMMA BystanderRemembers ==
    ASSUME TelegramGoesOn, log' = log, NEW d \in Connections, runtimes'[d].owner = runtimes[d].owner,
           polls'[d].at = polls[d].at, polls'[d].offset = polls[d].offset,
           polls'[d].batch = polls[d].batch, polls'[d].held \subseteq polls[d].held,
           \/ writes'[d]["flush"] = writes[d]["flush"]
           \/ writes'[d]["flush"] # <<>> => ~Leads(writes'[d]["flush"][1].rec)
    PROVE  Remembers(d)
<1>1. Places(d)
  BY DEF Places, Placed, Flushing, AskedBy
<1>2. StillSees(d)
  <2>1. \A u \in Albums : Behind(d, u) => Behind(d, u)'
    BY BehindStays, AlbumsAreNumbers
  <2> QED
    BY <2>1 DEF StillSees, SeenBy, Polls
<1> QED
  BY <1>1, <1>2 DEF Remembers, IsOwned, Owner

\* A step of the poll loop of one connection.
LEMMA LoopStepRemembers ==
    ASSUME TurnsInvariant, AlbumsOfSessions, TelegramGoesOn, log' = log, NEW c \in Connections, OthersStay(c),
           \A d \in Connections \ {c} : runtimes'[d].owner = runtimes[d].owner,
           IsOwned(c), StillSees(c), writes'[c]["flush"] = writes[c]["flush"],
           polls'[c].held \subseteq polls[c].held
    PROVE  AlbumsOfSessions'
<1>1. Places(c)
  BY DEF Places, Placed, Flushing, AskedBy
<1>2. ASSUME NEW d \in Connections \ {c} PROVE Remembers(d)
  BY BystanderRemembers DEF OthersStay
<1>3. \A d \in Connections : Remembers(d)
  BY <1>1, <1>2 DEF Remembers
<1> QED
  BY <1>3, AlbumsOfSessionsStay

\* A step that leaves every poll loop where it is.
LEMMA QuietAlbums ==
    ASSUME TurnsInvariant, AlbumsOfSessions, TelegramGoesOn, log' = log, OwnersStay(runtimes'), PollsLetGo,
           \A d \in Connections :
              \/ writes'[d]["flush"] = writes[d]["flush"]
              \/ writes'[d]["flush"] # <<>> => ~Leads(writes'[d]["flush"][1].rec)
    PROVE  AlbumsOfSessions'
<1>1. ASSUME NEW d \in Connections PROVE Remembers(d)
  BY BystanderRemembers DEF OwnersStay, PollsLetGo
<1> QED
  BY <1>1, AlbumsOfSessionsStay

LEMMA SideStepAlbums ==
    ASSUME TurnsInvariant, AlbumsOfSessions, NEW s \in Sessions, SideStep(s)
    PROVE  AlbumsOfSessions'
<1>1. TypeOK /\ CurrentIsConnected /\ RuntimesAreOwned /\ "flush" \in Tasks
  BY DEF TurnsInvariant, HandoverInvariant, Tasks
<1>2. OwnersStay(runtimes') /\ PollsLetGo /\ UNCHANGED <<log, telegram>>
  BY <1>1, SideStepStays
<1>3. \A d \in Connections :
         \/ writes'[d]["flush"] = writes[d]["flush"]
         \/ writes'[d]["flush"] # <<>> => ~Leads(writes'[d]["flush"][1].rec)
  BY <1>1, SideStepLeads
<1> QED
  BY <1>1, <1>2, <1>3, TelegramStays, QuietAlbums

LEMMA SendAlbums ==
    ASSUME TurnsInvariant, AlbumsOfSessions, Send \/ UNCHANGED vars
    PROVE  AlbumsOfSessions'
<1>1. TypeOK
  BY DEF TurnsInvariant, HandoverInvariant
<1>2. UNCHANGED <<log, runtimes, polls, writes>>
  BY DEF Send, vars
<1>3. TelegramGoesOn
  <2>1. CASE Send
    <3> PICK n, m : n = telegram.sent /\ m = telegram.confirmed
      OBVIOUS
    <3>1. n \in Nat /\ m \in Nat /\ telegram'.sent = n + 1 /\ telegram'.confirmed = m
      BY <1>1, <2>1 DEF Send, TypeOK
    <3>2. n + 1 \in Nat /\ n <= n + 1 /\ m <= m
      BY <3>1
    <3> QED
      BY <3>1, <3>2 DEF TelegramGoesOn
  <2>2. CASE UNCHANGED vars
    BY <1>1, <2>2, TelegramStays DEF vars
  <2> QED
    BY <2>1, <2>2
<1>4. OwnersStay(runtimes') /\ PollsLetGo
  BY <1>2 DEF OwnersStay, PollsLetGo
<1> QED
  BY <1>2, <1>3, <1>4, QuietAlbums

LEMMA CrashAlbums ==
    ASSUME TurnsInvariant, AlbumsOfSessions, NEW s \in Sessions, Crash(s)
    PROVE  AlbumsOfSessions'
<1>1. UNCHANGED <<log, lock, telegram, runtimes>> /\ TypeOK
  BY DEF Crash, TurnsInvariant, HandoverInvariant
<1>2. \A d \in Connections :
         IF Owner(d) = s
         THEN /\ polls'[d].at = "ended" /\ polls'[d].batch = {}
              /\ polls'[d].held = {} /\ \A t \in Tasks : writes'[d][t] = <<>>
         ELSE polls'[d] = polls[d] /\ writes'[d] = writes[d]
  BY <1>1, CrashTypes
<1>3. TelegramGoesOn
  BY <1>1, TelegramStays
<1>4. ASSUME NEW d \in Connections PROVE Remembers(d)
  <2>1. CASE Owner(d) = s
    <3>1. polls'[d].at = "ended" /\ polls'[d].held = {} /\ writes'[d]["flush"] = <<>>
      BY <1>2, <2>1 DEF Tasks
    <3>2. Places(d)
      BY <1>1, <3>1 DEF Places, Placed, Flushing, AskedBy
    <3> QED
      BY <1>1, <3>1, <3>2 DEF Remembers, StillSees, SeenBy, Polls, IsOwned, Owner
  <2>2. CASE Owner(d) # s
    BY <1>1, <1>2, <1>3, <2>2, BystanderRemembers
  <2> QED
    BY <2>1, <2>2
<1> QED
  BY <1>3, <1>4, AlbumsOfSessionsStay

\* A connection that has not asked for updates yet, or never will again.
LEMMA UnaskedAlbums ==
    ASSUME TurnsInvariant, AlbumsOfSessions, NEW c \in Connections,
           \/ \E s \in Sessions : ConnectBegin(s, c)
           \/ Claim(c) \/ Load(c)
           \/ CheckFails(c) \/ FetchConflict(c) \/ LoopEnds(c) \/ ConnectFails(c)
    PROVE  AlbumsOfSessions'
<1>1. TypeOK /\ UnusedAreIdle(c)
  BY DEF TurnsInvariant, HandoverInvariant, InOrder
<1>2. UNCHANGED <<log, telegram, writes>>
  BY DEF ConnectBegin, Claim, Load, CheckFails, FetchConflict, LoopEnds, ConnectFails, StandDown
<1>3. TelegramGoesOn
  BY <1>1, <1>2, TelegramStays
<1>4. PICK p \in PollType :
        /\ polls' = [polls EXCEPT ![c] = p] /\ p.held = polls[c].held
        /\ p.at \in {"reading", "claiming", "initial", "ended"}
  <2> DEFINE x == polls[c]
  <2>1. x \in PollType
    BY <1>1, PollIsTyped
  <2>2. CASE (\E s \in Sessions : ConnectBegin(s, c)) \/ Claim(c)
    <3>1. PICK at \in {"reading", "claiming"} : polls' = [polls EXCEPT ![c] = [x EXCEPT !.at = at]]
      BY <2>2 DEF ConnectBegin, Claim
    <3>2. [x EXCEPT !.at = at] \in PollType /\ [x EXCEPT !.at = at].at = at /\ [x EXCEPT !.at = at].held = x.held
      BY <2>1 DEF PollType
    <3> QED
      BY <3>1, <3>2
  <2>3. CASE Load(c)
    <3>1. LoadedCursor + 1 \in Nat
      <4>1. LoadedCursor \in Nat
        BY <1>1, LoadedIsTyped DEF TypeOK
      <4> QED
        BY <4>1
    <3> DEFINE y == [x EXCEPT !.at = "initial", !.offset = LoadedCursor + 1]
    <3>2. polls' = [polls EXCEPT ![c] = y]
      BY <2>3 DEF Load
    <3>3. y \in PollType /\ y.at = "initial" /\ y.held = x.held
      BY <2>1, <3>1 DEF PollType
    <3> HIDE DEF y
    <3> QED
      BY <3>2, <3>3
  <2>4. CASE CheckFails(c) \/ FetchConflict(c) \/ LoopEnds(c) \/ ConnectFails(c)
    <3>1. polls' = [polls EXCEPT ![c] = Ended(x)]
      BY <2>4 DEF CheckFails, FetchConflict, LoopEnds, ConnectFails, StandDown
    <3>2. Ended(x) \in PollType /\ Ended(x).at = "ended" /\ Ended(x).held = x.held
      BY <2>1, EndedIsTyped
    <3> QED
      BY <3>1, <3>2
  <2> QED
    BY <2>2, <2>3, <2>4
<1>5. /\ polls'[c].held \subseteq polls[c].held /\ polls'[c].at = p.at
      /\ \A d \in Connections \ {c} : polls'[d] = polls[d]
  BY <1>1, <1>4 DEF TypeOK
<1>6. OthersStay(c) /\ StillSees(c)
  BY <1>2, <1>4, <1>5 DEF OthersStay, StillSees, SeenBy, Polls
<1>7. PICK k :
        /\ runtimes' = runtimes \/ runtimes' = [runtimes EXCEPT ![c] = k]
        /\ k.owner = Owner(c) \/ (Owner(c) = NoOwner /\ p.at \in {"reading", "claiming"})
  <2> DEFINE x == runtimes[c]
  <2>1. x \in RuntimeType
    BY <1>1 DEF TypeOK
  <2>2. CASE Load(c)
    <3>1. Loaded(x).owner = x.owner
      BY <2>1 DEF Loaded, RuntimeType
    <3>2. runtimes' = [runtimes EXCEPT ![c] = Loaded(x)]
      BY <2>2 DEF Load
    <3> QED
      BY <3>1, <3>2 DEF Owner
  <2>3. CASE CheckFails(c) \/ FetchConflict(c) \/ LoopEnds(c) \/ ConnectFails(c) \/ Claim(c)
    <3>1. [x EXCEPT !.lost = TRUE].owner = x.owner
      BY <2>1 DEF RuntimeType
    <3>2. runtimes' = runtimes \/ runtimes' = [runtimes EXCEPT ![c] = [x EXCEPT !.lost = TRUE]]
      BY <2>3 DEF CheckFails, FetchConflict, LoopEnds, ConnectFails, StandDown, Claim
    <3> QED
      BY <3>1, <3>2 DEF Owner
  <2>4. CASE \E s \in Sessions : ConnectBegin(s, c)
    <3>1. PICK s \in Sessions : ConnectBegin(s, c)
      BY <2>4
    <3>2. /\ runtimes' = [runtimes EXCEPT ![c] = NewRuntime(s)] /\ Owner(c) = NoOwner
          /\ \E at \in {"reading", "claiming"} : polls' = [polls EXCEPT ![c].at = at]
      BY <3>1 DEF ConnectBegin
    <3>3. polls'[c].at \in {"reading", "claiming"}
      BY <1>1, <3>2, AtIsTyped
    <3> QED
      BY <1>5, <3>2, <3>3
  <2> QED
    BY <2>2, <2>3, <2>4
<1>8. /\ \A d \in Connections \ {c} : runtimes'[d] = runtimes[d]
      /\ Owner(c)' = Owner(c) \/ (Owner(c) = NoOwner /\ p.at \in {"reading", "claiming"})
  BY <1>1, <1>7 DEF TypeOK, Owner
<1>9. IsOwned(c)
  <2>1. SUFFICES ASSUME Owner(c) = NoOwner, p.at \in {"reading", "claiming"} PROVE IsOwned(c)
    BY <1>8 DEF IsOwned
  <2>2. \A u \in Albums : ~Placed(c, u)
    BY <2>1, NoOwnerAssumption DEF AlbumsOfSessions
  <2>3. \A u \in Albums : ~Placed(c, u)'
    BY <1>2, <1>5, <2>2 DEF Placed, Flushing, AskedBy
  <2> QED
    BY <1>5, <2>1, <2>3 DEF IsOwned
<1> QED
  BY <1>2, <1>3, <1>5, <1>6, <1>8, <1>9, LoopStepRemembers

LEMMA FetchAlbums ==
    ASSUME TurnsInvariant, AlbumsOfSessions, NEW c \in Connections, FetchInitial(c) \/ Fetch(c)
    PROVE  AlbumsOfSessions'
<1>1. TypeOK
  BY DEF TurnsInvariant, HandoverInvariant
<1>2. UNCHANGED <<log, runtimes, writes>>
  BY DEF FetchInitial, Fetch
<1>3. /\ FetchedAt(c) /\ TelegramGoesOn /\ polls'[c].held = polls[c].held
      /\ \A d \in Connections \ {c} : polls'[d] = polls[d]
      /\ \A u \in Nat : u <= telegram.sent => Behind(c, u)' \/ u \in polls'[c].batch
      /\ \A u \in Nat : Behind(c, u) => Behind(c, u)' /\ u \notin polls'[c].batch
  BY <1>1, WhatIsFetched
<1>4. StillSees(c)
  BY <1>3, AlbumsAreNumbers DEF StillSees, SeenBy, Polls, FetchedAt
<1> QED
  BY <1>2, <1>3, <1>4, LoopStepRemembers DEF OthersStay, IsOwned, Owner

\* A poll loop that goes on without a request.
LEMMA LoopGoesOnAlbums ==
    ASSUME TurnsInvariant, AlbumsOfSessions, NEW c \in Connections,
           CaughtUp(c) \/ CheckPasses(c) \/ FetchFails(c)
    PROVE  AlbumsOfSessions'
<1>1. TypeOK
  BY DEF TurnsInvariant, HandoverInvariant
<1>2. PICK at \in {"polling", "fetching"} :
        /\ polls' = [polls EXCEPT ![c].at = at] /\ UNCHANGED <<log, telegram>>
        /\ (polls[c].at = "catching up" /\ polls[c].batch = {}) \/ Polls(c)
        /\ writes' = writes \/ NoteError(c)
  BY DEF CaughtUp, CheckPasses, BetweenPolls, FetchFails, Fetching, Polls
<1>3. /\ polls'[c].at = at /\ polls'[c].offset = polls[c].offset
      /\ polls'[c].batch = polls[c].batch /\ polls'[c].held = polls[c].held
      /\ \A d \in Connections \ {c} : polls'[d] = polls[d]
  BY <1>1, <1>2, AtIsTyped
<1>4. writes'[c]["flush"] = writes[c]["flush"] /\ \A d \in Connections \ {c} : writes'[d] = writes[d]
  BY <1>1, <1>2, NoteErrorWrites DEF Tasks
<1>5. TelegramGoesOn
  BY <1>1, <1>2, TelegramStays
<1>6. StillSees(c)
  <2>1. \A u \in Albums : Behind(c, u) => Behind(c, u)'
    BY <1>3, <1>5, BehindStays, AlbumsAreNumbers
  <2> QED
    BY <1>2, <1>3, <2>1 DEF StillSees, SeenBy, Polls
<1>7. \A d \in Connections : runtimes'[d].owner = runtimes[d].owner
  <2> DEFINE k == [runtimes[c] EXCEPT !.armed = runtimes[c].tail]
  <2>1. runtimes' = runtimes \/ runtimes' = [runtimes EXCEPT ![c] = k]
    BY DEF CaughtUp, CheckPasses, FetchFails
  <2>2. k.owner = runtimes[c].owner
    BY <1>1 DEF TypeOK, RuntimeType
  <2> HIDE DEF k
  <2> QED
    BY <1>1, <2>1, <2>2 DEF TypeOK
<1> QED
  BY <1>2, <1>3, <1>4, <1>5, <1>6, <1>7, LoopStepRemembers DEF OthersStay, IsOwned, Owner

\* A poll loop takes an update: an album it holds was in its batch.
LEMMA TakeAlbums ==
    ASSUME TurnsInvariant, AlbumsOfSessions, NEW c \in Connections, NEW u \in Updates,
           TakeMessage(c, u) \/ TakeCommand(c, u) \/ TakeNothing(c, u) \/ TakeAlbum(c, u) \/ TakeFails(c, u)
    PROVE  AlbumsOfSessions'
<1> DEFINE q == Passed(polls[c], u)
<1>1. TypeOK
  BY DEF TurnsInvariant, HandoverInvariant
<1>2. /\ q \in PollType /\ q.at = polls[c].at /\ q.held = polls[c].held
      /\ q.batch = polls[c].batch \ {u}
  <2>1. polls[c] \in PollType
    BY <1>1, PollIsTyped
  <2> QED
    BY <1>1, <2>1, PassedIsTyped DEF Passed, PollType
<1> HIDE DEF q
<1>3. PICK p :
        /\ NextUpdate(c, u) /\ polls' = [polls EXCEPT ![c] = p]
        /\ p.at = q.at /\ p.offset = q.offset
        /\ p.batch = q.batch \/ (polls[c].at = "polling" /\ p.batch = {})
        /\ p.held = q.held \/ (polls[c].at = "polling" /\ p.held = q.held \cup {u})
  <2>1. CASE TakeMessage(c, u) \/ TakeCommand(c, u) \/ TakeNothing(c, u)
    BY <2>1 DEF TakeMessage, TakeCommand, TakeNothing, q
  <2>2. CASE TakeAlbum(c, u)
    <3> DEFINE r == [q EXCEPT !.held = @ \cup {u}]
    <3>1. r.at = q.at /\ r.offset = q.offset /\ r.batch = q.batch /\ r.held = q.held \cup {u}
      BY <1>2 DEF PollType
    <3>2. NextUpdate(c, u) /\ polls[c].at = "polling" /\ polls' = [polls EXCEPT ![c] = r]
      BY <2>2 DEF TakeAlbum, IsHeld, q
    <3> HIDE DEF r
    <3> QED
      BY <3>1, <3>2
  <2>3. CASE TakeFails(c, u)
    <3> DEFINE r == [q EXCEPT !.batch = {}]
    <3>1. r.at = q.at /\ r.offset = q.offset /\ r.batch = {} /\ r.held = q.held
      BY <1>2 DEF PollType
    <3>2. NextUpdate(c, u) /\ polls[c].at = "polling" /\ polls' = [polls EXCEPT ![c] = r]
      BY <2>3 DEF TakeFails, q
    <3> HIDE DEF r
    <3> QED
      BY <3>1, <3>2
  <2> QED
    BY <2>1, <2>2, <2>3
<1>4. UNCHANGED <<log, telegram, runtimes>>
  BY DEF TakeMessage, TakeCommand, TakeNothing, TakeAlbum, TakeFails
<1>5. writes'[c]["flush"] = writes[c]["flush"] /\ \A d \in Connections \ {c} : writes'[d] = writes[d]
  <2>1. CASE TakeMessage(c, u)
    <3> DEFINE w == Writing(Record(c, runtimes[c], "inbound", u, 0))
    <3>1. writes' = [writes EXCEPT ![c]["poll"] = w]
      BY <2>1 DEF TakeMessage
    <3> HIDE DEF w
    <3> QED
      BY <1>1, <3>1 DEF TypeOK, Tasks
  <2>2. CASE writes' = writes
    BY <2>2
  <2>3. CASE NoteError(c)
    BY <1>1, <2>3, NoteErrorWrites DEF Tasks
  <2> QED
    BY <2>1, <2>2, <2>3 DEF TakeCommand, TakeNothing, TakeAlbum, TakeFails
<1>6. polls'[c] = p /\ \A d \in Connections \ {c} : polls'[d] = polls[d]
  BY <1>1, <1>3 DEF TypeOK
<1>7. TelegramGoesOn
  BY <1>1, <1>4, TelegramStays
<1>8. /\ polls'[c].at = polls[c].at /\ polls'[c].offset = Passed(polls[c], u).offset
      /\ polls'[c].batch = polls[c].batch \ {u} \/ (polls[c].at = "polling" /\ polls'[c].batch = {})
  BY <1>2, <1>3, <1>6 DEF q
<1>9. StillSees(c)
  <2>1. Behind(c, u)' /\ \A v \in Albums : Behind(c, v) => Behind(c, v)'
    BY <1>1, <1>4, <1>8, PassedMovesOn, AlbumsAreNumbers
  <2> QED
    BY <1>8, <2>1 DEF StillSees, SeenBy, Polls
<1>10. Places(c)
  <2>1. \A v \in polls'[c].held : v \in polls[c].held \/ (v = u /\ polls[c].at = "polling")
    BY <1>2, <1>3, <1>6
  <2>2. u \in polls[c].batch
    BY <1>3 DEF NextUpdate, IsNext
  <2> QED
    BY <1>4, <1>5, <2>1, <2>2 DEF Places, Placed, Flushing, AskedBy, Polls
<1>11. ASSUME NEW d \in Connections \ {c} PROVE Remembers(d)
  BY <1>4, <1>5, <1>6, <1>7, BystanderRemembers
<1>12. \A d \in Connections : Remembers(d)
  BY <1>4, <1>9, <1>10, <1>11 DEF Remembers, IsOwned, Owner
<1> QED
  BY <1>7, <1>12, AlbumsOfSessionsStay

LEMMA FlushAlbums ==
    ASSUME TurnsInvariant, AlbumsOfSessions, NEW c \in Connections, NEW u \in Updates, FlushAlbum(c, u)
    PROVE  AlbumsOfSessions'
<1> DEFINE p == [polls[c] EXCEPT !.held = @ \ {u}]
           w == Writing(Record(c, runtimes[c], "inbound", u, 0))
<1>1. /\ u \in polls[c].held /\ polls' = [polls EXCEPT ![c] = p]
      /\ writes' = writes \/ writes' = [writes EXCEPT ![c]["flush"] = w]
      /\ UNCHANGED <<log, telegram, runtimes>>
  BY DEF FlushAlbum
<1>2. TypeOK
  BY DEF TurnsInvariant, HandoverInvariant
<1>3. /\ p.at = polls[c].at /\ p.offset = polls[c].offset
      /\ p.batch = polls[c].batch /\ p.held = polls[c].held \ {u}
  <2>1. polls[c] \in PollType
    BY <1>2, PollIsTyped
  <2> QED
    BY <2>1 DEF PollType
<1>4. w[1].rec.update = u
  <2>1. w = Writing(Record(c, runtimes[c], "inbound", u, 0))
    OBVIOUS
  <2> HIDE DEF w
  <2> QED
    BY <1>2, <2>1, NewMessage
<1> HIDE DEF p, w
<1>5. polls'[c] = p /\ \A d \in Connections \ {c} : polls'[d] = polls[d]
  BY <1>1, <1>2 DEF TypeOK
<1>6. /\ \A d \in Connections \ {c} : writes'[d] = writes[d]
      /\ writes'[c]["flush"] = writes[c]["flush"] \/ writes'[c]["flush"] = w
  BY <1>1, <1>2 DEF TypeOK, Tasks
<1>7. TelegramGoesOn
  BY <1>1, <1>2, TelegramStays
<1>8. Places(c)
  BY <1>1, <1>3, <1>4, <1>5, <1>6 DEF Places, Placed, Flushing, AskedBy
<1>9. StillSees(c)
  BY <1>1, <1>3, <1>5 DEF StillSees, SeenBy, Behind, Polls
<1>10. \A d \in Connections \ {c} : Remembers(d)
  BY <1>1, <1>5, <1>6, <1>7, BystanderRemembers
<1>11. \A d \in Connections : Remembers(d)
  BY <1>1, <1>8, <1>9, <1>10 DEF Remembers, IsOwned, Owner
<1> QED
  BY <1>7, <1>11, AlbumsOfSessionsStay

\* A moment of an append: the album stays in the write, or goes into the log.
LEMMA WriteAlbums ==
    ASSUME TurnsInvariant, AlbumsOfSessions, NEW c \in Connections, NEW t \in Tasks, NEW w,
           UNCHANGED <<polls, telegram>>, OwnersStay(runtimes'), writes' = [writes EXCEPT ![c][t] = w],
           writes[c][t] # <<>>,
           w # <<>> /\ Leads(w[1].rec) =>
              Leads(writes[c][t][1].rec) /\ w[1].rec.update = writes[c][t][1].rec.update,
           \A d \in Connections, u \in Albums : AskedBy(d, u)' =>
              AskedBy(d, u) \/ (d = c /\ t = "flush" /\ Flushing(c, u))
    PROVE  AlbumsOfSessions'
<1>1. TypeOK
  BY DEF TurnsInvariant, HandoverInvariant
<1>2. /\ writes'[c][t] = w /\ \A r \in Tasks \ {t} : writes'[c][r] = writes[c][r]
      /\ \A d \in Connections \ {c} : writes'[d] = writes[d]
  BY <1>1 DEF TypeOK
<1>3. ASSUME NEW d \in Connections, NEW u \in Albums, Flushing(d, u)' PROVE Flushing(d, u)
  <2>1. CASE d = c /\ t = "flush"
    BY <1>2, <1>3, <2>1 DEF Flushing
  <2>2. CASE d # c \/ t # "flush"
    BY <1>2, <1>3, <2>2 DEF Flushing, Tasks
  <2> QED
    BY <2>1, <2>2
<1>4. ASSUME NEW d \in Connections PROVE Remembers(d)
  <2>1. Places(d)
    BY <1>3 DEF Places, Placed
  <2>2. StillSees(d)
    BY DEF StillSees, SeenBy, Behind, Polls
  <2> QED
    BY <2>1, <2>2 DEF Remembers, IsOwned, Owner, OwnersStay
<1> QED
  BY <1>1, <1>4, TelegramStays, AlbumsOfSessionsStay

LEMMA FenceAlbums ==
    ASSUME TurnsInvariant, AlbumsOfSessions, NEW c \in Connections, NEW t \in Tasks, Fence(c, t)
    PROVE  AlbumsOfSessions'
<1>1. /\ UNCHANGED <<log, telegram, polls>> /\ writes[c][t] # <<>> /\ Owner(c) \in Sessions
  BY AliveIsOwned DEF Fence
<1>2. /\ TypeOK /\ CurrentIsConnected /\ runtimes \in [Connections -> RuntimeType]
      /\ writes[c][t] \in Seq(WriteType) /\ runtimes[c] \in RuntimeType
  BY DEF TurnsInvariant, HandoverInvariant, TypeOK
<1>3. PICK rec \in RecordType : rec = writes[c][t][1].rec
  BY <1>1, <1>2, WriteIsTyped
<1>4. \A d \in Connections, u \in Albums : AskedBy(d, u)' => AskedBy(d, u)
  BY <1>1 DEF AskedBy
<1>5. CASE Owns(c)
  <2> DEFINE w == [writes[c][t] EXCEPT ![1].fenced = TRUE]
             k == Pushed(runtimes[c], rec)
  <2>1. w # <<>> /\ w[1].rec = rec
    BY <1>1, <1>2, <1>3, FencedIsTyped
  <2>2. k.owner = runtimes[c].owner /\ k.lost = runtimes[c].lost
    BY <1>2, <1>3, PushedIsTyped
  <2>3. runtimes' = [runtimes EXCEPT ![c] = k] /\ writes' = [writes EXCEPT ![c][t] = w]
    BY <1>3, <1>5 DEF Fence
  <2> HIDE DEF w, k
  <2>4. OwnersStay(runtimes')
    BY <1>2, <2>2, <2>3 DEF OwnersStay
  <2> QED
    BY <1>1, <1>3, <1>4, <2>1, <2>3, <2>4, WriteAlbums
<1>6. CASE ~Owns(c)
  <2> DEFINE k == [runtimes[c] EXCEPT !.lost = TRUE]
             rts == [runtimes EXCEPT ![c].lost = TRUE]
             s == Owner(c)
             v == IF runtimes[c].lost THEN sessions[s] ELSE Noticed(sessions[s])
             w == FollowUp(c, rts[c], rec)
  <2>1. Continue(c, t, rts, v, rec)
    BY <1>3, <1>6 DEF Fence
  <2>2. rts \in [Connections -> RuntimeType] /\ OwnersStay(rts) /\ rts[c] \in RuntimeType
    <3>1. k \in RuntimeType /\ k.owner = runtimes[c].owner /\ k.lost
      BY <1>2 DEF RuntimeType
    <3>2. rts = [runtimes EXCEPT ![c] = k]
      OBVIOUS
    <3> HIDE DEF k, rts
    <3> QED
      BY <1>2, <3>1, <3>2 DEF OwnersStay
  <2>3. StaysAs(s, v)
    BY <1>1, <1>2, NoticedStays
  <2> HIDE DEF rts, v
  <2>4. OwnersStay(runtimes') /\ writes' = [writes EXCEPT ![c][t] = w]
    BY <1>1, <1>2, <2>1, <2>2, <2>3, ContinueStays
  <2>5. w # <<>> /\ Leads(w[1].rec) => Leads(rec) /\ w[1].rec.update = rec.update
    <3>1. w = FollowUp(c, rts[c], rec)
      OBVIOUS
    <3> HIDE DEF w
    <3> QED
      BY <2>2, <3>1, WhatFollows
  <2> HIDE DEF w
  <2> QED
    BY <1>1, <1>3, <1>4, <2>4, <2>5, WriteAlbums
<1> QED
  BY <1>5, <1>6

LEMMA AppendAlbums ==
    ASSUME TurnsInvariant, AlbumsOfSessions, NEW c \in Connections, NEW t \in Tasks, AppendRecord(c, t)
    PROVE  AlbumsOfSessions'
<1>1. /\ UNCHANGED <<telegram, polls>> /\ writes[c][t] # <<>> /\ Owner(c) \in Sessions
  BY AliveIsOwned DEF AppendRecord
<1>2. /\ TypeOK /\ CurrentIsConnected /\ TurnsOf(c)
      /\ runtimes \in [Connections -> RuntimeType] /\ runtimes[c] \in RuntimeType /\ OwnersStay(runtimes)
  BY DEF TurnsInvariant, HandoverInvariant, TypeOK, OwnersStay
<1>3. PICK rec \in RecordType : rec = writes[c][t][1].rec
  BY <1>1, <1>2, WriteIsTyped
<1> DEFINE s == Owner(c)
           w == FollowUp(c, runtimes[c], rec)
<1>4. OwnersStay(runtimes') /\ writes' = [writes EXCEPT ![c][t] = w]
  <2>1. Continue(c, t, runtimes, sessions[s], rec)
    BY <1>3 DEF AppendRecord
  <2>2. StaysAs(s, sessions[s])
    BY <1>1, <1>2, NoticedStays
  <2> QED
    BY <1>1, <1>2, <2>1, <2>2, ContinueStays
<1>5. w # <<>> /\ Leads(w[1].rec) => Leads(rec) /\ w[1].rec.update = rec.update
  <2>1. w = FollowUp(c, runtimes[c], rec)
    OBVIOUS
  <2> HIDE DEF w
  <2> QED
    BY <1>2, <2>1, WhatFollows
<1> HIDE DEF w
<1>6. PICK e : log' = Append(log, e) /\ e.kind = rec.kind /\ e.update = rec.update /\ e.by = c
  BY <1>3 DEF AppendRecord
<1>7. ASSUME NEW d \in Connections, NEW u \in Albums, AskedBy(d, u)'
      PROVE  AskedBy(d, u) \/ (d = c /\ t = "flush" /\ Flushing(c, u))
  <2>1. PICK i \in DOMAIN log' : log'[i].kind = "job_queued" /\ log'[i].update = u /\ log'[i].by = d
    BY <1>7 DEF AskedBy
  <2>2. CASE i \in DOMAIN log /\ log'[i] = log[i]
    BY <2>1, <2>2 DEF AskedBy
  <2>3. CASE log'[i] = e
    <3>1. d = c /\ rec.kind = "job_queued" /\ rec.update = u
      BY <1>6, <2>1, <2>3
    <3>2. t = "flush"
      BY <1>1, <1>2, <1>3, <3>1, AlbumsAskFromTimers
    <3> QED
      BY <1>1, <1>3, <3>1, <3>2 DEF Flushing, Leads
  <2>4. log \in Seq(LogRecordType)
    BY <1>2 DEF TypeOK
  <2> QED
    BY <1>6, <2>1, <2>2, <2>3, <2>4
<1> QED
  BY <1>1, <1>3, <1>4, <1>5, <1>7, WriteAlbums

LEMMA AlbumsInit == Init => AlbumsOfSessions
BY DEF Init, AlbumsOfSessions, Placed, Flushing, AskedBy, NewPoll, Tasks

LEMMA AlbumsNext == TurnsInvariant /\ AlbumsOfSessions /\ [Next]_vars => AlbumsOfSessions'
<1> SUFFICES ASSUME TurnsInvariant, AlbumsOfSessions, [Next]_vars PROVE AlbumsOfSessions'
  OBVIOUS
<1>1. CASE Send \/ UNCHANGED vars
  BY <1>1, SendAlbums
<1>2. ASSUME NEW s \in Sessions, SessionStep(s) \/ TurnStep(s) \/ Disconnect(s) PROVE AlbumsOfSessions'
  <2>1. SideStep(s)
    BY <1>2 DEF SessionStep, TurnStep, SideStep, SessionOnly
  <2> QED
    BY <2>1, SideStepAlbums
<1>3. ASSUME NEW s \in Sessions, Crash(s) PROVE AlbumsOfSessions'
  BY <1>3, CrashAlbums
<1>4. ASSUME NEW s \in Sessions, NEW c \in Connections, Connect(s, c) \/ Restore(s, c) PROVE AlbumsOfSessions'
  <2>1. ConnectBegin(s, c)
    BY <1>4 DEF Connect, Restore
  <2> QED
    BY <2>1, UnaskedAlbums
<1>5. ASSUME NEW c \in Connections, NEW u \in Updates,
             \/ TakeMessage(c, u) \/ TakeCommand(c, u) \/ TakeNothing(c, u)
             \/ TakeAlbum(c, u) \/ FlushAlbum(c, u) \/ TakeFails(c, u)
      PROVE  AlbumsOfSessions'
  BY <1>5, TakeAlbums, FlushAlbums
<1>6. ASSUME NEW c \in Connections, NEW t \in Tasks, Fence(c, t) \/ AppendRecord(c, t) PROVE AlbumsOfSessions'
  BY <1>6, FenceAlbums, AppendAlbums
<1>7. ASSUME NEW c \in Connections, ChannelStep(c) \/ ConnectFails(c) \/ FetchFails(c) PROVE AlbumsOfSessions'
  <2>1. CASE Claim(c) \/ Load(c) \/ CheckFails(c) \/ FetchConflict(c) \/ LoopEnds(c) \/ ConnectFails(c)
    BY <2>1, UnaskedAlbums
  <2>2. CASE FetchInitial(c) \/ Fetch(c)
    BY <2>2, FetchAlbums
  <2>3. CASE CaughtUp(c) \/ CheckPasses(c) \/ FetchFails(c)
    BY <2>3, LoopGoesOnAlbums
  <2> QED
    BY <1>5, <1>6, <1>7, <2>1, <2>2, <2>3 DEF ChannelStep
<1> QED
  BY <1>1, <1>2, <1>3, <1>4, <1>5, <1>7 DEF Next

\* Two records that ask for the turn of an album are of different sessions.
LEMMA OneJobOfSession ==
    ASSUME TurnsInvariant, AlbumsOfSessions
    PROVE  OneJobPerUpdate
<1> SUFFICES ASSUME NEW i \in DOMAIN log, NEW j \in DOMAIN log,
                    log[i].kind = "job_queued", log[j].kind = "job_queued",
                    log[i].update = log[j].update, i # j
             PROVE  log[i].update \in Albums /\ Owner(log[i].by) # Owner(log[j].by)
  BY DEF OneJobPerUpdate
<1>1. log[i].update \in Albums /\ log[i].by # log[j].by
  BY DEF TurnsInvariant, OneJobOfConnection
<1>2. log[i].by \in Connections /\ log[j].by \in Connections
  <2>1. TypeOK
    BY DEF TurnsInvariant, HandoverInvariant
  <2>2. log[i] \in LogRecordType /\ log[j] \in LogRecordType
    BY <2>1, LogIsTyped
  <2> QED
    BY <2>2 DEF LogRecordType
<1>3. Placed(log[i].by, log[i].update) /\ Placed(log[j].by, log[i].update)
  BY DEF Placed, AskedBy
<1> QED
  BY <1>1, <1>2, <1>3 DEF AlbumsOfSessions

-----------------------------------------------------------------------------
(* The theorems.                                                             *)

\* Everything keeps its type, in every step of every session and connection.
THEOREM TypesHold == Spec => []TypeOK
<1>1. HandoverInvariant => TypeOK
  BY DEF HandoverInvariant
<1> QED
  BY <1>1, InitInvariant, NextInvariant, PTL DEF Spec

\* Telegram never forgets an update the log does not have, through every
\* handover, eviction and crash, but for commands, messages whose download
\* failed, and albums: for any number of sessions, connections and updates.
THEOREM HandoversHaveNoGap == Spec => []HandoverWithoutGap
<1>1. HandoverInvariant => HandoverWithoutGap
  BY DEF HandoverInvariant, ForgottenAreAccounted, AllBelow, Accounted, HandoverWithoutGap, TypeOK
<1> QED
  BY <1>1, InitInvariant, NextInvariant, PTL DEF Spec

\* What reaches the log after the writer lost the channel was already on its
\* way: at most one record of each task of a connection per claim.
THEOREM StraysWereOnTheirWay == Spec => []StraysAreOnTheirWay
<1>1. Init => StraysInvariant
  BY InitInvariant DEF StraysInvariant, Init, StraysAreBounded, StraysAreOnTheirWay
<1>2. StraysInvariant => StraysAreOnTheirWay
  BY DEF StraysInvariant
<1> QED
  BY <1>1, <1>2, StraysNext, PTL DEF Spec

\* One message asks for at most one turn, whoever serves the channel and however
\* often Telegram sends it again; an album for at most one of each session.
THEOREM OneTurnPerMessage == Spec => []OneJobPerUpdate
<1>1. TurnsInvariant /\ AlbumsOfSessions => OneJobPerUpdate
  BY OneJobOfSession
<1>2. Init => TurnsInvariant /\ AlbumsOfSessions
  BY InitTurns, AlbumsInit
<1>3. TurnsInvariant /\ AlbumsOfSessions /\ [Next]_vars => TurnsInvariant' /\ AlbumsOfSessions'
  BY TurnsNext, AlbumsNext
<1> QED
  BY <1>1, <1>2, <1>3, PTL DEF Spec

================================================================================
