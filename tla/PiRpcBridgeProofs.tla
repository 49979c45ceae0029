--------------------------- MODULE PiRpcBridgeProofs ---------------------------
(***************************************************************************)
(* What holds of the bridge for every set of requests and notices and      *)
(* every capacity of its queues: the pending map never keeps a request     *)
(* that is over, an answer that passes it by is late, the events keep      *)
(* their order on the way to the pump, and each step is a step of          *)
(* RpcPromise or a stutter.                                                *)
(***************************************************************************)
EXTENDS PiRpcBridge, SequenceTheorems, TLAPS

\* The capacities and bounds are numbers.
LEMMA Capacities ==
    OutboundCap \in Nat /\ IncomingCap \in Nat /\ FramesCap \in Nat /\ StdinCap \in Nat
BY CapAssumption

USE Capacities, EventsAssumption

-----------------------------------------------------------------------------
(* The inductive invariant                                                   *)

\* The pending map holds only requests that were begun and are not over.
Entries ==
    /\ \A r \in Request : request[r] = "new" => r \notin pending /\ resolved[r] = "no"
    /\ NoDeadEntry

Begun(c) == c \in Request => request[c] \notin {"new", "enqueue"}

\* Pi is only ever sent, and only ever hears, a command that was enqueued.
CommandsAreBegun ==
    /\ \A r \in heard : Begun(r)
    /\ \A p \in DOMAIN outbound : Begun(outbound[p])
    /\ \A p \in DOMAIN stdin : Begun(stdin[p])

\* Whatever is taken for an answer, Pi gave.
AnswersWereGiven ==
    /\ \A r \in Request : resolved[r] = "answered" \/ request[r] = "answered" => r \in ran
    /\ \A p \in DOMAIN stdout : IsAnswer(stdout[p]) => stdout[p].id \in ran
    /\ \A p \in DOMAIN incoming : IsAnswer(incoming[p]) => incoming[p].id \in ran

\* Nothing ends before Pi has closed, and the reader reads to the end.
EndsAfterPi ==
    /\ writer = "stopped" => process = "closed"
    /\ reader = "ended" => process = "closed" /\ stdout = << >>
    /\ router.at = "ended" => reader = "ended"
    /\ \A r \in Request : resolved[r] = "closed" \/ request[r] = "closed" => process = "closed"

Kept(c) == c \in pending \/ request[c] = "timed out"

AwaitedOrLate(line) == IsAnswer(line) => Kept(line.id)

Once(s) == \A p, q \in DOMAIN s : IsAnswer(s[p]) /\ s[p] = s[q] => p = q

Apart(s, t) == \A p \in DOMAIN s, q \in DOMAIN t : IsAnswer(s[p]) => s[p] # t[q]

\* An answer is on its way to the router once.
AnswersAreOnce == Once(incoming) /\ Once(stdout) /\ Apart(incoming, stdout)

\* While the router runs, a request without an answer has its entry; the request
\* of an answer on its way to the router has its entry or has timed out.
AnswersAreAwaited ==
    /\ \A r \in Request \ ran :
           request[r] \in {"enqueue", "wait", "expire"} /\ router.at # "ended" => r \in pending
    /\ \A p \in DOMAIN stdout : AwaitedOrLate(stdout[p])
    /\ \A p \in DOMAIN incoming : AwaitedOrLate(incoming[p])

Late(line) == IsAnswer(line) => request[line.id] = "timed out"

StraysAreLate ==
    /\ \A p \in DOMAIN taken : Late(taken[p])
    /\ \A p \in DOMAIN frames : Late(frames[p])
    /\ router.at = "deliver" => Late(router.line)

BridgeInvariant ==
    /\ TypeOK
    /\ Entries
    /\ CommandsAreBegun
    /\ AnswersWereGiven
    /\ EndsAfterPi
    /\ AnswersAreOnce
    /\ AnswersAreAwaited
    /\ StraysAreLate

-----------------------------------------------------------------------------
(* Lines and queues                                                          *)

LEMMA LineKinds ==
    /\ \A line \in Line : IsAnswer(line) => line.id \in Request /\ line = Answer(line.id)
    /\ \A r \in Request : Answer(r) \in Line /\ IsAnswer(Answer(r)) /\ Answer(r).id = r
    /\ \A n \in 1 .. MaxEvents : EventLine(n) \in Line /\ ~IsAnswer(EventLine(n))
<1>1. \A r : IsAnswer(Answer(r)) /\ Answer(r).id = r
  BY DEF IsAnswer, Answer
<1>2. \A n : ~IsAnswer(EventLine(n))
  BY DEF IsAnswer, EventLine
<1>3. \A line \in Line : IsAnswer(line) => line.id \in Request /\ line = Answer(line.id)
  BY <1>1, <1>2 DEF Line
<1> QED
  BY <1>1, <1>2, <1>3 DEF Line

\* What taking the head of a queue leaves, and its types.
LEMMA TailTypes ==
    ASSUME NEW S, NEW s \in Seq(S), s # << >>
    PROVE  Head(s) \in S /\ Tail(s) \in Seq(S) /\ Len(Tail(s)) = Len(s) - 1
BY SMT

LEMMA TailOf ==
    ASSUME NEW S, NEW s \in Seq(S), s # << >>
    PROVE  /\ Head(s) = s[1] /\ 1 \in DOMAIN s
           /\ \A p \in DOMAIN Tail(s) : p \in Nat \ {0} /\ p + 1 \in DOMAIN s /\ Tail(s)[p] = s[p + 1]
<1>1. DOMAIN Tail(s) = 1 .. (Len(s) - 1) /\ DOMAIN s = 1 .. Len(s) /\ Len(s) \in Nat /\ Len(s) > 0
  OBVIOUS
<1>2. \A p \in 1 .. (Len(s) - 1) : p + 1 \in 1 .. Len(s) /\ Tail(s)[p] = s[p + 1]
  OBVIOUS
<1> QED
  BY <1>1, <1>2

\* What putting a line at the end of a queue makes of it, and its types.
LEMMA AppendTypes ==
    ASSUME NEW S, NEW s \in Seq(S), NEW e \in S
    PROVE  Append(s, e) \in Seq(S) /\ Len(Append(s, e)) = Len(s) + 1
BY SMT

LEMMA AppendTo ==
    ASSUME NEW S, NEW s \in Seq(S), NEW e \in S
    PROVE  \A p \in DOMAIN Append(s, e) :
               \/ p \in DOMAIN s /\ Append(s, e)[p] = s[p]
               \/ p = Len(s) + 1 /\ Append(s, e)[p] = e
<1>1. DOMAIN Append(s, e) = 1 .. (Len(s) + 1) /\ DOMAIN s = 1 .. Len(s) /\ Len(s) \in Nat
  OBVIOUS
<1>2. Append(s, e)[Len(s) + 1] = e /\ \A p \in 1 .. Len(s) : Append(s, e)[p] = s[p]
  OBVIOUS
<1> QED
  BY <1>1, <1>2

-----------------------------------------------------------------------------
(* The types                                                                 *)

\* What the queues hold, apart from the other types.
Queues ==
    /\ outbound \in Seq(Call) /\ Len(outbound) <= OutboundCap
    /\ stdin \in Seq(Call) /\ Len(stdin) <= StdinCap
    /\ stdout \in Seq(Line)
    /\ incoming \in Seq(Line) /\ Len(incoming) <= IncomingCap
    /\ frames \in Seq(Line) /\ Len(frames) <= FramesCap
    /\ taken \in Seq(Line)
    /\ events \in 0 .. MaxEvents

Others ==
    /\ request \in [Request -> {"new", "enqueue", "wait", "expire",
                                "answered", "timed out", "closed"}]
    /\ notice \in [Notice -> {"new", "sent", "closed"}]
    /\ pending \subseteq Request
    /\ resolved \in [Request -> {"no", "answered", "closed"}]
    /\ writer \in {"running", "stopped"} /\ reader \in {"running", "ended"}
    /\ process \in {"open", "closed"} /\ pump \in {"running", "returned"}
    /\ ran \subseteq heard /\ heard \subseteq Request
    /\ router \in {[at |-> "next"], [at |-> "ended"]} \cup {[at |-> "deliver", line |-> l] : l \in Line}

LEMMA TypesSplit == TypeOK <=> Queues /\ Others
BY Zenon DEF TypeOK, Queues, Others

LEMMA InitTypes == Init => TypeOK
BY DEF Init, TypeOK

LEMMA RouterHoldsLine == Others /\ router.at = "deliver" => router.line \in Line
<1> SUFFICES ASSUME Others, router.at = "deliver" PROVE router.line \in Line
  OBVIOUS
<1>1. router # [at |-> "next"] /\ router # [at |-> "ended"]
  OBVIOUS
<1>2. router \in {[at |-> "next"], [at |-> "ended"]} \cup {[at |-> "deliver", line |-> l] : l \in Line}
  BY DEF Others
<1>3. router \in {[at |-> "deliver", line |-> l] : l \in Line}
  BY <1>1, <1>2, Zenon
<1>4. PICK line \in Line : router = [at |-> "deliver", line |-> line]
  BY <1>3, Zenon
<1> QED
  BY <1>4

LEMMA NextQueues ==
    ASSUME Queues, Others, [Next]_bridgeVars
    PROVE  Queues'
<1>1. ASSUME UNCHANGED <<outbound, stdin, stdout, incoming, frames, taken, events>> PROVE Queues'
  BY <1>1 DEF Queues
<1>2. ASSUME NEW r \in Request, RequestInsert(r) \/ RequestRefused(r) \/ RequestResolved(r)
                                \/ RequestDeadline(r) \/ RequestExpire(r)
      PROVE  Queues'
  BY <1>1, <1>2
  DEF RequestInsert, RequestRefused, RequestResolved, RequestDeadline, RequestExpire
<1>3. ASSUME NEW c \in Call, HasRoom(outbound, OutboundCap), outbound' = Append(outbound, c),
             UNCHANGED <<stdin, stdout, incoming, frames, taken, events>>
      PROVE  Queues'
  <2>1. Append(outbound, c) \in Seq(Call) /\ Len(Append(outbound, c)) = Len(outbound) + 1
    BY AppendTypes DEF Queues
  <2> QED
    BY <1>3, <2>1 DEF HasRoom, Queues
<1>4. ASSUME NEW r \in Request, RequestEnqueue(r) PROVE Queues'
  BY <1>3, <1>4 DEF RequestEnqueue, Call
<1>5. ASSUME NEW m \in Notice, NoticeEnqueue(m) PROVE Queues'
  BY <1>1, <1>3, <1>5 DEF NoticeEnqueue, Call
<1>6. CASE WriterWrite
  <2>1. /\ Head(outbound) \in Call
        /\ Tail(outbound) \in Seq(Call) /\ Len(Tail(outbound)) = Len(outbound) - 1
    BY <1>6, TailTypes DEF WriterWrite, Queues
  <2>2. /\ Append(stdin, Head(outbound)) \in Seq(Call)
        /\ Len(Append(stdin, Head(outbound))) = Len(stdin) + 1
    BY <2>1, AppendTypes DEF Queues
  <2> QED
    <3>1. CASE process = "open"
      <4>1. Len(stdin) < StdinCap /\ stdin' = Append(stdin, Head(outbound)) /\ outbound' = Tail(outbound)
        BY <1>6, <3>1 DEF WriterWrite, HasRoom
      <4>2. UNCHANGED <<stdout, incoming, frames, taken, events>>
        BY <1>6 DEF WriterWrite
      <4>3. Len(stdin') <= StdinCap /\ Len(outbound') <= OutboundCap
        BY <2>1, <2>2, <4>1 DEF Queues
      <4> QED
        BY <2>1, <2>2, <4>1, <4>2, <4>3 DEF Queues
    <3>2. CASE process # "open"
      BY <1>6, <3>2 DEF WriterWrite, Queues
    <3> QED
      BY <3>1, <3>2
<1>7. CASE PiRead
  <2>1. Tail(stdin) \in Seq(Call) /\ Len(Tail(stdin)) = Len(stdin) - 1
    BY <1>7, TailTypes DEF PiRead, Queues
  <2> QED
    BY <1>7, <2>1 DEF PiRead, Queues
<1>8. ASSUME NEW r \in Request, PiAnswer(r) PROVE Queues'
  <2>1. Append(stdout, Answer(r)) \in Seq(Line)
    BY LineKinds, AppendTypes DEF Queues
  <2> QED
    BY <1>8, <2>1 DEF PiAnswer, Queues
<1>9. CASE PiEvent
  <2>1. events + 1 \in 1 .. MaxEvents
    BY <1>9 DEF PiEvent, Queues
  <2>2. Append(stdout, EventLine(events + 1)) \in Seq(Line)
    BY <2>1, LineKinds, AppendTypes DEF Queues
  <2> QED
    BY <1>9, <2>2 DEF PiEvent, Queues
<1>10. CASE PiClose \/ ReaderEnd \/ RouterDrain
  BY <1>1, <1>10 DEF PiClose, ReaderEnd, RouterDrain
<1>11. CASE ReaderRead
  <2>1. Head(stdout) \in Line /\ Tail(stdout) \in Seq(Line)
    BY <1>11, TailTypes DEF ReaderRead, Queues
  <2>2. /\ Append(incoming, Head(stdout)) \in Seq(Line)
        /\ Len(Append(incoming, Head(stdout))) = Len(incoming) + 1
    BY <2>1, AppendTypes DEF Queues
  <2> QED
    BY <1>11, <2>1, <2>2 DEF ReaderRead, HasRoom, Queues
<1>12. CASE RouterTake
  <2>1. Tail(incoming) \in Seq(Line) /\ Len(Tail(incoming)) = Len(incoming) - 1
    BY <1>12, TailTypes DEF RouterTake, Queues
  <2> QED
    BY <1>12, <2>1 DEF RouterTake, Queues
<1>13. CASE RouterDeliver
  <2>1. router.line \in Line
    BY <1>13, RouterHoldsLine DEF RouterDeliver
  <2>2. /\ Append(frames, router.line) \in Seq(Line)
        /\ Len(Append(frames, router.line)) = Len(frames) + 1
    BY <2>1, AppendTypes DEF Queues
  <2> QED
    BY <1>13, <2>2 DEF RouterDeliver, HasRoom, Queues
<1>14. CASE PumpTake
  <2>1. /\ Head(frames) \in Line
        /\ Tail(frames) \in Seq(Line) /\ Len(Tail(frames)) = Len(frames) - 1
    BY <1>14, TailTypes DEF PumpTake, Queues
  <2>2. Append(taken, Head(frames)) \in Seq(Line)
    BY <2>1, AppendTypes DEF Queues
  <2> QED
    BY <1>14, <2>1, <2>2 DEF PumpTake, Queues
<1>15. CASE UNCHANGED bridgeVars
  BY <1>1, <1>15 DEF bridgeVars
<1> QED
  BY <1>2, <1>4, <1>5, <1>6, <1>7, <1>8, <1>9, <1>10, <1>11, <1>12, <1>13, <1>14, <1>15
  DEF Next, RequestGoesOn, Reader, Router

LEMMA NextOthers ==
    ASSUME Queues, Others, [Next]_bridgeVars
    PROVE  Others'
<1> USE DEF Others
<1>1. ASSUME NEW r \in Request, RequestInsert(r) \/ RequestEnqueue(r) \/ RequestRefused(r)
                                \/ RequestResolved(r) \/ RequestDeadline(r) \/ RequestExpire(r)
      PROVE  Others'
  BY <1>1 DEF RequestInsert, RequestEnqueue, RequestRefused, RequestResolved, RequestDeadline,
              RequestExpire, RequestTo, Forget
<1>2. ASSUME NEW m \in Notice, NoticeEnqueue(m) PROVE Others'
  BY <1>2 DEF NoticeEnqueue
<1>3. CASE WriterWrite \/ PiRead
  BY <1>3 DEF WriterWrite, PiRead
<1>4. ASSUME NEW r \in Request, PiAnswer(r) PROVE Others'
  BY <1>4 DEF PiAnswer
<1>5. CASE PiEvent
  BY <1>5 DEF PiEvent
<1>6. CASE PiClose \/ ReaderRead \/ ReaderEnd
  BY <1>6 DEF PiClose, ReaderRead, ReaderEnd
<1>7. CASE RouterTake
  <2>1. Head(incoming) \in Line
    BY <1>7, TailTypes DEF RouterTake, Queues
  <2>2. resolved' \in [Request -> {"no", "answered", "closed"}] /\ pending' \subseteq Request
    BY <1>7 DEF RouterTake, Forget, Resolve
  <2>3. router' = router \/ router' = [at |-> "deliver", line |-> Head(incoming)]
    BY <1>7 DEF RouterTake
  <2> QED
    BY <1>7, <2>1, <2>2, <2>3 DEF RouterTake
<1>8. CASE RouterDeliver
  BY <1>8 DEF RouterDeliver
<1>9. CASE RouterDrain
  BY <1>9 DEF RouterDrain, Resolve
<1>10. CASE PumpTake
  BY <1>10 DEF PumpTake
<1>11. CASE UNCHANGED bridgeVars
  BY <1>11 DEF bridgeVars
<1> QED
  BY <1>1, <1>2, <1>3, <1>4, <1>5, <1>6, <1>7, <1>8, <1>9, <1>10, <1>11
  DEF Next, RequestGoesOn, Reader, Router

LEMMA NextTypes == TypeOK /\ [Next]_bridgeVars => TypeOK'
<1>1. TypeOK' <=> Queues' /\ Others'
  BY Zenon DEF TypeOK, Queues, Others
<1> QED
  BY <1>1, TypesSplit, NextQueues, NextOthers

-----------------------------------------------------------------------------
(* The parts of the invariant, one after another                             *)

\* The types these parts need: those of the requests, without the router's.
Maps ==
    /\ request \in [Request -> {"new", "enqueue", "wait", "expire",
                                "answered", "timed out", "closed"}]
    /\ resolved \in [Request -> {"no", "answered", "closed"}]
    /\ pending \subseteq Request /\ heard \subseteq Request /\ ran \subseteq heard

LEMMA MapTypes == Others => Maps
BY Zenon DEF Others, Maps

\* What read_frames does with a line whose request waits for it, and with another.
LEMMA TakeAnswer ==
    ASSUME NEW r, RouterTake, Waits(Head(incoming)), r = Head(incoming).id
    PROVE  /\ r \in pending /\ pending' = pending \ {r} /\ IsAnswer(Head(incoming))
           /\ resolved' = [resolved EXCEPT ![r] = IF request[r] = "expire" THEN "no" ELSE "answered"]
           /\ UNCHANGED <<request, router>>
BY DEF RouterTake, Waits, Forget, Resolve

LEMMA TakeOther ==
    ASSUME RouterTake, ~Waits(Head(incoming))
    PROVE  /\ router' = [at |-> "deliver", line |-> Head(incoming)]
           /\ UNCHANGED <<request, pending, resolved>>
BY DEF RouterTake

\* What moves along the queues in the steps that move a line.
LEMMA ReaderMoves ==
    ASSUME Queues, ReaderRead
    PROVE  /\ 1 \in DOMAIN stdout
           /\ \A p \in DOMAIN stdout' : /\ p \in Nat \ {0} /\ p + 1 \in DOMAIN stdout
                                        /\ stdout'[p] = stdout[p + 1]
           /\ \A p \in DOMAIN incoming' : \/ p \in DOMAIN incoming /\ incoming'[p] = incoming[p]
                                          \/ p = Len(incoming) + 1 /\ incoming'[p] = stdout[1]
<1>1. stdout # << >> /\ stdout' = Tail(stdout) /\ incoming' = Append(incoming, Head(stdout))
  BY DEF ReaderRead
<1>2. Head(stdout) \in Line /\ Head(stdout) = stdout[1]
  BY <1>1, TailTypes, TailOf DEF Queues
<1>3. /\ 1 \in DOMAIN stdout
      /\ \A p \in DOMAIN stdout' : /\ p \in Nat \ {0} /\ p + 1 \in DOMAIN stdout
                                   /\ stdout'[p] = stdout[p + 1]
  BY <1>1, TailOf, Zenon DEF Queues
<1>4. \A p \in DOMAIN incoming' : \/ p \in DOMAIN incoming /\ incoming'[p] = incoming[p]
                                  \/ p = Len(incoming) + 1 /\ incoming'[p] = Head(stdout)
  BY <1>1, <1>2, AppendTo, Zenon DEF Queues
<1> QED
  BY <1>2, <1>3, <1>4, Zenon

LEMMA RouterTakes ==
    ASSUME Queues, RouterTake
    PROVE  /\ 1 \in DOMAIN incoming /\ Head(incoming) = incoming[1]
           /\ \A p \in DOMAIN incoming' : /\ p \in Nat \ {0} /\ p + 1 \in DOMAIN incoming
                                          /\ incoming'[p] = incoming[p + 1]
<1>1. incoming # << >> /\ incoming' = Tail(incoming)
  BY DEF RouterTake
<1> QED
  BY <1>1, TailOf, Zenon DEF Queues

LEMMA PiWrites ==
    ASSUME Queues, NEW line \in Line, stdout' = Append(stdout, line)
    PROVE  \A p \in DOMAIN stdout' : \/ p \in DOMAIN stdout /\ stdout'[p] = stdout[p]
                                     \/ p = Len(stdout) + 1 /\ stdout'[p] = line
BY AppendTo, Zenon DEF Queues

LEMMA EventIsLine ==
    ASSUME Queues, PiEvent
    PROVE  EventLine(events + 1) \in Line /\ ~IsAnswer(EventLine(events + 1))
<1>1. events + 1 \in 1 .. MaxEvents
  BY DEF PiEvent, Queues
<1> QED
  BY <1>1, LineKinds

LEMMA EntriesStep ==
    ASSUME Maps, Entries, [Next]_bridgeVars
    PROVE  Entries'
<1> USE DEF Maps, Entries, NoDeadEntry
<1>1. ASSUME UNCHANGED <<request, pending, resolved>> PROVE Entries'
  BY <1>1
<1>2. ASSUME NEW r \in Request, RequestInsert(r) PROVE Entries'
  BY <1>2 DEF RequestInsert, RequestTo
<1>3. ASSUME NEW r \in Request, RequestEnqueue(r) \/ RequestDeadline(r) PROVE Entries'
  BY <1>3 DEF RequestEnqueue, RequestDeadline, RequestTo
<1>4. ASSUME NEW r \in Request, RequestRefused(r) \/ RequestExpire(r) PROVE Entries'
  BY <1>4 DEF RequestRefused, RequestExpire, RequestTo, Forget
<1>5. ASSUME NEW r \in Request, RequestResolved(r) PROVE Entries'
  BY <1>5 DEF RequestResolved, RequestTo
<1>6. ASSUME NEW m \in Notice, NoticeEnqueue(m) PROVE Entries'
  BY <1>1, <1>6 DEF NoticeEnqueue
<1>7. ASSUME NEW r \in Request, PiAnswer(r) PROVE Entries'
  BY <1>1, <1>7 DEF PiAnswer
<1>8. CASE WriterWrite \/ PiRead \/ PiEvent \/ PiClose
  BY <1>1, <1>8 DEF WriterWrite, PiRead, PiEvent, PiClose
<1>9. CASE Reader \/ RouterDeliver \/ PumpTake
  BY <1>1, <1>9 DEF Reader, ReaderRead, ReaderEnd, RouterDeliver, PumpTake
<1>10. CASE RouterTake
  <2>1. CASE Waits(Head(incoming))
    <3>1. PICK r : r = Head(incoming).id
      OBVIOUS
    <3>2. /\ r \in pending /\ pending' = pending \ {r} /\ UNCHANGED request
          /\ resolved' = [resolved EXCEPT ![r] = IF request[r] = "expire" THEN "no" ELSE "answered"]
      BY <1>10, <2>1, <3>1, TakeAnswer
    <3> QED
      BY <3>2
  <2>2. CASE ~Waits(Head(incoming))
    BY <1>1, <1>10, <2>2, TakeOther
  <2> QED
    BY <2>1, <2>2
<1>11. CASE RouterDrain
  BY <1>11 DEF RouterDrain, Resolve
<1>12. CASE UNCHANGED bridgeVars
  BY <1>1, <1>12 DEF bridgeVars
<1> QED
  <2> HIDE DEF Maps, Entries
  <2> QED
    BY <1>2, <1>3, <1>4, <1>5, <1>6, <1>7, <1>8, <1>9, <1>10, <1>11, <1>12
    DEF Next, RequestGoesOn, Router

\* A command that was begun stays begun.
LEMMA BegunStays ==
    ASSUME Maps, [Next]_bridgeVars, NEW c, Begun(c)
    PROVE  Begun(c)'
<1> USE DEF Maps, Begun
<1>1. ASSUME UNCHANGED request PROVE Begun(c)'
  BY <1>1
<1>2. ASSUME NEW r \in Request, RequestInsert(r) \/ RequestGoesOn(r) PROVE Begun(c)'
  BY <1>2 DEF RequestInsert, RequestGoesOn, RequestEnqueue, RequestDeadline, RequestRefused,
              RequestExpire, RequestResolved, RequestTo
<1>3. ASSUME NEW r \in Request, PiAnswer(r) PROVE Begun(c)'
  BY <1>1, <1>3 DEF PiAnswer
<1>4. ASSUME NEW m \in Notice, NoticeEnqueue(m) PROVE Begun(c)'
  BY <1>1, <1>4 DEF NoticeEnqueue
<1>5. CASE WriterWrite \/ PiRead \/ PiEvent \/ PiClose \/ PumpTake
  BY <1>1, <1>5 DEF WriterWrite, PiRead, PiEvent, PiClose, PumpTake
<1>6. CASE Reader \/ Router
  BY <1>1, <1>6 DEF Reader, ReaderRead, ReaderEnd, Router, RouterTake, RouterDeliver, RouterDrain
<1>7. CASE UNCHANGED bridgeVars
  BY <1>1, <1>7 DEF bridgeVars
<1> QED
  <2> HIDE DEF Maps, Begun
  <2> QED
    BY <1>2, <1>3, <1>4, <1>5, <1>6, <1>7 DEF Next

LEMMA CommandsStep ==
    ASSUME Queues, Maps, CommandsAreBegun, [Next]_bridgeVars
    PROVE  CommandsAreBegun'
<1>1. \A c : Begun(c) => Begun(c)'
  BY BegunStays
<1> USE DEF CommandsAreBegun
<1>2. ASSUME UNCHANGED <<outbound, stdin, heard>> PROVE CommandsAreBegun'
  BY <1>1, <1>2
<1>3. ASSUME NEW c \in Call, outbound' = Append(outbound, c), Begun(c)',
             UNCHANGED <<stdin, heard>>
      PROVE  CommandsAreBegun'
  <2>1. \A p \in DOMAIN outbound' : \/ p \in DOMAIN outbound /\ outbound'[p] = outbound[p]
                                    \/ outbound'[p] = c
    BY <1>3, AppendTo, Zenon DEF Queues
  <2> QED
    BY <1>1, <1>3, <2>1
<1>4. ASSUME NEW r \in Request, RequestEnqueue(r) PROVE CommandsAreBegun'
  <2>1. Begun(r)'
    BY <1>4 DEF RequestEnqueue, RequestTo, Maps, Begun
  <2> QED
    BY <1>3, <1>4, <2>1 DEF RequestEnqueue, Call
<1>5. ASSUME NEW r \in Request, \/ RequestInsert(r) \/ RequestRefused(r) \/ RequestResolved(r)
                                \/ RequestDeadline(r) \/ RequestExpire(r) \/ PiAnswer(r)
      PROVE  CommandsAreBegun'
  BY <1>2, <1>5 DEF RequestInsert, RequestRefused, RequestResolved, RequestDeadline,
                    RequestExpire, PiAnswer
<1>6. ASSUME NEW m \in Notice, NoticeEnqueue(m) PROVE CommandsAreBegun'
  <2>1. Begun(m)' /\ m \in Call
    BY CallAssumption DEF Begun, Call
  <2> QED
    BY <1>2, <1>3, <1>6, <2>1 DEF NoticeEnqueue
<1>7. CASE WriterWrite
  <2>1. CASE process = "open"
    <3>1. /\ outbound # << >> /\ outbound' = Tail(outbound) /\ stdin' = Append(stdin, Head(outbound))
          /\ UNCHANGED heard
      BY <1>7, <2>1 DEF WriterWrite
    <3>2. /\ Head(outbound) = outbound[1] /\ 1 \in DOMAIN outbound
          /\ \A p \in DOMAIN outbound' : p + 1 \in DOMAIN outbound /\ outbound'[p] = outbound[p + 1]
      BY <3>1, TailOf DEF Queues
    <3>3. Head(outbound) \in Call
      BY <3>1, TailTypes DEF Queues
    <3>4. \A p \in DOMAIN stdin' : \/ p \in DOMAIN stdin /\ stdin'[p] = stdin[p]
                                   \/ stdin'[p] = outbound[1]
      BY <3>1, <3>2, <3>3, AppendTo, Zenon DEF Queues
    <3> QED
      BY <1>1, <3>1, <3>2, <3>4
  <2>2. CASE process # "open"
    BY <1>1, <1>7, <2>2 DEF WriterWrite
  <2> QED
    BY <2>1, <2>2
<1>8. CASE PiRead
  <2>1. stdin # << >> /\ stdin' = Tail(stdin) /\ heard' = heard \cup ({Head(stdin)} \cap Request)
        /\ UNCHANGED outbound
    BY <1>8 DEF PiRead
  <2>2. /\ Head(stdin) = stdin[1] /\ 1 \in DOMAIN stdin
        /\ \A p \in DOMAIN stdin' : p + 1 \in DOMAIN stdin /\ stdin'[p] = stdin[p + 1]
    BY <2>1, TailOf DEF Queues
  <2>3. \A r \in heard' : r \in heard \/ r = stdin[1]
    BY <2>1, <2>2, Zenon
  <2> QED
    BY <1>1, <2>1, <2>2, <2>3
<1>9. CASE PiEvent \/ PiClose \/ PumpTake
  BY <1>2, <1>9 DEF PiEvent, PiClose, PumpTake
<1>10. CASE Reader \/ Router
  BY <1>2, <1>10 DEF Reader, ReaderRead, ReaderEnd, Router, RouterTake, RouterDeliver, RouterDrain
<1>11. CASE UNCHANGED bridgeVars
  BY <1>2, <1>11 DEF bridgeVars
<1> QED
  <2> HIDE DEF CommandsAreBegun
  <2> QED
    BY <1>4, <1>5, <1>6, <1>7, <1>8, <1>9, <1>10, <1>11 DEF Next, RequestGoesOn

LEMMA EndsStep ==
    ASSUME process \in {"open", "closed"}, Maps, EndsAfterPi, [Next]_bridgeVars
    PROVE  EndsAfterPi'
<1> USE DEF EndsAfterPi
<1>1. ASSUME NEW r \in Request, RequestInsert(r) \/ RequestEnqueue(r) \/ RequestDeadline(r)
                                \/ RequestExpire(r) \/ RequestRefused(r) \/ RequestResolved(r)
      PROVE  EndsAfterPi'
  BY <1>1 DEF RequestInsert, RequestEnqueue, RequestDeadline, RequestExpire, RequestRefused,
              RequestResolved, RequestTo, Maps
<1>2. ASSUME NEW m \in Notice, NoticeEnqueue(m) PROVE EndsAfterPi'
  BY <1>2 DEF NoticeEnqueue
<1>3. ASSUME NEW r \in Request, PiAnswer(r) PROVE EndsAfterPi'
  BY <1>3 DEF PiAnswer
<1>4. CASE WriterWrite
  <2>1. /\ writer' = writer \/ process = "closed"
        /\ UNCHANGED <<request, resolved, process, reader, stdout, router>>
    <3>1. process # "closed" => writer' = writer
      BY <1>4, Zenon DEF WriterWrite
    <3> QED
      BY <1>4, <3>1, Zenon DEF WriterWrite
  <2> QED
    BY <2>1
<1>5. CASE PiRead \/ PumpTake
  <2>1. UNCHANGED <<request, resolved, writer, process, reader, stdout, router>>
    BY <1>5, Zenon DEF PiRead, PumpTake
  <2> QED
    BY <2>1
<1>6. CASE PiEvent
  BY <1>6 DEF PiEvent
<1>7. CASE PiClose
  <2>1. process' = "closed" /\ UNCHANGED <<request, resolved, writer, reader, stdout, router>>
    BY <1>7 DEF PiClose
  <2> QED
    BY <2>1
<1>8. CASE ReaderRead \/ ReaderEnd
  BY <1>8 DEF ReaderRead, ReaderEnd
<1>9. CASE RouterTake
  <2>1. /\ router'.at # "ended"
        /\ UNCHANGED <<writer, process, reader, stdout, request>>
    <3>1. router.at = "next" /\ UNCHANGED <<writer, process, reader, stdout, request>>
      BY <1>9 DEF RouterTake
    <3> QED
      BY <1>9, <3>1, TakeAnswer, TakeOther
  <2>2. \A r \in Request : resolved'[r] = "closed" => resolved[r] = "closed"
    BY <1>9, TakeAnswer, TakeOther DEF Maps
  <2> QED
    BY <2>1, <2>2
<1>10. CASE RouterDeliver
  BY <1>10 DEF RouterDeliver
<1>11. CASE RouterDrain
  BY <1>11 DEF RouterDrain, Resolve
<1>12. CASE UNCHANGED bridgeVars
  BY <1>12 DEF bridgeVars
<1> QED
  <2> HIDE DEF EndsAfterPi
  <2> QED
    BY <1>1, <1>2, <1>3, <1>4, <1>5, <1>6, <1>7, <1>8, <1>9, <1>10, <1>11, <1>12
    DEF Next, RequestGoesOn, Reader, Router

LEMMA GivenStep ==
    ASSUME Queues, Maps, AnswersWereGiven, [Next]_bridgeVars
    PROVE  AnswersWereGiven'
<1> USE DEF AnswersWereGiven
<1>1. ASSUME UNCHANGED <<request, resolved, ran, stdout, incoming>> PROVE AnswersWereGiven'
  BY <1>1
<1>2. ASSUME NEW r \in Request, RequestInsert(r) \/ RequestGoesOn(r) PROVE AnswersWereGiven'
  <2>1. UNCHANGED <<resolved, ran, stdout, incoming>>
    BY <1>2, Zenon DEF RequestInsert, RequestGoesOn, RequestEnqueue, RequestDeadline, RequestExpire,
                       RequestRefused, RequestResolved
  <2>2. \A c \in Request : request'[c] = "answered" =>
            request[c] = "answered" \/ resolved[c] = "answered"
    BY <1>2 DEF RequestInsert, RequestGoesOn, RequestEnqueue, RequestDeadline, RequestExpire,
                RequestRefused, RequestResolved, RequestTo, Maps
  <2> QED
    BY <2>1, <2>2
<1>3. ASSUME NEW r \in Request, PiAnswer(r) PROVE AnswersWereGiven'
  <2>1. /\ ran' = ran \cup {r} /\ stdout' = Append(stdout, Answer(r))
        /\ UNCHANGED <<request, resolved, incoming>>
    BY <1>3 DEF PiAnswer
  <2>2. \A p \in DOMAIN stdout' : \/ p \in DOMAIN stdout /\ stdout'[p] = stdout[p]
                                  \/ stdout'[p] = Answer(r)
    BY <2>1, LineKinds, PiWrites, Zenon
  <2> QED
    BY <2>1, <2>2, LineKinds
<1>4. CASE PiEvent
  <2>1. stdout' = Append(stdout, EventLine(events + 1)) /\ UNCHANGED <<request, resolved, ran, incoming>>
    BY <1>4 DEF PiEvent
  <2>2. \A p \in DOMAIN stdout' : \/ p \in DOMAIN stdout /\ stdout'[p] = stdout[p]
                                  \/ ~IsAnswer(stdout'[p])
    BY <1>4, <2>1, EventIsLine, PiWrites, Zenon
  <2> QED
    BY <2>1, <2>2
<1>5. CASE ReaderRead
  <2>1. UNCHANGED <<request, resolved, ran>>
    BY <1>5 DEF ReaderRead
  <2> QED
    BY <1>5, <2>1, ReaderMoves
<1>6. CASE RouterTake
  <2>1. UNCHANGED <<request, ran, stdout>>
    BY <1>6 DEF RouterTake
  <2>2. \A p \in DOMAIN incoming' : IsAnswer(incoming'[p]) => incoming'[p].id \in ran
    BY <1>6, RouterTakes
  <2>3. \A r \in Request : resolved'[r] = "answered" => r \in ran
    <3>1. CASE Waits(Head(incoming))
      <4>1. PICK r : r = Head(incoming).id
        OBVIOUS
      <4>2. /\ resolved' = [resolved EXCEPT ![r] = IF request[r] = "expire" THEN "no" ELSE "answered"]
            /\ IsAnswer(Head(incoming))
        BY <1>6, <3>1, <4>1, TakeAnswer
      <4>3. r \in ran
        BY <1>6, <4>1, <4>2, RouterTakes
      <4> QED
        BY <4>2, <4>3 DEF Maps
    <3>2. CASE ~Waits(Head(incoming))
      BY <1>6, <3>2, TakeOther
    <3> QED
      BY <3>1, <3>2
  <2> QED
    BY <2>1, <2>2, <2>3
<1>7. CASE RouterDrain
  BY <1>7 DEF RouterDrain, Resolve
<1>8. ASSUME NEW m \in Notice, NoticeEnqueue(m) PROVE AnswersWereGiven'
  BY <1>1, <1>8 DEF NoticeEnqueue
<1>9. CASE WriterWrite \/ PiRead \/ PiClose \/ ReaderEnd \/ RouterDeliver \/ PumpTake
  BY <1>1, <1>9 DEF WriterWrite, PiRead, PiClose, ReaderEnd, RouterDeliver, PumpTake
<1>10. CASE UNCHANGED bridgeVars
  BY <1>1, <1>10 DEF bridgeVars
<1> QED
  <2> HIDE DEF AnswersWereGiven
  <2> QED
    BY <1>2, <1>3, <1>4, <1>5, <1>6, <1>7, <1>8, <1>9, <1>10 DEF Next, Reader, Router

LEMMA OnceStep ==
    ASSUME Queues, Maps, AnswersWereGiven, AnswersAreOnce, [Next]_bridgeVars
    PROVE  AnswersAreOnce'
<1>0. /\ Len(incoming) + 1 \notin DOMAIN incoming
      /\ Len(stdout) + 1 \notin DOMAIN stdout
  BY DEF Queues
<1> USE DEF AnswersAreOnce, Once, Apart
<1>1. ASSUME UNCHANGED <<stdout, incoming>> PROVE AnswersAreOnce'
  BY <1>1
<1>2. ASSUME NEW r \in Request, PiAnswer(r) PROVE AnswersAreOnce'
  <2>1. stdout' = Append(stdout, Answer(r)) /\ UNCHANGED incoming /\ r \notin ran
    BY <1>2 DEF PiAnswer
  <2>2. \A p \in DOMAIN stdout' : \/ p \in DOMAIN stdout /\ stdout'[p] = stdout[p]
                                  \/ p = Len(stdout) + 1 /\ stdout'[p] = Answer(r)
    BY <2>1, LineKinds, PiWrites, Zenon
  <2>3. /\ \A p \in DOMAIN stdout : stdout[p] # Answer(r)
        /\ \A p \in DOMAIN incoming : incoming[p] # Answer(r)
    BY <2>1, LineKinds DEF AnswersWereGiven
  <2> QED
    <3>1. Once(stdout)'
      <4> SUFFICES ASSUME NEW p \in DOMAIN stdout', NEW q \in DOMAIN stdout',
                          IsAnswer(stdout'[p]), stdout'[p] = stdout'[q]
                   PROVE  p = q
        OBVIOUS
      <4>1. CASE p \in DOMAIN stdout /\ stdout'[p] = stdout[p]
        BY <2>2, <2>3, <4>1, Zenon
      <4>2. CASE p = Len(stdout) + 1 /\ stdout'[p] = Answer(r)
        BY <2>2, <2>3, <4>2, Zenon
      <4> QED
        BY <2>2, <4>1, <4>2, Zenon
    <3>2. incoming' = incoming
      BY <2>1
    <3>3. Apart(incoming, stdout)'
      BY <2>2, <2>3, <3>2, Zenon
    <3> QED
      BY <3>1, <3>2, <3>3
<1>3. CASE PiEvent
  <2>1. stdout' = Append(stdout, EventLine(events + 1)) /\ UNCHANGED incoming
    BY <1>3 DEF PiEvent
  <2>2. \A p \in DOMAIN stdout' : \/ p \in DOMAIN stdout /\ stdout'[p] = stdout[p]
                                  \/ ~IsAnswer(stdout'[p])
    BY <1>3, <2>1, EventIsLine, PiWrites, Zenon
  <2>3. Once(stdout)'
    <3> SUFFICES ASSUME NEW p \in DOMAIN stdout', NEW q \in DOMAIN stdout',
                        IsAnswer(stdout'[p]), stdout'[p] = stdout'[q]
                 PROVE  p = q
      OBVIOUS
    <3>1. /\ p \in DOMAIN stdout /\ stdout'[p] = stdout[p]
          /\ q \in DOMAIN stdout /\ stdout'[q] = stdout[q]
      BY <2>2, Zenon
    <3> QED
      BY <3>1, Zenon
  <2>4. incoming' = incoming
    BY <2>1
  <2>5. Apart(incoming, stdout)'
    BY <2>2, <2>4, Zenon
  <2> QED
    BY <2>3, <2>4, <2>5
<1>4. CASE ReaderRead
  <2>1. \A p \in DOMAIN stdout' : /\ p + 1 \in DOMAIN stdout /\ p + 1 # 1
                                  /\ stdout'[p] = stdout[p + 1]
    BY <1>4, ReaderMoves
  <2>2. \A p, q \in DOMAIN stdout' : p + 1 = q + 1 => p = q
    BY <1>4, ReaderMoves
  <2>3. 1 \in DOMAIN stdout
    BY <1>4, ReaderMoves
  <2>4. \A p \in DOMAIN incoming' : \/ p \in DOMAIN incoming /\ incoming'[p] = incoming[p]
                                    \/ p = Len(incoming) + 1 /\ incoming'[p] = stdout[1]
    BY <1>4, ReaderMoves
  <2>5. Once(stdout)'
    BY <2>1, <2>2, Zenon
  <2>6. Once(incoming)'
    <3> SUFFICES ASSUME NEW p \in DOMAIN incoming', NEW q \in DOMAIN incoming',
                        IsAnswer(incoming'[p]), incoming'[p] = incoming'[q]
                 PROVE  p = q
      OBVIOUS
    <3>1. CASE p \in DOMAIN incoming /\ incoming'[p] = incoming[p]
      BY <2>3, <2>4, <3>1, Zenon
    <3>2. CASE p = Len(incoming) + 1 /\ incoming'[p] = stdout[1]
      BY <2>3, <2>4, <3>2, Zenon
    <3> QED
      BY <2>4, <3>1, <3>2, Zenon
  <2>7. Apart(incoming, stdout)'
    <3> SUFFICES ASSUME NEW p \in DOMAIN incoming', NEW q \in DOMAIN stdout',
                        IsAnswer(incoming'[p]), incoming'[p] = stdout'[q]
                 PROVE  FALSE
      OBVIOUS
    <3>1. q + 1 \in DOMAIN stdout /\ q + 1 # 1 /\ stdout'[q] = stdout[q + 1]
      BY <2>1
    <3>2. CASE p \in DOMAIN incoming /\ incoming'[p] = incoming[p]
      BY <3>1, <3>2, Zenon
    <3>3. CASE incoming'[p] = stdout[1]
      BY <2>3, <3>1, <3>3, Zenon
    <3> QED
      BY <2>4, <3>2, <3>3, Zenon
  <2> QED
    BY <2>5, <2>6, <2>7
<1>5. CASE RouterTake
  <2>1. /\ \A p \in DOMAIN incoming' : p + 1 \in DOMAIN incoming /\ incoming'[p] = incoming[p + 1]
        /\ UNCHANGED stdout
    BY <1>5, RouterTakes DEF RouterTake
  <2>2. \A p, q \in DOMAIN incoming' : p + 1 = q + 1 => p = q
    BY <1>5, RouterTakes
  <2> QED
    BY <2>1, <2>2, Zenon
<1>6. ASSUME NEW r \in Request, RequestInsert(r) \/ RequestGoesOn(r) PROVE AnswersAreOnce'
  BY <1>1, <1>6, Zenon
  DEF RequestInsert, RequestGoesOn, RequestEnqueue, RequestDeadline, RequestExpire,
      RequestRefused, RequestResolved
<1>7. ASSUME NEW m \in Notice, NoticeEnqueue(m) PROVE AnswersAreOnce'
  BY <1>1, <1>7 DEF NoticeEnqueue
<1>8. CASE \/ WriterWrite \/ PiRead \/ PiClose \/ ReaderEnd \/ RouterDeliver \/ RouterDrain
           \/ PumpTake
  BY <1>1, <1>8, Zenon
  DEF WriterWrite, PiRead, PiClose, ReaderEnd, RouterDeliver, RouterDrain, PumpTake
<1>9. CASE UNCHANGED bridgeVars
  BY <1>1, <1>9 DEF bridgeVars
<1> QED
  <2> HIDE DEF AnswersAreOnce
  <2> QED
    BY <1>2, <1>3, <1>4, <1>5, <1>6, <1>7, <1>8, <1>9 DEF Next, Reader, Router

\* A request that timed out stays so.
LEMMA LateStays ==
    ASSUME Maps, [Next]_bridgeVars, NEW c \in Request, request[c] = "timed out"
    PROVE  request'[c] = "timed out"
<1>1. CASE UNCHANGED request
  BY <1>1
<1>2. ASSUME NEW r \in Request, RequestInsert(r) \/ RequestGoesOn(r) PROVE request'[c] = "timed out"
  BY <1>2 DEF RequestInsert, RequestGoesOn, RequestEnqueue, RequestDeadline, RequestRefused,
              RequestExpire, RequestResolved, RequestTo, Maps
<1>3. ASSUME NEW r \in Request, PiAnswer(r) PROVE UNCHANGED request
  BY <1>3 DEF PiAnswer
<1>4. ASSUME NEW m \in Notice, NoticeEnqueue(m) PROVE UNCHANGED request
  BY <1>4 DEF NoticeEnqueue
<1>5. CASE WriterWrite \/ PiRead \/ PiEvent \/ PiClose \/ PumpTake \/ Reader \/ Router
  BY <1>1, <1>5 DEF WriterWrite, PiRead, PiEvent, PiClose, PumpTake,
                    Reader, ReaderRead, ReaderEnd, Router, RouterTake, RouterDeliver, RouterDrain
<1>6. CASE UNCHANGED bridgeVars
  BY <1>1, <1>6 DEF bridgeVars
<1> QED
  BY <1>1, <1>2, <1>3, <1>4, <1>5, <1>6 DEF Next

LEMMA AwaitedStep ==
    ASSUME Queues, Maps, Entries, CommandsAreBegun, AnswersWereGiven, EndsAfterPi,
           AnswersAreOnce, AnswersAreAwaited, [Next]_bridgeVars
    PROVE  AnswersAreAwaited'
<1> USE DEF AnswersAreAwaited, AwaitedOrLate
<1>1. ASSUME UNCHANGED <<ran, stdout, incoming, router>>,
             \A c \in ran : Kept(c) => Kept(c)',
             \A c \in Request \ ran :
                 request'[c] \in {"enqueue", "wait", "expire"} =>
                     c \in pending' \/ (request[c] \in {"enqueue", "wait", "expire"} /\ c \notin pending)
      PROVE  AnswersAreAwaited'
  <2>1. /\ \A p \in DOMAIN stdout : AwaitedOrLate(stdout[p])'
        /\ \A p \in DOMAIN incoming : AwaitedOrLate(incoming[p])'
    BY <1>1, Zenon DEF AnswersWereGiven
  <2> QED
    BY <1>1, <2>1
<1>2. ASSUME UNCHANGED <<request, pending, ran, stdout, incoming, router>>
      PROVE  AnswersAreAwaited'
  BY <1>2 DEF Kept
<1>3. ASSUME NEW r \in Request, RequestInsert(r) PROVE AnswersAreAwaited'
  <2>1. /\ pending' = pending \cup {r} /\ request' = [request EXCEPT ![r] = "enqueue"]
        /\ request[r] = "new" /\ UNCHANGED <<ran, stdout, incoming, router>>
    BY <1>3 DEF RequestInsert, RequestTo
  <2>2. \A c \in ran : Kept(c) => Kept(c)'
    BY <2>1 DEF Kept, Maps
  <2> QED
    BY <1>1, <2>1, <2>2 DEF Maps
<1>4. ASSUME NEW r \in Request, RequestEnqueue(r) \/ RequestDeadline(r) \/ RequestResolved(r)
      PROVE  AnswersAreAwaited'
  <2>1. PICK at \in {"wait", "expire", "answered", "closed"} : request' = [request EXCEPT ![r] = at]
    BY <1>4 DEF RequestEnqueue, RequestDeadline, RequestResolved, RequestTo, Maps
  <2>2. request[r] \in {"enqueue", "wait"} /\ UNCHANGED <<pending, ran, stdout, incoming, router>>
    BY <1>4, Zenon DEF RequestEnqueue, RequestDeadline, RequestResolved
  <2>3. \A c \in ran : Kept(c) => Kept(c)'
    BY <2>1, <2>2 DEF Kept, Maps
  <2> QED
    BY <1>1, <2>1, <2>2, <2>3 DEF Maps
<1>5. ASSUME NEW r \in Request, RequestRefused(r) \/ RequestExpire(r) PROVE AnswersAreAwaited'
  <2>1. /\ \/ request' = [request EXCEPT ![r] = "timed out"]
           \/ request[r] = "enqueue" /\ request' = [request EXCEPT ![r] = "closed"]
        /\ pending' = pending \ {r} /\ UNCHANGED <<ran, stdout, incoming, router>>
    BY <1>5 DEF RequestRefused, RequestExpire, RequestTo, Forget
  <2>2. request[r] = "enqueue" => r \notin ran
    BY DEF CommandsAreBegun, Begun, Maps
  <2>3. \A c \in ran : Kept(c) => Kept(c)'
    BY <2>1, <2>2 DEF Kept, Maps
  <2> QED
    BY <1>1, <2>1, <2>3 DEF Maps
<1>6. ASSUME NEW r \in Request, PiAnswer(r) PROVE AnswersAreAwaited'
  <2>1. /\ process = "open" /\ r \in heard \ ran /\ ran' = ran \cup {r}
        /\ stdout' = Append(stdout, Answer(r))
        /\ UNCHANGED <<request, pending, incoming, router>>
    BY <1>6 DEF PiAnswer
  <2>2. router.at # "ended" /\ request[r] \notin {"new", "enqueue", "answered", "closed"}
    BY <2>1 DEF EndsAfterPi, AnswersWereGiven, CommandsAreBegun, Begun
  <2>3. Kept(r)
    BY <2>1, <2>2 DEF Kept, Maps
  <2>4. \A p \in DOMAIN stdout' : \/ p \in DOMAIN stdout /\ stdout'[p] = stdout[p]
                                  \/ stdout'[p] = Answer(r)
    BY <2>1, LineKinds, PiWrites, Zenon
  <2>5. \A p \in DOMAIN stdout' :
            IsAnswer(stdout'[p]) => stdout'[p].id \in pending \/ request[stdout'[p].id] = "timed out"
    <3>1. Answer(r).id = r
      BY LineKinds
    <3> QED
      BY <2>3, <2>4, <3>1, Zenon DEF Kept
  <2>6. ran' = ran \cup {r} /\ UNCHANGED <<request, pending, incoming, router>>
    BY <2>1
  <2> QED
    BY <2>5, <2>6 DEF Kept
<1>7. CASE PiEvent
  <2>1. /\ stdout' = Append(stdout, EventLine(events + 1))
        /\ UNCHANGED <<request, pending, ran, incoming, router>>
    BY <1>7 DEF PiEvent
  <2>2. \A p \in DOMAIN stdout' : \/ p \in DOMAIN stdout /\ stdout'[p] = stdout[p]
                                  \/ ~IsAnswer(stdout'[p])
    BY <1>7, <2>1, EventIsLine, PiWrites, Zenon
  <2> QED
    BY <2>1, <2>2 DEF Kept
<1>8. CASE ReaderRead
  <2>1. UNCHANGED <<request, pending, ran, router>>
    BY <1>8 DEF ReaderRead
  <2> QED
    <3>1. \A p \in DOMAIN stdout' : p + 1 \in DOMAIN stdout /\ stdout'[p] = stdout[p + 1]
      BY <1>8, ReaderMoves
    <3>2. \A p \in DOMAIN incoming' : \/ p \in DOMAIN incoming /\ incoming'[p] = incoming[p]
                                      \/ 1 \in DOMAIN stdout /\ incoming'[p] = stdout[1]
      BY <1>8, ReaderMoves
    <3>3. \A p \in DOMAIN incoming' : AwaitedOrLate(incoming[p])'
      BY <2>1, <3>2 DEF Kept
    <3>4. \A p \in DOMAIN stdout' : AwaitedOrLate(stdout[p])'
      <4>1. \A line : AwaitedOrLate(line) =>
                (IsAnswer(line) => line.id \in pending' \/ request'[line.id] = "timed out")
        BY <2>1, <3>1 DEF Kept
      <4>2. \A p \in DOMAIN stdout' : AwaitedOrLate(stdout'[p])
        BY <2>1, <3>1, Zenon
      <4> QED
        BY <4>1, <4>2, Zenon DEF Kept
    <3> QED
      BY <2>1, <3>3, <3>4
<1>9. CASE RouterTake
  <2>1. UNCHANGED <<request, ran, stdout>> /\ router.at = "next"
    BY <1>9 DEF RouterTake
  <2>2. CASE Waits(Head(incoming))
    <3>1. PICK r : r = Head(incoming).id
      OBVIOUS
    <3>2. pending' = pending \ {r} /\ IsAnswer(Head(incoming)) /\ UNCHANGED router
      BY <1>9, <2>2, <3>1, TakeAnswer
    <3>3. 1 \in DOMAIN incoming /\ Head(incoming) = incoming[1]
      BY <1>9, RouterTakes
    <3>4. r \in ran
      BY <3>1, <3>2, <3>3 DEF AnswersWereGiven
    <3>5. incoming[1] = Answer(r)
      BY <3>1, <3>2, <3>3, LineKinds DEF Queues
    <3>6. /\ \A p \in DOMAIN incoming' : AwaitedOrLate(incoming[p])'
          /\ \A p \in DOMAIN stdout' : AwaitedOrLate(stdout[p])'
      <4>1. \A p \in DOMAIN stdout : IsAnswer(stdout[p]) => stdout[p] = Answer(stdout[p].id)
        BY LineKinds DEF Queues
      <4>2. \A p \in DOMAIN incoming : IsAnswer(incoming[p]) => incoming[p] = Answer(incoming[p].id)
        BY LineKinds DEF Queues
      <4>3. \A p \in DOMAIN stdout : IsAnswer(stdout[p]) => stdout[p].id # r
        BY <3>2, <3>3, <3>5, <4>1 DEF AnswersAreOnce, Apart
      <4>4. \A p \in DOMAIN incoming : IsAnswer(incoming[p]) /\ p # 1 => incoming[p].id # r
        BY <3>2, <3>3, <3>5, <4>2 DEF AnswersAreOnce, Once
      <4>5. \A p \in DOMAIN incoming' : /\ p + 1 \in DOMAIN incoming /\ p + 1 # 1
                                        /\ incoming'[p] = incoming[p + 1]
        BY <1>9, RouterTakes
      <4>6. \A line : AwaitedOrLate(line) /\ (IsAnswer(line) => line.id # r) =>
                (IsAnswer(line) => line.id \in pending' \/ request'[line.id] = "timed out")
        BY <2>1, <3>2 DEF Kept
      <4>7. \A p \in DOMAIN stdout' :
                AwaitedOrLate(stdout'[p]) /\ (IsAnswer(stdout'[p]) => stdout'[p].id # r)
        BY <2>1, <4>3, Zenon
      <4>8. \A p \in DOMAIN incoming' :
                AwaitedOrLate(incoming'[p]) /\ (IsAnswer(incoming'[p]) => incoming'[p].id # r)
        BY <4>4, <4>5, Zenon
      <4> QED
        BY <4>6, <4>7, <4>8, Zenon DEF Kept
    <3>7. \A c \in Request \ ran' :
              request'[c] \in {"enqueue", "wait", "expire"} /\ router'.at # "ended" => c \in pending'
      BY <2>1, <3>2, <3>4
    <3> QED
      BY <3>6, <3>7
  <2>3. CASE ~Waits(Head(incoming))
    <3>1. UNCHANGED <<request, pending>>
      BY <1>9, <2>3, TakeOther
    <3>2. \A line : AwaitedOrLate(line) =>
              (IsAnswer(line) => line.id \in pending' \/ request'[line.id] = "timed out")
      BY <2>1, <3>1 DEF Kept
    <3>3. \A p \in DOMAIN incoming' : AwaitedOrLate(incoming'[p])
      BY <1>9, RouterTakes, Zenon
    <3>4. \A p \in DOMAIN stdout' : AwaitedOrLate(stdout'[p])
      BY <2>1, Zenon
    <3>5. \A c \in Request \ ran' :
              request'[c] \in {"enqueue", "wait", "expire"} /\ router'.at # "ended" => c \in pending'
      BY <2>1, <3>1
    <3> QED
      BY <3>2, <3>3, <3>4, <3>5, Zenon DEF Kept
  <2> QED
    BY <2>2, <2>3
<1>10. CASE RouterDrain
  <2>1. incoming = << >> /\ stdout = << >> /\ UNCHANGED <<incoming, stdout>>
    BY <1>10 DEF RouterDrain, EndsAfterPi
  <2>2. router'.at = "ended"
    BY <1>10 DEF RouterDrain
  <2> QED
    BY <2>1, <2>2
<1>11. CASE RouterDeliver
  <2>1. UNCHANGED <<request, pending, ran, stdout, incoming>> /\ router.at # "ended"
    BY <1>11 DEF RouterDeliver
  <2> QED
    BY <2>1 DEF Kept
<1>12. ASSUME NEW m \in Notice, NoticeEnqueue(m) PROVE AnswersAreAwaited'
  BY <1>2, <1>12 DEF NoticeEnqueue
<1>13. CASE WriterWrite \/ PiRead \/ PiClose \/ ReaderEnd \/ PumpTake
  BY <1>2, <1>13, Zenon DEF WriterWrite, PiRead, PiClose, ReaderEnd, PumpTake
<1>14. CASE UNCHANGED bridgeVars
  BY <1>2, <1>14 DEF bridgeVars
<1> QED
  <2> HIDE DEF AnswersAreAwaited
  <2> QED
    BY <1>3, <1>4, <1>5, <1>6, <1>7, <1>8, <1>9, <1>10, <1>11, <1>12, <1>13, <1>14
    DEF Next, RequestGoesOn, Reader, Router

LEMMA StraysStep ==
    ASSUME Queues, Others, Maps, AnswersAreAwaited, StraysAreLate, [Next]_bridgeVars
    PROVE  StraysAreLate'
<1>1. \A line \in Line : Late(line) => (IsAnswer(line) => request'[line.id] = "timed out")
  BY LateStays, LineKinds DEF Late
<1>2. /\ \A p \in DOMAIN taken : taken[p] \in Line
      /\ \A p \in DOMAIN frames : frames[p] \in Line
      /\ \A p \in DOMAIN incoming : incoming[p] \in Line
      /\ router.at = "deliver" => router.line \in Line
  BY RouterHoldsLine DEF Queues
<1> DEFINE Fresh == /\ \A p \in DOMAIN taken' : taken'[p] \in Line /\ Late(taken'[p])
                    /\ \A p \in DOMAIN frames' : frames'[p] \in Line /\ Late(frames'[p])
                    /\ router'.at = "deliver" => router'.line \in Line /\ Late(router'.line)
<1>3. SUFFICES Fresh
  BY <1>1, Zenon DEF StraysAreLate, Late
<1>4. ASSUME UNCHANGED <<taken, frames, router>> PROVE Fresh
  BY <1>2, <1>4, Zenon DEF StraysAreLate
<1>5. CASE RouterTake
  <2>1. UNCHANGED <<taken, frames>> /\ router.at = "next"
    BY <1>5 DEF RouterTake
  <2>2. Head(incoming) = incoming[1] /\ 1 \in DOMAIN incoming
    BY <1>5, RouterTakes
  <2>3. CASE Waits(Head(incoming))
    BY <1>4, <1>5, <2>1, <2>3, TakeAnswer
  <2>4. CASE ~Waits(Head(incoming))
    <3>1. router' = [at |-> "deliver", line |-> incoming[1]]
      BY <1>5, <2>2, <2>4, TakeOther
    <3>2. incoming[1] \in Line /\ Late(incoming[1])
      BY <1>2, <2>2, <2>4 DEF AnswersAreAwaited, AwaitedOrLate, Kept, Waits, Late
    <3>3. /\ \A p \in DOMAIN taken' : taken'[p] \in Line /\ Late(taken'[p])
          /\ \A p \in DOMAIN frames' : frames'[p] \in Line /\ Late(frames'[p])
      BY <1>2, <2>1, Zenon DEF StraysAreLate
    <3>4. router'.line \in Line /\ Late(router'.line)
      BY <3>1, <3>2
    <3> QED
      BY <3>3, <3>4
  <2> QED
    BY <2>3, <2>4
<1>6. CASE RouterDeliver
  <2>1. /\ router.at = "deliver" /\ frames' = Append(frames, router.line) /\ UNCHANGED taken
        /\ router'.at = "next"
    BY <1>6 DEF RouterDeliver
  <2>2. \A p \in DOMAIN frames' : \/ p \in DOMAIN frames /\ frames'[p] = frames[p]
                                  \/ frames'[p] = router.line
    BY <1>2, <2>1, AppendTo, Zenon DEF Queues
  <2>3. \A p \in DOMAIN frames' : frames'[p] \in Line /\ Late(frames'[p])
    BY <1>2, <2>1, <2>2, Zenon DEF StraysAreLate
  <2>4. \A p \in DOMAIN taken' : taken'[p] \in Line /\ Late(taken'[p])
    BY <1>2, <2>1, Zenon DEF StraysAreLate
  <2> QED
    BY <2>1, <2>3, <2>4
<1>7. CASE PumpTake
  <2>1. frames # << >> /\ taken' = Append(taken, Head(frames)) /\ frames' = Tail(frames) /\ UNCHANGED router
    BY <1>7 DEF PumpTake
  <2>2. /\ Head(frames) = frames[1] /\ 1 \in DOMAIN frames
        /\ \A p \in DOMAIN frames' : p + 1 \in DOMAIN frames /\ frames'[p] = frames[p + 1]
    BY <2>1, TailOf DEF Queues
  <2>3. \A p \in DOMAIN taken' : \/ p \in DOMAIN taken /\ taken'[p] = taken[p]
                                 \/ taken'[p] = frames[1]
    <3>1. taken' = Append(taken, frames[1]) /\ frames[1] \in Line
      BY <1>2, <2>1, <2>2, Zenon
    <3> QED
      BY <3>1, AppendTo, Zenon DEF Queues
  <2>4. \A p \in DOMAIN taken' : taken'[p] \in Line /\ Late(taken'[p])
    BY <1>2, <2>2, <2>3, Zenon DEF StraysAreLate
  <2>5. \A p \in DOMAIN frames' : frames'[p] \in Line /\ Late(frames'[p])
    BY <1>2, <2>2, Zenon DEF StraysAreLate
  <2> QED
    BY <1>2, <2>1, <2>4, <2>5, Zenon DEF StraysAreLate
<1>8. CASE RouterDrain
  <2>1. UNCHANGED <<taken, frames>> /\ router' = [at |-> "ended"]
    BY <1>8 DEF RouterDrain
  <2>2. router'.at # "deliver"
    BY <2>1
  <2> QED
    BY <1>2, <2>1, <2>2, Zenon DEF StraysAreLate
<1>9. ASSUME NEW r \in Request, RequestInsert(r) \/ RequestGoesOn(r) \/ PiAnswer(r) PROVE Fresh
  BY <1>4, <1>9, Zenon
  DEF RequestInsert, RequestGoesOn, RequestEnqueue, RequestDeadline, RequestExpire,
      RequestRefused, RequestResolved, PiAnswer
<1>10. ASSUME NEW m \in Notice, NoticeEnqueue(m) PROVE Fresh
  BY <1>4, <1>10, Zenon DEF NoticeEnqueue
<1>11. CASE WriterWrite \/ PiRead \/ PiEvent \/ PiClose \/ Reader
  BY <1>4, <1>11, Zenon DEF WriterWrite, PiRead, PiEvent, PiClose, Reader, ReaderRead, ReaderEnd
<1>12. CASE UNCHANGED bridgeVars
  BY <1>4, <1>12 DEF bridgeVars
<1> QED
  <2> HIDE DEF Fresh
  <2> QED
    BY <1>5, <1>6, <1>7, <1>8, <1>9, <1>10, <1>11, <1>12 DEF Next, Router

-----------------------------------------------------------------------------
(* The invariant and what follows from it                                    *)

LEMMA InitInvariant == Init => BridgeInvariant
<1> SUFFICES ASSUME Init PROVE BridgeInvariant
  OBVIOUS
<1>1. TypeOK
  BY InitTypes
<1>2. Entries /\ CommandsAreBegun /\ AnswersWereGiven /\ EndsAfterPi
  <2>1. /\ request = [r \in Request |-> "new"] /\ resolved = [r \in Request |-> "no"]
        /\ pending = {} /\ heard = {} /\ writer = "running" /\ reader = "running"
        /\ router.at = "next"
        /\ DOMAIN outbound = {} /\ DOMAIN stdin = {} /\ DOMAIN stdout = {} /\ DOMAIN incoming = {}
    BY DEF Init
  <2> QED
    BY <2>1 DEF Entries, NoDeadEntry, CommandsAreBegun, AnswersWereGiven, EndsAfterPi
<1>3. AnswersAreOnce /\ AnswersAreAwaited /\ StraysAreLate
  BY DEF Init, AnswersAreOnce, Once, Apart, AnswersAreAwaited, StraysAreLate
<1> QED
  BY <1>1, <1>2, <1>3 DEF BridgeInvariant

LEMMA NextInvariant == BridgeInvariant /\ [Next]_bridgeVars => BridgeInvariant'
<1> SUFFICES ASSUME BridgeInvariant, [Next]_bridgeVars PROVE BridgeInvariant'
  OBVIOUS
<1> USE DEF BridgeInvariant
<1>1. Queues /\ Others /\ Maps /\ process \in {"open", "closed"}
  <2>1. Queues /\ Others
    BY TypesSplit
  <2> QED
    BY <2>1, MapTypes, Zenon DEF TypeOK
<1>2. TypeOK'
  BY NextTypes
<1>3. Entries' /\ CommandsAreBegun' /\ AnswersWereGiven' /\ EndsAfterPi'
  BY <1>1, EntriesStep, CommandsStep, GivenStep, EndsStep
<1>4. AnswersAreOnce' /\ AnswersAreAwaited' /\ StraysAreLate'
  BY <1>1, OnceStep, AwaitedStep, StraysStep
<1> QED
  BY <1>2, <1>3, <1>4

\* The inductive invariant holds of the bridge, whatever its calls and capacities.
THEOREM BridgeInvariantHolds == Spec => []BridgeInvariant
BY InitInvariant, NextInvariant, PTL DEF Spec, SafeSpec

\* The types, and with them that no queue ever holds more than its capacity.
THEOREM BridgeTypes == Spec => []TypeOK
<1>1. BridgeInvariant => TypeOK
  BY DEF BridgeInvariant
<1> QED
  BY <1>1, BridgeInvariantHolds, PTL

\* No request that is over keeps its entry in the pending map: the answer, the
\* deadline, the refusal and the drain each take it out, in whatever order they
\* come.
THEOREM EntriesAreAlive == Spec => []NoDeadEntry
<1>1. BridgeInvariant => NoDeadEntry
  BY DEF BridgeInvariant, Entries
<1> QED
  BY <1>1, BridgeInvariantHolds, PTL

LEMMA SurfacedIsLate == BridgeInvariant => StrayAnswersAreLate
<1> SUFFICES ASSUME BridgeInvariant PROVE StrayAnswersAreLate
  OBVIOUS
<1>1. Queues /\ Others
  BY TypesSplit DEF BridgeInvariant
<1> DEFINE held == IF router.at = "deliver" THEN <<router.line>> ELSE << >>
<1>2. taken \in Seq(Line) /\ frames \in Seq(Line)
  BY <1>1 DEF Queues
<1>3. held \in Seq(Line) /\ \A p \in DOMAIN held : Late(held[p])
  BY <1>1, RouterHoldsLine DEF BridgeInvariant, StraysAreLate
<1> HIDE DEF held
<1>4. ASSUME NEW s \in Seq(Line), NEW t \in Seq(Line),
             \A p \in DOMAIN s : Late(s[p]), \A p \in DOMAIN t : Late(t[p])
      PROVE  s \o t \in Seq(Line) /\ \A p \in DOMAIN (s \o t) : Late((s \o t)[p])
  <2>1. /\ s \o t \in Seq(Line) /\ DOMAIN (s \o t) = 1 .. Len(s) + Len(t)
        /\ DOMAIN s = 1 .. Len(s) /\ DOMAIN t = 1 .. Len(t) /\ Len(s) \in Nat /\ Len(t) \in Nat
    BY ConcatProperties
  <2>2. ASSUME NEW p \in 1 .. Len(s) + Len(t) PROVE Late((s \o t)[p])
    <3>1. (s \o t)[p] = IF p <= Len(s) THEN s[p] ELSE t[p - Len(s)]
      BY ConcatProperties
    <3>2. CASE p <= Len(s)
      <4>1. p \in DOMAIN s
        BY <2>1, <3>2
      <4> QED
        BY <1>4, <3>1, <3>2, <4>1
    <3>3. CASE ~(p <= Len(s))
      <4>1. p - Len(s) \in DOMAIN t
        BY <2>1, <3>3
      <4> QED
        BY <1>4, <3>1, <3>3, <4>1
    <3> QED
      BY <3>2, <3>3
  <2> QED
    BY <2>1, <2>2
<1>5. /\ taken \o frames \in Seq(Line)
      /\ \A p \in DOMAIN (taken \o frames) : Late((taken \o frames)[p])
  BY <1>2, <1>4 DEF BridgeInvariant, StraysAreLate
<1>6. \A p \in DOMAIN (taken \o frames \o held) : Late((taken \o frames \o held)[p])
  BY <1>3, <1>4, <1>5
<1>7. Surfaced = taken \o frames \o held
  BY DEF Surfaced, held
<1> QED
  BY <1>6, <1>7 DEF StrayAnswersAreLate, Late

\* An answer reaches the event pump only when its request has timed out, never
\* because it came before its entry was in the map.
THEOREM NoEarlyAnswer == Spec => []StrayAnswersAreLate
BY SurfacedIsLate, BridgeInvariantHolds, PTL

-----------------------------------------------------------------------------
(* The order of events                                                       *)

LEMMA HeadAndTail ==
    ASSUME NEW S, NEW s \in Seq(S), s # << >>
    PROVE  /\ s = <<Head(s)>> \o Tail(s)
           /\ Head(s) \in S /\ Tail(s) \in Seq(S) /\ <<Head(s)>> \in Seq(S)
<1>1. /\ Head(s) \in S /\ Tail(s) \in Seq(S) /\ Len(Tail(s)) = Len(s) - 1 /\ Head(s) = s[1]
      /\ \A p \in 1 .. Len(s) - 1 : Tail(s)[p] = s[p + 1]
  BY HeadTailProperties
<1>2. PICK h, t : h = <<Head(s)>> /\ t = Tail(s)
  OBVIOUS
<1>3. h \in Seq(S) /\ Len(h) = 1 /\ h[1] = s[1] /\ t \in Seq(S)
  BY <1>1, <1>2
<1>4. /\ h \o t \in Seq(S) /\ Len(h \o t) = Len(s)
      /\ \A p \in 1 .. Len(s) : (h \o t)[p] = IF p <= 1 THEN h[p] ELSE t[p - 1]
  BY <1>1, <1>2, <1>3, ConcatProperties
<1>5. ASSUME NEW p \in 1 .. Len(s) PROVE (h \o t)[p] = s[p]
  <2>1. CASE p = 1
    BY <1>3, <1>4, <2>1
  <2>2. CASE p # 1
    <3>1. p - 1 \in 1 .. Len(s) - 1 /\ ~(p <= 1) /\ (p - 1) + 1 = p
      BY <2>2
    <3>2. t[p - 1] = s[(p - 1) + 1]
      BY <1>1, <1>2, <3>1
    <3> QED
      BY <1>4, <3>1, <3>2
  <2> QED
    BY <2>1, <2>2
<1>6. s = h \o t
  BY <1>4, <1>5, SeqEqual
<1> QED
  BY <1>1, <1>2, <1>3, <1>6

\* The head of a queue goes to the end of the one before.
LEMMA HeadMovesOn ==
    ASSUME NEW S, NEW s \in Seq(S), NEW t \in Seq(S), t # << >>
    PROVE  Append(s, Head(t)) \o Tail(t) = s \o t
<1>1. /\ t = <<Head(t)>> \o Tail(t)
      /\ Head(t) \in S /\ Tail(t) \in Seq(S) /\ <<Head(t)>> \in Seq(S)
  BY HeadAndTail
<1>2. Append(s, Head(t)) = s \o <<Head(t)>>
  BY <1>1, AppendIsConcat
<1>3. (s \o <<Head(t)>>) \o Tail(t) = s \o (<<Head(t)>> \o Tail(t))
  BY <1>1, ConcatAssociative
<1> QED
  BY <1>1, <1>2, <1>3

LEMMA LinesAssociate ==
    ASSUME NEW s, NEW t, NEW u, s \in Seq(Line), t \in Seq(Line), u \in Seq(Line)
    PROVE  /\ (s \o t) \o u = s \o (t \o u)
           /\ s \o t \in Seq(Line) /\ t \o u \in Seq(Line)
  BY ConcatAssociative, ConcatProperties

\* Lines without some answer, in the same order, have the same events.
LEMMA Thinned ==
    ASSUME NEW s \in Seq(Line), NEW t \in Seq(Line), NEW n, CountTo(s, n),
           NEW f \in [DOMAIN t -> DOMAIN s],
           \A p, q \in DOMAIN t : p < q => f[p] < f[q],
           \A p \in DOMAIN t : t[p] = s[f[p]],
           \A k \in DOMAIN s : ~IsAnswer(s[k]) => \E p \in DOMAIN t : f[p] = k
    PROVE  CountTo(t, n)
<1> DEFINE Of(line) == {p \in DOMAIN line : ~IsAnswer(line[p])}
<1>1. /\ {s[p].event : p \in Of(s)} = 1 .. n
      /\ \A p, q \in Of(s) : p < q => s[p].event < s[q].event
  BY DEF CountTo
<1>2. \A p \in Of(t) : f[p] \in Of(s) /\ s[f[p]].event = t[p].event
  OBVIOUS
<1>3. \A k \in Of(s) : \E p \in Of(t) : f[p] = k
  OBVIOUS
<1>4. {t[p].event : p \in Of(t)} = {s[p].event : p \in Of(s)}
  BY <1>2, <1>3
<1>5. \A p, q \in Of(t) : p < q => t[p].event < t[q].event
  BY <1>1, <1>2
<1> QED
  BY <1>1, <1>4, <1>5 DEF CountTo

LEMMA WithoutAnswer ==
    ASSUME NEW s \in Seq(Line), NEW t \in Seq(Line), NEW line \in Line, IsAnswer(line),
           NEW n, CountTo((s \o <<line>>) \o t, n)
    PROVE  CountTo(s \o t, n)
<1>1. PICK a, b, one : one = <<line>> /\ a = (s \o one) \o t /\ b = s \o t
  OBVIOUS
<1>2. /\ one \in Seq(Line) /\ Len(one) = 1 /\ one[1] = line
      /\ Len(s) \in Nat /\ Len(t) \in Nat
  BY <1>1
<1>3. /\ s \o one \in Seq(Line) /\ Len(s \o one) = Len(s) + 1
      /\ \A p \in 1 .. Len(s) + 1 : (s \o one)[p] = IF p <= Len(s) THEN s[p] ELSE one[p - Len(s)]
  <2>1. /\ s \o one \in Seq(Line) /\ Len(s \o one) = Len(s) + Len(one)
        /\ \A p \in 1 .. Len(s) + Len(one) :
               (s \o one)[p] = IF p <= Len(s) THEN s[p] ELSE one[p - Len(s)]
    BY <1>2, ConcatProperties
  <2> QED
    BY <1>2, <2>1
<1>4. /\ a \in Seq(Line) /\ Len(a) = Len(s) + 1 + Len(t) /\ DOMAIN a = 1 .. Len(s) + 1 + Len(t)
      /\ \A p \in 1 .. Len(s) + 1 + Len(t) :
             a[p] = IF p <= Len(s) + 1 THEN (s \o one)[p] ELSE t[p - (Len(s) + 1)]
  BY <1>1, <1>2, <1>3, ConcatProperties
<1>5. /\ b \in Seq(Line) /\ Len(b) = Len(s) + Len(t) /\ DOMAIN b = 1 .. Len(s) + Len(t)
      /\ \A p \in 1 .. Len(s) + Len(t) : b[p] = IF p <= Len(s) THEN s[p] ELSE t[p - Len(s)]
  BY <1>1, <1>2, ConcatProperties
<1>6. PICK f : f = [p \in DOMAIN b |-> IF p <= Len(s) THEN p ELSE p + 1]
  OBVIOUS
<1>7. f \in [DOMAIN b -> DOMAIN a] /\ \A p, q \in DOMAIN b : p < q => f[p] < f[q]
  BY <1>2, <1>4, <1>5, <1>6
<1>8. \A p \in DOMAIN b : b[p] = a[f[p]]
  <2>1. ASSUME NEW p \in 1 .. Len(s) + Len(t) PROVE b[p] = a[f[p]]
    <3>1. CASE p <= Len(s)
      <4>1. f[p] = p /\ p \in 1 .. Len(s) + 1 + Len(t) /\ p <= Len(s) + 1 /\ p \in 1 .. Len(s) + 1
        BY <1>2, <1>5, <1>6, <3>1
      <4> QED
        BY <1>3, <1>4, <1>5, <3>1, <4>1
    <3>2. CASE ~(p <= Len(s))
      <4>1. /\ f[p] = p + 1 /\ p + 1 \in 1 .. Len(s) + 1 + Len(t) /\ ~(p + 1 <= Len(s) + 1)
            /\ (p + 1) - (Len(s) + 1) = p - Len(s)
        BY <1>2, <1>5, <1>6, <3>2
      <4> QED
        BY <1>4, <1>5, <3>2, <4>1
    <3> QED
      BY <3>1, <3>2
  <2> QED
    BY <1>5, <2>1
<1>9. ASSUME NEW k \in DOMAIN a, ~IsAnswer(a[k]) PROVE \E p \in DOMAIN b : f[p] = k
  <2>1. CASE k <= Len(s)
    <3>1. k \in DOMAIN b /\ f[k] = k
      BY <1>2, <1>4, <1>5, <1>6, <2>1
    <3> QED
      BY <3>1
  <2>2. CASE k = Len(s) + 1
    <3>1. k \in 1 .. Len(s) + 1 /\ ~(k <= Len(s)) /\ k - Len(s) = 1 /\ k <= Len(s) + 1
      BY <1>2, <2>2
    <3>2. a[k] = line
      BY <1>2, <1>3, <1>4, <3>1
    <3> QED
      BY <1>9, <3>2
  <2>3. CASE k > Len(s) + 1
    <3>1. k - 1 \in DOMAIN b /\ f[k - 1] = k
      BY <1>2, <1>4, <1>5, <1>6, <2>3
    <3> QED
      BY <3>1
  <2> QED
    BY <1>2, <1>4, <2>1, <2>2, <2>3
<1>10. CountTo(a, n)
  BY <1>1
<1>11. CountTo(b, n)
  BY <1>4, <1>5, <1>7, <1>8, <1>9, <1>10, Thinned
<1> QED
  BY <1>1, <1>11

LEMMA WithAnswer ==
    ASSUME NEW s \in Seq(Line), NEW line \in Line, IsAnswer(line), NEW n, CountTo(s, n)
    PROVE  CountTo(Append(s, line), n)
<1>1. PICK t : t = Append(s, line)
  OBVIOUS
<1>2. /\ DOMAIN s = 1 .. Len(s) /\ Len(s) \in Nat /\ DOMAIN t = 1 .. Len(s) + 1
      /\ \A p \in 1 .. Len(s) : t[p] = s[p]
      /\ t[Len(s) + 1] = line
  BY <1>1
<1>3. {p \in DOMAIN t : ~IsAnswer(t[p])} = {p \in DOMAIN s : ~IsAnswer(s[p])}
  BY <1>2
<1>4. \A p \in {p \in DOMAIN s : ~IsAnswer(s[p])} : t[p] = s[p]
  BY <1>2
<1>5. CountTo(t, n)
  BY <1>3, <1>4 DEF CountTo
<1> QED
  BY <1>1, <1>5

LEMMA WithEvent ==
    ASSUME NEW s \in Seq(Line), NEW n \in Nat, CountTo(s, n)
    PROVE  CountTo(Append(s, EventLine(n + 1)), n + 1)
<1>1. PICK t : t = Append(s, EventLine(n + 1))
  OBVIOUS
<1> DEFINE Of(line) == {p \in DOMAIN line : ~IsAnswer(line[p])}
           last == Len(s) + 1
<1>2. /\ DOMAIN s = 1 .. Len(s) /\ Len(s) \in Nat /\ DOMAIN t = 1 .. Len(s) + 1
      /\ \A p \in 1 .. Len(s) : t[p] = s[p]
      /\ t[last] = EventLine(n + 1)
  BY <1>1
<1>3. ~IsAnswer(EventLine(n + 1)) /\ EventLine(n + 1).event = n + 1
  BY DEF IsAnswer, EventLine
<1>4. Of(t) = Of(s) \cup {last} /\ last \in Nat /\ \A p \in Of(s) : p < last
  BY <1>2, <1>3
<1>5. /\ {s[p].event : p \in Of(s)} = 1 .. n
      /\ \A p, q \in Of(s) : p < q => s[p].event < s[q].event
  BY DEF CountTo
<1>6. /\ \A p \in Of(s) : t[p].event = s[p].event /\ s[p].event \in 1 .. n /\ p \in Nat
      /\ t[last].event = n + 1
  BY <1>2, <1>3, <1>5
<1>7. {t[p].event : p \in Of(t)} = 1 .. n + 1
  <2>1. \A m \in 1 .. n + 1 : \E p \in Of(t) : t[p].event = m
    <3>1. ASSUME NEW m \in 1 .. n PROVE \E p \in Of(t) : t[p].event = m
      <4>1. m \in {s[p].event : p \in Of(s)}
        BY <1>5
      <4> QED
        BY <1>4, <1>6, <4>1
    <3>2. last \in Of(t) /\ t[last].event = n + 1
      BY <1>4, <1>6
    <3> QED
      BY <3>1, <3>2
  <2>2. \A p \in Of(t) : t[p].event \in 1 .. n + 1
    BY <1>4, <1>6
  <2> QED
    BY <2>1, <2>2
<1>8. \A p, q \in Of(t) : p < q => t[p].event < t[q].event
  <2>1. ASSUME NEW p \in Of(t), NEW q \in Of(t), p < q PROVE t[p].event < t[q].event
    <3>1. p \in Of(s)
      BY <1>4, <2>1
    <3>2. CASE q \in Of(s)
      BY <1>5, <1>6, <2>1, <3>1, <3>2
    <3>3. CASE q = last
      BY <1>6, <3>1, <3>3
    <3> QED
      BY <1>4, <3>2, <3>3
  <2> QED
    BY <2>1
<1>9. CountTo(t, n + 1)
  BY <1>7, <1>8 DEF CountTo
<1> QED
  BY <1>1, <1>9

\* The line in the hands of the router.
Held == IF router.at = "deliver" THEN <<router.line>> ELSE << >>

LEMMA WayParts ==
    ASSUME Queues, Others
    PROVE  /\ taken \in Seq(Line) /\ frames \in Seq(Line) /\ Held \in Seq(Line)
           /\ incoming \in Seq(Line) /\ stdout \in Seq(Line)
           /\ Surfaced = (taken \o frames) \o Held /\ Surfaced \in Seq(Line)
           /\ Way = (Surfaced \o incoming) \o stdout /\ Way \in Seq(Line)
           /\ Way = Surfaced \o (incoming \o stdout)
<1>1. /\ taken \in Seq(Line) /\ frames \in Seq(Line)
      /\ incoming \in Seq(Line) /\ stdout \in Seq(Line)
  BY DEF Queues
<1>2. Held \in Seq(Line)
  BY RouterHoldsLine DEF Held
<1>3. Surfaced = (taken \o frames) \o Held
  BY DEF Surfaced, Held
<1>4. Surfaced \in Seq(Line)
  BY <1>1, <1>2, <1>3, ConcatProperties
<1>5. Way = (Surfaced \o incoming) \o stdout
  BY DEF Way
<1>6. Way \in Seq(Line) /\ Way = Surfaced \o (incoming \o stdout)
  BY <1>1, <1>4, <1>5, ConcatProperties, ConcatAssociative
<1> QED
  BY <1>1, <1>2, <1>3, <1>4, <1>5, <1>6

\* What Pi writes goes to the end of the way.
LEMMA WayGrows ==
    ASSUME Queues, Others, NEW line \in Line, stdout' = Append(stdout, line),
           UNCHANGED <<taken, frames, router, incoming>>
    PROVE  Way' = Append(Way, line)
<1>1. Way' = (Surfaced \o incoming) \o Append(stdout, line)
  BY DEF Way, Surfaced
<1>2. PICK s : s = Surfaced \o incoming
  OBVIOUS
<1>3. s \in Seq(Line) /\ stdout \in Seq(Line) /\ Way = s \o stdout
  BY <1>2, WayParts, ConcatProperties
<1>4. Append(stdout, line) = stdout \o <<line>> /\ <<line>> \in Seq(Line)
  BY <1>3, AppendIsConcat
<1>5. s \o (stdout \o <<line>>) = (s \o stdout) \o <<line>>
  BY <1>3, <1>4, ConcatAssociative
<1>6. Append(Way, line) = Way \o <<line>>
  BY WayParts, AppendIsConcat
<1> QED
  BY <1>1, <1>2, <1>3, <1>4, <1>5, <1>6

\* The moves of lines from queue to queue leave the way as it is, but for the
\* answers that the router takes out of it.
LEMMA WayStays ==
    ASSUME Queues, Others, Queues', Others',
           \/ ReaderRead \/ RouterDeliver \/ PumpTake \/ RouterDrain
           \/ RouterTake /\ ~Waits(Head(incoming))
    PROVE  Way' = Way
<1>0. /\ (Way = Surfaced \o (incoming \o stdout))'
      /\ (Way = (Surfaced \o incoming) \o stdout)'
      /\ (Surfaced = (taken \o frames) \o Held)'
  <2>1. (/\ Way = Surfaced \o (incoming \o stdout)
         /\ Way = (Surfaced \o incoming) \o stdout
         /\ Surfaced = (taken \o frames) \o Held)'
    BY WayParts, PTL
  <2> QED
    BY <2>1
<1>1. CASE ReaderRead
  <2>1. /\ stdout # << >> /\ stdout' = Tail(stdout) /\ incoming' = Append(incoming, Head(stdout))
        /\ UNCHANGED <<taken, frames, router>>
    BY <1>1 DEF ReaderRead
  <2>2. incoming' \o stdout' = incoming \o stdout
    BY <2>1, WayParts, HeadMovesOn
  <2>3. Surfaced' = Surfaced
    BY <2>1 DEF Surfaced
  <2>4. Way = Surfaced \o (incoming \o stdout) /\ Way' = Surfaced' \o (incoming' \o stdout')
    BY <1>0, WayParts
  <2> QED
    BY <2>2, <2>3, <2>4
<1>2. CASE RouterDeliver
  <2>1. /\ router.at = "deliver" /\ router' = [at |-> "next"] /\ frames' = Append(frames, router.line)
        /\ UNCHANGED <<taken, incoming, stdout>>
    BY <1>2 DEF RouterDeliver
  <2>2. router.line \in Line
    BY <2>1, RouterHoldsLine
  <2>3. Held = <<router.line>> /\ Held' = << >> /\ Held \in Seq(Line)
    BY <2>1, <2>2 DEF Held
  <2>4. frames' = frames \o Held /\ frames' \in Seq(Line)
    BY <2>1, <2>2, <2>3, WayParts, AppendIsConcat, AppendProperties
  <2>5. (taken \o frames') \o << >> = taken \o frames'
    <3>1. taken \o frames' \in Seq(Line)
      BY <2>4, WayParts, ConcatProperties
    <3> QED
      BY <3>1, ConcatEmptySeq
  <2>6. taken \o (frames \o Held) = (taken \o frames) \o Held
    <3>1. taken \in Seq(Line) /\ frames \in Seq(Line) /\ Held \in Seq(Line)
      BY <2>3, WayParts
    <3> QED
      BY <3>1, LinesAssociate
  <2>7. Surfaced' = Surfaced
    BY <1>0, <2>1, <2>3, <2>4, <2>5, <2>6, WayParts
  <2> QED
    BY <2>1, <2>7 DEF Way
<1>3. CASE PumpTake
  <2>1. /\ frames # << >> /\ taken' = Append(taken, Head(frames)) /\ frames' = Tail(frames)
        /\ UNCHANGED <<router, incoming, stdout>>
    BY <1>3 DEF PumpTake
  <2>2. taken' \o frames' = taken \o frames
    BY <2>1, WayParts, HeadMovesOn
  <2>3. Surfaced' = Surfaced
    BY <2>1, <2>2 DEF Surfaced
  <2> QED
    BY <2>1, <2>3 DEF Way
<1>4. CASE RouterDrain
  BY <1>4 DEF RouterDrain, Way, Surfaced
<1>5. CASE RouterTake /\ ~Waits(Head(incoming))
  <2>1. /\ router.at = "next" /\ incoming # << >> /\ incoming' = Tail(incoming)
        /\ UNCHANGED <<taken, frames, stdout>>
    BY <1>5 DEF RouterTake
  <2>2. router' = [at |-> "deliver", line |-> Head(incoming)]
    BY <1>5, TakeOther
  <2>3. Held = << >> /\ Held' = <<Head(incoming)>>
    BY <2>1, <2>2 DEF Held
  <2>4. /\ incoming = Held' \o incoming'
        /\ Held' \in Seq(Line) /\ incoming' \in Seq(Line)
    BY <2>1, <2>3, WayParts, HeadAndTail
  <2>5. Surfaced = taken \o frames /\ Surfaced \in Seq(Line)
    <3>1. taken \o frames \in Seq(Line)
      BY WayParts, ConcatProperties
    <3> QED
      BY <2>3, <3>1, WayParts, ConcatEmptySeq
  <2>6. Surfaced' = Surfaced \o Held'
    BY <1>0, <2>1, <2>5
  <2>7. (Surfaced \o Held') \o incoming' = Surfaced \o (Held' \o incoming')
    <3>1. Surfaced \in Seq(Line) /\ Held' \in Seq(Line) /\ incoming' \in Seq(Line)
      BY <2>4, <2>5
    <3>2. PICK x, y, z : x = Surfaced /\ y = Held' /\ z = incoming'
      OBVIOUS
    <3>3. x \in Seq(Line) /\ y \in Seq(Line) /\ z \in Seq(Line)
      BY <3>1, <3>2
    <3>4. (x \o y) \o z = x \o (y \o z)
      BY <3>3, LinesAssociate
    <3> QED
      BY <3>2, <3>4
  <2>8. Way = (Surfaced \o incoming) \o stdout /\ Way' = (Surfaced' \o incoming') \o stdout'
    BY <1>0, WayParts
  <2> QED
    BY <2>1, <2>4, <2>6, <2>7, <2>8
<1> QED
  BY <1>1, <1>2, <1>3, <1>4, <1>5

LEMMA AnswerLeavesWay ==
    ASSUME Queues, Others, RouterTake, Waits(Head(incoming)), CountTo(Way, events)
    PROVE  CountTo(Way, events)'
<1>1. /\ incoming # << >> /\ incoming' = Tail(incoming) /\ IsAnswer(Head(incoming))
      /\ UNCHANGED <<taken, frames, router, stdout, events>>
  BY DEF RouterTake, Waits
<1>2. PICK h, rest : h = <<Head(incoming)>> /\ rest = Tail(incoming)
  OBVIOUS
<1>3. /\ incoming = h \o rest /\ h \in Seq(Line) /\ rest \in Seq(Line)
      /\ Head(incoming) \in Line
  BY <1>1, <1>2, WayParts, HeadAndTail
<1>4. Way = (Surfaced \o incoming) \o stdout /\ Way' = (Surfaced \o rest) \o stdout
  BY <1>1, <1>2 DEF Way, Surfaced
<1>5. Surfaced \in Seq(Line) /\ stdout \in Seq(Line) /\ rest \o stdout \in Seq(Line)
  BY <1>3, WayParts, ConcatProperties
<1>6. PICK u, o : u = Surfaced /\ o = stdout
  OBVIOUS
<1>7. u \in Seq(Line) /\ o \in Seq(Line) /\ h \in Seq(Line) /\ rest \in Seq(Line)
  BY <1>3, <1>5, <1>6
<1>8. (u \o (h \o rest)) \o o = (u \o h) \o (rest \o o)
  <2>0. (u \o h) \o rest = u \o (h \o rest) /\ u \o h \in Seq(Line)
    <3>1. \A x, y, z : x \in Seq(Line) /\ y \in Seq(Line) /\ z \in Seq(Line)
                           => (x \o y) \o z = x \o (y \o z) /\ x \o y \in Seq(Line)
      BY LinesAssociate
    <3> QED
      BY <1>7, <3>1
  <2>1. u \o (h \o rest) = (u \o h) \o rest /\ u \o h \in Seq(Line)
    BY <2>0
  <2>2. ((u \o h) \o rest) \o o = (u \o h) \o (rest \o o)
    BY <1>7, <2>1, LinesAssociate
  <2> QED
    BY <2>1, <2>2
<1>9. (u \o rest) \o o = u \o (rest \o o) /\ rest \o o \in Seq(Line)
  BY <1>7, LinesAssociate
<1>10. Way = (u \o h) \o (rest \o o) /\ Way' = u \o (rest \o o)
  BY <1>3, <1>4, <1>6, <1>8, <1>9
<1>11. CountTo(u \o (rest \o o), events)
  <2>1. CountTo((u \o <<Head(incoming)>>) \o (rest \o o), events)
    BY <1>2, <1>10
  <2> QED
    BY <1>1, <1>3, <1>7, <1>9, <2>1, WithoutAnswer
<1>12. CountTo(Way', events')
  BY <1>1, <1>10, <1>11
<1> QED
  BY <1>12 DEF CountTo

LEMMA EventsStayInOrder ==
    BridgeInvariant /\ EventsKeepOrder /\ [Next]_bridgeVars => EventsKeepOrder'
<1> SUFFICES ASSUME BridgeInvariant, EventsKeepOrder, [Next]_bridgeVars PROVE EventsKeepOrder'
  OBVIOUS
<1>1. Queues /\ Others
  BY TypesSplit DEF BridgeInvariant
<1>2. BridgeInvariant'
  BY NextInvariant
<1>3. Queues' /\ Others'
  <2>1. TypeOK'
    BY <1>2 DEF BridgeInvariant
  <2> QED
    BY <2>1, TypesSplit, PTL
<1>4. ASSUME Way' = Way, events' = events PROVE EventsKeepOrder'
  BY <1>4 DEF EventsKeepOrder, CountTo
<1>5. ASSUME UNCHANGED <<taken, frames, router, incoming, stdout, events>> PROVE EventsKeepOrder'
  BY <1>4, <1>5 DEF Way, Surfaced
<1>6. ASSUME \/ ReaderRead \/ RouterDeliver \/ PumpTake \/ RouterDrain
             \/ RouterTake /\ ~Waits(Head(incoming))
      PROVE  EventsKeepOrder'
  <2>1. events' = events
    BY <1>6 DEF ReaderRead, RouterDeliver, PumpTake, RouterDrain, RouterTake
  <2> QED
    BY <1>1, <1>3, <1>4, <1>6, <2>1, WayStays
<1>7. ASSUME RouterTake, Waits(Head(incoming)) PROVE EventsKeepOrder'
  BY <1>1, <1>7, AnswerLeavesWay DEF EventsKeepOrder
<1>8. ASSUME NEW r \in Request, PiAnswer(r) PROVE EventsKeepOrder'
  <2>1. /\ stdout' = Append(stdout, Answer(r)) /\ events' = events
        /\ UNCHANGED <<taken, frames, router, incoming>>
    BY <1>8 DEF PiAnswer
  <2>2. Answer(r) \in Line /\ IsAnswer(Answer(r))
    BY LineKinds
  <2>3. Way' = Append(Way, Answer(r)) /\ Way \in Seq(Line)
    BY <1>1, <2>1, <2>2, WayGrows, WayParts
  <2>4. CountTo(Append(Way, Answer(r)), events)
    BY <2>2, <2>3, WithAnswer DEF EventsKeepOrder
  <2> QED
    BY <2>1, <2>3, <2>4 DEF EventsKeepOrder, CountTo
<1>9. ASSUME PiEvent PROVE EventsKeepOrder'
  <2>1. /\ stdout' = Append(stdout, EventLine(events + 1)) /\ events' = events + 1
        /\ UNCHANGED <<taken, frames, router, incoming>>
    BY <1>9 DEF PiEvent
  <2>2. EventLine(events + 1) \in Line /\ events \in Nat
    BY <1>1, <1>9, EventIsLine DEF Queues
  <2>3. Way' = Append(Way, EventLine(events + 1)) /\ Way \in Seq(Line)
    BY <1>1, <2>1, <2>2, WayGrows, WayParts
  <2>4. CountTo(Append(Way, EventLine(events + 1)), events + 1)
    BY <2>2, <2>3, WithEvent DEF EventsKeepOrder
  <2> QED
    BY <2>1, <2>3, <2>4 DEF EventsKeepOrder, CountTo
<1>10. CASE UNCHANGED bridgeVars
  BY <1>5, <1>10 DEF bridgeVars
<1>11. ASSUME NEW r \in Request, RequestInsert(r) \/ RequestGoesOn(r) PROVE EventsKeepOrder'
  BY <1>5, <1>11 DEF RequestInsert, RequestGoesOn, RequestEnqueue, RequestRefused, RequestResolved,
                     RequestDeadline, RequestExpire
<1>12. ASSUME NEW m \in Notice, NoticeEnqueue(m) PROVE EventsKeepOrder'
  BY <1>5, <1>12 DEF NoticeEnqueue
<1>13. CASE WriterWrite \/ PiRead \/ PiClose \/ ReaderEnd
  BY <1>5, <1>13 DEF WriterWrite, PiRead, PiClose, ReaderEnd
<1> QED
  BY <1>6, <1>7, <1>8, <1>9, <1>10, <1>11, <1>12, <1>13 DEF Next, Reader, Router

\* The pump gets the events Pi wrote, in order and complete (read_frames), even
\* with answers taken out from between them, however the queues fill.
THEOREM EventsInOrder == Spec => []EventsKeepOrder
<1>1. Init => EventsKeepOrder
  <2> SUFFICES ASSUME Init PROVE EventsKeepOrder
    OBVIOUS
  <2>1. /\ taken = << >> /\ frames = << >> /\ incoming = << >> /\ stdout = << >>
        /\ router.at = "next" /\ events = 0
    BY DEF Init
  <2>2. << >> \in Seq(Line) /\ << >> \o << >> = << >>
    BY EmptySeq, ConcatEmptySeq
  <2>3. Way = << >>
    BY <2>1, <2>2 DEF Way, Surfaced
  <2>4. CountTo(<< >>, 0)
    BY DEF CountTo
  <2> QED
    BY <2>1, <2>3, <2>4 DEF EventsKeepOrder
<1> QED
  BY <1>1, EventsStayInOrder, BridgeInvariantHolds, PTL DEF Spec, SafeSpec

-----------------------------------------------------------------------------
(* The bridge keeps the safety part of its promise                           *)

LEMMA InitPromise == Init => Promise!Init
<1> SUFFICES ASSUME Init PROVE Promise!Init
  OBVIOUS
<1>1. \A r \in Request : StatusOf(r) = "new"
  BY DEF Init, StatusOf
<1>2. (process = "open") = TRUE /\ ran = {}
  BY DEF Init
<1> QED
  BY <1>1, <1>2 DEF Promise!Init

\* A step of one request leaves the statuses of the others.
LEMMA StatusMoves ==
    ASSUME Maps, NEW r \in Request, NEW at, request' = [request EXCEPT ![r] = at]
    PROVE  /\ request'[r] = at
           /\ \A c \in Request : c # r => StatusOf(c)' = StatusOf(c)
BY DEF Maps, StatusOf

LEMMA StepPromise ==
    ASSUME BridgeInvariant, [Next]_bridgeVars
    PROVE  [Promise!Next]_(Promise!promiseVars)
<1> DEFINE status == [r \in Request |-> StatusOf(r)]
<1>0. Maps /\ AnswersWereGiven /\ EndsAfterPi /\ CommandsAreBegun
  BY TypesSplit, MapTypes DEF BridgeInvariant
<1>1. ASSUME UNCHANGED <<request, ran, process>> PROVE UNCHANGED Promise!promiseVars
  BY <1>1 DEF Promise!promiseVars, StatusOf
<1>2. ASSUME NEW r \in Request, NEW how,
             request' = [request EXCEPT ![r] = how],
             how \notin {"new", "enqueue", "wait", "expire"},
             request[r] \in {"enqueue", "wait", "expire"},
             how \in {"answered", "timed out", "closed"},
             how = "answered" => r \in ran,
             how = "closed" => process # "open",
             UNCHANGED <<ran, process>>
      PROVE  Promise!Next
  <2>1. StatusOf(r) = "asked" /\ StatusOf(r)' = how
    <3>1. request'[r] = how
      BY <1>0, <1>2, StatusMoves
    <3>2. StatusOf(r) = "asked"
      BY <1>2 DEF StatusOf
    <3>3. StatusOf(r)' = how
      BY <1>2, <3>1 DEF StatusOf
    <3> QED
      BY <3>2, <3>3
  <2>2. status' = [status EXCEPT ![r] = how]
    BY <1>0, <1>2, <2>1, StatusMoves
  <2>3. Promise!End(r, how)
    BY <1>2, <2>1, <2>2 DEF Promise!End
  <2> QED
    BY <1>2, <2>3 DEF Promise!Next
<1>3. ASSUME NEW r \in Request, RequestInsert(r) PROVE Promise!Next
  <2>1. request[r] = "new" /\ request' = [request EXCEPT ![r] = "enqueue"] /\ UNCHANGED <<ran, process>>
    BY <1>3 DEF RequestInsert, RequestTo
  <2>2. StatusOf(r) = "new" /\ StatusOf(r)' = "asked"
    <3>1. request'[r] = "enqueue"
      BY <1>0, <2>1, StatusMoves
    <3> QED
      BY <2>1, <3>1 DEF StatusOf
  <2>3. status' = [status EXCEPT ![r] = "asked"]
    BY <1>0, <2>1, <2>2, StatusMoves
  <2> QED
    BY <2>1, <2>2, <2>3 DEF Promise!Next, Promise!Ask
<1>4. ASSUME NEW r \in Request, RequestEnqueue(r) \/ RequestDeadline(r)
      PROVE  UNCHANGED Promise!promiseVars
  <2>1. PICK at \in {"wait", "expire"} : request' = [request EXCEPT ![r] = at]
    BY <1>4 DEF RequestEnqueue, RequestDeadline, RequestTo
  <2>2. request[r] \in {"enqueue", "wait"} /\ UNCHANGED <<ran, process>>
    BY <1>4, Zenon DEF RequestEnqueue, RequestDeadline
  <2>3. StatusOf(r) = "asked" /\ StatusOf(r)' = "asked"
    <3>1. request'[r] \in {"wait", "expire"}
      BY <1>0, <2>1, StatusMoves
    <3> QED
      BY <2>2, <3>1 DEF StatusOf
  <2>4. status' = status
    BY <1>0, <2>1, <2>3, StatusMoves
  <2> QED
    BY <2>2, <2>4 DEF Promise!promiseVars
<1>5. ASSUME NEW r \in Request, RequestRefused(r) PROVE Promise!Next
  <2>1. /\ request[r] = "enqueue" /\ request' = [request EXCEPT ![r] = "closed"]
        /\ writer = "stopped" /\ UNCHANGED <<ran, process>>
    BY <1>5 DEF RequestRefused, RequestTo
  <2> QED
    BY <1>0, <1>2, <2>1 DEF EndsAfterPi
<1>6. ASSUME NEW r \in Request, RequestResolved(r) PROVE Promise!Next
  <2>1. /\ request[r] = "wait" /\ request' = [request EXCEPT ![r] = resolved[r]]
        /\ resolved[r] # "no" /\ UNCHANGED <<ran, process>>
    BY <1>6 DEF RequestResolved, RequestTo
  <2>2. resolved[r] \in {"answered", "closed"}
    BY <1>0, <2>1 DEF Maps
  <2> QED
    BY <1>0, <1>2, <2>1, <2>2 DEF EndsAfterPi, AnswersWereGiven
<1>7. ASSUME NEW r \in Request, RequestExpire(r) PROVE Promise!Next
  <2>1. /\ request[r] = "expire" /\ request' = [request EXCEPT ![r] = "timed out"]
        /\ UNCHANGED <<ran, process>>
    BY <1>7 DEF RequestExpire, RequestTo
  <2> QED
    BY <1>2, <2>1
<1>8. ASSUME NEW r \in Request, PiAnswer(r) PROVE Promise!Next
  <2>1. /\ process = "open" /\ r \in heard \ ran /\ ran' = ran \cup {r}
        /\ UNCHANGED <<request, process>>
    BY <1>8 DEF PiAnswer
  <2>2. StatusOf(r) \in {"asked", "timed out"}
    BY <1>0, <2>1 DEF StatusOf, Maps, EndsAfterPi, AnswersWereGiven, CommandsAreBegun, Begun
  <2>3. status' = status
    BY <2>1 DEF StatusOf
  <2> QED
    BY <2>1, <2>2, <2>3 DEF Promise!Next, Promise!Run
<1>9. CASE PiClose
  <2>1. process = "open" /\ process' = "closed" /\ UNCHANGED <<request, ran>>
    BY <1>9 DEF PiClose
  <2>2. status' = status
    BY <2>1 DEF StatusOf
  <2> QED
    BY <2>1, <2>2 DEF Promise!Next, Promise!Leave
<1>10. ASSUME NEW m \in Notice, NoticeEnqueue(m) PROVE UNCHANGED Promise!promiseVars
  BY <1>1, <1>10, Zenon DEF NoticeEnqueue
<1>11. CASE WriterWrite \/ PiRead \/ PiEvent \/ PumpTake
  BY <1>1, <1>11, Zenon DEF WriterWrite, PiRead, PiEvent, PumpTake
<1>12. CASE Reader \/ Router
  BY <1>1, <1>12, Zenon
  DEF Reader, ReaderRead, ReaderEnd, Router, RouterTake, RouterDeliver, RouterDrain
<1>13. CASE UNCHANGED bridgeVars
  BY <1>1, <1>13, Zenon DEF bridgeVars
<1> QED
  BY <1>3, <1>4, <1>5, <1>6, <1>7, <1>8, <1>9, <1>10, <1>11, <1>12, <1>13 DEF Next, RequestGoesOn

\* Every step of the bridge is a step of RpcPromise or leaves it as it is: a
\* request ends at most once, answered only if Pi answered it and closed only
\* if Pi is gone.  That every request ends is left to TLC.
THEOREM BridgeKeepsPromise ==
    Spec => Promise!Init /\ [][Promise!Next]_(Promise!promiseVars)
BY InitPromise, StepPromise, BridgeInvariantHolds, PTL DEF Spec, SafeSpec

=============================================================================
