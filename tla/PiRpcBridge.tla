----------------------------- MODULE PiRpcBridge -----------------------------
(***************************************************************************)
(* The JSON lines bridge to one Pi process (src-tauri/src/                 *)
(* pi_rpc_bridge.rs): a writer thread feeds stdin from a bounded queue, a  *)
(* reader thread feeds a bounded queue from stdout, and the read_frames    *)
(* task hands each frame to the request that waits for its id, or to the   *)
(* event pump through a third bounded queue.                               *)
(*                                                                         *)
(* A definition marked "Fault" is a wrong form of the one after it and no  *)
(* part of the specification; it tests that a property notices.            *)
(***************************************************************************)
EXTENDS Integers, Sequences

CONSTANTS
    Request,              \* calls of request; each has an id of its own (next_id)
    Notice,               \* calls of send_frame, which expect no answer
    OutboundCap,          \* capacity of the outbound queue
    IncomingCap,          \* capacity of the queue of raw lines
    FramesCap,            \* capacity of the queue of frames for the pump
    StdinCap,             \* what the stdin pipe takes before a write blocks
    MaxEvents             \* bound of the model: events Pi writes

ASSUME CapAssumption == {OutboundCap, IncomingCap, FramesCap, StdinCap} \subseteq Nat \ {0}
ASSUME EventsAssumption == MaxEvents \in Nat
ASSUME CallAssumption == Request \cap Notice = {}

VARIABLES
    request,              \* where each request is
    notice,               \* where each send_frame is
    pending,              \* the ids in the pending map
    resolved,             \* what was put in the oneshot of each request
    outbound,             \* the outbound queue
    writer,               \* the writer thread: "running" or "stopped"
    stdin,                \* written to Pi and not read by it
    process,              \* Pi: "open" or "closed"
    heard,                \* the requests Pi read
    ran,                  \* the requests Pi answered
    events,               \* how many events Pi wrote
    stdout,               \* written by Pi and not read by the reader thread
    incoming,             \* the raw lines queue
    reader,               \* the reader thread: "running" or "ended"
    router,               \* the read_frames task: at "next", at "deliver" of a line, or "ended"
    frames,               \* the frames queue
    pump,                 \* the event pump of the manager: "running" or "returned"
    taken                 \* history: the frames the event pump took, in order

bridgeVars == <<request, notice, pending, resolved, outbound, writer, stdin, process, heard,
                ran, events, stdout, incoming, reader, router, frames, pump, taken>>

Call == Request \cup Notice

\* Only what read_frames tells apart: a line that carries the id of a request,
\* and any other.  An oversized or invalid line is of the second kind: it is
\* delivered as a ProtocolError.
Answer(r) == [id |-> r]
EventLine(n) == [event |-> n]
IsAnswer(line) == "id" \in DOMAIN line
Line == {Answer(r) : r \in Request} \cup {EventLine(n) : n \in 1 .. MaxEvents}

HasRoom(queue, cap) == Len(queue) < cap

\* Fault: the id stays in the map.
ForgetNothing(r) == UNCHANGED pending

Forget(r) == pending' = pending \ {r}

-----------------------------------------------------------------------------
(* request and send_frame                                                    *)

RequestTo(r, at) == request' = [request EXCEPT ![r] = at]

\* Fault: the command is sent without an entry in the map.
RequestInsertNothing(r) ==
    /\ request[r] = "new"
    /\ RequestTo(r, "enqueue")
    /\ UNCHANGED <<notice, pending, resolved, outbound, writer, stdin, process, heard, ran, events,
                   stdout, incoming, reader, router, frames, pump, taken>>

RequestInsert(r) ==
    /\ request[r] = "new"
    /\ pending' = pending \cup {r}
    /\ RequestTo(r, "enqueue")
    /\ UNCHANGED <<notice, resolved, outbound, writer, stdin, process, heard, ran, events, stdout,
                   incoming, reader, router, frames, pump, taken>>

\* The deadline starts only after the queue took the command.
RequestEnqueue(r) ==
    /\ request[r] = "enqueue"
    /\ writer = "running"
    /\ HasRoom(outbound, OutboundCap)
    /\ outbound' = Append(outbound, r)
    /\ RequestTo(r, "wait")
    /\ UNCHANGED <<notice, pending, resolved, writer, stdin, process, heard, ran, events, stdout,
                   incoming, reader, router, frames, pump, taken>>

\* Fault: a refused command is tried again and again.
RequestRefusedRetry(r) ==
    /\ request[r] = "enqueue"
    /\ writer = "stopped"
    /\ UNCHANGED bridgeVars

\* The writer dropped its end of the queue.
RequestRefused(r) ==
    /\ request[r] = "enqueue"
    /\ writer = "stopped"
    /\ Forget(r)
    /\ RequestTo(r, "closed")
    /\ UNCHANGED <<notice, resolved, outbound, writer, stdin, process, heard, ran, events, stdout,
                   incoming, reader, router, frames, pump, taken>>

RequestResolved(r) ==
    /\ request[r] = "wait"
    /\ resolved[r] # "no"
    /\ RequestTo(r, resolved[r])
    /\ UNCHANGED <<notice, pending, resolved, outbound, writer, stdin, process, heard, ran, events,
                   stdout, incoming, reader, router, frames, pump, taken>>

\* The timeout drops the receiver; taking the id out of the map comes after.
RequestDeadline(r) ==
    /\ request[r] = "wait"
    /\ resolved[r] = "no"
    /\ RequestTo(r, "expire")
    /\ UNCHANGED <<notice, pending, resolved, outbound, writer, stdin, process, heard, ran, events,
                   stdout, incoming, reader, router, frames, pump, taken>>

RequestExpire(r) ==
    /\ request[r] = "expire"
    /\ Forget(r)
    /\ RequestTo(r, "timed out")
    /\ UNCHANGED <<notice, resolved, outbound, writer, stdin, process, heard, ran, events, stdout,
                   incoming, reader, router, frames, pump, taken>>

NoticeEnqueue(m) ==
    /\ notice[m] = "new"
    /\ IF writer = "running"
       THEN /\ HasRoom(outbound, OutboundCap)
            /\ outbound' = Append(outbound, m)
            /\ notice' = [notice EXCEPT ![m] = "sent"]
       ELSE /\ notice' = [notice EXCEPT ![m] = "closed"]
            /\ UNCHANGED outbound
    /\ UNCHANGED <<request, pending, resolved, writer, stdin, process, heard, ran, events, stdout,
                   incoming, reader, router, frames, pump, taken>>

-----------------------------------------------------------------------------
(* The writer thread and Pi                                                  *)

\* write_all and flush; a failed write ends the thread, and the queue with
\* whatever it holds.
WriterWrite ==
    /\ writer = "running"
    /\ outbound # << >>
    /\ IF process = "open"
       THEN /\ HasRoom(stdin, StdinCap)
            /\ stdin' = Append(stdin, Head(outbound))
            /\ outbound' = Tail(outbound)
            /\ UNCHANGED writer
       ELSE /\ writer' = "stopped"
            /\ outbound' = << >>
            /\ UNCHANGED stdin
    /\ UNCHANGED <<request, notice, pending, resolved, process, heard, ran, events, stdout,
                   incoming, reader, router, frames, pump, taken>>

PiRead ==
    /\ process = "open"
    /\ stdin # << >>
    /\ heard' = heard \cup ({Head(stdin)} \cap Request)
    /\ stdin' = Tail(stdin)
    /\ UNCHANGED <<request, notice, pending, resolved, outbound, writer, process, ran, events,
                   stdout, incoming, reader, router, frames, pump, taken>>

PiAnswer(r) ==
    /\ process = "open"
    /\ r \in heard \ ran
    /\ ran' = ran \cup {r}
    /\ stdout' = Append(stdout, Answer(r))
    /\ UNCHANGED <<request, notice, pending, resolved, outbound, writer, stdin, process, heard,
                   events, incoming, reader, router, frames, pump, taken>>

PiEvent ==
    /\ process = "open"
    /\ events < MaxEvents
    /\ events' = events + 1
    /\ stdout' = Append(stdout, EventLine(events + 1))
    /\ UNCHANGED <<request, notice, pending, resolved, outbound, writer, stdin, process, heard,
                   ran, incoming, reader, router, frames, pump, taken>>

\* Pi exits or is killed; what it wrote can still be read.
PiClose ==
    /\ process = "open"
    /\ process' = "closed"
    /\ UNCHANGED <<request, notice, pending, resolved, outbound, writer, stdin, heard, ran, events,
                   stdout, incoming, reader, router, frames, pump, taken>>

-----------------------------------------------------------------------------
(* The reader thread, read_frames and the event pump                         *)

ReaderRead ==
    /\ reader = "running"
    /\ stdout # << >>
    /\ HasRoom(incoming, IncomingCap)
    /\ incoming' = Append(incoming, Head(stdout))
    /\ stdout' = Tail(stdout)
    /\ UNCHANGED <<request, notice, pending, resolved, outbound, writer, stdin, process, heard,
                   ran, events, reader, router, frames, pump, taken>>

ReaderEnd ==
    /\ reader = "running"
    /\ stdout = << >>
    /\ process = "closed"
    /\ reader' = "ended"
    /\ UNCHANGED <<request, notice, pending, resolved, outbound, writer, stdin, process, heard,
                   ran, events, stdout, incoming, router, frames, pump, taken>>

Waits(line) == IsAnswer(line) /\ line.id \in pending

\* Fault: a request that fails is told it was answered.
ResolveAnswered(r, how) == IF request[r] = "expire" THEN "no" ELSE "answered"

\* A sender whose receiver is gone takes the answer with it.
Resolve(r, how) == IF request[r] = "expire" THEN "no" ELSE how

RouterTake ==
    /\ router.at = "next"
    /\ incoming # << >>
    /\ incoming' = Tail(incoming)
    /\ LET line == Head(incoming)
       IN  IF Waits(line)
           THEN /\ Forget(line.id)
                /\ resolved' = [resolved EXCEPT ![line.id] = Resolve(line.id, "answered")]
                /\ UNCHANGED router
           ELSE router' = [at |-> "deliver", line |-> line] /\ UNCHANGED <<pending, resolved>>
    /\ UNCHANGED <<request, notice, outbound, writer, stdin, process, heard, ran, events, stdout,
                   reader, frames, pump, taken>>

\* Fault: a frame that finds the queue full is dropped (try_send for send).
RouterDeliverOrDrop ==
    /\ router.at = "deliver"
    /\ frames' = IF HasRoom(frames, FramesCap) THEN Append(frames, router.line) ELSE frames
    /\ router' = [at |-> "next"]
    /\ UNCHANGED <<request, notice, pending, resolved, outbound, writer, stdin, process, heard,
                   ran, events, stdout, incoming, reader, pump, taken>>

RouterDeliver ==
    /\ router.at = "deliver"
    /\ HasRoom(frames, FramesCap)
    /\ frames' = Append(frames, router.line)
    /\ router' = [at |-> "next"]
    /\ UNCHANGED <<request, notice, pending, resolved, outbound, writer, stdin, process, heard,
                   ran, events, stdout, incoming, reader, pump, taken>>

\* The lines ended: everything still pending fails at once.
RouterDrain ==
    /\ router.at = "next"
    /\ incoming = << >>
    /\ reader = "ended"
    /\ resolved' = [r \in Request |-> IF r \in pending THEN Resolve(r, "closed") ELSE resolved[r]]
    /\ pending' = {}
    /\ router' = [at |-> "ended"]
    /\ UNCHANGED <<request, notice, outbound, writer, stdin, process, heard, ran, events, stdout,
                   incoming, reader, frames, pump, taken>>

\* start_event_pump of native_pi_manager.rs.  It returns at a frame when its
\* runtime was taken from the manager's map meanwhile, which stop does.  The
\* receiver of frames is in BridgeInner, which read_frames itself keeps alive:
\* once nobody takes frames, a full queue holds read_frames for ever.
PumpTake ==
    /\ pump = "running"
    /\ frames # << >>
    /\ taken' = Append(taken, Head(frames))
    /\ frames' = Tail(frames)
    /\ pump' \in {"running", "returned"}
    /\ UNCHANGED <<request, notice, pending, resolved, outbound, writer, stdin, process, heard,
                   ran, events, stdout, incoming, reader, router>>

-----------------------------------------------------------------------------

Init ==
    /\ request = [r \in Request |-> "new"]
    /\ notice = [m \in Notice |-> "new"]
    /\ pending = {}
    /\ resolved = [r \in Request |-> "no"]
    /\ outbound = << >>
    /\ writer = "running"
    /\ stdin = << >>
    /\ process = "open"
    /\ heard = {}
    /\ ran = {}
    /\ events = 0
    /\ stdout = << >>
    /\ incoming = << >>
    /\ reader = "running"
    /\ router = [at |-> "next"]
    /\ frames = << >>
    /\ pump = "running"
    /\ taken = << >>

\* What a request that was begun does by itself.
RequestGoesOn(r) ==
    \/ RequestEnqueue(r) \/ RequestRefused(r) \/ RequestResolved(r)
    \/ RequestDeadline(r) \/ RequestExpire(r)

Router == RouterTake \/ RouterDeliver \/ RouterDrain
Reader == ReaderRead \/ ReaderEnd

Next ==
    \/ \E r \in Request : RequestInsert(r) \/ RequestGoesOn(r) \/ PiAnswer(r)
    \/ \E m \in Notice : NoticeEnqueue(m)
    \/ WriterWrite \/ PiRead \/ PiEvent \/ PiClose
    \/ Reader \/ Router \/ PumpTake

SafeSpec == Init /\ [][Next]_bridgeVars

\* Threads and polled tasks go on when they can.  A mpsc sender that waits for
\* room is served first come first served, so a slot that is free again and
\* again reaches each of them.  Pi reads its stdin; it need not answer, write
\* or exit.  The event pump takes what there is until it returns.
Fairness ==
    /\ \A r \in Request : /\ SF_bridgeVars(RequestEnqueue(r))
                          /\ WF_bridgeVars(RequestGoesOn(r))
    /\ WF_bridgeVars(WriterWrite) /\ WF_bridgeVars(PiRead)
    /\ WF_bridgeVars(Reader) /\ WF_bridgeVars(Router) /\ WF_bridgeVars(PumpTake)

Spec == SafeSpec /\ Fairness

-----------------------------------------------------------------------------
(* Properties *)

TypeOK ==
    /\ request \in [Request -> {"new", "enqueue", "wait", "expire",
                                "answered", "timed out", "closed"}]
    /\ notice \in [Notice -> {"new", "sent", "closed"}]
    /\ pending \subseteq Request
    /\ resolved \in [Request -> {"no", "answered", "closed"}]
    /\ outbound \in Seq(Call) /\ Len(outbound) <= OutboundCap
    /\ stdin \in Seq(Call) /\ Len(stdin) <= StdinCap
    /\ writer \in {"running", "stopped"} /\ reader \in {"running", "ended"}
    /\ process \in {"open", "closed"}
    /\ ran \subseteq heard /\ heard \subseteq Request
    /\ events \in 0 .. MaxEvents
    /\ stdout \in Seq(Line)
    /\ incoming \in Seq(Line) /\ Len(incoming) <= IncomingCap
    /\ router \in {[at |-> "next"], [at |-> "ended"]} \cup {[at |-> "deliver", line |-> l] : l \in Line}
    /\ frames \in Seq(Line) /\ Len(frames) <= FramesCap
    /\ pump \in {"running", "returned"}
    /\ taken \in Seq(Line)

\* The pending map holds no request that is over: whichever of the answer, the
\* deadline, the refusal and the drain comes first, its entry goes with it.
NoDeadEntry ==
    \A r \in pending : request[r] \in {"enqueue", "wait", "expire"} /\ resolved[r] = "no"

\* The lines that went past the pending map, from the pump back to the router.
Surfaced == taken \o frames \o (IF router.at = "deliver" THEN <<router.line>> ELSE << >>)

\* An answer reaches the event pump only when its request has timed out: the
\* id is in the map before the command can reach Pi, so no answer is early.
StrayAnswersAreLate ==
    \A p \in DOMAIN Surfaced : IsAnswer(Surfaced[p]) => request[Surfaced[p].id] = "timed out"

\* All lines from the pump back to Pi.
Way == Surfaced \o incoming \o stdout

\* The events among the lines are those up to number n, in order.
CountTo(lines, n) ==
    LET Events == {p \in DOMAIN lines : ~IsAnswer(lines[p])}
    IN  /\ {lines[p].event : p \in Events} = 1 .. n
        /\ \A p, q \in Events : p < q => lines[p].event < lines[q].event

\* The events the pump sees are those Pi wrote, in order and complete, even
\* with answers taken out from between them.
EventsKeepOrder == CountTo(Way, events)

\* The bridge implements what request promises, its termination included.
StatusOf(r) ==
    CASE request[r] = "new" -> "new"
      [] request[r] \in {"enqueue", "wait", "expire"} -> "asked"
      [] OTHER -> request[r]

Promise == INSTANCE RpcPromise WITH
    status <- [r \in Request |-> StatusOf(r)],
    up <- process = "open"

PromiseKept == Promise!Spec

\* Once Pi is gone every request ends, though the pump may have returned and
\* left read_frames stuck before the drain that would have failed them; and
\* while there is a pump, the lines are read to the end.
ClosedBridgeDrains ==
    (process = "closed") ~>
        /\ router.at = "ended" \/ pump = "returned"
        /\ \A r \in Request : StatusOf(r) # "asked"

=============================================================================
