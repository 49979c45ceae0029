----------------------------- MODULE ChatChannel -----------------------------
(***************************************************************************)
(* One Telegram channel shared by the Pi sessions of a machine             *)
(* (src/extensions/chat-inbox): the lock file that says which session has  *)
(* the channel and the log it fences (log.ts), the in-memory runtime over  *)
(* the log (runtime.ts), the poll loop (live/telegram.ts) and the session  *)
(* that connects, starts turns and stands down (extension-entry.ts).       *)
(*                                                                         *)
(* A connection is one runtime object and its poll loop; a session makes a *)
(* new one each time it connects, under one owner id.  Every append to the *)
(* log is three moments of its task: the record is built (its id is        *)
(* taken), the lock file is read (the fence), the line reaches the file.   *)
(* Three tasks of a connection append: the poll loop, an album's timer and *)
(* the end of a turn.  The updates are numbered by Telegram, which forgets *)
(* those below the offset it is asked for.                                 *)
(*                                                                         *)
(* A definition marked "Fault" is a wrong form of the one after it and no  *)
(* part of the specification; it tests that a property notices.            *)
(***************************************************************************)
EXTENDS Integers, Sequences, FiniteSets

CONSTANTS
    Sessions,             \* Pi sessions, each in a process of its own
    MaxConnections,       \* bound of the model: runtime objects ever made
    MaxUpdates,           \* bound of the model: updates sent to the bot
    Albums,               \* the updates that carry a media group
    Commands,             \* the updates that are control commands
    MaxFailures,          \* bound of the model: failures of a download or of Telegram
    MaxCrashes,           \* bound of the model: processes killed
    MaxDisconnects,       \* bound of the model: times a user disconnects
    AgentsAnswer,         \* bound of the model: FALSE keeps every agent busy
    MaxLocalTurns,        \* bound of the model: turns of the terminal's user
    NoOwner

Updates == 1 .. MaxUpdates
Connections == 1 .. MaxConnections
NoConnection == 0

ASSUME BoundsAssumption == MaxUpdates \in Nat /\ MaxConnections \in Nat
ASSUME UpdatesAssumption == Albums \subseteq Updates /\ Commands \subseteq Updates
ASSUME AgentsAnswerAssumption == AgentsAnswer \in BOOLEAN
ASSUME NoOwnerAssumption == NoOwner \notin Sessions

VARIABLES
    log,                  \* the channel's log file: records in the order written
    lock,                 \* the lock file's owner, and how many claims were made
    telegram,             \* [sent, confirmed]: the newest update, and the newest forgotten
    runtimes,             \* the runtime object of each connection
    polls,                \* the poll loop of each connection
    writes,               \* the append each task of a connection is in, at most one
    sessions,             \* the extension's variables in each session
    excused,              \* updates handled as commands or whose download failed (history)
    prompted,             \* updates that were part of a turn's prompt (history)
    faults                \* [failures, crashes, disconnects, localTurns] so far

vars == <<log, lock, telegram, runtimes, polls, writes, sessions, excused, prompted, faults>>

Tasks == {"poll", "flush", "turn"}
NotArmed == -1

\* A runtime keeps every record it read or wrote; what it asks of them is the
\* next id, the last checkpoint's cursor, the last queued trigger, the boundary
\* of the finished jobs, the id of the last one, and the messages.
NewRuntime(s) ==
    [owner |-> s, next |-> 1, cursor |-> 0, queued |-> 0, boundary |-> 0, tail |-> 0,
     heard |-> {}, pending |-> <<>>, active |-> <<>>, armed |-> NotArmed, lost |-> FALSE]

NewPoll == [at |-> "off", offset |-> 0, batch |-> {}, abort |-> FALSE, held |-> {}]

Ended(p) == [NewPoll EXCEPT !.at = "ended", !.abort = TRUE, !.held = p.held]

NewSession ==
    [alive |-> TRUE, connection |-> NoConnection, current |-> FALSE, live |-> FALSE,
     noticed |-> FALSE, teardown |-> "none", inFlight |-> FALSE,
     agent |-> IF AgentsAnswer THEN "idle" ELSE "busy", sending |-> 0]

Largest(S) == IF \E x \in S : \A y \in S : y <= x THEN CHOOSE x \in S : \A y \in S : y <= x ELSE 0

Owner(c) == runtimes[c].owner
Alive(c) == Owner(c) \in Sessions /\ sessions[Owner(c)].alive

\* The handlers of connection c find `runtime` set: to this connection's.
HasRuntime(c) == sessions[Owner(c)].current /\ sessions[Owner(c)].connection = c

\* Fault: the lock file is not read again.
OwnsInMemory(c) == ~runtimes[c].lost

Owns(c) == ~runtimes[c].lost /\ lock.owner = Owner(c)

-----------------------------------------------------------------------------
(* Reading and building records. *)

Ids(kind) == {log[i].ref : i \in {j \in DOMAIN log : log[j].kind = kind}}

\* The log is sorted by record id when it is read.
LastById(kind) ==
    {i \in DOMAIN log : log[i].kind = kind
                        /\ \A j \in DOMAIN log :
                             log[j].kind = kind => log[j].id < log[i].id \/ (log[j].id = log[i].id /\ j <= i)}

LoadedCursor == Largest({log[i].update : i \in LastById("checkpoint")})

Loaded(k) ==
    LET last == Largest({log[i].id : i \in DOMAIN log})
    IN  [k EXCEPT !.next = last + 1, !.tail = last, !.cursor = LoadedCursor,
                  !.queued = Largest(Ids("job_queued")),
                  !.boundary = Largest(Ids("job_completed") \cup Ids("job_failed")),
                  !.heard = {[id |-> log[i].id, update |-> log[i].update] :
                               i \in {j \in DOMAIN log : log[j].kind = "inbound"}}]

\* ref is the record a job or a checkpoint belongs to: its trigger.
Record(c, k, kind, update, ref) ==
    [kind |-> kind, id |-> k.next, update |-> update, ref |-> ref, by |-> c]

Writing(rec) == <<[rec |-> rec, fenced |-> FALSE]>>

Pushed(k, rec) ==
    [k EXCEPT !.next = IF rec.id + 1 > @ THEN rec.id + 1 ELSE @,
              !.tail = rec.id,
              !.cursor = IF rec.kind = "checkpoint" THEN rec.update ELSE @,
              !.queued = IF rec.kind = "job_queued" /\ rec.ref > @ THEN rec.ref ELSE @,
              !.boundary = IF rec.kind \in {"job_completed", "job_failed"} /\ rec.ref > @ THEN rec.ref ELSE @,
              !.heard = IF rec.kind = "inbound" THEN @ \cup {[id |-> rec.id, update |-> rec.update]} ELSE @]

\* Fault: messages of the catch-up ask for turns.
WantsAnyTurn(k, id) == id > k.queued

WantsTurn(k, id) == k.armed # NotArmed /\ id > Largest({k.armed, k.queued})

Trigger(c, k, update, id) ==
    IF WantsTurn(k, id) THEN Writing(Record(c, k, "job_queued", update, id)) ELSE <<>>

\* What the task does after the append of rec, which the fence may have dropped.
FollowUp(c, k, rec) ==
    CASE rec.kind = "inbound" ->
           IF k.cursor # rec.update
           THEN Writing(Record(c, k, "checkpoint", rec.update, rec.id))
           ELSE Trigger(c, k, rec.update, rec.id)
      [] rec.kind = "checkpoint" -> Trigger(c, k, rec.update, rec.ref)
      [] rec.kind = "outbound" -> Writing(Record(c, k, "job_completed", 0, rec.ref))
      [] OTHER -> <<>>

Finished(k, rec) ==
    CASE rec.kind = "job_queued" -> [k EXCEPT !.pending = Append(@, rec.ref)]
      [] rec.kind \in {"job_completed", "job_failed"} -> [k EXCEPT !.active = <<>>]
      [] OTHER -> k

-----------------------------------------------------------------------------
(* Turns.  tryDispatch is the end of every handler that may have queued or *)
(* finished a job.                                                         *)

\* Fault: a turn is told its trigger and nothing of what came before.
TriggerOnly(k, id) == {h.update : h \in {g \in k.heard : g.id = id}}

Prompt(k, id) == {h.update : h \in {g \in k.heard : k.boundary < g.id /\ g.id <= id}}

TryDispatch(rts, s, v) ==
    LET c == v.connection
        k == rts[c]
    IN  IF /\ v.current /\ ~v.inFlight /\ v.agent = "idle"
           /\ k.active = <<>> /\ k.pending # <<>>
        THEN /\ runtimes' = [rts EXCEPT ![c] = [k EXCEPT !.active = <<Head(k.pending)>>,
                                                         !.pending = Tail(@)]]
             /\ sessions' = [sessions EXCEPT ![s] = [v EXCEPT !.inFlight = TRUE, !.agent = "chat"]]
             /\ prompted' = prompted \cup Prompt(k, Head(k.pending))
        ELSE /\ runtimes' = rts
             /\ sessions' = [sessions EXCEPT ![s] = v]
             /\ UNCHANGED prompted

-----------------------------------------------------------------------------
(* Appending to the log. *)

\* Fault: the eviction is noted and nothing torn down.
NoticedOnce(v) == [v EXCEPT !.noticed = TRUE]

\* handleEviction, once for each connect.
Noticed(v) ==
    IF v.noticed THEN v
    ELSE [v EXCEPT !.noticed = TRUE, !.teardown = IF @ = "none" THEN "evicting" ELSE @]

Continue(c, t, rts, v, rec) ==
    LET k == rts[c]
        next == FollowUp(c, k, rec)
    IN  /\ writes' = [writes EXCEPT ![c][t] = next]
        /\ IF next = <<>> /\ rec.kind # "error"
           THEN TryDispatch([rts EXCEPT ![c] = Finished(k, rec)], Owner(c), v)
           ELSE /\ runtimes' = rts
                /\ sessions' = [sessions EXCEPT ![Owner(c)] = v]
                /\ UNCHANGED prompted

\* appendRecord up to the append: a record refused by the fence is dropped.
Fence(c, t) ==
    /\ Alive(c) /\ writes[c][t] # <<>> /\ ~writes[c][t][1].fenced
    /\ LET rec == writes[c][t][1].rec
           v == sessions[Owner(c)]
       IN  IF Owns(c)
           THEN /\ runtimes' = [runtimes EXCEPT ![c] = Pushed(@, rec)]
                /\ writes' = [writes EXCEPT ![c][t][1].fenced = TRUE]
                /\ UNCHANGED <<sessions, prompted>>
           ELSE Continue(c, t, [runtimes EXCEPT ![c].lost = TRUE],
                         IF runtimes[c].lost THEN v ELSE Noticed(v), rec)
    /\ UNCHANGED <<log, lock, telegram, polls, excused, faults>>

\* The line reaches the file; a record also tells which task wrote it under whose claim.
AppendRecord(c, t) ==
    /\ Alive(c) /\ writes[c][t] # <<>> /\ writes[c][t][1].fenced
    /\ LET rec == writes[c][t][1].rec
       IN  /\ log' = Append(log, [kind |-> rec.kind, id |-> rec.id, update |-> rec.update,
                                  ref |-> rec.ref, by |-> c, task |-> t, stray |-> lock.owner # Owner(c),
                                  claim |-> IF lock.owner # Owner(c) THEN lock.claims ELSE 0])
           /\ Continue(c, t, runtimes, sessions[Owner(c)], rec)
    /\ UNCHANGED <<lock, telegram, polls, excused, faults>>

-----------------------------------------------------------------------------
(* Connecting: the claim, then the log, then what Telegram still has. *)

ConnectBegin(s, c) ==
    /\ sessions[s].alive /\ sessions[s].teardown = "none" /\ ~sessions[s].current
    /\ \A old \in Connections : Owner(old) = s => polls[old].at = "ended"
    /\ Owner(c) = NoOwner /\ \A d \in 1 .. c - 1 : Owner(d) # NoOwner
    /\ sessions' = [sessions EXCEPT ![s].connection = c, ![s].live = FALSE, ![s].noticed = FALSE]
    /\ runtimes' = [runtimes EXCEPT ![c] = NewRuntime(s)]
    /\ polls' = [polls EXCEPT ![c].at = IF lock.owner = s THEN "reading" ELSE "claiming"]
    /\ UNCHANGED <<log, lock, telegram, writes, excused, prompted, faults>>

\* A deliberate connect takes the channel from whoever holds it.
Connect(s, c) == ConnectBegin(s, c)

\* A restore at startup takes it only when nobody holds it or the holder's process is gone.
Restore(s, c) ==
    /\ lock.owner \in Sessions \ {s} => ~sessions[lock.owner].alive
    /\ ConnectBegin(s, c)

Claim(c) ==
    /\ Alive(c) /\ polls[c].at = "claiming"
    /\ lock' = [owner |-> Owner(c), claims |-> lock.claims + 1]
    /\ polls' = [polls EXCEPT ![c].at = "reading"]
    /\ UNCHANGED <<log, telegram, runtimes, writes, sessions, excused, prompted, faults>>

Load(c) ==
    /\ Alive(c) /\ polls[c].at = "reading"
    /\ runtimes' = [runtimes EXCEPT ![c] = Loaded(@)]
    /\ sessions' = [sessions EXCEPT ![Owner(c)].current = TRUE]
    /\ polls' = [polls EXCEPT ![c].at = "initial", ![c].offset = LoadedCursor + 1]
    /\ UNCHANGED <<log, lock, telegram, writes, excused, prompted, faults>>

-----------------------------------------------------------------------------
(* Telegram: asking for the updates from an offset forgets those before it. *)

Before(offset) == IF offset - 1 > telegram.confirmed THEN offset - 1 ELSE telegram.confirmed

Confirm(offset) == telegram' = [telegram EXCEPT !.confirmed = Before(offset)]

Waiting(offset) == (Before(offset) + 1) .. telegram.sent

Send ==
    /\ telegram.sent < MaxUpdates
    /\ telegram' = [telegram EXCEPT !.sent = @ + 1]
    /\ UNCHANGED <<log, lock, runtimes, polls, writes, sessions, excused, prompted, faults>>

\* The updates waiting when the channel connects.
FetchInitial(c) ==
    /\ Alive(c) /\ polls[c].at = "initial"
    /\ Confirm(polls[c].offset)
    /\ polls' = [polls EXCEPT ![c].at = "catching up", ![c].batch = Waiting(polls[c].offset)]
    /\ UNCHANGED <<log, lock, runtimes, writes, sessions, excused, prompted, faults>>

\* connectLive throws: the claim is given back.
ConnectFails(c) ==
    /\ Alive(c) /\ polls[c].at \in {"initial", "catching up"} /\ writes[c]["poll"] = <<>>
    /\ polls[c].at = "catching up" => polls[c].batch # {}
    /\ faults.failures < MaxFailures
    /\ faults' = [faults EXCEPT !.failures = @ + 1]
    /\ polls' = [polls EXCEPT ![c] = Ended(@)]
    /\ sessions' = [sessions EXCEPT ![Owner(c)].current = FALSE,
                                    ![Owner(c)].teardown = IF HasRuntime(c) /\ @ = "none" THEN "releasing" ELSE @]
    /\ UNCHANGED <<log, lock, telegram, runtimes, writes, excused, prompted>>

\* From here on messages ask for turns.  Nothing can be pending yet.
CaughtUp(c) ==
    /\ Alive(c) /\ polls[c].at = "catching up" /\ polls[c].batch = {} /\ writes[c]["poll"] = <<>>
    /\ runtimes' = IF HasRuntime(c) THEN [runtimes EXCEPT ![c].armed = runtimes[c].tail] ELSE runtimes
    /\ sessions' = [sessions EXCEPT ![Owner(c)].live = TRUE]
    /\ polls' = [polls EXCEPT ![c].at = "polling"]
    /\ UNCHANGED <<log, lock, telegram, writes, excused, prompted, faults>>

-----------------------------------------------------------------------------
(* The poll loop. *)

\* evictIfReplaced: the loop ends for good and the session is told.
StandDown(c) ==
    /\ ~(HasRuntime(c) /\ Owns(c))
    /\ polls' = [polls EXCEPT ![c] = Ended(@)]
    /\ runtimes' = IF HasRuntime(c) THEN [runtimes EXCEPT ![c].lost = TRUE] ELSE runtimes
    /\ sessions' = [sessions EXCEPT ![Owner(c)] = Noticed(@)]
    /\ UNCHANGED <<log, lock, telegram, writes, excused, prompted, faults>>

BetweenPolls(c) ==
    Alive(c) /\ polls[c].at = "polling" /\ polls[c].batch = {} /\ writes[c]["poll"] = <<>>

CheckFails(c) == BetweenPolls(c) /\ ~polls[c].abort /\ StandDown(c)

\* Fault: the loop asks on whether or not the channel is still ours.
PollsOn(c) ==
    /\ BetweenPolls(c) /\ ~polls[c].abort /\ HasRuntime(c)
    /\ polls' = [polls EXCEPT ![c].at = "fetching"]
    /\ UNCHANGED <<log, lock, telegram, runtimes, writes, sessions, excused, prompted, faults>>

CheckPasses(c) ==
    /\ BetweenPolls(c) /\ ~polls[c].abort /\ HasRuntime(c) /\ Owns(c)
    /\ polls' = [polls EXCEPT ![c].at = "fetching"]
    /\ UNCHANGED <<log, lock, telegram, runtimes, writes, sessions, excused, prompted, faults>>

LoopEnds(c) ==
    /\ polls[c].abort /\ (BetweenPolls(c) \/ (Alive(c) /\ polls[c].at = "fetching"))
    /\ polls' = [polls EXCEPT ![c] = Ended(@)]
    /\ UNCHANGED <<log, lock, telegram, runtimes, writes, sessions, excused, prompted, faults>>

Fetching(c) == Alive(c) /\ polls[c].at = "fetching" /\ ~polls[c].abort

Fetch(c) ==
    /\ Fetching(c)
    /\ Confirm(polls[c].offset)
    /\ polls' = [polls EXCEPT ![c].at = "polling", ![c].batch = Waiting(polls[c].offset)]
    /\ UNCHANGED <<log, lock, runtimes, writes, sessions, excused, prompted, faults>>

\* Another poller of the bot took Telegram's place for us: ask at once who owns the channel.
FetchConflict(c) == Fetching(c) /\ StandDown(c)

NoteError(c) ==
    writes' = IF HasRuntime(c)
              THEN [writes EXCEPT ![c]["poll"] = Writing(Record(c, runtimes[c], "error", 0, 0))]
              ELSE writes

FetchFails(c) ==
    /\ Fetching(c) /\ faults.failures < MaxFailures
    /\ faults' = [faults EXCEPT !.failures = @ + 1]
    /\ polls' = [polls EXCEPT ![c].at = "polling"]
    /\ NoteError(c)
    /\ UNCHANGED <<log, lock, telegram, runtimes, sessions, excused, prompted>>

\* The updates of a batch are taken in order; those that were waiting when the
\* channel connected with the albums after the rest.
IsNext(p, u) ==
    /\ u \in p.batch
    /\ \A v \in p.batch :
         IF p.at = "catching up" /\ ~(u \in Albums <=> v \in Albums) THEN u \notin Albums ELSE u <= v

NextUpdate(c, u) ==
    /\ Alive(c) /\ polls[c].at \in {"catching up", "polling"}
    /\ writes[c]["poll"] = <<>> /\ IsNext(polls[c], u)

\* The offset passes an update before it is handled.
Passed(p, u) == [p EXCEPT !.batch = @ \ {u}, !.offset = IF u >= @ THEN u + 1 ELSE @]

IsCommand(c, u) == u \in Commands /\ runtimes[c].armed # NotArmed

\* An album waits for its other parts, on a timer of its own.
IsHeld(c, u) == u \in Albums /\ polls[c].at = "polling"

TakeMessage(c, u) ==
    /\ NextUpdate(c, u) /\ HasRuntime(c) /\ ~IsHeld(c, u) /\ ~IsCommand(c, u)
    /\ writes' = [writes EXCEPT ![c]["poll"] = Writing(Record(c, runtimes[c], "inbound", u, 0))]
    /\ polls' = [polls EXCEPT ![c] = Passed(@, u)]
    /\ UNCHANGED <<log, lock, telegram, runtimes, sessions, excused, prompted, faults>>

TakeCommand(c, u) ==
    /\ NextUpdate(c, u) /\ HasRuntime(c) /\ ~IsHeld(c, u) /\ IsCommand(c, u)
    /\ excused' = excused \cup {u}
    /\ polls' = [polls EXCEPT ![c] = Passed(@, u)]
    /\ UNCHANGED <<log, lock, telegram, runtimes, writes, sessions, prompted, faults>>

\* onMessage returns at once when the session gave its runtime up.
TakeNothing(c, u) ==
    /\ NextUpdate(c, u) /\ ~HasRuntime(c) /\ ~IsHeld(c, u)
    /\ polls' = [polls EXCEPT ![c] = Passed(@, u)]
    /\ UNCHANGED <<log, lock, telegram, runtimes, writes, sessions, excused, prompted, faults>>

TakeAlbum(c, u) ==
    /\ NextUpdate(c, u) /\ IsHeld(c, u)
    /\ polls' = [polls EXCEPT ![c] = [Passed(polls[c], u) EXCEPT !.held = @ \cup {u}]]
    /\ UNCHANGED <<log, lock, telegram, runtimes, writes, sessions, excused, prompted, faults>>

\* A download fails: the update is lost and the rest of the batch is asked for again.
TakeFails(c, u) ==
    /\ NextUpdate(c, u) /\ polls[c].at = "polling" /\ ~IsHeld(c, u)
    /\ faults.failures < MaxFailures
    /\ faults' = [faults EXCEPT !.failures = @ + 1]
    /\ excused' = excused \cup {u}
    /\ polls' = [polls EXCEPT ![c] = [Passed(@, u) EXCEPT !.batch = {}]]
    /\ NoteError(c)
    /\ UNCHANGED <<log, lock, telegram, runtimes, sessions, prompted>>

\* The timer of an album: onMessage, beside the loop.
FlushAlbum(c, u) ==
    /\ Alive(c) /\ u \in polls[c].held /\ writes[c]["flush"] = <<>>
    /\ polls' = [polls EXCEPT ![c].held = @ \ {u}]
    /\ writes' = IF HasRuntime(c)
                 THEN [writes EXCEPT ![c]["flush"] = Writing(Record(c, runtimes[c], "inbound", u, 0))]
                 ELSE writes
    /\ UNCHANGED <<log, lock, telegram, runtimes, sessions, excused, prompted, faults>>

-----------------------------------------------------------------------------
(* The agent's turns. *)

\* failActiveJob or completeActiveJob on the runtime the session has now.
FinishJob(s, v, kind) ==
    LET c == v.connection
        job == runtimes[c].active
    IN  IF ~v.current
        THEN /\ sessions' = [sessions EXCEPT ![s] = v]
             /\ UNCHANGED <<runtimes, writes, prompted>>
        ELSE IF job = <<>>
        THEN TryDispatch(runtimes, s, v) /\ UNCHANGED writes
        ELSE /\ writes[c]["turn"] = <<>>
             /\ writes' = [writes EXCEPT ![c]["turn"] = Writing(Record(c, runtimes[c], kind, 0, job[1]))]
             /\ sessions' = [sessions EXCEPT ![s] = v]
             /\ UNCHANGED <<runtimes, prompted>>

\* agent_end of a turn the chat did not ask for, or that was given up meanwhile.
TurnIsLocal(s) ==
    /\ sessions[s].alive /\ sessions[s].agent = "chat"
    /\ ~(sessions[s].current /\ sessions[s].inFlight)
    /\ sessions' = [sessions EXCEPT ![s].agent = "idle"]
    /\ UNCHANGED <<log, lock, telegram, runtimes, polls, writes, excused, prompted, faults>>

TurnFails(s) ==
    /\ sessions[s].alive /\ sessions[s].agent = "chat" /\ sessions[s].current /\ sessions[s].inFlight
    /\ FinishJob(s, [sessions[s] EXCEPT !.agent = "idle", !.inFlight = FALSE], "job_failed")
    /\ UNCHANGED <<log, lock, telegram, polls, excused, faults>>

\* The reply is on its way to Telegram; the flag stays up.
TurnEnds(s) ==
    /\ sessions[s].alive /\ sessions[s].agent = "chat" /\ sessions[s].current /\ sessions[s].inFlight
    /\ sessions' = [sessions EXCEPT ![s].agent = "idle", ![s].sending = @ + 1]
    /\ UNCHANGED <<log, lock, telegram, runtimes, polls, writes, excused, prompted, faults>>

\* It arrived or not: the job of the runtime the session has by now is finished.
ReplySent(s, kind) ==
    /\ sessions[s].alive /\ sessions[s].sending > 0
    /\ FinishJob(s, [sessions[s] EXCEPT !.sending = @ - 1, !.inFlight = FALSE], kind)
    /\ UNCHANGED <<log, lock, telegram, polls, excused, faults>>

\* The agent is busy with a turn of the terminal's user; its end dispatches nothing.
LocalTurn(s) ==
    /\ sessions[s].alive /\ sessions[s].agent = "idle" /\ sessions[s].current
    /\ faults.localTurns < MaxLocalTurns
    /\ faults' = [faults EXCEPT !.localTurns = @ + 1]
    /\ sessions' = [sessions EXCEPT ![s].agent = "busy"]
    /\ UNCHANGED <<log, lock, telegram, runtimes, polls, writes, excused, prompted>>

LocalTurnEnds(s) ==
    /\ AgentsAnswer /\ sessions[s].alive /\ sessions[s].agent = "busy"
    /\ sessions' = [sessions EXCEPT ![s].agent = "idle"]
    /\ UNCHANGED <<log, lock, telegram, runtimes, polls, writes, excused, prompted, faults>>

-----------------------------------------------------------------------------
(* disconnectRuntime, for a user, a shutdown or an eviction. *)

RuntimeGivenUp(v) ==
    [v EXCEPT !.current = FALSE, !.inFlight = FALSE,
              !.teardown = IF v.current THEN "releasing" ELSE "none"]

Disconnecting(s) ==
    LET c == sessions[s].connection
    IN  IF sessions[s].live
        THEN /\ polls' = [polls EXCEPT ![c].abort = TRUE, ![c].held = {}]
             /\ sessions' = [sessions EXCEPT ![s].live = FALSE, ![s].teardown = "stopping"]
        ELSE /\ sessions' = [sessions EXCEPT ![s] = RuntimeGivenUp(@)]
             /\ UNCHANGED polls

Disconnect(s) ==
    /\ sessions[s].alive /\ sessions[s].teardown = "none" /\ sessions[s].live
    /\ faults.disconnects < MaxDisconnects
    /\ faults' = [faults EXCEPT !.disconnects = @ + 1]
    /\ Disconnecting(s)
    /\ UNCHANGED <<log, lock, telegram, runtimes, writes, excused, prompted>>

EvictionGoesOn(s) ==
    /\ sessions[s].alive /\ sessions[s].teardown = "evicting"
    /\ Disconnecting(s)
    /\ UNCHANGED <<log, lock, telegram, runtimes, writes, excused, prompted, faults>>

LoopAwaited(s) ==
    /\ sessions[s].alive /\ sessions[s].teardown = "stopping"
    /\ polls[sessions[s].connection].at = "ended"
    /\ sessions' = [sessions EXCEPT ![s] = RuntimeGivenUp(@)]
    /\ UNCHANGED <<log, lock, telegram, runtimes, polls, writes, excused, prompted, faults>>

ReleaseCheck(s) ==
    /\ sessions[s].alive /\ sessions[s].teardown = "releasing"
    /\ sessions' = [sessions EXCEPT ![s].teardown = IF lock.owner = s THEN "unlinking" ELSE "none"]
    /\ UNCHANGED <<log, lock, telegram, runtimes, polls, writes, excused, prompted, faults>>

Unlink(s) ==
    /\ sessions[s].alive /\ sessions[s].teardown = "unlinking"
    /\ lock' = [lock EXCEPT !.owner = NoOwner]
    /\ sessions' = [sessions EXCEPT ![s].teardown = "none"]
    /\ UNCHANGED <<log, telegram, runtimes, polls, writes, excused, prompted, faults>>

\* The process is gone; its lock file and its records stay.
Crash(s) ==
    /\ sessions[s].alive /\ faults.crashes < MaxCrashes
    /\ faults' = [faults EXCEPT !.crashes = @ + 1]
    /\ sessions' = [sessions EXCEPT ![s] = [NewSession EXCEPT !.alive = FALSE]]
    /\ polls' = [c \in Connections |-> IF Owner(c) = s THEN Ended(NewPoll) ELSE polls[c]]
    /\ writes' = [c \in Connections |-> IF Owner(c) = s THEN [t \in Tasks |-> <<>>] ELSE writes[c]]
    /\ UNCHANGED <<log, lock, telegram, runtimes, excused, prompted>>

-----------------------------------------------------------------------------
Init ==
    /\ log = <<>>
    /\ lock = [owner |-> NoOwner, claims |-> 0]
    /\ telegram = [sent |-> 0, confirmed |-> 0]
    /\ runtimes = [c \in Connections |-> NewRuntime(NoOwner)]
    /\ polls = [c \in Connections |-> NewPoll]
    /\ writes = [c \in Connections |-> [t \in Tasks |-> <<>>]]
    /\ sessions = [s \in Sessions |-> NewSession]
    /\ excused = {} /\ prompted = {}
    /\ faults = [failures |-> 0, crashes |-> 0, disconnects |-> 0, localTurns |-> 0]

\* What goes on by itself once a session is connected.
ChannelStep(c) ==
    \/ Claim(c) \/ Load(c) \/ FetchInitial(c) \/ CaughtUp(c)
    \/ CheckFails(c) \/ CheckPasses(c) \/ LoopEnds(c) \/ Fetch(c) \/ FetchConflict(c)
    \/ \E u \in Updates : TakeMessage(c, u) \/ TakeCommand(c, u) \/ TakeNothing(c, u)
    \/ \E u \in Updates : TakeAlbum(c, u) \/ FlushAlbum(c, u)
    \/ \E t \in Tasks : Fence(c, t) \/ AppendRecord(c, t)

SessionStep(s) ==
    \/ EvictionGoesOn(s) \/ LoopAwaited(s) \/ ReleaseCheck(s) \/ Unlink(s)

TurnStep(s) ==
    \/ TurnIsLocal(s) \/ TurnFails(s) \/ TurnEnds(s) \/ LocalTurn(s) \/ LocalTurnEnds(s)
    \/ \E kind \in {"outbound", "job_failed"} : ReplySent(s, kind)

Next ==
    \/ Send
    \/ \E s \in Sessions : SessionStep(s) \/ TurnStep(s) \/ Disconnect(s) \/ Crash(s)
    \/ \E s \in Sessions, c \in Connections : Connect(s, c) \/ Restore(s, c)
    \/ \E c \in Connections : ChannelStep(c) \/ ConnectFails(c) \/ FetchFails(c)
    \/ \E c \in Connections, u \in Updates : TakeFails(c, u)

Spec == Init /\ [][Next]_vars

FairSpec ==
    /\ Spec
    /\ \A c \in Connections : WF_vars(ChannelStep(c))
    /\ \A s \in Sessions : WF_vars(SessionStep(s))

-----------------------------------------------------------------------------
(* Properties. *)

\* The types.  A record of the log also tells the task that wrote it, and under
\* which claim of another session if it came late.
Kinds == {"inbound", "checkpoint", "job_queued", "outbound", "job_completed", "job_failed", "error"}
RecordType == [kind : Kinds, id : Int, update : Nat, ref : Int, by : Connections]
LogRecordType ==
    [kind : Kinds, id : Int, update : Nat, ref : Int, by : Connections,
     task : Tasks, stray : BOOLEAN, claim : Nat]
WriteType == [rec : RecordType, fenced : BOOLEAN]
RuntimeType ==
    [owner : Sessions \cup {NoOwner}, next : Int, cursor : Nat, queued : Int, boundary : Int,
     tail : Int, heard : SUBSET [id : Int, update : Nat], pending : Seq(Int), active : Seq(Int),
     armed : Int, lost : BOOLEAN]
PollType ==
    [at : {"off", "claiming", "reading", "initial", "catching up", "polling", "fetching", "ended"},
     offset : Nat, batch : SUBSET Nat, abort : BOOLEAN, held : SUBSET Nat]
SessionType ==
    [alive : BOOLEAN, connection : Connections \cup {NoConnection}, current : BOOLEAN, live : BOOLEAN,
     noticed : BOOLEAN, teardown : {"none", "evicting", "stopping", "releasing", "unlinking"},
     inFlight : BOOLEAN, agent : {"idle", "chat", "busy"}, sending : Int]

TypeOK ==
    /\ log \in Seq(LogRecordType)
    /\ lock \in [owner : Sessions \cup {NoOwner}, claims : Nat]
    /\ telegram \in [sent : Nat, confirmed : Nat]
    /\ runtimes \in [Connections -> RuntimeType]
    /\ polls \in [Connections -> PollType]
    /\ writes \in [Connections -> [Tasks -> Seq(WriteType)]]
    /\ sessions \in [Sessions -> SessionType]
    /\ excused \subseteq Nat /\ prompted \subseteq Nat

Logged(u) == \E i \in DOMAIN log : log[i].kind = "inbound" /\ log[i].update = u

\* Telegram never forgets an update the log does not have, through every
\* handover, eviction and crash (the cursor and the fence), but for commands,
\* messages whose download failed, and albums, which wait in memory.
HandoverWithoutGap ==
    \A u \in 1 .. telegram.confirmed : Logged(u) \/ u \in excused \/ u \in Albums

\* The same of albums too, once no timer holds one and no append is under way:
\* what runtime.ts says of stopping the old instance first, that it is what
\* "makes the Telegram cursor hand over without a gap or a replay".
AlbumsSurviveHandover ==
    \A u \in 1 .. telegram.confirmed :
        \/ Logged(u) \/ u \in excused
        \/ \E c \in Connections : u \in polls[c].held \/ \E t \in Tasks :
              writes[c][t] # <<>> /\ writes[c][t][1].rec.update = u

\* What reaches the log after the writer lost the channel was already on its
\* way: each task of a connection adds at most one such record per claim
\* (appendRecord reads the lock again for the next one).
StraysAreOnTheirWay ==
    \A i, j \in DOMAIN log :
        /\ log[i].stray /\ log[j].stray /\ log[i].by = log[j].by
        /\ log[i].task = log[j].task /\ log[i].claim = log[j].claim
        => i = j

\* One message asks for at most one turn, however often it is replayed and
\* whoever serves the channel: a connection that catches up is not armed
\* (shouldQueueTrigger).  An album asks from a timer, which the fence lets pass
\* again when its session has reconnected: once for each session.
OneJobPerUpdate ==
    \A i, j \in DOMAIN log :
        /\ log[i].kind = "job_queued" /\ log[j].kind = "job_queued" /\ log[i].update = log[j].update
        => i = j \/ (log[i].update \in Albums /\ Owner(log[i].by) # Owner(log[j].by))

\* A connection gave the update's record and another one of its own the same
\* id: an id is taken before the fence, the next one counted after it.
Collided(u) ==
    \E i, m \in DOMAIN log :
        /\ log[i].kind = "inbound" /\ log[i].update = u
        /\ m # i /\ log[m].id = log[i].id /\ log[m].by = log[i].by

\* The boundary of a finished job, which every later prompt starts after
\* (buildPrompt), passes over no message that none had, whoever finished the
\* job and whoever logged the message, commands and failed downloads aside:
\* but for one whose id its own connection gave twice.  An album is logged by
\* a timer, at any time, and may be passed over.
NothingIsPassedOver ==
    \A i, j \in DOMAIN log :
        /\ log[i].kind = "inbound" /\ log[i].update \notin Albums
        /\ log[j].kind \in {"job_completed", "job_failed"} /\ log[i].id <= log[j].ref
        => log[i].update \in prompted \cup excused \/ Collided(log[i].update)

\* The same of every message.  An album's timer and the poll loop take an id at
\* once; if the album's turn ends before the message is past the fence, the
\* boundary is at the message's own id, and no prompt has it.
SharedIdsPassOverNothing ==
    \A i, j \in DOMAIN log :
        /\ log[i].kind = "inbound" /\ log[i].update \notin Albums
        /\ log[j].kind \in {"job_completed", "job_failed"} /\ log[i].id <= log[j].ref
        => log[i].update \in prompted \cup excused

\* An instance that was replaced notices it and gives its runtime up; the
\* eviction, which waits for the poll loop, is never what the loop waits for.
EvictedStandsDown ==
    \A s \in Sessions :
        (sessions[s].current /\ lock.owner # s) ~> (~sessions[s].current \/ lock.owner = s)

=============================================================================
