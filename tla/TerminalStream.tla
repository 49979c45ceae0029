---------------------------- MODULE TerminalStream ----------------------------
(***************************************************************************)
(* How the output of a running terminal reaches a client's screen: the     *)
(* reader thread and the output store (terminal_manager.rs,                *)
(* terminal_output.rs), the connection's event receiver and outgoing queue *)
(* (host_server.rs) and the replay of terminal-client.js.                  *)
(*                                                                         *)
(* One terminal, one generation, one client, from the moment it was told   *)
(* that the tab was created.  Every command is a host task of its own, so  *)
(* a list's answer is computed in one step and queued in a later one.      *)
(* A snapshot of the screen is the sequence of the chunks written to it.   *)
(*                                                                         *)
(* A definition marked "Fault" is a wrong form of the one after it and no  *)
(* part of the specification; it tests that a property notices.            *)
(***************************************************************************)
EXTENDS TerminalOutput, SequencesExt

CONSTANTS
    Sizes,                \* the sizes chunks have
    ReceiverCapacity,     \* of the broadcast channel the connection reads
    SnapshotFields,       \* the fields clients put the snapshot of a checkpoint in
    MaxOutputs,           \* bound of the model: chunks the shell writes
    MaxCheckpoints,       \* bound of the model: checkpoints sent
    MaxDrops              \* bound of the model: times the connection is lost

ASSUME SizesAssumption == Sizes \subseteq 1 .. JournalBytes
ASSUME ReceiverCapacityAssumption == ReceiverCapacity \in Nat \ {0}
ASSUME FieldsAssumption == SnapshotFields \subseteq {"snapshotBase64", "dataBase64"}

VARIABLES
    store,                \* the terminal's output store
    emitting,             \* the event the reader thread has yet to broadcast, as a set
    receiver,             \* events broadcast that the connection has not read
    outgoing,             \* frames on their way to the client
    lists,                \* terminal_list commands the host has not run
    answers,              \* answers computed and not yet queued
    acks,                 \* terminal_ack commands not run
    checkpoints,          \* terminal_checkpoint commands not run
    tab,                  \* the client's entry for the tab, and its screen
    link,                 \* the connection: up or not, and how many were lost
    sent                  \* checkpoints sent

hostVars == <<store, emitting>>
commandVars == <<lists, answers, acks, checkpoints>>
vars == <<store, emitting, receiver, outgoing, lists, answers, acks, checkpoints, tab, link, sent>>

-----------------------------------------------------------------------------
(* The client's entry. *)

NoTab == [present |-> FALSE, last |-> 0, paused |-> FALSE, gap |-> FALSE, screen |-> <<>>]

Same(entry) == [tab |-> entry, asks |-> 0, acks |-> {}]

Write(entry, batch) ==
    [tab |-> [entry EXCEPT !.screen = @ \o batch.chunks, !.last = batch.last],
     asks |-> 0, acks |-> {batch.last}]

Pause(entry) == [tab |-> [entry EXCEPT !.paused = TRUE], asks |-> 1, acks |-> {}]

\* Fault: the batch is written wherever it starts.
ApplyBatchAnywhere(entry, batch) ==
    IF batch.first <= entry.last THEN Same(entry) ELSE Write(entry, batch)

ApplyBatch(entry, batch) ==
    IF batch.first <= entry.last THEN Same(entry)
    ELSE IF entry.gap \/ batch.first = entry.last + 1 THEN Write(entry, batch)
    ELSE Pause(entry)

ApplyOutput(entry, batch) ==
    IF entry.present /\ ~entry.paused THEN ApplyBatch(entry, batch) ELSE Same(entry)

Replay(entry, journal) ==
    IF journal = {} THEN Same(entry)
    ELSE ApplyBatch(entry, CHOOSE batch \in journal : TRUE)

\* Fault: a tab that was paused stays paused.
ApplySnapshotPaused(entry, listed) ==
    LET restored ==
            IF listed.checkpoint = NoCheckpoint
            THEN [entry EXCEPT !.present = TRUE, !.gap = listed.gap]
            ELSE [entry EXCEPT !.present = TRUE, !.gap = listed.gap,
                               !.screen = listed.checkpoint, !.last = listed.watermark]
    IN  Replay(restored, listed.journal)

ApplySnapshot(entry, listed) ==
    LET restored ==
            IF listed.checkpoint = NoCheckpoint
            THEN [entry EXCEPT !.present = TRUE, !.paused = FALSE, !.gap = listed.gap]
            ELSE [entry EXCEPT !.present = TRUE, !.paused = FALSE, !.gap = listed.gap,
                               !.screen = listed.checkpoint, !.last = listed.watermark]
    IN  Replay(restored, listed.journal)

-----------------------------------------------------------------------------
(* Frames. *)

Output(sequence) ==
    [type |-> "output", batch |-> [first |-> sequence, last |-> sequence, chunks |-> <<sequence>>]]

Listed ==
    [type |-> "listed", checkpoint |-> store.checkpoint, watermark |-> store.watermark,
     gap |-> store.gap, journal |-> JournalFrom(store, store.watermark)]

Failed == [type |-> "error"]

-----------------------------------------------------------------------------
(* The host. *)

\* run_reader: the chunk is stored under the live and outputs locks.
AppendOutput ==
    /\ emitting = {}
    /\ store.next <= MaxOutputs
    /\ \E size \in Sizes :
        /\ store' = AppendChunk(store, size)
        /\ emitting' = {Output(store.next)}
    /\ UNCHANGED <<receiver, outgoing, commandVars, tab, link, sent>>

\* The broadcast channel drops its oldest event when a receiver is full; the
\* connection passes over the Lagged error.
Publish(queue, event) ==
    IF Len(queue) < ReceiverCapacity THEN Append(queue, event) ELSE Append(Tail(queue), event)

EmitOutput ==
    /\ \E event \in emitting :
        receiver' = IF link.up THEN Publish(receiver, event) ELSE receiver
    /\ emitting' = {}
    /\ UNCHANGED <<store, outgoing, commandVars, tab, link, sent>>

ForwardEvent ==
    /\ receiver # <<>>
    /\ outgoing' = Append(outgoing, Head(receiver))
    /\ receiver' = Tail(receiver)
    /\ UNCHANGED <<hostVars, commandVars, tab, link, sent>>

RunList ==
    /\ lists > 0
    /\ lists' = lists - 1
    /\ answers' = Append(answers, Listed)
    /\ UNCHANGED <<hostVars, receiver, outgoing, acks, checkpoints, tab, link, sent>>

\* Answers of tasks that overlap are queued in any order.
QueueAnswer ==
    /\ \E i \in DOMAIN answers :
        /\ outgoing' = Append(outgoing, answers[i])
        /\ answers' = RemoveAt(answers, i)
    /\ UNCHANGED <<hostVars, receiver, lists, acks, checkpoints, tab, link, sent>>

RunAck ==
    /\ \E sequence \in acks :
        /\ store' = AckOutput(store, sequence)
        /\ acks' = acks \ {sequence}
    /\ UNCHANGED <<emitting, receiver, outgoing, lists, answers, checkpoints, tab, link, sent>>

\* decode_target_bytes reads "dataBase64" and nothing else.  A refused checkpoint
\* is answered, if its connection is still there, with an error.
RunCheckpoint ==
    /\ \E request \in checkpoints :
        /\ checkpoints' = checkpoints \ {request}
        /\ IF request.field = "dataBase64" /\ AcceptsWatermark(store, request.watermark)
           THEN /\ store' = AcceptCheckpoint(store, request.watermark, request.snapshot)
                /\ UNCHANGED answers
           ELSE /\ answers' = IF link.up /\ request.link = link.drops
                              THEN Append(answers, Failed) ELSE answers
                /\ UNCHANGED store
    /\ UNCHANGED <<emitting, receiver, outgoing, lists, acks, tab, link, sent>>

-----------------------------------------------------------------------------
(* The client. *)

After(result) ==
    /\ tab' = result.tab
    /\ lists' = lists + result.asks
    /\ acks' = acks \cup result.acks

ReceiveOutput ==
    /\ outgoing # <<>>
    /\ Head(outgoing).type = "output"
    /\ After(ApplyOutput(tab, Head(outgoing).batch))
    /\ outgoing' = Tail(outgoing)
    /\ UNCHANGED <<hostVars, receiver, answers, checkpoints, link, sent>>

ReceiveListed ==
    /\ outgoing # <<>>
    /\ Head(outgoing).type = "listed"
    /\ After(ApplySnapshot(tab, Head(outgoing)))
    /\ outgoing' = Tail(outgoing)
    /\ UNCHANGED <<hostVars, receiver, answers, checkpoints, link, sent>>

ReceiveError ==
    /\ outgoing # <<>>
    /\ Head(outgoing).type = "error"
    /\ lists' = lists + 1
    /\ outgoing' = Tail(outgoing)
    /\ UNCHANGED <<hostVars, receiver, answers, acks, checkpoints, tab, link, sent>>

\* checkpointAll: an empty screen is not sent.  The page of this repository puts
\* the snapshot in "snapshotBase64".
SendCheckpoint ==
    /\ sent < MaxCheckpoints
    /\ link.up /\ tab.screen # <<>>
    /\ \E field \in SnapshotFields :
           checkpoints' = checkpoints \cup
               {[field |-> field, watermark |-> tab.last, snapshot |-> tab.screen,
                 link |-> link.drops]}
    /\ sent' = sent + 1
    /\ UNCHANGED <<hostVars, receiver, outgoing, lists, answers, acks, tab, link>>

\* Tasks the host already started run on; nothing of the old connection is delivered.
Disconnect ==
    /\ link.up
    /\ link.drops < MaxDrops
    /\ link' = [up |-> FALSE, drops |-> link.drops + 1]
    /\ receiver' = <<>>
    /\ outgoing' = <<>>
    /\ lists' = 0
    /\ answers' = <<>>
    /\ acks' \in SUBSET acks
    /\ checkpoints' \in SUBSET checkpoints
    /\ UNCHANGED <<hostVars, tab, sent>>

Reconnect ==
    /\ ~link.up
    /\ link' = [link EXCEPT !.up = TRUE]
    /\ lists' = lists + 1
    /\ UNCHANGED <<hostVars, receiver, outgoing, answers, acks, checkpoints, tab, sent>>

-----------------------------------------------------------------------------

\* The client has just been told of the tab and has asked for the list.
StreamInit ==
    /\ store = NewStore
    /\ emitting = {}
    /\ receiver = <<>>
    /\ outgoing = <<>>
    /\ lists = 1
    /\ answers = <<>>
    /\ acks = {}
    /\ checkpoints = {}
    /\ tab = NoTab
    /\ link = [up |-> TRUE, drops |-> 0]
    /\ sent = 0

StreamNext ==
    \/ AppendOutput \/ EmitOutput \/ ForwardEvent
    \/ RunList \/ QueueAnswer \/ RunAck \/ RunCheckpoint
    \/ ReceiveOutput \/ ReceiveListed \/ ReceiveError
    \/ SendCheckpoint \/ Disconnect \/ Reconnect

StreamSpec == StreamInit /\ [][StreamNext]_vars

\* The host's threads and tasks run on, the client handles what it is sent, and
\* the adapter keeps trying to connect.  Shells, users and networks promise nothing.
FairStreamSpec ==
    /\ StreamSpec
    /\ WF_vars(EmitOutput) /\ WF_vars(ForwardEvent)
    /\ WF_vars(RunList) /\ WF_vars(QueueAnswer) /\ WF_vars(RunAck) /\ WF_vars(RunCheckpoint)
    /\ WF_vars(ReceiveOutput \/ ReceiveListed \/ ReceiveError)
    /\ WF_vars(Reconnect)

-----------------------------------------------------------------------------
(* Properties. *)

\* The screen shows every chunk once and in order, up to the last one applied;
\* only after a gap of the store may some be missing (terminal-client.js,
\* applySnapshot and applyBatch, whatever is dropped, replayed or late).
ScreenHasNoHoles ==
    LET screen == tab.screen
    IN  /\ \A i, j \in DOMAIN screen : i < j => screen[i] < screen[j]
        /\ screen # <<>> => screen[Len(screen)] = tab.last
        /\ store.gap \/ Len(screen) = tab.last

\* Recovery works where the list can help: a paused tab that shows just what the
\* store's checkpoint does, or that has shown nothing yet, comes to show more,
\* across lost connections, lag and answers that overtake one another.  Where it
\* shows more than the checkpoint, the journal of the list begins before what it
\* shows and is passed over as a whole (terminal-client.js:168): such a tab is not
\* covered, and may be stuck.
PausedTabsGoOn ==
    \A n \in 0 .. MaxOutputs :
        (tab.paused /\ tab.last = n /\ store.watermark = n) ~> tab.last > n

\* Gap recovery works: a paused tab comes to show every chunk that was stored
\* when it was paused (terminal-client.js:88, 115-116 and 131).
GapsAreRecovered ==
    \A n \in 1 .. MaxOutputs : (tab.paused /\ store.next > n) ~> tab.last >= n

=============================================================================
