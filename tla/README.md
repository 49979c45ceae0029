# Picot: TLA+ specifications of the host, its frontend and its extensions

Picot is a desktop application around the Pi coding agent. A Rust host
(`src-tauri/src`) starts Pi processes, talks JSON lines to them, runs terminals
and serves a JavaScript frontend (`public`) over WebSockets; extensions
(`extensions`) run inside Pi. This directory holds TLA+ models of the parts that
act concurrently or survive failures, TLC configurations that check them, and
TLAPS proofs.

Contents: the inventory, the models, the runs, what is proved, where the code
disagrees with itself, what is not modelled, and the plan.

## Inventory

State, operations and correctness of the parts that carry the program's logic.

| Part | State it keeps | Operations | What makes it correct |
|---|---|---|---|
| Runtime coordinator (`runtime_coordinator.rs`) | a record per Pi instance: target (workspace, session, instance), state, event sequence, recent mutations | register, bind, emit, set state, accept and complete a mutation, resume, unregister | one instance per session; sequences go on; a retried key is recognised within the window |
| Native Pi manager (`native_pi_manager.rs`) | the coordinator, the running processes with the target their events are routed to, the unanswered extension dialogs; three locks | spawn, stop (one, a workspace, all), restart, bind and rebind a session, request, answer a dialog; one event pump per process | no process is lost or stranded, events in order and numbered once, no mutation run twice, dialogs replayed until answered |
| Pi RPC bridge (`pi_rpc_bridge.rs`) | map of pending requests, three bounded queues, two threads, one task | request with a deadline, send a frame, next frame, kill | every request ends once; answers never strand; events keep their order; a closed bridge drains |
| Terminal registry (`terminal_registry.rs`) | tabs per owner and workspace: generation and status | reserve, commit, fail, exit, restart, close in two steps | generations never reused, quotas kept |
| Terminal manager (`terminal_manager.rs`) | live PTYs, output stores; a reader thread per PTY | create, restart, close, input, resize, list, checkpoint, ack, activate, reorder, kill all | every process owned, none behind a closed tab, exits noticed, no output of a replaced shell |
| Terminal output (`terminal_output.rs`) | journal, checkpoint, watermark, gap | append, checkpoint, ack, read from | newest output kept, loss announced |
| Terminal client (`terminal-client.js`) | per tab: last sequence, paused, gap | apply a list, an output; ask for a list | screen without holes, a gap recovered from |
| Host server (`host_server.rs`) | connections, subscriptions, session owners, broadcast receivers | route a frame to a task, forward events | what a client gets, in which order |
| Session shown (`app.js`, `session-store.js`, `runtime-adapter.js`, `runtime-gateway.js`) | the page's session, the store with its sequence number, calls under way, the hydration flag | switch session, hydrate, apply a snapshot or an event, reconnect, repair a gap | the messages are those of the session shown, the last switch wins, a repair is always possible |
| Extension prompts (`extension-ui-host.js`) | queues per session, one prompt in flight, cards on screen | ask, show, answer, put back at a switch, flush, replay at a reconnection | one response per delivery, cards of the session shown, no prompt lost |
| Agent inbox (`super-agent-runtime.js`, `task-store.js`, `task-state.js`, `native-dispatch.js`) | the task file, the list the panel shows, dispatches under way | approve, dismiss, poll, save, spawn and bind an agent, send it its prompt; the Super Agent edits the same file | no prompt without a trace of its agent, sessions filed with their tasks, the panel follows the file |
| Chat inbox (`extensions/chat-inbox`) | per session: runtime, poll loop, jobs; on disk: lock file, log, checkpoint | claim and release the channel, poll, append, dispatch a turn, reply, catch up, stand down | no message lost or run twice when sessions take the channel from each other |
| ACP manager, child supervision, window owners, remote access, stores on disk, Git, skills, packages, launch | see `PROJECT.json` | | |

Interaction: the frontend sends frames over a WebSocket; the host server routes
each to a task of its own; tasks call the native manager or the terminal manager;
pumps and reader threads publish on broadcast channels that each connection
forwards into its outgoing queue. The chat inbox runs inside each Pi; the
instances meet only in the files of the channel and at Telegram.

What is hard: no call of the native manager holds two of its locks, so every call
is several steps that interleave with other calls and with pumps; the terminal
manager updates registry, live map and output stores under three locks; commands
of one client overlap; queues are bounded; Pi and shells may end at any moment;
connections drop and receivers lag. In the frontend every await lets the user
switch sessions, and in the inbox and the channel processes that know nothing of
each other read a file, think, and write it. `PROJECT.json` lists each hazard at
its line.

## The models

```
RuntimeCoordinator <-- NativePiManager <-- NativePiManagerProofs
RpcPromise <== refined by == PiRpcBridge <-- PiRpcBridgeProofs
TerminalRegistry <-- TerminalManager <--+
                                        +-- TerminalProofs
TerminalOutput   <-- TerminalStream  <--+
ChatChannel      <-- ChatChannelProofs <-- ChatRecordsProofs
AgentInbox       <-- AgentInboxProofs
ExtensionPrompts <-- ExtensionPromptsProofs
SessionView      <-- SessionViewProofs
```

An arrow is EXTENDS. Each `MC*` module gives the constants their small values; each
`*Proofs` module holds the theorems about the modules it extends, and about those that
they extend.

- **RuntimeCoordinator**: one action per method. The manager holds its mutex for a
  whole method, so a successful call is one step; a refused one is no step.
  `accepted` is a history variable: the keys accepted for each instance.
- **NativePiManager**: calls are records in `calls` with the step they are `at`:
  one step per lock section or await. A pump per instance is in `pump`. Pi is what
  its pipes show: it writes frames, runs the commands it was sent in order, exits.
  `sent`, `ran`, `answered`, `bus` are what Pi was given, did, was answered and what
  was broadcast. The bridge is abstracted here to a queue of frames and one of
  commands; it has its own module. `Faults` says which calls of the system may fail: the
  attach of a started child, and a kill. The histories `lost`, `unkilled` and `overtaken`
  hold the instances left behind by the one, by the other, and by a binding that changed
  a session while its runtime was being removed.
- **PiRpcBridge** and **RpcPromise**: the bridge with its queues, and what `request`
  promises without them. `PromiseKept` is the refinement
  (`INSTANCE RpcPromise WITH`), fairness included. The event pump may return at any time,
  as it does once its runtime was stopped, and takes no frame after that.
- **TerminalRegistry**, **TerminalManager**: the registry's methods as operators, and
  the manager's commands placed between the locks. A PTY is named by its terminal and
  generation. `pty` is "mute" when the shell closed its tty and lives on, and "held" when
  it is dead but a descendant has the tty open, so that its reader reads no end. `strays`
  is a history: the shells an attach left without a tab or out of the live map, because
  a close or restart of the tab overlapped it.
- **TerminalOutput**, **TerminalStream**: the store's methods as operators on a record,
  and the way of a chunk to the screen: append, broadcast, receiver, outgoing queue,
  client. A screen, and so a checkpoint, is the sequence of chunks written to it.
  `highest_ack` is recorded by the code and read by nothing; so it is here. The page
  sends its snapshot in another field than the host reads, so checkpoints come in both
  forms (`SnapshotFields`), refused or taken.
- **ChatChannel**: several sessions (each a Pi process with the extension) and the
  connections they make. Disk (lock, log, offset) is apart from memory (runtime, jobs);
  a crash loses the second. A poll loop fetches, hands over, advances; a write passes
  the fence in one step and appends in the next, as `runtime.ts` does. Turns, replies
  and local turns of the user are steps of the session's agent.
- **AgentInbox**: the task file and everyone who rewrites it. Each read-modify-write of
  the code is a read and a later write; the Super Agent's own edits are single steps.
- **ExtensionPrompts**: a request is a prompt, numbered by how often it was handled.
  The queue of each session, the one in-flight slot, and for each waiting call the cards
  it has left to show (the flush across its awaits); `onPage` are the cards on the page.
  Switches, rendered history, Stop and reconnections destroy cards. `app` follows the
  page through a switch: whose history is `shown`, which session is the `target` and
  which the foreground. An adoption and a flush that an earlier switch left under way
  still happen after a later one began, as nothing in the code stops them. `handled`,
  `responded` and `twice` are histories.
- **SessionView**: the host's numbered events, the broadcast with its lag, the wire of
  one page, the calls under way, hydrations and switches with each await a step.

A definition marked **Fault** is the wrong form of the one after it. It is used by
no specification; `PROJECT.json` pairs it with the property that notices when it
takes the place of the right one.

Abstractions that hold throughout: ids are model values and fresh ones are unused
ones (they are UUIDs); frame contents are reduced to what routing looks at; files,
labels and logging are left out; mutex poisoning is left out (no section panics).

Abstractions of single modules:

- *NativePiManager*: mutations are the only requests; other commands skip the two
  coordinator sections, which leaves a subset of the same steps.
- *ChatChannel*: connects of one session are serialised, and a reconnection waits until
  the old poll loop and its teardown have ended; an album is one update; replies are
  not empty; the limit of 100 updates per batch is never reached; an agent is idle
  right after `agent_end`; control commands queued behind an abort are left out.
- *AgentInbox*: a call that fails did nothing; `needs_input` and `blocked` are folded
  into `failed`; comparing two lists by their JSON is comparing them. The list of an
  earlier run may hold pending or finished tasks.
- *ExtensionPrompts*: inline cards only; a card is known by its prompt and the handling
  it belongs to, and the order of the queue is kept where the code keeps it. Putting a prompt back and the continuation of
  the flush are one step, and so are a response and the next card. A destroyed card is
  invisible while its wait is pending.
- *SessionView*: the page subscribes to every session; Pi's writing and the host's
  numbering are one step, and so are entries, number and answer of a snapshot. Message
  content is reduced to whose messages are shown. The disk fallback, the composer
  profile, URLs, forks and temporary ids are left out, and so is the wait for a prompt
  that was put back. Only a switch adopts a target: the sessions that the page makes
  itself (`picot:session-created`, `app.js:1392-1437`) and a temporary session that gets
  its lasting id (`session_bound`, 2463) are adopted without a new generation, and are
  not in the model.

## The runs

| Run | What it asks | Bounds |
|---|---|---|
| manager_calls | spawn, stop, stop_all, restart, bindings and exits, with attaches and kills that fail: owners, records, and that closed runtimes are forgotten | 3 instances, 2 sessions (1 temporary), 1 frame, 2 callers, 3 calls |
| manager_requests | requests with retried, timed-out and evicted keys against stops and exits: one write per acceptance, the window, frames delivered | 2 instances, 1 session, 2 keys, window 1, 2 callers, 4 calls, 1 frame |
| manager_events | pump, bindings, dialogs: numbers, order, replay, one instance per session | 2 instances, 3 sessions (1 temporary), 2 frames per Pi, 3 calls |
| bridge | safety, refinement and liveness of the bridge | 2 requests, 1 notice, all queues of size 1, 2 events |
| terminal_manager | create, restart, close and kill_all, overlapping freely: processes, tabs, quota, late output; ends and closes reach the registry | 2 tabs, quota 1, 3 commands, 2 callers, 1 chunk, mute and held shells |
| terminal_stream | screen and pause, with checkpoints taken and refused | 3 chunks of size 1, journal of 2, receiver of 1, 2 checkpoints, 1 lost connection |
| chat_handover | sessions take the channel from each other | 2 sessions, 2 connections, 2 updates (one a command), 1 failure, 1 crash, 1 disconnection; agents stay busy |
| chat_turns | jobs and prompts through a reconnection | 1 session, 2 connections, 2 updates (one an album), 1 disconnection, 1 local turn; agents answer |
| inbox | dispatches against edits, polls and saves | 2 tasks (one of an earlier run, one without a route), 2 clicks, 1 approval, 1 poll, 1 failure |
| prompts | cards through switches and reconnections | 2 sessions, 3 prompts, 6 cards, 2 switches, 1 gap, disconnection or Stop |
| session_view | overlapping switches, hydrations, lost events | 3 sessions, 1 event in each before and 1 more, 2 switches, 1 incident |
| inbox_wrong_task | which task an approval dispatches (violated) | 2 tasks of an earlier run |

Why the bounds are enough to meet the hazards: two callers and a pump are what it
takes to put a step between any two of a call; three instances let a restart spawn
while another stops; a capacity, quota or queue of one is full as soon as it is used
and overflows with the next; a spawn and three requests with two keys over a window of
one make a key evicted and accepted again (k1, k2, k1); two frames are needed for an
order. A handover needs two sessions and
a message on each side of it; a reconnection that repeats messages needs two
connections; a stale index needs two tasks; a prompt behind another in each session is
three prompts; a switch superseded by a second, back to neither's start, is three
sessions. Larger queues only delay what these already reach. `MaxCalls`, `MaxFrames`,
`MaxEvents`, `MaxChunks`, `MaxOutputs`, `MaxCheckpoints`, `MaxDrops` and their like bound
what the environment begins; `MaxSequence`, `MaxAccepted` and `MaxGeneration` are chosen
so wide that they disable nothing (asserted in the MC modules). `CHECK_DEADLOCK FALSE` stands
where the bounded environment may simply have nothing left to do.

Beside them are configurations of questions that have been answered, for whoever wants
the trace: `MCRuntimeCoordinator` (the registry alone; holds) and `MCChatEviction`
(an evicted session stands down; holds), and the counterexamples `MCManagerLost`,
`MCManagerUnkilled`, `MCManagerLostFrames`, `MCManagerStranded`, `MCBridgeStuck`,
`MCTerminalOrphan`, `MCTerminalHeld`, `MCTerminalReopened`, `MCTerminalStuck`,
`MCChatAlbums`, `MCChatSharedId`, `MCPromptsDropped`, `MCPromptsMisplaced`,
`MCSessionGaps` and `MCSessionHistory`, explained below.

**Exceptions.** Some properties fail of the code in ways that are understood. Their
listed form names exactly those ways, so that it holds and nothing else may go wrong;
the form without the exception is checked by a configuration that ends with the
counterexample:

| Property | Its exception | Without it |
|---|---|---|
| `EveryPiIsOwned` | `lost`: the attach of the child failed | `NoPiIsLost`, `MCManagerLost` |
| `NoStrandedRecord`, `ClosedRuntimesAreForgotten` | `unkilled`: the kill failed; `overtaken`: a binding during the removal | `NothingIsLeftBehind`, `MCManagerUnkilled` and `MCManagerStranded` |
| `ClosedBridgeDrains` | the pump returned: requests still end, the router may not | `LinesAreReadToTheEnd`, `MCBridgeStuck` |
| `EveryPtyIsOwned`, `NoPtyOutlivesItsTab`, `RunningTabsAreLive`, `QuotaBoundsProcesses` | `strays`; and a shell that closed its tty, which its reader waits for (`Awaited`) | `NoShellOutlivesItsTab`, `MCTerminalOrphan` |
| `ExitsAreNoticed` | the tty is held open | `DeadShellsAreNoticed`, `MCTerminalHeld` |
| `ClosingEnds` | the closing tab was restarted | `ClosedTabsGo`, `MCTerminalReopened` |
| `PausedTabsGoOn` | the tab shows more than the store's checkpoint | `GapsAreRecovered`, `MCTerminalStuck` |
| `CardsAreOfTheHistory` | the switch has no snapshot yet; several prompts of one session | `CardsStayInTheirHistory`, `MCPromptsMisplaced` |

**Fairness.** Weak fairness of each call, pump and reader: they are polled tasks or
threads. The bridge adds strong fairness of entering the outbound queue, because
tokio's bounded sender hands out room first come first served. The pump of the bridge
takes frames as long as it runs, and may return. Pi is taken to read
its stdin (bridge) and to do nothing else; users, shells and networks promise
nothing; a lost connection is retried (the adapter's backoff timer). In the inbox the
poll timer and the continuations of dispatches are fair, the user is not.

## What is proved

Every theorem holds for all values of the constants; nothing is assumed of them but the
`*Assumption`s of the modules, which TLC evaluates in the runs: bounds are natural
numbers, capacities are positive, subsets are subsets. A theorem is proved from an
inductive invariant, with a lemma for each way a step can touch it.

- **Registry** (`NativePiManagerProofs`, first part). `RegistryInvariant`: a record is
  filed under its own instance (without which two records could share a session), and
  the retained mutations are the latest of the history (`LatestOf`), which ties the deque
  to `accepted`. From it `TypeCorrect`, `SessionOwnership`, `IdempotencyPromise`, and
  `Continuity` step by step.
- **Manager** (`NativePiManagerProofs`). Each step of the manager leaves the registry
  alone, is one of its steps, or one of two that combine several; so the registry's
  invariant carries over (`ManagerSessions`, `ManagerIdempotency`, `ManagerTypeCorrect`),
  and so does its continuity (`ManagerContinuity`): a binding and a pump number an event
  and change the record in one lock section, and still the sequence goes up one by one.
  `EveryPiHasAnOwner` holds with attaches and kills that fail; it needs that an instance
  not yet inserted is known to its spawn only, and one taken out of the map to its stop.
  `SequenceNumbers`: a number is counted by the registry before it is taken, and taken by
  one event, on the bus or in a pump. `DialogsCanBeReplayed`: an open dialog is kept until
  the call that answers it forgets it. `FramesKeepTheirOrder`: the pipe holds what
  follows the frames drawn from it, and the bus all drawn ones but the one the pump
  holds. `OneWrite` counts the writes of a key against its acceptances and the requests
  under way. `RecordsAreNotStranded` assumes nothing of the operations or faults: whoever
  takes a process out of the map has read its target, and the target can only be
  overtaken by a binding.
- **Terminal manager** (`TerminalProofs`, first parts). The registry first, alone; then
  `ManagerImplementsRegistry`: every step of the manager is a step of the registry or
  leaves it. So `ManagerGenerations`, `ManagerQuota`, `ManagerStaleHandles` hold under
  any overlap, and so does `LateOutputIsDropped`.
  Four theorems follow the processes, again under any overlap and any end of a shell:
  `EveryPtyHasAnOwner`, `NoPtyWithoutItsTab`, `RunningTabsTakeInput`,
  `QuotaCountsProcesses`. Their invariant (`PtyInvariant`) says of each PTY by itself
  where its record, its live handle, its child, its reader and the commands that have it
  in hand may be at the same time; a step that concerns another PTY keeps it.
- **Bridge** (`PiRpcBridgeProofs`). `EntriesAreAlive`, `NoEarlyAnswer`, and
  `BridgeKeepsPromise`: every step is one of `RpcPromise` or a stutter (its fairness is
  left to TLC). `EventsInOrder`: pipe, two queues and pump are one line of frames
  (`Way`); a step moves a frame along it or takes out an answer, and neither disturbs the
  count of the events.
- **Terminal stream** (`TerminalProofs`, last parts). `ScreensHaveNoHoles`: a screen is made of
  batches and snapshots, so the invariant covers each one wherever it is: the journal is
  consecutive, hence every batch is; a snapshot shows what its watermark says; who
  believes in a gap is right. `StoresAreComplete`: without a gap the journal starts where
  the checkpoint ends, so the host can always tell everything again. `JournalIsBounded`:
  a sum over a part of the journal is no larger (`PartsFit`); the induction over entries is
  written as a least counterexample, which the provers can follow.
- **Chat inbox** (`ChatChannelProofs`). `HandoversHaveNoGap` from `HandoverInvariant`:
  what Telegram forgot, and what a checkpoint of the log covers, is accounted for; for
  that, the writes of each connection that may still reach the log keep their order.
  `StraysWereOnTheirWay`: the record a task had past the fence at a claim is the last it
  adds under that claim. `OneTurnPerMessage` from `TurnsInvariant`: only the last
  connection of the owner serves the channel; what was asked for before is behind its
  poll loop or in its unarmed catch-up; it handles an update of its batch once; and an
  album is in one place of a connection at most (held, in its timer's write, asked for).
  `AlbumsOfSessions` relates the connections of a session: an album in a place of one is
  behind the poll loop of a later one, or in its catch-up, so it is in none of that one.
- **Chat records** (`ChatRecordsProofs`). `NoMessageIsPassedOver` is about record ids,
  which every connection counts for itself from the log it read, and takes before the
  fence. `RecordsOf` says of one connection what its tasks add, that ids of a task go
  up, and that its jobs refer to logged records. `PassedOverInvariant` relates
  connections: who has the channel gives ids above every finished job and every waiting
  turn (`LeadersGoUp`); it hears of another's message, or still takes it, before it asks
  for turns (`HearsTheRest`); so a waiting turn is below what its connection never heard
  of (`AsksForTheHeard`), and below a job that is finished, or that a connection may
  still finish, all is prompted, excused or has an id given twice (`FinishedAreClosed`).
  The proof splits a step into what it does of the log, the lock, the poll loops and the
  jobs (`Motion`): every action is shown to be such a motion, and the invariant to
  survive any motion.
- **Session view** (`SessionViewProofs`). `HistoryOfTheTarget`, `TheLastSwitchWins`,
  `HydrationStaysPossible`: every frame on the wire answers a call that was made
  (`FramesAreOfCalls`); the last switch is adopted or still under way (`LastIsAdopted`);
  what is rendered follows the target (`HistoryFollows`).
- **Agent inbox** (`AgentInboxProofs`). `SessionsOfTheirTasks`: every list read or about
  to be written is made of sound tasks, and what is sound stays so (`SoundGrows`).
  `TargetsAreRecordedFirst`: a dispatch that prompts is in `recorded`.
- **Extension prompts** (`ExtensionPromptsProofs`). Operations map pages to pages, so the
  lemmas are about pages (`PageOK`). `RespondedOnce`: no request is in two places, and
  none that waits was answered. `LoneCardsInTheirHistory`, `LonePromptsStay`: a prompt
  alone in its session is in its queue, on the page, or in the slot that puts it back.
  The first needs `NavigationOK`: which history, target and foreground go together at
  each point of a switch, whatever earlier switches still have under way.

There is a theorem about every invariant the runs check. Proofs changed two properties.
`OneJobPerUpdate` spoke of all updates and is false of albums: with three connections,
an append that an album's timer began under a connection that was given up passes the
fence when its session is the owner again (the fence compares sessions), after another
session asked for the same album. It now says what holds: once for each session.
`NothingIsPassedOver` spoke of albums too, and let off only messages whose id another
message has. An album's timer can write after another session has read the log; that
record is below the boundary of a finished job, and no agent was told of it. And the id
of a message can be that of another kind of record of its connection, since an id is
taken before the fence. It now speaks of messages, and lets off those whose id their own
connection gave twice; that these may be passed over is in `MCChatSharedId`, below.

Some properties are stated by positions rather than by filtering a sequence
(`FramesInWrittenOrder`, `EventsKeepOrder`, `JournalFrom`), and sums are recursive
functions: the provers cannot instantiate operators passed as parameters.

Only model-checked: liveness under fairness, which the provers cannot reach
(`ClosedRuntimesAreForgotten`, `FramesAreDelivered`, the fairness of `PromiseKept`,
`ClosedBridgeDrains`, `ExitsAreNoticed`, `ClosingEnds`, `PausedTabsGoOn`,
`PanelShowsTheFile`).

## Where the code disagrees with what it says

1. `inbox_wrong_task` (`super-agent-runtime.js:211`): an approval keeps the index of its
   task across the await of the save. If the list changed meanwhile, another task is
   dispatched, one that nobody approved.
2. The manager leaves things behind. `MCManagerLost` (`native_pi_manager.rs:154`): when
   the bridge cannot attach, the child it was to attach to is neither killed nor kept.
   `MCManagerUnkilled` (391-393): a kill that fails ends the stop after the process left
   the map and before its record is removed. `MCManagerStranded`: a binding during the
   removal of a closed runtime leaves its record. A session whose record is left behind
   can never be spawned again. `MCManagerLostFrames`: a binding between the pump's two
   lock sections ends the pump.
3. `MCBridgeStuck` (`native_pi_manager.rs:224-226`, `pi_rpc_bridge.rs:352`): after a stop
   the pump returns with frames in its queue; once that is full, `read_frames` waits for
   ever and the drain is never reached. Requests end only by their deadline.
4. The terminal manager "owns every terminal PTY" (`terminal_manager.rs:1`),
   but `MCTerminalOrphan`: a close between commit and attach leaves a shell without a
   tab; `MCTerminalHeld` (993-1007): a shell that is dead keeps its tab running, and its
   place in the quota, while a descendant holds the tty; `MCTerminalReopened`: a create
   that is refused marks a closing tab failed, and a restart then takes it up.
5. `MCTerminalStuck`: a list's merged journal is dropped whole when its beginning was
   applied before; the tab then stays behind. Receivers that lag, a reconnection, or
   output between a list's computation and its arrival all lead there. The page's
   checkpoints do not help: it sends them as `snapshotBase64`
   (`terminal-panel-integration.js:194`) and the host reads `dataBase64`
   (`terminal_manager.rs:373-374`), so that they are refused.
6. `MCChatAlbums` (`telegram.ts:409`, against the comment at `runtime.ts:125`): an album
   waits in memory while the offset is already past it; standing down clears its timer
   and its messages are gone.
   `MCChatSharedId` (`runtime.ts:168`): an id is taken before the fence is awaited. If
   the timer of an album takes the id of a message and the album's turn ends before that
   message is past the fence, the message is at the boundary and no prompt has it
   (`runtime.ts:332`), though its own turn comes.
7. `MCPromptsDropped` (`app.js:1971`): a question of a session in the background is
   dropped, though `extension-ui-host.js:29` and its test speak of queueing it.
   `MCPromptsMisplaced` (`app.js:1740`): the history of a switch is rendered from disk
   while the old session is still in the foreground, and a card of the old one may come
   up in it.
8. `MCSessionGaps` (`app.js:1616`): a gap found while a hydration is past its snapshot
   joins that hydration and is not repaired.
9. `MCSessionHistory` (`app.js:1706`): history and target change in different steps
   around an await, so the messages of one session stand under the name of another for
   a while.

Seen while modelling and not given a configuration:

- *Terminals.* Two overlapping restarts replace a live handle
  (`terminal_manager.rs:672`); a shell that closed its terminal survives a close because
  the reader holds the child (1012); restarting an exited tab keeps the old output store,
  since `replace_generation` resets it only for a live one (725); a tab closed by one
  command and failed by another is shown Failed until the close finishes.
- *Manager.* A failed request leaves its key "still pending" (`native_pi_manager.rs:329`).
- *Chat.* The epoch "only ever grows" (`log.ts:130`) starts again after a release and a
  claim; records can interleave past the fence, against `runtime.ts:139`; a release
  checks the lock and unlinks it later (`log.ts:241`), which can delete a newer claim;
  two restores race; an eviction that overlaps a reconnection tears the new connection
  down; a send that comes late completes a job of the new connection; a job queued
  during a local turn waits for the next message; an album and a plain message that
  share a record id trigger one turn; an album whose timer writes while another session
  takes the channel is in the log, and no agent is told of it (`runtime.ts:332`).
- *Inbox.* Edits are not protected from each other (`task-store.js:4` says they are); a
  save that is rejected leaves the panel stale; a snapshot that fails after an accepted
  prompt marks the task failed; a double click dispatches twice; an unsaved project
  selection is lost to a poll; an index past the end of the list shows a task running
  without an agent.
- *Prompts.* Two prompts of one session share the in-flight slot; a flush under way
  shows the rest of its cards in another session's history; a replay after a
  reconnection shows prompts twice; a failed switch leaves a prompt of the foreground
  queued; the frame that reveals a gap is not handled itself (`app.js:1103`); a response
  that fails abandons the rest of a flush.
- *Session view.* A `get_state` older than the store's number leaves the status
  "working"; entries of a snapshot may be older than its number (`host_server.rs:1429`);
  an older snapshot answered later sets the store's number back
  (`session-store.js:64`); the page ignores the host's `event_sequence_gap`; the status
  stays "disconnected" after a reconnection until the next event; after a second failed
  retry `snapshotRequired` stays set; a snapshot has no queue, compaction or dialogs;
  clicking the current session does not cancel a switch under way; a superseded
  switch's failed bootstrap shows an error; sessions in the background have no gap
  detection.

## Not modelled, and why

`PROJECT.json` gives every component's status. Parsing and routing of frames, git,
skills, packages, host data, settings and rendering keep no protocol state: they turn a
request into an answer, or data into a page, and these views make up most of the
frontend's lines. `kill_owner` and `cleanup_owner` have no caller in the program.
Terminal input, resize, reorder, activate and the persisted metadata are left out of the
terminal manager; session ownership among several clients and the config plane out of
the host server; message formatting, attachments and account configuration out of the
chat inbox; dialogs drawn over the page out of the extension prompts. ACP, supervision,
window owners and remote access are in the plan.

## Plan

In this order:

1. **TerminalPersistence**: persist, activate, panel height without a common lock.
2. **AcpManager** (pending permissions against stop and exit), **ChildSupervision**
   (record, crash, sweep), **WindowOwners**, **RemoteAuth**.
3. A composition of the event pump with the bridge, which would say when the pump
   returns, where the bridge now lets it return at any time.
4. Sessions made in the page and `session_bound`, in SessionView.

The liveness properties stay with TLC: `PanelShowsTheFile`, `PausedTabsGoOn` and the
others listed above.
