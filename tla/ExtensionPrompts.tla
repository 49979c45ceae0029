--------------------------- MODULE ExtensionPrompts ---------------------------
(***************************************************************************)
(* Questions that extensions ask the user (extension_ui_request): from the *)
(* host, which keeps those that are not answered and replays them to a new *)
(* subscription, over the event handler of the page                        *)
(* (src/public/native/app.js), to the cards ExtensionUiHost shows for the  *)
(* session in the foreground (native/extensions/extension-ui-host.js).     *)
(*                                                                         *)
(* A card waits for its answer inside a call; a call that flushes a queue  *)
(* shows what it took one card after the other, whatever happens between.  *)
(* Rendering the history removes every card from the page; so each session *)
(* has a slot for the card to put back into its queue first.               *)
(*                                                                         *)
(* A definition marked "Fault" is a wrong form of the one after it and no  *)
(* part of the specification; it tests that a property notices.            *)
(***************************************************************************)
EXTENDS Integers, Sequences, FiniteSets, SequencesExt

CONSTANTS
    Sessions,
    Start,                \* the session of the page when it is loaded
    Prompts,
    Asker,                \* the session each prompt comes from
    MaxCards,             \* bound of the model: calls that wait at once
    MaxSwitches,          \* bound of the model: sessions the user opens
    MaxGaps,              \* bound of the model: frames that reveal a gap
    MaxDisconnects,       \* bound of the model: connections lost
    MaxAborts             \* bound of the model: presses of Stop

ASSUME PromptsAssumption ==
    IsFiniteSet(Prompts) /\ Asker \in [Prompts -> Sessions] /\ Start \in Sessions
ASSUME BoundsAssumption == {MaxCards, MaxSwitches, MaxGaps, MaxDisconnects, MaxAborts} \subseteq Nat

VARIABLES
    pi,                   \* what became of each prompt at its Pi: idle, open or answered
    link,                 \* [up, subscribed, wire]: the connection, and the frames on their way
    app,                  \* [target, shown, to, at, disk, adopting, asked, flush]: the page, the
                          \* session whose history it shows, its last switch and what is under way
    foreground,           \* ExtensionUiHost: the session whose cards may be shown
    queues,               \* and the requests that wait, by session
    slot,                 \* and the card in flight, by session (0: none)
    cards,                \* for each call that waits for a card, the requests it has
                          \* left to show; its card is for the first (none: no such call)
    onPage,               \* the calls whose card is on the page
    handled,              \* how often each prompt was handled
    responded,            \* requests that were responded to (history)
    twice,                \* and those more than once (history)
    together,             \* prompts open at once with another one of their session (history)
    unsent,               \* prompts a response of which did not arrive (history)
    faults                \* [switches, gaps, disconnects, aborts] so far

pageVars == <<foreground, queues, slot, cards, onPage, handled, responded, twice, unsent>>
vars == <<pi, link, app, pageVars, together, faults>>

CardIds == 1 .. MaxCards
Open(p) == pi[p] = "open"

\* A request is a prompt with the number of the time it was handled.
NewRequest(p) == [prompt |-> p, nth |-> handled[p] + 1]
Of(request) == Asker[request.prompt]

-----------------------------------------------------------------------------
(* Cards.  A page is what one synchronous stretch of the code works on.    *)

Page == [queues |-> queues, slot |-> slot, cards |-> cards, onPage |-> onPage,
         handled |-> handled, responded |-> responded, twice |-> twice, unsent |-> unsent,
         answered |-> {}]

Becomes(page) ==
    /\ queues' = page.queues /\ slot' = page.slot /\ cards' = page.cards
    /\ onPage' = page.onPage /\ handled' = page.handled
    /\ responded' = page.responded /\ twice' = page.twice /\ unsent' = page.unsent
    /\ pi' = [p \in Prompts |-> IF p \in page.answered THEN "answered" ELSE pi[p]]

Handle(page, p) == [page EXCEPT !.handled[p] = @ + 1]

Room == \E id \in CardIds : cards[id] = <<>>

\* showAndRespond up to its wait, in a call that goes on with the rest of due.
Show(page, due) ==
    LET id == CHOOSE i \in CardIds : page.cards[i] = <<>>
    IN  [page EXCEPT !.cards[id] = due, !.onPage = @ \cup {id}, !.slot[Of(Head(due))] = id]

Continue(page, due) == IF due = <<>> THEN page ELSE Show(page, due)

\* The wait is over.
Close(page, id) ==
    [page EXCEPT !.cards[id] = <<>>, !.onPage = @ \ {id},
                 !.slot[Of(Head(page.cards[id]))] = IF @ = id THEN 0 ELSE @]

\* A response reaches Pi when the connection is up and the prompt still open.
Arrives(page, p) == link.up /\ Open(p) /\ p \notin page.answered

Respond(page, request) ==
    LET p == request.prompt
    IN  [page EXCEPT !.responded = @ \cup {request},
                     !.twice = IF request \in page.responded THEN @ \cup {request} ELSE @,
                     !.answered = IF Arrives(page, p) THEN @ \cup {p} ELSE @,
                     !.unsent = IF Arrives(page, p) THEN @ ELSE @ \cup {p}]

\* A response that fails ends the call.
Answered(page, id) ==
    LET due == page.cards[id]
        after == Respond(Close(page, id), Head(due))
    IN  IF Arrives(page, Head(due).prompt) THEN Continue(after, Tail(due)) ELSE after

PutFirst(page, s) == [page EXCEPT !.queues[s] = <<Head(page.cards[page.slot[s]])>> \o @]

\* Fault: a card put back into the queue is answered as cancelled as well.
CancelAndRequeue(page, s) == Answered(PutFirst(page, s), page.slot[s])

\* requeueInFlight: into the queue at once, and out of its wait without a response.
Requeued(page, s) ==
    LET id == page.slot[s]
    IN  Continue(Close(PutFirst(page, s), id), Tail(page.cards[id]))

\* Fault: the card in flight is not put back before the page is cleared.
ClearOnly(page) == [page EXCEPT !.onPage = {}, !.slot[foreground] = 0]

\* renderHistory: the foreground card goes back, then every card leaves the
\* page; what the call of that card goes on with appears after that.
Rendered(page) ==
    LET hidden == [page EXCEPT !.onPage = {}]
    IN  IF page.slot[foreground] = 0 THEN hidden ELSE Requeued(hidden, foreground)

\* Every request that waits is responded to; the second of a prompt comes too late.
CancelQueue(page, s) ==
    LET queue == page.queues[s]
        At(places) == {queue[i] : i \in places}
        Again == {i \in DOMAIN queue : queue[i] \in page.responded \/ \E j \in 1 .. i - 1 : queue[j] = queue[i]}
        Late == {i \in DOMAIN queue :
                    \/ ~Arrives(page, queue[i].prompt)
                    \/ \E j \in 1 .. i - 1 : queue[j].prompt = queue[i].prompt}
    IN  [page EXCEPT
            !.queues[s] = <<>>,
            !.responded = @ \cup At(DOMAIN queue),
            !.twice = @ \cup At(Again),
            !.answered = @ \cup {request.prompt : request \in At(DOMAIN queue \ Late)},
            !.unsent = @ \cup {request.prompt : request \in At(Late)}]

-----------------------------------------------------------------------------
(* Pi and the host. *)

Subscribers(p) == link.up /\ Asker[p] \in link.subscribed

Ask(p) ==
    /\ pi[p] = "idle"
    /\ pi' = [pi EXCEPT ![p] = "open"]
    /\ link' = IF Subscribers(p) THEN [link EXCEPT !.wire = Append(@, p)] ELSE link
    /\ LET others == {q \in Prompts \ {p} : Open(q) /\ Asker[q] = Asker[p]}
       IN  together' = IF others = {} THEN together ELSE together \cup others \cup {p}
    /\ UNCHANGED <<app, pageVars, faults>>

\* A prompt is kept until it is answered; a new subscription is told those of its session.
Replayed(sessions) == SetToSeq({p \in Prompts : Open(p) /\ Asker[p] \in sessions})

Subscribed(s) ==
    IF s \in link.subscribed THEN link
    ELSE [link EXCEPT !.subscribed = @ \cup {s},
                      !.wire = IF link.up THEN @ \o Replayed({s}) ELSE @]

\* The sidebar subscribes to every live session.
SidebarSubscribes(s) ==
    /\ s \notin link.subscribed
    /\ link' = Subscribed(s)
    /\ UNCHANGED <<pi, app, pageVars, together, faults>>

Disconnect ==
    /\ link.up /\ faults.disconnects < MaxDisconnects
    /\ faults' = [faults EXCEPT !.disconnects = @ + 1]
    /\ link' = [link EXCEPT !.up = FALSE, !.wire = <<>>]
    /\ UNCHANGED <<pi, app, pageVars, together>>

Reconnect ==
    /\ ~link.up
    /\ link' = [link EXCEPT !.up = TRUE, !.wire = Replayed(link.subscribed)]
    /\ UNCHANGED <<pi, app, pageVars, together, faults>>

-----------------------------------------------------------------------------
(* A frame arrives. *)

Taken == link' = [link EXCEPT !.wire = Tail(@)]

\* Nothing of the page handles a prompt of a session other than its target's.
DeliverBackground(p) ==
    /\ link.wire # <<>> /\ p = Head(link.wire) /\ Asker[p] # app.target
    /\ Taken
    /\ UNCHANGED <<pi, app, pageVars, together, faults>>

\* While the page adopts a session its prompts wait.
DeliverQueued(p) ==
    /\ link.wire # <<>> /\ p = Head(link.wire) /\ Asker[p] = app.target /\ Asker[p] # foreground
    /\ Taken
    /\ Becomes([Handle(Page, p) EXCEPT !.queues[Asker[p]] = Append(@, NewRequest(p))])
    /\ UNCHANGED <<app, foreground, together, faults>>

DeliverShown(p) ==
    /\ link.wire # <<>> /\ p = Head(link.wire) /\ Asker[p] = app.target /\ Asker[p] = foreground
    /\ Room
    /\ Taken
    /\ Becomes(Show(Handle(Page, p), <<NewRequest(p)>>))
    /\ UNCHANGED <<app, foreground, together, faults>>

\* A frame that reveals a gap asks for a snapshot and is not handled.
DeliverGap(p) ==
    /\ link.wire # <<>> /\ p = Head(link.wire) /\ Asker[p] = app.target
    /\ faults.gaps < MaxGaps
    /\ faults' = [faults EXCEPT !.gaps = @ + 1]
    /\ Taken
    /\ app' = [app EXCEPT !.asked = @ \cup {app.target}]
    /\ UNCHANGED <<pi, pageVars, together>>

-----------------------------------------------------------------------------
(* The user. *)

Answer(id) ==
    /\ id \in onPage
    /\ Becomes(Answered(Page, id))
    /\ UNCHANGED <<link, app, foreground, together, faults>>

\* Stop cancels what waits in the queue, and the call of the card in flight responds after that.
CancelForeground ==
    /\ faults.aborts < MaxAborts
    /\ faults' = [faults EXCEPT !.aborts = @ + 1]
    /\ LET page == CancelQueue(Page, foreground)
       IN  Becomes(IF slot[foreground] = 0 THEN page ELSE Answered(page, slot[foreground]))
    /\ UNCHANGED <<link, app, foreground, together>>

\* switchSession: it takes the place of an earlier one, but for an adoption that
\* is under way.
SwitchSession(s) ==
    /\ s # app.target /\ faults.switches < MaxSwitches
    /\ faults' = [faults EXCEPT !.switches = @ + 1]
    /\ app' = [app EXCEPT !.to = s, !.at = "loading", !.disk = "reading"]
    /\ UNCHANGED <<pi, link, pageVars, together>>

-----------------------------------------------------------------------------
(* The steps of a switch. *)

FlushIs(due) == app' = [app EXCEPT !.flush = due]

\* The history on disk is rendered while the old session is still the target,
\* also when the switch has failed in the meantime.
DiskRendered ==
    /\ app.disk = "reading"
    /\ app' = [app EXCEPT !.disk = IF slot[foreground] # 0 THEN "had prompt" ELSE "read", !.shown = app.to]
    /\ Becomes(Rendered(Page))
    /\ UNCHANGED <<link, foreground, together, faults>>

DiskFails ==
    /\ app.disk = "reading"
    /\ app' = [app EXCEPT !.disk = "read"]
    /\ UNCHANGED <<pi, link, pageVars, together, faults>>

BootstrapFails ==
    /\ app.at = "loading"
    /\ app' = [app EXCEPT !.at = "failed"]
    /\ UNCHANGED <<pi, link, pageVars, together, faults>>

\* adoptTarget, up to the wait for the session's profile.  An earlier adoption
\* that still waits finds another target and ends; its switch goes on to its flush.
Adopt ==
    /\ app.at = "loading" /\ app.disk # "reading"
    /\ app' = [app EXCEPT !.target = app.to, !.at = "adopting", !.adopting = app.disk,
                          !.flush = @ \/ app.adopting = "had prompt"]
    /\ link' = Subscribed(app.to)
    /\ UNCHANGED <<pi, pageVars, together, faults>>

\* Fault: the card of the session left behind stays where it is.
LeaveCard(page, s) == page

PutBack(page, s) == IF page.slot[s] = 0 THEN page ELSE Requeued(page, s)

\* And after it: the new session comes to the foreground, whether or not the
\* user has opened another one since.
SetForegroundSession ==
    /\ app.adopting # "none"
    /\ foreground' = app.target
    /\ Becomes(IF app.target = foreground THEN Page ELSE PutBack(Page, foreground))
    /\ app' = [app EXCEPT !.adopting = "none", !.flush = @ \/ app.adopting = "had prompt",
                          !.at = IF @ = "adopting" THEN "snapshot" ELSE @]
    /\ UNCHANGED <<link, together, faults>>

\* The snapshot of a switch, or of a gap: the history is rendered again.
Hydrate ==
    /\ \/ /\ app.at = "snapshot"
          /\ app' = [app EXCEPT !.at = "none", !.shown = app.target, !.flush = TRUE]
       \/ /\ app.target \in app.asked
          /\ app' = [app EXCEPT !.asked = @ \ {app.target}, !.shown = app.target, !.flush = TRUE]
    /\ Becomes(Rendered(Page))
    /\ UNCHANGED <<link, foreground, together, faults>>

SnapshotFails ==
    /\ app.at = "snapshot"
    /\ app' = [app EXCEPT !.at = "failed", !.flush = TRUE]
    /\ UNCHANGED <<pi, link, pageVars, together, faults>>

FlushForegroundQueue ==
    /\ app.flush
    /\ queues[foreground] # <<>> => Room
    /\ FlushIs(FALSE)
    /\ Becomes(Continue([Page EXCEPT !.queues[foreground] = <<>>], queues[foreground]))
    /\ UNCHANGED <<link, foreground, together, faults>>

-----------------------------------------------------------------------------
Init ==
    /\ pi = [p \in Prompts |-> "idle"]
    /\ link = [up |-> TRUE, subscribed |-> {Start}, wire |-> <<>>]
    /\ app = [target |-> Start, shown |-> Start, to |-> Start, at |-> "none", disk |-> "read",
              adopting |-> "none", asked |-> {}, flush |-> FALSE]
    /\ foreground = Start
    /\ queues = [s \in Sessions |-> <<>>]
    /\ slot = [s \in Sessions |-> 0]
    /\ cards = [i \in CardIds |-> <<>>] /\ onPage = {}
    /\ handled = [p \in Prompts |-> 0]
    /\ responded = {} /\ twice = {} /\ together = {} /\ unsent = {}
    /\ faults = [switches |-> 0, gaps |-> 0, disconnects |-> 0, aborts |-> 0]

Next ==
    \/ \E p \in Prompts : Ask(p) \/ DeliverBackground(p) \/ DeliverQueued(p) \/ DeliverShown(p) \/ DeliverGap(p)
    \/ \E s \in Sessions : SidebarSubscribes(s) \/ SwitchSession(s)
    \/ \E id \in CardIds : Answer(id)
    \/ CancelForeground \/ Disconnect \/ Reconnect
    \/ DiskRendered \/ DiskFails \/ BootstrapFails \/ Adopt \/ SetForegroundSession
    \/ Hydrate \/ SnapshotFails \/ FlushForegroundQueue

Spec == Init /\ [][Next]_vars

-----------------------------------------------------------------------------
(* Properties. *)

\* Each time a prompt was handled it is responded to at most once, however
\* often its card is put back, shown again or cancelled (requeueInFlight and
\* the disposition of showAndRespond).
OneResponsePerDelivery == twice = {}

\* A prompt that shares its session with no other one, nor with a copy that was
\* replayed.
Lone(p) == p \notin together /\ \A q \in Prompts : Asker[q] = Asker[p] => handled[q] <= 1

\* A card of a lone prompt is on the page only while its session is the one in
\* ExtensionUiHost's foreground; and once the last switch has had its snapshot,
\* that is the session whose history the page shows: one that waits for an answer
\* does not move on to the history of another session (setForegroundSession).
\* Before that, and after a switch that failed, the history may be another one's.
CardsAreOfTheHistory ==
    \A id \in onPage :
        LET request == Head(cards[id])
        IN  Lone(request.prompt) =>
                /\ Of(request) = foreground
                /\ app.at = "none" => Of(request) = app.shown

Waits(p, line) == \E i \in DOMAIN line : line[i].prompt = p

Reachable(p) ==
    \/ \E s \in Sessions : Waits(p, queues[s])
    \/ \E id \in CardIds :
          /\ Waits(p, cards[id])
          /\ id \in onPage \/ slot[Of(Head(cards[id]))] = id

\* A lone prompt that was handled can still be answered while Pi waits: its card
\* is on the page or will be put back there, through every switch and every
\* rendering of the history (requeueForegroundPrompt), unless a response to it
\* got lost.
LonePromptsAreKept ==
    \A p \in Prompts :
        Open(p) /\ handled[p] = 1 /\ Lone(p) /\ p \notin unsent => Reachable(p)

\* A prompt whose frame arrived waits for its session if that is in the
\* background: "either queued (background session) or actively shown", as
\* hasPending says, and as the first test of the host checks.
BackgroundPromptsAreQueued ==
    \A p \in Prompts :
        Open(p) /\ Subscribers(p) /\ p \notin ToSet(link.wire) => Reachable(p)

\* The same while the page changes over to another session, or failed to: the code
\* does not see to that, since the history changes before the foreground does.
CardsStayInTheirHistory ==
    \A id \in onPage : Lone(Head(cards[id]).prompt) => Of(Head(cards[id])) = app.shown

=============================================================================
