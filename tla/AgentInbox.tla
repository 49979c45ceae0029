------------------------------ MODULE AgentInbox ------------------------------
(***************************************************************************)
(* The Agent Inbox: a task list in a file that three parties read and      *)
(* write back whole, without a lock: the Runtime panel, which keeps a copy *)
(* of the list and polls it (src/public/components/super-agent-runtime.js),*)
(* the dispatches that start an agent for an approved task                 *)
(* (src/public/super-agent/native-dispatch.js over task-store.js), and the *)
(* Super Agent itself, which adds tasks and reports on them.               *)
(*                                                                         *)
(* A call that reads or writes the file is answered later than it is       *)
(* carried out, and what was decided before it is used after it.           *)
(*                                                                         *)
(* A definition marked "Fault" is a wrong form of the one after it and no  *)
(* part of the specification; it tests that a property notices.            *)
(***************************************************************************)
EXTENDS Integers, Sequences, FiniteSets, SequencesExt

CONSTANTS
    Tasks,
    Early,                \* the tasks of the list at the start, in order
    Unrouted,             \* the tasks created without a target project
    MaxClicks,            \* bound of the model: buttons pressed in the panel
    MaxApprovals,         \* bound of the model: those among them that approve
    MaxReads,             \* bound of the model: polls under way at once
    MaxIncidents          \* bound of the model: calls that fail, edits of the Super
                          \* Agent and session_bound events, together

ASSUME TasksAssumption == Unrouted \subseteq Tasks /\ Early \in Seq(Tasks)
ASSUME BoundsAssumption == MaxClicks \in Nat /\ MaxReads \in Nat /\ MaxApprovals \in Nat /\ MaxIncidents \in Nat

VARIABLES
    file,                 \* the tasks on disk
    panel,                \* [tasks, lastJson, shown]: the panel's list, the list last read, the cards
    reads,                \* polls whose answer is on its way
    clicks,               \* each button pressed: what it saves, and how far the save is
    dispatches,           \* each sa-dispatch event: the task it carries, and how far it is
    added,                \* tasks the list ever had (history)
    recorded,             \* dispatches whose target was written, or whose task was gone (history)
    prompted,             \* dispatches whose agent was prompted (history)
    incidents             \* how many so far

vars == <<file, panel, reads, clicks, dispatches, added, recorded, prompted, incidents>>

NewTask(t) == [id |-> t, status |-> "pending", routed |-> t \notin Unrouted, session |-> 0, bound |-> FALSE]

Ids(list) == {list[i].id : i \in DOMAIN list}
Place(list, t) == CHOOSE i \in DOMAIN list : list[i].id = t
TaskOf(list, t) == list[Place(list, t)]
Has(list, t, statuses) == \E i \in DOMAIN list : list[i].id = t /\ list[i].status \in statuses
With(list, task) == [list EXCEPT ![Place(list, task.id)] = task]

\* The tasks at some places of a list, in their order (Array.prototype.filter).
UpTo(places, i) == {j \in places : j <= i}
Kept(list, places) ==
    [n \in 1 .. Cardinality(places) |->
        list[CHOOSE i \in places : Cardinality(UpTo(places, i)) = n]]

ForDispatch(task) == [task EXCEPT !.status = "running"]
Finished(task, status) == [task EXCEPT !.status = status]

\* The copy the event carried, sent to the session of dispatch d.
Routed(task, d) ==
    [task EXCEPT !.status = IF @ = "pending" THEN "running" ELSE @, !.session = d, !.bound = FALSE]

ChildBound(task, d) == [task EXCEPT !.session = d, !.bound = TRUE]

-----------------------------------------------------------------------------
(* Polling. *)

PollRead(r) ==
    /\ reads[r] = <<>>
    /\ reads' = [reads EXCEPT ![r] = <<file>>]
    /\ UNCHANGED <<file, panel, clicks, dispatches, added, recorded, prompted, incidents>>

PollAnswered(r) ==
    /\ reads[r] # <<>>
    /\ reads' = [reads EXCEPT ![r] = <<>>]
    /\ panel' = IF panel.lastJson = reads[r] THEN panel
                ELSE [tasks |-> reads[r][1], lastJson |-> reads[r], shown |-> reads[r][1]]
    /\ UNCHANGED <<file, clicks, dispatches, added, recorded, prompted, incidents>>

PollFails(r) ==
    /\ reads[r] # <<>> /\ incidents < MaxIncidents
    /\ reads' = [reads EXCEPT ![r] = <<>>]
    /\ incidents' = incidents + 1
    /\ UNCHANGED <<file, panel, clicks, dispatches, added, recorded, prompted>>

-----------------------------------------------------------------------------
(* Buttons.  The cards show the list as it was last rendered; each button  *)
(* changes the panel's list and saves all of it.                           *)

Approvals == {"approve", "approve all"}

Press(list, op, place, ids) ==
    /\ Len(clicks) < MaxClicks
    /\ op \in Approvals => Cardinality({k \in DOMAIN clicks : clicks[k].op \in Approvals}) < MaxApprovals
    /\ panel' = [panel EXCEPT !.tasks = list]
    /\ clicks' = Append(clicks, [op |-> op, place |-> place, ids |-> ids, list |-> list, at |-> "sent"])
    /\ UNCHANGED <<file, reads, dispatches, added, recorded, prompted, incidents>>

\* Approve, or retry.
Approve(t) ==
    /\ Has(panel.shown, t, {"pending", "failed"})
    /\ t \in Ids(panel.tasks) /\ TaskOf(panel.tasks, t).routed
    /\ Press(With(panel.tasks, ForDispatch(TaskOf(panel.tasks, t))), "approve", Place(panel.tasks, t), {t})

Dismiss(t) ==
    /\ Has(panel.shown, t, {"pending", "failed", "done"})
    /\ Press(Kept(panel.tasks, {i \in DOMAIN panel.tasks : panel.tasks[i].id # t}), "dismiss", 0, {t})

ForceCancel(t) ==
    /\ Has(panel.shown, t, {"running"}) /\ t \in Ids(panel.tasks)
    /\ Press(With(panel.tasks, Finished(TaskOf(panel.tasks, t), "failed")), "cancel", 0, {t})

IsReady(task) == task.status = "pending" /\ task.routed

ApproveAll ==
    LET ready == {panel.tasks[i].id : i \in {j \in DOMAIN panel.tasks : IsReady(panel.tasks[j])}}
    IN  /\ \E i \in DOMAIN panel.shown : IsReady(panel.shown[i])
        /\ ready # {}
        /\ Press([i \in DOMAIN panel.tasks |->
                     IF panel.tasks[i].id \in ready THEN ForDispatch(panel.tasks[i]) ELSE panel.tasks[i]],
                 "approve all", 0, ready)

ClearDone ==
    /\ \E i \in DOMAIN panel.shown : panel.shown[i].status = "done"
    /\ \E i \in DOMAIN panel.tasks : panel.tasks[i].status = "done"
    /\ Press(Kept(panel.tasks, {i \in DOMAIN panel.tasks : panel.tasks[i].status # "done"}), "clear", 0, {})

\* A project chosen for a card stays in the panel until something is saved.
SelectProject(t) ==
    /\ Has(panel.shown, t, {"pending"}) /\ t \in Ids(panel.tasks)
    /\ LET list == With(panel.tasks, [TaskOf(panel.tasks, t) EXCEPT !.routed = TRUE])
       IN  panel' = [panel EXCEPT !.tasks = list, !.shown = list]
    /\ UNCHANGED <<file, reads, clicks, dispatches, added, recorded, prompted, incidents>>

SaveWrites(k) ==
    /\ clicks[k].at = "sent"
    /\ file' = clicks[k].list
    /\ clicks' = [clicks EXCEPT ![k].at = "written"]
    /\ UNCHANGED <<panel, reads, dispatches, added, recorded, prompted, incidents>>

\* An answer that is not ok is not looked at.
SaveRefused(k) ==
    /\ clicks[k].at = "sent" /\ incidents < MaxIncidents
    /\ clicks' = [clicks EXCEPT ![k].at = "written"]
    /\ incidents' = incidents + 1
    /\ UNCHANGED <<file, panel, reads, dispatches, added, recorded, prompted>>

\* The call throws: nothing after the save happens.
SaveRejected(k) ==
    /\ clicks[k].at = "sent" /\ incidents < MaxIncidents
    /\ clicks' = [clicks EXCEPT ![k].at = "rejected", ![k].list = <<>>]
    /\ incidents' = incidents + 1
    /\ UNCHANGED <<file, panel, reads, dispatches, added, recorded, prompted>>

\* Fault: the list last read is kept after a save.
KeepJson(p) == p

ForgetJson(p) == [p EXCEPT !.lastJson = <<>>]

\* The tasks handed to the dispatch, out of the panel's list of this moment.
Dispatched(click) ==
    CASE click.op = "approve" ->
           IF click.place \in DOMAIN panel.tasks THEN <<panel.tasks[click.place]>> ELSE <<>>
      [] click.op = "approve all" -> Kept(panel.tasks, {i \in DOMAIN panel.tasks : panel.tasks[i].id \in click.ids})
      [] OTHER -> <<>>

\* Fault: the agent is prompted and its target written afterwards.
PromptedFirst(task) == [task |-> task, at |-> "prompting", list |-> <<>>, event |-> "none", seen |-> <<>>]

NewDispatch(task) == [task |-> task, at |-> "recording", list |-> <<>>, event |-> "none", seen |-> <<>>]

SaveAnswered(k) ==
    /\ clicks[k].at = "written"
    /\ clicks' = [clicks EXCEPT ![k].at = "done", ![k].list = <<>>]
    /\ panel' = [ForgetJson(panel) EXCEPT !.shown = panel.tasks]
    /\ dispatches' = dispatches \o [i \in DOMAIN Dispatched(clicks[k]) |-> NewDispatch(Dispatched(clicks[k])[i])]
    /\ UNCHANGED <<file, reads, added, recorded, prompted, incidents>>

-----------------------------------------------------------------------------
(* A dispatch: spawn a session, write where it is, prompt it, write the id *)
(* it is bound to; or write that it failed.                                *)

At(d, at) == dispatches' = [dispatches EXCEPT ![d].at = at]

\* The session is spawned before its target is written; the prompt accepted, the
\* snapshot may name the session it is bound to or not.
Prompted(d) ==
    /\ dispatches[d].at = "prompting"
    /\ \E next \in {"binding", "done"} : At(d, next)
    /\ prompted' = prompted \cup {d}
    /\ UNCHANGED <<file, panel, reads, clicks, added, recorded, incidents>>

\* The spawn, the prompt, the snapshot or a call of an update fails.
DispatchFails(d) ==
    /\ dispatches[d].at \notin {"failing", "done"}
    /\ incidents < MaxIncidents
    /\ incidents' = incidents + 1
    /\ dispatches' = [dispatches EXCEPT ![d].at = "failing", ![d].list = <<>>]
    /\ UNCHANGED <<file, panel, reads, clicks, added, recorded, prompted>>

Updates == {"recording", "binding", "failing"}

\* What updateTask makes of the task it finds.
Updated(d, current) ==
    CASE dispatches[d].at = "recording" -> Routed(dispatches[d].task, d)
      [] dispatches[d].at = "binding" -> ChildBound(current, d)
      [] dispatches[d].at = "failing" -> Finished(current, "failed")

Recorded(d) == recorded' = IF dispatches[d].at = "recording" THEN recorded \cup {d} ELSE recorded

After(at) == IF at = "recording" THEN "prompting" ELSE "done"

\* Fault: the task is looked for where the list had it when it was approved.
PlaceAtFirst(list, d) ==
    IF 1 \in DOMAIN list THEN {1} ELSE {}

PlaceNow(list, d) == {i \in DOMAIN list : list[i].id = dispatches[d].task.id}

UpdateRead(d) ==
    /\ dispatches[d].at \in Updates /\ dispatches[d].list = <<>>
    /\ IF PlaceNow(file, d) = {}
       THEN /\ At(d, After(dispatches[d].at))
            /\ Recorded(d)
       ELSE /\ \E i \in PlaceNow(file, d) :
                 dispatches' = [dispatches EXCEPT ![d].list = <<[file EXCEPT ![i] = Updated(d, file[i])]>>]
            /\ UNCHANGED recorded
    /\ UNCHANGED <<file, panel, reads, clicks, added, prompted, incidents>>

UpdateWrite(d) ==
    /\ dispatches[d].list # <<>>
    /\ file' = dispatches[d].list[1]
    /\ dispatches' = [dispatches EXCEPT ![d].at = After(@), ![d].list = <<>>]
    /\ Recorded(d)
    /\ UNCHANGED <<panel, reads, clicks, added, prompted, incidents>>

\* The host tells of the bound session by itself too, once the dispatch is registered.
BoundEventRead(d) ==
    /\ dispatches[d].at \in {"binding", "failing", "done"} /\ d \in prompted
    /\ dispatches[d].event = "none" /\ incidents < MaxIncidents
    /\ incidents' = incidents + 1
    /\ dispatches' = IF PlaceNow(file, d) = {} THEN [dispatches EXCEPT ![d].event = "done"]
                     ELSE [dispatches EXCEPT ![d].event = "read",
                                             ![d].seen = [i \in DOMAIN file |->
                                                IF i \in PlaceNow(file, d) THEN ChildBound(file[i], d) ELSE file[i]]]
    /\ UNCHANGED <<file, panel, reads, clicks, added, recorded, prompted>>

BoundEventWrite(d) ==
    /\ dispatches[d].event = "read"
    /\ file' = dispatches[d].seen
    /\ dispatches' = [dispatches EXCEPT ![d].event = "done", ![d].seen = <<>>]
    /\ UNCHANGED <<panel, reads, clicks, added, recorded, prompted, incidents>>

-----------------------------------------------------------------------------
(* The Super Agent edits the file by itself. *)

AddTask(t) ==
    /\ t \notin added /\ incidents < MaxIncidents
    /\ incidents' = incidents + 1
    /\ added' = added \cup {t}
    /\ file' = Append(file, NewTask(t))
    /\ UNCHANGED <<panel, reads, clicks, dispatches, recorded, prompted>>

Report(t, status) ==
    /\ Has(file, t, {"running"}) /\ incidents < MaxIncidents
    /\ file' = With(file, Finished(TaskOf(file, t), status))
    /\ incidents' = incidents + 1
    /\ UNCHANGED <<panel, reads, clicks, dispatches, added, recorded, prompted>>

-----------------------------------------------------------------------------
\* The list of an earlier run.
Init ==
    /\ \E statuses \in [DOMAIN Early -> {"pending", "done"}] :
         file = [i \in DOMAIN Early |-> [NewTask(Early[i]) EXCEPT !.status = statuses[i]]]
    /\ panel = [tasks |-> <<>>, lastJson |-> <<>>, shown |-> <<>>]
    /\ reads = [r \in 1 .. MaxReads |-> <<>>]
    /\ clicks = <<>> /\ dispatches = <<>>
    /\ added = ToSet(Early) /\ recorded = {} /\ prompted = {}
    /\ incidents = 0

DispatchStep(d) ==
    \/ Prompted(d) \/ UpdateRead(d) \/ UpdateWrite(d)
    \/ BoundEventRead(d) \/ BoundEventWrite(d)

Next ==
    \/ \E r \in 1 .. MaxReads : PollRead(r) \/ PollAnswered(r) \/ PollFails(r)
    \/ \E t \in Tasks : Approve(t) \/ Dismiss(t) \/ ForceCancel(t) \/ SelectProject(t) \/ AddTask(t)
    \/ ApproveAll \/ ClearDone
    \/ \E k \in DOMAIN clicks : SaveWrites(k) \/ SaveRefused(k) \/ SaveRejected(k) \/ SaveAnswered(k)
    \/ \E d \in DOMAIN dispatches : DispatchStep(d) \/ DispatchFails(d)
    \/ \E t \in Tasks, status \in {"done", "failed"} : Report(t, status)

Spec == Init /\ [][Next]_vars

\* Calls are answered and the panel's timer goes on.
FairSpec ==
    /\ Spec
    /\ \A r \in 1 .. MaxReads : WF_vars(PollRead(r)) /\ WF_vars(PollAnswered(r))
    /\ \A k \in 1 .. MaxClicks : WF_vars(k \in DOMAIN clicks /\ (SaveWrites(k) \/ SaveAnswered(k)))
    /\ \A d \in 1 .. MaxClicks * Cardinality(Tasks) : WF_vars(d \in DOMAIN dispatches /\ DispatchStep(d))

-----------------------------------------------------------------------------
(* Properties. *)

\* An agent is prompted only when the file was told before which session that
\* is, so that a crash leaves something to look at: whatever overtakes the
\* update, it was written, or there was no such task any more
\* (dispatchSuperAgentTaskNative).
BreadcrumbBeforePrompt == prompted \subseteq recorded

\* The session a task points at ("View session") was started for that task,
\* in every list that is, was or will be written, however stale it is.
SessionsAreTheirTasks ==
    LET Sound(list) ==
            \A i \in DOMAIN list :
                list[i].session # 0 => dispatches[list[i].session].task.id = list[i].id
    IN  /\ Sound(file) /\ Sound(panel.tasks)
        /\ \A k \in DOMAIN clicks : Sound(clicks[k].list)
        /\ \A d \in DOMAIN dispatches : dispatches[d].list # <<>> => Sound(dispatches[d].list[1])

Seen(list) == [i \in DOMAIN list |-> [id |-> list[i].id, status |-> list[i].status]]

\* The panel ends up showing what the file says, after stale polls that arrive
\* late and saves that were refused (_poll and _lastJson).  Only a save that
\* threw leaves it showing a list that was never written.
PanelShowsTheFile ==
    <>[](\/ Seen(panel.tasks) = Seen(file)
         \/ \E k \in DOMAIN clicks : clicks[k].at = "rejected")

\* No agent is started for a task nobody approved: "Picot keeps project-agent
\* dispatch behind local approval" (chat-inbox/extension-entry.ts), and the
\* event carries the task whose Approve was clicked.
OnlyApprovedTasksAreDispatched ==
    \A d \in DOMAIN dispatches :
        \E k \in DOMAIN clicks :
            clicks[k].op \in Approvals /\ dispatches[d].task.id \in clicks[k].ids

=============================================================================
