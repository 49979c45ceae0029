---------------------------- MODULE TerminalManager ----------------------------
(***************************************************************************)
(* The manager of the terminals (src-tauri/src/terminal_manager.rs).  Each *)
(* command of a client is a host task of its own (host_server.rs:1161), so *)
(* commands of one client overlap.  A command goes through the registry's  *)
(* lock, the process, the live map and the outputs in separate steps, while *)
(* a reader thread per PTY follows it to its end.                          *)
(*                                                                         *)
(* A PTY is named by its terminal and generation: every generation is      *)
(* spawned at most once.                                                   *)
(*                                                                         *)
(* A definition marked "Fault" is a wrong form of the one after it and no  *)
(* part of the specification; it tests that a property notices.            *)
(***************************************************************************)
EXTENDS TerminalRegistry, Sequences

CONSTANTS
    Caller,               \* the tasks that run commands
    Operations,           \* the commands a run uses
    PtyEnds,              \* how shells end: "mute", the tty is closed, at once or long
                          \* before; "hold", a process they leave keeps it open
    MaxChunks,            \* bound of the model: chunks written in all
    MaxCalls              \* bound of the model: commands begun in all

ASSUME OperationsAssumption == Operations \subseteq {"create", "restart", "close", "kill_all"}
ASSUME PtyEndsAssumption == PtyEnds \subseteq {"mute", "hold"}

Pty == TerminalId \X Generation

VARIABLES
    live,                 \* terminal -> the generation that is live, and if it still has its child
    outputs,              \* terminal -> the generations of the chunks in its output store
    pty,                  \* PTY -> "none", "running", "mute" (tty closed, shell still alive),
                          \* "held" (shell dead, tty still open) or "dead"
    unread,               \* PTY -> chunks written and not read
    wrote,                \* how many chunks were written
    reader,               \* PTY -> where its reader thread is
    calls,                \* caller -> the command it runs
    strays,               \* history: the PTYs an attach left without a tab, or out of the live map
    begun                 \* how many commands were begun

ptyVars == <<pty, unread, wrote>>
managerVars == <<registryVars, live, outputs, ptyVars, reader, calls, strays, begun>>

-----------------------------------------------------------------------------

Alive(p) == pty[p] \in {"running", "mute"}

IsLive(id, g) == id \in DOMAIN live /\ live[id].generation = g

\* What a removed live terminal leaves to kill.
LeavesChild(id, g) == IsLive(id, g) /\ live[id].child

Put(f, k, v) == [x \in DOMAIN f \cup {k} |-> IF x = k THEN v ELSE f[x]]
Without(f, k) == [x \in DOMAIN f \ {k} |-> f[x]]

Idle == [op |-> "idle", at |-> "idle"]
At(c, at) == calls[c].at = at
Doing(c, op, at) == calls[c].op = op /\ calls[c].at = at
Goto(c, at) == calls' = [calls EXCEPT ![c].at = at]
Finish(c) == calls' = [calls EXCEPT ![c] = Idle]

CreateCall(id, g) == [op |-> "create", at |-> "spawn", id |-> id, generation |-> g]
RestartCall(id, old, g) ==
    [op |-> "restart", at |-> "replace", id |-> id, old |-> old, generation |-> g]
CloseCall(id, g) == [op |-> "close", at |-> "terminate", id |-> id, generation |-> g]
KillAllCall(drained) ==
    [op |-> "kill_all", at |-> "next", drained |-> drained, id |-> "none", generation |-> 0]

\* Tasks are alike, so the first idle one stands for any.
Begin(c, op, call) ==
    /\ op \in Operations
    /\ calls[c] = Idle
    /\ c = CHOOSE d \in Caller : calls[d] = Idle
    /\ begun < MaxCalls
    /\ begun' = begun + 1
    /\ calls' = [calls EXCEPT ![c] = call]

\* kill_live_terminal: without its child, which the reader took, nothing is
\* killed; with it, kill_process_tree kills the group and waits for the shell.
\* A process in a group of its own may keep the tty open.
KillIfThere(p, there) ==
    IF there /\ pty[p] \in {"running", "mute", "held"}
    THEN \/ pty' = [pty EXCEPT ![p] = "dead"]
         \/ "hold" \in PtyEnds /\ pty[p] # "mute" /\ pty' = [pty EXCEPT ![p] = "held"]
    ELSE UNCHANGED pty

PtyOf(c) == <<calls[c].id, calls[c].generation>>

-----------------------------------------------------------------------------
(* create: reserve, resolve the shell, spawn, commit, attach                 *)

\* Ids are alike, too.
CreateBegin(c) ==
    \E k \in Partition, id \in TerminalId, g \in Generation :
        /\ Reserve(k, id, g)
        /\ id = CHOOSE x \in TerminalId : x \notin issued
        /\ Begin(c, "create", CreateCall(id, g))
        /\ UNCHANGED <<live, outputs, ptyVars, reader, strays>>

\* spawn_pty, and before it resolve_shell for a create: either may fail.
Spawn(c) ==
    /\ At(c, "spawn")
    /\ \/ pty' = [pty EXCEPT ![PtyOf(c)] = "running"] /\ Goto(c, "commit")
       \/ Goto(c, "failed") /\ UNCHANGED pty
    /\ UNCHANGED <<registryVars, live, outputs, unread, wrote, reader, strays, begun>>

\* mark_failed for a shell that did not start.
SpawnFailed(c) ==
    /\ At(c, "failed")
    /\ IF Known(calls[c].id, calls[c].generation)
       THEN MarkFailed(calls[c].id, calls[c].generation)
       ELSE UNCHANGED registryVars
    /\ Finish(c)
    /\ UNCHANGED <<live, outputs, ptyVars, reader, strays, begun>>

\* A create whose commit is refused marks the tab failed and then kills the
\* PTY; a restart kills first, and then finds that its generation is gone or
\* no longer Creating, so that it marks nothing.
Commit(c) ==
    /\ At(c, "commit")
    /\ LET id == calls[c].id
           g == calls[c].generation
       IN  IF Has(id, g, {"creating"})
           THEN CommitRunning(id, g) /\ Goto(c, "attach")
           ELSE /\ Goto(c, IF calls[c].op = "create" THEN "refused" ELSE "detach")
                /\ UNCHANGED registryVars
    /\ UNCHANGED <<live, outputs, ptyVars, reader, strays, begun>>

CommitRefused(c) ==
    /\ At(c, "refused")
    /\ IF Known(calls[c].id, calls[c].generation)
       THEN MarkFailed(calls[c].id, calls[c].generation)
       ELSE UNCHANGED registryVars
    /\ Goto(c, "detach")
    /\ UNCHANGED <<live, outputs, ptyVars, reader, strays, begun>>

\* detach_spawned
Detach(c) ==
    /\ At(c, "detach")
    /\ KillIfThere(PtyOf(c), TRUE)
    /\ Finish(c)
    /\ UNCHANGED <<registryVars, live, outputs, unread, wrote, reader, strays, begun>>

\* attach_spawned: insert replaces whatever was live, and nothing looks again
\* whether the tab is still running this generation.
AttachLive(c) ==
    /\ At(c, "attach")
    /\ live' = Put(live, calls[c].id, [generation |-> calls[c].generation, child |-> TRUE])
    /\ strays' = strays
           \cup {p \in Pty : p[1] = calls[c].id /\ LeavesChild(p[1], p[2])}
           \cup {p \in {PtyOf(c)} : ~Has(p[1], p[2], {"running"})}
    /\ Goto(c, "output")
    /\ UNCHANGED <<registryVars, outputs, ptyVars, reader, begun>>

\* The store of the terminal, if it has none, and the reader thread.
AttachOutput(c) ==
    /\ At(c, "output")
    /\ outputs' = IF calls[c].id \in DOMAIN outputs THEN outputs
                  ELSE Put(outputs, calls[c].id, << >>)
    /\ reader' = [reader EXCEPT ![PtyOf(c)] = "read"]
    /\ Finish(c)
    /\ UNCHANGED <<registryVars, live, ptyVars, strays, begun>>

-----------------------------------------------------------------------------
(* restart: a new generation in the registry, the old one out of the live    *)
(* map with a new store in its place, and a spawn as for create              *)

RestartBegin(c) ==
    \E id \in DOMAIN tabs, new \in Generation :
        LET old == tabs[id].generation
        IN  /\ Restart(id, old, new)
            /\ Begin(c, "restart", RestartCall(id, old, new))
            /\ UNCHANGED <<live, outputs, ptyVars, reader, strays>>

\* replace_generation
ReplaceGeneration(c) ==
    /\ Doing(c, "restart", "replace")
    /\ LET id == calls[c].id
           old == calls[c].old
       IN  /\ Goto(c, IF LeavesChild(id, old) THEN "kill" ELSE "spawn")
           /\ IF IsLive(id, old)
              THEN live' = Without(live, id) /\ outputs' = Put(outputs, id, << >>)
              ELSE UNCHANGED <<live, outputs>>
    /\ UNCHANGED <<registryVars, ptyVars, reader, strays, begun>>

\* Fault: the replaced PTY is let go.
KillNothing(c) ==
    /\ Doing(c, "restart", "kill")
    /\ Goto(c, "spawn")
    /\ UNCHANGED <<registryVars, live, outputs, ptyVars, reader, strays, begun>>

KillReplaced(c) ==
    /\ Doing(c, "restart", "kill")
    /\ KillIfThere(<<calls[c].id, calls[c].old>>, TRUE)
    /\ Goto(c, "spawn")
    /\ UNCHANGED <<registryVars, live, outputs, unread, wrote, reader, strays, begun>>

-----------------------------------------------------------------------------
(* close: a lease, terminate_and_finish                                      *)

CloseBegin(c) ==
    \E id \in DOMAIN tabs :
        /\ BeginClose(id, tabs[id].generation)
        /\ Begin(c, "close", CloseCall(id, tabs[id].generation))
        /\ UNCHANGED <<live, outputs, ptyVars, reader, strays>>

Terminate(c) ==
    /\ Doing(c, "close", "terminate")
    /\ LET id == calls[c].id
           g == calls[c].generation
       IN  /\ Goto(c, IF LeavesChild(id, g) THEN "kill" ELSE "finish")
           /\ IF IsLive(id, g)
              THEN live' = Without(live, id) /\ outputs' = Without(outputs, id)
              ELSE UNCHANGED <<live, outputs>>
    /\ UNCHANGED <<registryVars, ptyVars, reader, strays, begun>>

KillClosed(c) ==
    /\ Doing(c, "close", "kill")
    /\ KillIfThere(PtyOf(c), TRUE)
    /\ Goto(c, "finish")
    /\ UNCHANGED <<registryVars, live, outputs, unread, wrote, reader, strays, begun>>

CloseFinish(c) ==
    /\ Doing(c, "close", "finish")
    /\ IF Known(calls[c].id, calls[c].generation)
       THEN FinishClose(calls[c].id, calls[c].generation)
       ELSE UNCHANGED registryVars
    /\ Finish(c)
    /\ UNCHANGED <<live, outputs, ptyVars, reader, strays, begun>>

-----------------------------------------------------------------------------
(* kill_all, when the host stops: drain the live map, then kill and finish   *)
(* one after another, in an order the map does not define                    *)

KillAllBegin(c) ==
    /\ Begin(c, "kill_all",
             KillAllCall({<<id, live[id].generation, live[id].child>> : id \in DOMAIN live}))
    /\ live' = << >>
    /\ UNCHANGED <<registryVars, outputs, ptyVars, reader, strays>>

KillDrained(c) ==
    /\ Doing(c, "kill_all", "next")
    /\ \E lt \in calls[c].drained :
           /\ KillIfThere(<<lt[1], lt[2]>>, lt[3])
           /\ calls' = [calls EXCEPT ![c].at = "finish", ![c].drained = @ \ {lt},
                                     ![c].id = lt[1], ![c].generation = lt[2]]
    /\ UNCHANGED <<registryVars, live, outputs, unread, wrote, reader, strays, begun>>

FinishDrained(c) ==
    /\ Doing(c, "kill_all", "finish")
    /\ IF Known(calls[c].id, calls[c].generation)
       THEN FinishClose(calls[c].id, calls[c].generation)
       ELSE UNCHANGED registryVars
    /\ IF calls[c].drained = {} THEN Finish(c) ELSE Goto(c, "next")
    /\ UNCHANGED <<live, outputs, ptyVars, reader, strays, begun>>

KillAllDone(c) ==
    /\ Doing(c, "kill_all", "next")
    /\ calls[c].drained = {}
    /\ Finish(c)
    /\ UNCHANGED <<registryVars, live, outputs, ptyVars, reader, strays, begun>>

-----------------------------------------------------------------------------
(* run_reader, one thread per attached PTY                                   *)

ReaderTo(p, at) == reader' = [reader EXCEPT ![p] = at]

\* Fault: output is appended whichever generation is live.
AppendAny(id, g) ==
    outputs' = IF id \in DOMAIN outputs THEN [outputs EXCEPT ![id] = Append(@, g)] ELSE outputs

\* append_output_if_current: output of a replaced generation is dropped.
AppendIfCurrent(id, g) ==
    outputs' = IF ~IsLive(id, g) THEN outputs
               ELSE Put(outputs, id,
                        Append(IF id \in DOMAIN outputs THEN outputs[id] ELSE << >>, g))

ReaderAppend(p) ==
    /\ reader[p] = "read"
    /\ unread[p] > 0
    /\ unread' = [unread EXCEPT ![p] = @ - 1]
    /\ AppendIfCurrent(p[1], p[2])
    /\ UNCHANGED <<registryVars, live, pty, wrote, reader, calls, strays, begun>>

\* At the end of the output, when no process has the tty open any more, the
\* reader takes the child to wait for it.  The death of the shell is not enough.
ReaderTake(p) ==
    /\ reader[p] = "read"
    /\ unread[p] = 0
    /\ pty[p] \in {"mute", "dead"}
    /\ IF LeavesChild(p[1], p[2])
       THEN live' = [live EXCEPT ![p[1]].child = FALSE] /\ ReaderTo(p, "wait")
       ELSE ReaderTo(p, "remove") /\ UNCHANGED live
    /\ UNCHANGED <<registryVars, outputs, ptyVars, calls, strays, begun>>

ReaderWait(p) ==
    /\ reader[p] = "wait"
    /\ pty[p] = "dead"
    /\ ReaderTo(p, "remove")
    /\ UNCHANGED <<registryVars, live, outputs, ptyVars, calls, strays, begun>>

\* Fault: whatever is live under the terminal is removed.
ReaderRemoveAny(p) ==
    /\ reader[p] = "remove"
    /\ live' = Without(live, p[1])
    /\ ReaderTo(p, "mark")
    /\ UNCHANGED <<registryVars, outputs, ptyVars, calls, strays, begun>>

ReaderRemove(p) ==
    /\ reader[p] = "remove"
    /\ live' = IF IsLive(p[1], p[2]) THEN Without(live, p[1]) ELSE live
    /\ ReaderTo(p, "mark")
    /\ UNCHANGED <<registryVars, outputs, ptyVars, calls, strays, begun>>

\* Fault: the exit is told to the client and not to the registry.
ReaderMarkNothing(p) ==
    /\ reader[p] = "mark"
    /\ ReaderTo(p, "done")
    /\ UNCHANGED <<registryVars, live, outputs, ptyVars, calls, strays, begun>>

ReaderMark(p) ==
    /\ reader[p] = "mark"
    /\ IF Has(p[1], p[2], {"running"}) THEN MarkExited(p[1], p[2]) ELSE UNCHANGED registryVars
    /\ ReaderTo(p, "done")
    /\ UNCHANGED <<live, outputs, ptyVars, calls, strays, begun>>

-----------------------------------------------------------------------------
(* The shells                                                                *)

PtyWrite(p) ==
    /\ pty[p] \in {"running", "held"}
    /\ wrote < MaxChunks
    /\ wrote' = wrote + 1
    /\ unread' = [unread EXCEPT ![p] = @ + 1]
    /\ UNCHANGED <<registryVars, live, outputs, pty, reader, calls, strays, begun>>

PtyEnd(p) ==
    /\ \/ "mute" \in PtyEnds /\ pty[p] = "running" /\ pty' = [pty EXCEPT ![p] = "mute"]
       \/ "hold" \in PtyEnds /\ pty[p] = "running" /\ pty' = [pty EXCEPT ![p] = "held"]
       \/ pty[p] \in {"mute", "held"} /\ pty' = [pty EXCEPT ![p] = "dead"]
    /\ UNCHANGED <<registryVars, live, outputs, unread, wrote, reader, calls, strays, begun>>

-----------------------------------------------------------------------------

ManagerInit ==
    /\ Init
    /\ live = << >>
    /\ outputs = << >>
    /\ pty = [p \in Pty |-> "none"]
    /\ unread = [p \in Pty |-> 0]
    /\ wrote = 0
    /\ reader = [p \in Pty |-> "off"]
    /\ calls = [c \in Caller |-> Idle]
    /\ strays = {}
    /\ begun = 0

CallBegins(c) == CreateBegin(c) \/ RestartBegin(c) \/ CloseBegin(c) \/ KillAllBegin(c)

CallGoesOn(c) ==
    \/ Spawn(c) \/ SpawnFailed(c) \/ Commit(c) \/ CommitRefused(c) \/ Detach(c)
    \/ AttachLive(c) \/ AttachOutput(c)
    \/ ReplaceGeneration(c) \/ KillReplaced(c)
    \/ Terminate(c) \/ KillClosed(c) \/ CloseFinish(c)
    \/ KillDrained(c) \/ FinishDrained(c) \/ KillAllDone(c)

ReaderGoesOn(p) ==
    ReaderAppend(p) \/ ReaderTake(p) \/ ReaderWait(p) \/ ReaderRemove(p) \/ ReaderMark(p)

ManagerNext ==
    \/ \E c \in Caller : CallBegins(c) \/ CallGoesOn(c)
    \/ \E p \in Pty : ReaderGoesOn(p) \/ PtyWrite(p) \/ PtyEnd(p)

ManagerSpec == ManagerInit /\ [][ManagerNext]_managerVars

\* A command runs to its end, and so does a reader whose PTY has ended.
\* Nothing obliges a client to call, or a shell to write or to end.
FairManagerSpec ==
    /\ ManagerSpec
    /\ \A c \in Caller : WF_managerVars(CallGoesOn(c))
    /\ \A p \in Pty : WF_managerVars(ReaderGoesOn(p))

-----------------------------------------------------------------------------
(* Properties *)

ManagerTypeOK ==
    /\ TypeOK
    /\ DOMAIN live \subseteq issued /\ DOMAIN outputs \subseteq issued
    /\ \A id \in DOMAIN live : live[id] \in [generation : Generation, child : BOOLEAN]
    /\ \A id \in DOMAIN outputs : outputs[id] \in Seq(Generation)
    /\ pty \in [Pty -> {"none", "running", "mute", "held", "dead"}]
    /\ reader \in [Pty -> {"off", "read", "wait", "remove", "mark", "done"}]
    /\ \A p \in Pty : unread[p] \in 0 .. wrote
    /\ strays \subseteq Pty

\* A command has the process of p in hand: it spawned it and has not attached
\* it, or took it out of the live map to kill it.
Holds(c, p) ==
    \/ /\ calls[c].op \in {"create", "restart"}
       /\ calls[c].at \in {"commit", "refused", "detach", "attach"}
       /\ p = PtyOf(c)
    \/ Doing(c, "restart", "kill") /\ p = <<calls[c].id, calls[c].old>>
    \/ Doing(c, "close", "kill") /\ p = PtyOf(c)
    \/ calls[c].op = "kill_all" /\ <<p[1], p[2], TRUE>> \in calls[c].drained

\* A restart has given the tab a new generation and has yet to take p out of
\* the live map.
Replaces(c, p) == Doing(c, "restart", "replace") /\ p = <<calls[c].id, calls[c].old>>

\* A kill_all has p, its process or only what was left of it, in its list.
Drains(c, p) ==
    /\ calls[c].op = "kill_all"
    /\ \/ \E there \in BOOLEAN : <<p[1], p[2], there>> \in calls[c].drained
       \/ At(c, "finish") /\ p = PtyOf(c)

\* The reader took the child of a shell that closed its tty, and waits.
Awaited(p) == reader[p] = "wait"

\* The manager owns every PTY (terminal_manager.rs:1): a shell that is alive
\* can be killed, because it is in the live map with its child or a command has
\* it in hand.  Its reader may have taken it over to wait for it; the only
\* shells nobody has are the strays of an attach that overlapped a close or a
\* restart of its tab.
EveryPtyIsOwned ==
    \A p \in Pty : Alive(p) =>
        \/ LeavesChild(p[1], p[2])
        \/ \E c \in Caller : Holds(c, p)
        \/ Awaited(p) \/ p \in strays

\* What the comment on CloseLease (terminal_registry.rs:79) promises: when
\* a tab is gone or has a new generation, its shell was terminated before or a
\* command is about to; but for the strays, and shells their reader waits for.
NoPtyOutlivesItsTab ==
    \A p \in Pty : Alive(p) =>
        \/ Known(p[1], p[2])
        \/ \E c \in Caller : Holds(c, p) \/ Replaces(c, p)
        \/ Awaited(p) \/ p \in strays

\* A shell that takes a place of the quota: its tab has it, and nobody is
\* about to kill it.
Counts(p) ==
    /\ Alive(p) /\ ~Awaited(p) /\ p \notin strays
    /\ Known(p[1], p[2])
    /\ \A c \in Caller : ~Drains(c, p)
    /\ \A c \in Caller : Holds(c, p) => calls[c].at \notin {"refused", "detach"}

\* The quota of live PTYs bounds the shells there really are, not only the
\* records of the registry: those of closing tabs, whose records do not keep to
\* the quota, are counted with the rest.
QuotaBoundsProcesses == Cardinality({p \in Pty : Counts(p)}) <= GlobalQuota

\* A tab that is shown running takes input: its generation is the live one,
\* or is about to be; or its end was seen by its reader, or is a kill_all's to
\* record.  Only a stray's tab can be shown running for ever without a PTY.
RunningTabsAreLive ==
    \A p \in Pty : Has(p[1], p[2], {"running"}) =>
        \/ IsLive(p[1], p[2])
        \/ \E c \in Caller : Drains(c, p) \/ (At(c, "attach") /\ p = PtyOf(c))
        \/ reader[p] \in {"wait", "remove", "mark"} \/ p \in strays

\* While a generation is live, nothing an older one wrote reaches its store,
\* whatever its reader still finds in the pipe.
NoLateOutput ==
    [][\A id \in DOMAIN live \cap DOMAIN outputs \cap DOMAIN outputs' :
           Len(outputs'[id]) = Len(outputs[id]) + 1
               => outputs'[id][Len(outputs'[id])] = live[id].generation]_managerVars

\* The end of a shell is noticed once no process has its tty open: its tab does
\* not stay running.  Until then it does, for as long as the tty is held.
ExitsAreNoticed ==
    \A id \in TerminalId :
        LET endsUnseen == /\ id \in DOMAIN tabs /\ tabs[id].status = "running"
                          /\ pty[<<id, tabs[id].generation>>] = "dead"
        IN  endsUnseen ~> ~endsUnseen

\* A tab that is closing goes, even if a create that is refused meanwhile marks
\* it failed; unless it is then restarted and created anew.
ClosingEnds ==
    \A id \in TerminalId :
        (id \in DOMAIN tabs /\ tabs[id].status = "closing")
            ~> (id \notin DOMAIN tabs \/ tabs[id].status = "creating")

=============================================================================
