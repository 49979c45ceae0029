--------------------------- MODULE TerminalRegistry ---------------------------
(***************************************************************************)
(* The registry of terminal tabs (src-tauri/src/terminal_registry.rs):     *)
(* which tabs an owner has in a workspace, the generation and status of    *)
(* each, and the two quotas.  Every method runs under the registry's one   *)
(* mutex; a call that returns Err changes nothing and is the absence of    *)
(* the step.  The order of the tabs, their labels and profiles are left    *)
(* out: no transition depends on them.                                     *)
(*                                                                         *)
(* A definition whose comment begins with "Fault" is no part of the        *)
(* specification: it is the wrong form of the definition after it, used to *)
(* make sure that a property notices the difference.                       *)
(***************************************************************************)
EXTENDS Integers, FiniteSets

CONSTANTS
    TerminalId,           \* the random ids; they never repeat
    Partition,            \* TerminalKey: an owner and a workspace root
    TabQuota,             \* WORKSPACE_TAB_QUOTA
    GlobalQuota,          \* global_process_quota
    MaxGeneration         \* bound of the model: generations per partition

ASSUME QuotaAssumption == TabQuota \in Nat /\ GlobalQuota \in Nat
ASSUME GenerationAssumption == MaxGeneration \in Nat

VARIABLES
    tabs,                 \* terminal id -> its record, over all partitions
    nextGeneration,       \* partition -> the generation allocated last
    issued                \* history: the ids handed out

registryVars == <<tabs, nextGeneration, issued>>

-----------------------------------------------------------------------------

Generation == 1 .. MaxGeneration

\* No record is ever RestoredMetadata: that status is only shown.
TerminalStatus == {"creating", "running", "exited", "failed", "closing"}

Record == [key : Partition, generation : Generation, status : TerminalStatus]

\* Ids are unguessable and an owner only learns its own, so a call names the
\* partition its terminal is in: what find_mut compares is the generation.
Known(id, g) == id \in DOMAIN tabs /\ tabs[id].generation = g

Has(id, g, statuses) == Known(id, g) /\ tabs[id].status \in statuses

\* Fault: a tab that is closing gives its place away.
LiveReservationsOpen ==
    Cardinality({id \in DOMAIN tabs : tabs[id].status \in {"creating", "running"}})

LiveReservations ==
    Cardinality({id \in DOMAIN tabs : tabs[id].status \in {"creating", "running", "closing"}})

NonClosingCount(k) ==
    Cardinality({id \in DOMAIN tabs : tabs[id].key = k /\ tabs[id].status # "closing"})

Become(id, status) ==
    /\ tabs' = [tabs EXCEPT ![id].status = status]
    /\ UNCHANGED <<nextGeneration, issued>>

\* Fault: the counter of a partition is read and not counted on.
SameGeneration(k, g) ==
    /\ nextGeneration[k] < MaxGeneration
    /\ g = nextGeneration[k] + 1
    /\ UNCHANGED nextGeneration

\* allocate_generation
AllocateGeneration(k, g) ==
    /\ nextGeneration[k] < MaxGeneration
    /\ g = nextGeneration[k] + 1
    /\ nextGeneration' = [nextGeneration EXCEPT ![k] = g]

-----------------------------------------------------------------------------

\* Fault: one tab more than the quotas allow.
QuotaLeftAndOne(k) == LiveReservations <= GlobalQuota /\ NonClosingCount(k) <= TabQuota

QuotaLeft(k) == LiveReservations < GlobalQuota /\ NonClosingCount(k) < TabQuota

\* reserve_tab_with_profile
Reserve(k, id, g) ==
    /\ QuotaLeft(k)
    /\ id \notin issued
    /\ AllocateGeneration(k, g)
    /\ tabs' = [x \in DOMAIN tabs \cup {id} |->
                    IF x = id THEN [key |-> k, generation |-> g, status |-> "creating"]
                              ELSE tabs[x]]
    /\ issued' = issued \cup {id}

CommitRunning(id, g) == Has(id, g, {"creating"}) /\ Become(id, "running")

\* mark_failed looks at no status.
MarkFailed(id, g) == Known(id, g) /\ Become(id, "failed")

MarkExited(id, g) == Has(id, g, {"running"}) /\ Become(id, "exited")

\* A tab that does not hold a global slot takes one.
Restart(id, g, new) ==
    /\ \/ Has(id, g, {"creating", "running"})
       \/ Has(id, g, {"exited", "failed"}) /\ LiveReservations < GlobalQuota
    /\ AllocateGeneration(tabs[id].key, new)
    /\ tabs' = [tabs EXCEPT ![id].generation = new, ![id].status = "creating"]
    /\ UNCHANGED issued

BeginClose(id, g) == Has(id, g, TerminalStatus \ {"closing"}) /\ Become(id, "closing")

\* Fault: the record is marked and stays.
FinishCloseMarked(id, g) == Known(id, g) /\ Become(id, "closed")

\* finish_close removes the record whatever its status.
FinishClose(id, g) ==
    /\ Known(id, g)
    /\ tabs' = [x \in DOMAIN tabs \ {id} |-> tabs[x]]
    /\ UNCHANGED <<nextGeneration, issued>>

-----------------------------------------------------------------------------

Init ==
    /\ tabs = << >>
    /\ nextGeneration = [k \in Partition |-> 0]
    /\ issued = {}

Next ==
    \/ \E k \in Partition, id \in TerminalId, g \in Generation : Reserve(k, id, g)
    \/ \E id \in TerminalId, g \in Generation :
          \/ CommitRunning(id, g) \/ MarkFailed(id, g) \/ MarkExited(id, g)
          \/ BeginClose(id, g) \/ FinishClose(id, g)
          \/ \E new \in Generation : Restart(id, g, new)

Spec == Init /\ [][Next]_registryVars

-----------------------------------------------------------------------------
(* Properties *)

\* Records are well formed, and only ids that were handed out have one.
TypeOK ==
    /\ DOMAIN tabs \subseteq issued /\ issued \subseteq TerminalId
    /\ tabs \in [DOMAIN tabs -> Record]
    /\ nextGeneration \in [Partition -> Nat]

\* The generations in use are among those allocated, and no two tabs of a
\* partition share one: what makes (id, generation) name one PTY only.
GenerationsAreAllocated ==
    /\ \A id \in DOMAIN tabs : tabs[id].generation <= nextGeneration[tabs[id].key]
    /\ \A x, y \in DOMAIN tabs :
           tabs[x].key = tabs[y].key /\ tabs[x].generation = tabs[y].generation => x = y

\* In whatever order tabs are reserved, restarted, failed and closed, no more
\* of them are being created or running than the global quota allows.
RunningWithinQuota ==
    Cardinality({id \in DOMAIN tabs : tabs[id].status \in {"creating", "running"}})
        <= GlobalQuota

\* A page that holds an old generation can never act on the tab again: a
\* tab keeps its generation or gets a greater one, and whenever it is created
\* anew, greater it is; a tab that is gone does not come back.
StaleHandlesStayStale ==
    [][/\ \A id \in DOMAIN tabs \cap DOMAIN tabs' :
              \/ tabs'[id].generation > tabs[id].generation
              \/ /\ tabs'[id].generation = tabs[id].generation
                 /\ tabs'[id].status = "creating" => tabs[id].status = "creating"
       /\ issued \cap (DOMAIN tabs' \ DOMAIN tabs) = {}]_registryVars

=============================================================================
