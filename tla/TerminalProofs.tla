----------------------------- MODULE TerminalProofs -----------------------------
(***************************************************************************)
(* What holds of the terminals: of their tabs and processes                *)
(* (TerminalManager), however the commands of the manager overlap, for     *)
(* every set of callers, ids and partitions and every quota; and of their  *)
(* output (TerminalStream), for any sizes of chunks, journals and          *)
(* receivers, and any number of chunks, checkpoints and lost connections.  *)
(*                                                                         *)
(* First the registry by itself; then, that the manager uses the registry  *)
(* only through its methods, so that what is proved of the registry holds  *)
(* under the manager; then the types of the manager, and from them that no *)
(* late output gets into the store of a live terminal.                     *)
(*                                                                         *)
(* Then what becomes of the processes (PtyInvariant).  Commands of one     *)
(* tab overlap, so the invariant is about one PTY at a time (PtyIsKept):   *)
(* its generation is allocated once, so only one command creates it and    *)
(* nothing knows of it before; until it is attached only that command has  *)
(* it; a close and a kill_all take it out of the live map for good.  What  *)
(* an attach makes a stray is what no other command is there to kill.      *)
(* Every command and reader keeps this, for every PTY (the lemmas named    *)
(* ...Keeps).  QuotaCountsProcesses needs, too, that only a reservation or *)
(* the restart of a tab without a place adds to the tabs whose process     *)
(* takes one (Holders).                                                    *)
(*                                                                         *)
(* Last, the output.  ScreensHaveNoHoles needs the invariant of everything *)
(* a screen is made of (StreamInvariant): the journal holds consecutive    *)
(* sequences, so each batch on its way does; the snapshot in a store, in a *)
(* request and in a frame shows what its watermark says; and whoever       *)
(* believes in a gap (the client's tab, a frame under way) is right, for a *)
(* store keeps its gap.  StoresAreComplete needs of the journal that it    *)
(* starts where the checkpoint ends, as long as there is no gap (Complete).*)
(* JournalIsBounded needs that a sum over a part of the journal is no      *)
(* larger (PartsFit): induction over its entries, written as the least     *)
(* counterexample.                                                         *)
(***************************************************************************)
EXTENDS TerminalManager, TerminalStream, FiniteSetTheorems, WellFoundedInduction, TLAPS

-----------------------------------------------------------------------------
(* The registry                                                              *)

Active == {id \in DOMAIN tabs : tabs[id].status \in {"creating", "running"}}

\* The inductive invariant: a quota is about finitely many tabs.
RegistryInvariant ==
    /\ TypeOK
    /\ IsFiniteSet(DOMAIN tabs)
    /\ GenerationsAreAllocated
    /\ RunningWithinQuota

-----------------------------------------------------------------------------
(* The ways a record changes                                                 *)

\* A tab that only changes its status: the ids, keys and generations are those
\* of before, and the status is the new one in one record.
LEMMA BecomeChanges ==
    ASSUME TypeOK, NEW id \in DOMAIN tabs, NEW s \in TerminalStatus, Become(id, s)
    PROVE  /\ DOMAIN tabs' = DOMAIN tabs
           /\ tabs' \in [DOMAIN tabs -> Record]
           /\ \A x \in DOMAIN tabs : /\ tabs'[x].key = tabs[x].key
                                     /\ tabs'[x].generation = tabs[x].generation
                                     /\ x # id => tabs'[x] = tabs[x]
           /\ tabs'[id].status = s
           /\ nextGeneration' = nextGeneration /\ issued' = issued
<1>1. tabs[id] \in Record
  BY DEF TypeOK
<1>2. [tabs[id] EXCEPT !.status = s] \in Record
  BY <1>1 DEF Record
<1> QED
  BY <1>1, <1>2 DEF TypeOK, Become, Record

\* Fewer active tabs are within the quota, too.
LEMMA FewerActiveTabs ==
    ASSUME IsFiniteSet(DOMAIN tabs), RunningWithinQuota, Active' \subseteq Active
    PROVE  RunningWithinQuota'
<1>1. IsFiniteSet(Active)
  BY FS_Subset DEF Active
<1>2. Cardinality(Active') <= Cardinality(Active)
  BY <1>1, FS_Subset
<1>3. Cardinality(Active') \in Nat /\ Cardinality(Active) \in Nat
  BY <1>1, FS_Subset, FS_CardinalityType
<1> QED
  BY <1>2, <1>3, QuotaAssumption DEF RunningWithinQuota, Active

\* Whatever sets the status of a known tab, but for making it active, keeps
\* the invariant.
LEMMA BecomeKeepsInvariant ==
    ASSUME RegistryInvariant, NEW id \in DOMAIN tabs, NEW s \in TerminalStatus, Become(id, s),
           s \in {"creating", "running"} => id \in Active
    PROVE  RegistryInvariant'
<1> USE DEF RegistryInvariant
<1>1. TypeOK'
  BY BecomeChanges DEF TypeOK
<1>2. IsFiniteSet(DOMAIN tabs')
  BY BecomeChanges
<1>3. GenerationsAreAllocated'
  BY BecomeChanges DEF GenerationsAreAllocated
<1>4. Active' \subseteq Active
  BY BecomeChanges DEF Active
<1>5. RunningWithinQuota'
  BY <1>4, FewerActiveTabs
<1> QED
  BY <1>1, <1>2, <1>3, <1>5

\* A reservation or a restart, which takes the next generation of the tab's
\* partition.  What it must see to is the quota: either the tab was active
\* before, or fewer than the quota were.
LEMMA FreshGenerationKeepsInvariant ==
    ASSUME RegistryInvariant, NEW k \in Partition, NEW id \in TerminalId, NEW g \in Generation,
           AllocateGeneration(k, g),
           DOMAIN tabs' = DOMAIN tabs \cup {id},
           tabs' \in [DOMAIN tabs' -> Record],
           tabs'[id] = [key |-> k, generation |-> g, status |-> "creating"],
           \A x \in DOMAIN tabs : x # id => tabs'[x] = tabs[x],
           issued' = issued \cup {id},
           id \in Active \/ Cardinality(Active) < GlobalQuota
    PROVE  RegistryInvariant'
<1> USE DEF RegistryInvariant
<1>1. TypeOK'
  BY DEF TypeOK, AllocateGeneration, Generation
<1>2. IsFiniteSet(DOMAIN tabs')
  BY FS_AddElement
<1>3. GenerationsAreAllocated'
  <2> SUFFICES ASSUME NEW x \in DOMAIN tabs', NEW y \in DOMAIN tabs'
               PROVE  /\ tabs'[x].generation <= nextGeneration'[tabs'[x].key]
                      /\ tabs'[x].key = tabs'[y].key /\ tabs'[x].generation = tabs'[y].generation
                             => x = y
    BY DEF GenerationsAreAllocated
  <2>1. /\ nextGeneration[k] \in Nat /\ g = nextGeneration[k] + 1
        /\ nextGeneration' = [nextGeneration EXCEPT ![k] = g]
    BY DEF TypeOK, AllocateGeneration
  <2>2. ASSUME NEW z \in DOMAIN tabs, z # id
        PROVE  /\ tabs'[z] = tabs[z] /\ tabs[z].key \in Partition /\ tabs[z].generation \in Nat
               /\ tabs[z].generation <= nextGeneration[tabs[z].key]
               /\ nextGeneration[tabs[z].key] \in Nat
    BY <2>2 DEF TypeOK, GenerationsAreAllocated, Record, Generation
  <2>3. tabs'[x].generation <= nextGeneration'[tabs'[x].key]
    BY <2>1, <2>2 DEF TypeOK
  <2>4. tabs'[x].key = tabs'[y].key /\ tabs'[x].generation = tabs'[y].generation => x = y
    BY <2>1, <2>2 DEF GenerationsAreAllocated
  <2> QED
    BY <2>3, <2>4
<1>4. RunningWithinQuota'
  <2>1. Active' \subseteq Active \cup {id}
    BY DEF Active
  <2>2. IsFiniteSet(Active) /\ Cardinality(Active) \in Nat
    BY FS_Subset, FS_CardinalityType DEF Active
  <2>3. IsFiniteSet(Active \cup {id})
    BY <2>2, FS_AddElement
  <2>4. Cardinality(Active') \in Nat /\ Cardinality(Active') <= Cardinality(Active \cup {id})
    BY <2>1, <2>3, FS_Subset, FS_CardinalityType
  <2>5. Cardinality(Active \cup {id}) <= GlobalQuota
    <3>1. CASE id \in Active
      <4>1. Active \cup {id} = Active
        BY <3>1
      <4> QED
        BY <4>1 DEF RunningWithinQuota, Active
    <3>2. CASE id \notin Active
      <4>1. Cardinality(Active \cup {id}) = Cardinality(Active) + 1
        BY <2>2, <3>2, FS_AddElement
      <4> QED
        BY <2>2, <3>2, <4>1, QuotaAssumption
    <3> QED
      BY <3>1, <3>2
  <2> QED
    BY <2>2, <2>3, <2>4, <2>5, FS_CardinalityType, QuotaAssumption DEF RunningWithinQuota, Active
<1> QED
  BY <1>1, <1>2, <1>3, <1>4

\* A quota of live reservations that is not full leaves room for an active tab.
LEMMA LiveBoundsActive ==
    ASSUME IsFiniteSet(DOMAIN tabs), LiveReservations < GlobalQuota
    PROVE  Cardinality(Active) < GlobalQuota
<1> DEFINE Live == {id \in DOMAIN tabs : tabs[id].status \in {"creating", "running", "closing"}}
<1>1. IsFiniteSet(Live) /\ Active \subseteq Live
  BY FS_Subset DEF Active
<1>2. /\ Cardinality(Active) \in Nat /\ Cardinality(Live) \in Nat
      /\ Cardinality(Active) <= Cardinality(Live)
  BY <1>1, FS_Subset, FS_CardinalityType
<1> QED
  BY <1>2, QuotaAssumption DEF LiveReservations

-----------------------------------------------------------------------------
(* The invariant is inductive                                                *)

LEMMA InitInvariant == Init => RegistryInvariant
<1> SUFFICES ASSUME Init PROVE RegistryInvariant
  OBVIOUS
<1>1. DOMAIN tabs = {}
  BY DEF Init
<1>2. TypeOK
  BY <1>1 DEF Init, TypeOK
<1>3. {id \in DOMAIN tabs : tabs[id].status \in {"creating", "running"}} = {}
  BY <1>1
<1> QED
  BY <1>1, <1>2, <1>3, FS_EmptySet, QuotaAssumption
  DEF RegistryInvariant, GenerationsAreAllocated, RunningWithinQuota

LEMMA NextInvariant == RegistryInvariant /\ [Next]_registryVars => RegistryInvariant'
<1> SUFFICES ASSUME RegistryInvariant, [Next]_registryVars PROVE RegistryInvariant'
  OBVIOUS
<1> USE DEF Known, Has
<1>1. ASSUME NEW k \in Partition, NEW id \in TerminalId, NEW g \in Generation, Reserve(k, id, g)
      PROVE  RegistryInvariant'
  <2>1. Cardinality(Active) < GlobalQuota
    BY <1>1, LiveBoundsActive DEF Reserve, QuotaLeft, RegistryInvariant
  <2>2. /\ AllocateGeneration(k, g)
        /\ DOMAIN tabs' = DOMAIN tabs \cup {id}
        /\ tabs'[id] = [key |-> k, generation |-> g, status |-> "creating"]
        /\ \A x \in DOMAIN tabs : x # id => tabs'[x] = tabs[x]
        /\ issued' = issued \cup {id}
    BY <1>1 DEF Reserve
  <2>3. tabs' \in [DOMAIN tabs' -> Record]
    BY <1>1, <2>2 DEF Reserve, Record, TerminalStatus, RegistryInvariant, TypeOK
  <2> QED
    BY <2>1, <2>2, <2>3, FreshGenerationKeepsInvariant
<1>2. ASSUME NEW id \in TerminalId, NEW g \in Generation,
             \/ CommitRunning(id, g) \/ MarkFailed(id, g) \/ MarkExited(id, g) \/ BeginClose(id, g)
      PROVE  RegistryInvariant'
  BY <1>2, BecomeKeepsInvariant
  DEF CommitRunning, MarkFailed, MarkExited, BeginClose, Active, TerminalStatus
<1>3. ASSUME NEW id \in TerminalId, NEW g \in Generation, FinishClose(id, g)
      PROVE  RegistryInvariant'
  <2> USE <1>3 DEF FinishClose, RegistryInvariant
  <2>1. /\ DOMAIN tabs' = DOMAIN tabs \ {id} /\ issued' = issued
        /\ \A x \in DOMAIN tabs' : tabs'[x] = tabs[x]
        /\ nextGeneration' = nextGeneration
    OBVIOUS
  <2>2. TypeOK'
    BY <2>1 DEF TypeOK
  <2>3. IsFiniteSet(DOMAIN tabs')
    BY <2>1, FS_Subset
  <2>4. GenerationsAreAllocated'
    BY <2>1 DEF GenerationsAreAllocated
  <2>5. Active' \subseteq Active
    BY <2>1 DEF Active
  <2>6. RunningWithinQuota'
    BY <2>5, FewerActiveTabs
  <2> QED
    BY <2>2, <2>3, <2>4, <2>6
<1>4. ASSUME NEW id \in TerminalId, NEW g \in Generation, NEW new \in Generation,
             Restart(id, g, new)
      PROVE  RegistryInvariant'
  <2>1. id \in DOMAIN tabs /\ tabs[id] \in Record /\ tabs[id].key \in Partition
    BY <1>4 DEF Restart, RegistryInvariant, TypeOK, Record
  <2>2. id \in Active \/ Cardinality(Active) < GlobalQuota
    BY <1>4, LiveBoundsActive DEF Restart, Active, RegistryInvariant
  <2>3. /\ AllocateGeneration(tabs[id].key, new)
        /\ DOMAIN tabs' = DOMAIN tabs \cup {id}
        /\ tabs'[id] = [key |-> tabs[id].key, generation |-> new, status |-> "creating"]
        /\ \A x \in DOMAIN tabs : x # id => tabs'[x] = tabs[x]
        /\ issued' = issued \cup {id}
    BY <1>4, <2>1 DEF Restart, Record, RegistryInvariant, TypeOK
  <2>4. tabs' \in [DOMAIN tabs' -> Record]
    BY <1>4, <2>1, <2>3 DEF Restart, Record, TerminalStatus, RegistryInvariant, TypeOK
  <2> QED
    BY <2>1, <2>2, <2>3, <2>4, FreshGenerationKeepsInvariant
<1>5. CASE UNCHANGED registryVars
  BY <1>5 DEF registryVars, RegistryInvariant, TypeOK, GenerationsAreAllocated, RunningWithinQuota
<1> QED
  BY <1>1, <1>2, <1>3, <1>4, <1>5 DEF Next

-----------------------------------------------------------------------------
(* What follows                                                              *)

\* The registry never leaves its types, never shows one generation for two tabs
\* of a partition, and never runs more tabs than its quota, whatever sequence of
\* its methods is called.
THEOREM RegistryInvariantHolds == Spec => []RegistryInvariant
BY InitInvariant, NextInvariant, PTL DEF Spec

\* Every record the registry keeps is one, for an id that it handed out.
THEOREM RegistryTypes == Spec => []TypeOK
<1>1. RegistryInvariant => TypeOK
  BY DEF RegistryInvariant
<1> QED
  BY <1>1, RegistryInvariantHolds, PTL

\* Generations come from their partition's counter (allocate_generation), so two
\* tabs of a partition never share one.
THEOREM GenerationsNameTabs == Spec => []GenerationsAreAllocated
<1>1. RegistryInvariant => GenerationsAreAllocated
  BY DEF RegistryInvariant
<1> QED
  BY <1>1, RegistryInvariantHolds, PTL

\* The check in reserve and restart is enough to bound the active tabs, though a
\* close may take the count it looks at over the quota.
THEOREM QuotaIsKept == Spec => []RunningWithinQuota
<1>1. RegistryInvariant => RunningWithinQuota
  BY DEF RegistryInvariant
<1> QED
  BY <1>1, RegistryInvariantHolds, PTL

LEMMA StaleStep ==
    RegistryInvariant /\ [Next]_registryVars =>
      [/\ \A id \in DOMAIN tabs \cap DOMAIN tabs' :
              \/ tabs'[id].generation > tabs[id].generation
              \/ /\ tabs'[id].generation = tabs[id].generation
                 /\ tabs'[id].status = "creating" => tabs[id].status = "creating"
       /\ issued \cap (DOMAIN tabs' \ DOMAIN tabs) = {}]_registryVars
<1> SUFFICES ASSUME RegistryInvariant, Next
             PROVE  /\ \A x \in DOMAIN tabs \cap DOMAIN tabs' :
                          \/ tabs'[x].generation > tabs[x].generation
                          \/ /\ tabs'[x].generation = tabs[x].generation
                             /\ tabs'[x].status = "creating" => tabs[x].status = "creating"
                    /\ issued \cap (DOMAIN tabs' \ DOMAIN tabs) = {}
  OBVIOUS
<1> USE DEF Known, Has
<1>1. ASSUME NEW k \in Partition, NEW id \in TerminalId, NEW g \in Generation, Reserve(k, id, g)
      PROVE  DOMAIN tabs' = DOMAIN tabs \cup {id} /\ id \notin issued /\ id \notin DOMAIN tabs
             /\ \A x \in DOMAIN tabs : tabs'[x] = tabs[x]
  BY <1>1 DEF Reserve, RegistryInvariant, TypeOK
<1>2. ASSUME NEW id \in TerminalId, NEW g \in Generation,
             \/ CommitRunning(id, g) \/ MarkFailed(id, g) \/ MarkExited(id, g) \/ BeginClose(id, g)
      PROVE  /\ DOMAIN tabs' = DOMAIN tabs
             /\ \A x \in DOMAIN tabs : tabs'[x].generation = tabs[x].generation
                                       /\ (tabs'[x].status = "creating"
                                              => tabs[x].status = "creating")
  BY <1>2, BecomeChanges
  DEF CommitRunning, MarkFailed, MarkExited, BeginClose, TerminalStatus, RegistryInvariant
<1>3. ASSUME NEW id \in TerminalId, NEW g \in Generation, FinishClose(id, g)
      PROVE  DOMAIN tabs' = DOMAIN tabs \ {id} /\ \A x \in DOMAIN tabs' : tabs'[x] = tabs[x]
  BY <1>3 DEF FinishClose
<1>4. ASSUME NEW id \in TerminalId, NEW g \in Generation, NEW new \in Generation,
             Restart(id, g, new)
      PROVE  DOMAIN tabs' = DOMAIN tabs
             /\ \A x \in DOMAIN tabs : tabs'[x] = tabs[x]
                                       \/ tabs'[x].generation > tabs[x].generation
  <2>1. id \in DOMAIN tabs /\ tabs[id] \in Record
    BY <1>4 DEF Restart, RegistryInvariant, TypeOK
  <2>2. /\ tabs[id].generation \in Nat
        /\ tabs[id].key \in Partition
        /\ tabs[id].generation <= nextGeneration[tabs[id].key]
    BY <2>1 DEF Record, Generation, RegistryInvariant, GenerationsAreAllocated
  <2>3. nextGeneration[tabs[id].key] \in Nat /\ new = nextGeneration[tabs[id].key] + 1
    BY <1>4, <2>2 DEF Restart, AllocateGeneration, RegistryInvariant, TypeOK
  <2>4. /\ DOMAIN tabs' = DOMAIN tabs
        /\ \A x \in DOMAIN tabs : x # id => tabs'[x] = tabs[x]
        /\ tabs'[id].generation = new
    BY <1>4, <2>1 DEF Restart, RegistryInvariant, TypeOK, Record
  <2> QED
    BY <2>2, <2>3, <2>4
<1>5. CASE \E k \in Partition, i \in TerminalId, g \in Generation : Reserve(k, i, g)
  BY <1>1, <1>5
<1>6. CASE \E i \in TerminalId, g \in Generation :
              CommitRunning(i, g) \/ MarkFailed(i, g) \/ MarkExited(i, g) \/ BeginClose(i, g)
  BY <1>2, <1>6
<1>7. CASE \E i \in TerminalId, g \in Generation : FinishClose(i, g)
  BY <1>3, <1>7
<1>8. CASE \E i \in TerminalId, g \in Generation, new \in Generation : Restart(i, g, new)
  BY <1>4, <1>8
<1> QED
  BY <1>5, <1>6, <1>7, <1>8 DEF Next

\* A page that kept an old generation is refused for ever: generations of a tab
\* only grow and a tab that went does not come back.
THEOREM StaleHandles == Spec => StaleHandlesStayStale
BY RegistryInvariantHolds, StaleStep, PTL DEF Spec, StaleHandlesStayStale


-----------------------------------------------------------------------------
(* The manager and the registry                                              *)

\* A known terminal has an id and a generation of the registry's.
LEMMA KnownIsTyped ==
    ASSUME TypeOK, NEW id, NEW g, Known(id, g)
    PROVE  id \in TerminalId /\ g \in Generation
BY DEF TypeOK, Known, Record

\* Every step of the manager is a step of the registry or leaves it alone.
LEMMA RegistryStep == TypeOK /\ [ManagerNext]_managerVars => [Next]_registryVars
<1> SUFFICES ASSUME TypeOK, [ManagerNext]_managerVars PROVE [Next]_registryVars
  OBVIOUS
<1>1. ASSUME NEW c \in Caller, CallBegins(c) PROVE [Next]_registryVars
  <2>1. CASE CreateBegin(c)
    BY <2>1 DEF CreateBegin, Next
  <2>2. CASE RestartBegin(c)
    BY <2>2 DEF RestartBegin, Restart, Has, Known, Next, TypeOK, Record
  <2>3. CASE CloseBegin(c)
    BY <2>3 DEF CloseBegin, BeginClose, Has, Known, Next, TypeOK, Record
  <2>4. CASE KillAllBegin(c)
    BY <2>4 DEF KillAllBegin
  <2> QED
    BY <1>1, <2>1, <2>2, <2>3, <2>4 DEF CallBegins
<1>2. ASSUME NEW c \in Caller, CallGoesOn(c) PROVE [Next]_registryVars
  <2>1. CASE SpawnFailed(c) \/ CommitRefused(c)
    BY <2>1, KnownIsTyped DEF SpawnFailed, CommitRefused, Next
  <2>2. CASE Commit(c)
    BY <2>2, KnownIsTyped DEF Commit, CommitRunning, Has, Next
  <2>3. CASE CloseFinish(c) \/ FinishDrained(c)
    BY <2>3, KnownIsTyped DEF CloseFinish, FinishDrained, Next
  <2>4. CASE \/ Spawn(c) \/ Detach(c) \/ AttachLive(c) \/ AttachOutput(c)
             \/ ReplaceGeneration(c) \/ KillReplaced(c) \/ Terminate(c) \/ KillClosed(c)
             \/ KillDrained(c) \/ KillAllDone(c)
    BY <2>4 DEF Spawn, Detach, AttachLive, AttachOutput, ReplaceGeneration, KillReplaced,
                Terminate, KillClosed, KillDrained, KillAllDone
  <2> QED
    BY <1>2, <2>1, <2>2, <2>3, <2>4 DEF CallGoesOn
<1>3. ASSUME NEW p \in Pty, ReaderGoesOn(p) PROVE [Next]_registryVars
  <2>1. CASE ReaderMark(p)
    BY <2>1, KnownIsTyped DEF ReaderMark, Has, Next
  <2>2. CASE ReaderAppend(p) \/ ReaderTake(p) \/ ReaderWait(p) \/ ReaderRemove(p)
    BY <2>2 DEF ReaderAppend, ReaderTake, ReaderWait, ReaderRemove
  <2> QED
    BY <1>3, <2>1, <2>2 DEF ReaderGoesOn
<1>4. ASSUME NEW p \in Pty, PtyWrite(p) \/ PtyEnd(p) PROVE [Next]_registryVars
  BY <1>4 DEF PtyWrite, PtyEnd
<1>5. CASE UNCHANGED managerVars
  BY <1>5 DEF managerVars
<1> QED
  BY <1>1, <1>2, <1>3, <1>4, <1>5 DEF ManagerNext

\* The invariant of the registry holds under the manager.
THEOREM ManagerKeepsRegistry == ManagerSpec => []RegistryInvariant
<1>1. ManagerInit => RegistryInvariant
  BY InitInvariant DEF ManagerInit
<1>2. RegistryInvariant /\ [ManagerNext]_managerVars => RegistryInvariant'
  BY RegistryStep, NextInvariant DEF RegistryInvariant
<1> QED
  BY <1>1, <1>2, PTL DEF ManagerSpec

\* The detailed specification implements the registry's: commands that overlap
\* in the host are, for the registry, one method after another.
THEOREM ManagerImplementsRegistry == ManagerSpec => Spec
<1>1. ManagerInit => Init
  BY DEF ManagerInit
<1>2. RegistryInvariant /\ [ManagerNext]_managerVars => [Next]_registryVars
  BY RegistryStep DEF RegistryInvariant
<1> QED
  BY <1>1, <1>2, ManagerKeepsRegistry, PTL DEF ManagerSpec, Spec

\* No two tabs of a partition share a generation, under any overlap of commands.
THEOREM ManagerGenerations == ManagerSpec => []GenerationsAreAllocated
BY ManagerImplementsRegistry, GenerationsNameTabs, PTL

\* No more tabs are being created or running than the quota allows, under any
\* overlap of commands.
THEOREM ManagerQuota == ManagerSpec => []RunningWithinQuota
BY ManagerImplementsRegistry, QuotaIsKept, PTL

\* A handle that a page kept from an earlier generation stays refused, under any
\* overlap of commands.
THEOREM ManagerStaleHandles == ManagerSpec => StaleHandlesStayStale
BY ManagerImplementsRegistry, StaleHandles, PTL

-----------------------------------------------------------------------------
(* The types of the manager                                                  *)

\* The commands a caller can be at, with the steps each has.
CreateCalls ==
    [op : {"create"}, at : {"spawn", "failed", "commit", "refused", "detach", "attach", "output"},
     id : TerminalId, generation : Generation]
RestartCalls ==
    [op : {"restart"},
     at : {"replace", "kill", "spawn", "failed", "commit", "detach", "attach", "output"},
     id : TerminalId, old : Generation, generation : Generation]
CloseCalls ==
    [op : {"close"}, at : {"terminate", "kill", "finish"},
     id : TerminalId, generation : Generation]
KillAllCalls ==
    [op : {"kill_all"}, at : {"next", "finish"}, id : TerminalId \cup {"none"},
     generation : Generation \cup {0},
     drained : SUBSET (TerminalId \X Generation \X BOOLEAN)]

Calls == {Idle} \cup CreateCalls \cup RestartCalls \cup CloseCalls \cup KillAllCalls

\* A tab that a command is to attach has an id that was handed out.
CallsOK ==
    /\ calls \in [Caller -> Calls]
    /\ \A c \in Caller : calls[c] \in CreateCalls \cup RestartCalls => calls[c].id \in issued

LiveOK ==
    /\ DOMAIN live \subseteq issued
    /\ \A id \in DOMAIN live : live[id] \in [generation : Generation, child : BOOLEAN]

OutputsOK ==
    /\ DOMAIN outputs \subseteq issued
    /\ \A id \in DOMAIN outputs : outputs[id] \in Seq(Generation)

PtysOK ==
    /\ pty \in [Pty -> {"none", "running", "mute", "held", "dead"}]
    /\ reader \in [Pty -> {"off", "read", "wait", "remove", "mark", "done"}]
    /\ unread \in [Pty -> Nat] /\ wrote \in Nat
    /\ \A p \in Pty : unread[p] <= wrote
    /\ strays \subseteq Pty

ManagerInvariant == RegistryInvariant /\ CallsOK /\ LiveOK /\ OutputsOK /\ PtysOK

\* What a step that goes on with a command makes of it.
LEMMA GotoIsTyped ==
    ASSUME calls \in [Caller -> Calls], NEW c \in Caller, NEW at, Goto(c, at),
           \/ calls[c] \in CreateCalls
              /\ at \in {"spawn", "failed", "commit", "refused", "detach", "attach", "output"}
           \/ calls[c] \in RestartCalls
              /\ at \in {"replace", "kill", "spawn", "failed", "commit", "detach", "attach", "output"}
           \/ calls[c] \in CloseCalls /\ at \in {"terminate", "kill", "finish"}
           \/ calls[c] \in KillAllCalls /\ at \in {"next", "finish"}
    PROVE  /\ calls' \in [Caller -> Calls]
           /\ calls'[c].id = calls[c].id
           /\ \A d \in Caller : d # c => calls'[d] = calls[d]
           /\ calls'[c] \in CreateCalls \cup RestartCalls
                  => calls[c] \in CreateCalls \cup RestartCalls
<1>1. calls' = [calls EXCEPT ![c] = [calls[c] EXCEPT !.at = at]]
  BY DEF Goto
<1>2. CASE calls[c] \in CreateCalls
  <2>1. [calls[c] EXCEPT !.at = at] \in CreateCalls
    BY <1>2 DEF CreateCalls, RestartCalls, CloseCalls, KillAllCalls
  <2> QED
    BY <1>1, <1>2, <2>1 DEF Calls, CreateCalls
<1>3. CASE calls[c] \in RestartCalls
  <2>1. [calls[c] EXCEPT !.at = at] \in RestartCalls
    BY <1>3 DEF CreateCalls, RestartCalls, CloseCalls, KillAllCalls
  <2> QED
    BY <1>1, <1>3, <2>1 DEF Calls, RestartCalls
<1>4. CASE calls[c] \in CloseCalls
  <2>1. [calls[c] EXCEPT !.at = at] \in CloseCalls
    BY <1>4 DEF CreateCalls, RestartCalls, CloseCalls, KillAllCalls
  <2> QED
    BY <1>1, <1>4, <2>1 DEF Calls, CloseCalls, CreateCalls, RestartCalls
<1>5. CASE calls[c] \in KillAllCalls
  <2>1. [calls[c] EXCEPT !.at = at] \in KillAllCalls
    BY <1>5 DEF CreateCalls, RestartCalls, CloseCalls, KillAllCalls
  <2> QED
    BY <1>1, <1>5, <2>1 DEF Calls, KillAllCalls, CreateCalls, RestartCalls
<1> QED
  BY <1>2, <1>3, <1>4, <1>5

LEMMA IdleIsNoCall ==
    /\ Idle \in Calls
    /\ Idle \notin CreateCalls \cup RestartCalls
BY DEF Calls, Idle, CreateCalls, RestartCalls

\* A call is of the kind that its operation names.
LEMMA OpNamesCall ==
    ASSUME NEW call \in Calls
    PROVE  /\ call.op = "restart" => call \in RestartCalls
           /\ call.op = "close" => call \in CloseCalls
           /\ call.op = "kill_all" => call \in KillAllCalls
BY DEF Calls, Idle, CreateCalls, RestartCalls, CloseCalls, KillAllCalls

\* Ids that were handed out stay so.
LEMMA IssuedGrows == [Next]_registryVars => issued \subseteq issued'
BY DEF Next, registryVars, Reserve, CommitRunning, MarkFailed, MarkExited, BeginClose,
       FinishClose, Restart, Become

LEMMA CallsStep ==
    ASSUME TypeOK, CallsOK, issued \subseteq issued', LiveOK, [ManagerNext]_managerVars
    PROVE  CallsOK'
<1> USE DEF CallsOK
<1>1. ASSUME NEW c \in Caller, Finish(c) PROVE CallsOK'
  BY <1>1, IdleIsNoCall DEF Finish
<1>2. ASSUME NEW c \in Caller, NEW op, NEW call \in Calls, Begin(c, op, call),
             call \in CreateCalls \cup RestartCalls => call.id \in issued'
      PROVE  CallsOK'
  BY <1>2 DEF Begin
<1>3. ASSUME NEW c \in Caller, NEW at, Goto(c, at),
             \/ calls[c] \in CreateCalls
                /\ at \in {"spawn", "failed", "commit", "refused", "detach", "attach", "output"}
             \/ calls[c] \in RestartCalls
                /\ at \in {"replace", "kill", "spawn", "failed", "commit", "detach", "attach", "output"}
             \/ calls[c] \in CloseCalls /\ at \in {"terminate", "kill", "finish"}
             \/ calls[c] \in KillAllCalls /\ at \in {"next", "finish"}
      PROVE  CallsOK'
  BY <1>3, GotoIsTyped
<1>4. CASE UNCHANGED calls
  BY <1>4
<1>5. ASSUME NEW c \in Caller, CallBegins(c) PROVE CallsOK'
  <2>1. CASE CreateBegin(c)
    <3>1. PICK k \in Partition, id \in TerminalId, g \in Generation :
              Reserve(k, id, g) /\ Begin(c, "create", CreateCall(id, g))
      BY <2>1 DEF CreateBegin
    <3>2. CreateCall(id, g) \in CreateCalls /\ CreateCall(id, g).id = id
      BY DEF CreateCall, CreateCalls
    <3> QED
      BY <1>2, <3>1, <3>2 DEF Calls, Reserve
  <2>2. CASE RestartBegin(c)
    <3>1. PICK id \in DOMAIN tabs, new \in Generation :
              Begin(c, "restart", RestartCall(id, tabs[id].generation, new))
      BY <2>2 DEF RestartBegin
    <3>2. id \in issued /\ id \in TerminalId /\ tabs[id].generation \in Generation
      BY DEF TypeOK, Record
    <3>3. /\ RestartCall(id, tabs[id].generation, new) \in RestartCalls
          /\ RestartCall(id, tabs[id].generation, new).id = id
      BY <3>2 DEF RestartCall, RestartCalls
    <3> QED
      BY <1>2, <3>1, <3>2, <3>3 DEF Calls
  <2>3. CASE CloseBegin(c)
    <3>1. PICK id \in DOMAIN tabs : Begin(c, "close", CloseCall(id, tabs[id].generation))
      BY <2>3 DEF CloseBegin
    <3>2. CloseCall(id, tabs[id].generation) \in CloseCalls
      BY DEF CloseCall, CloseCalls, TypeOK, Record
    <3>3. CloseCall(id, tabs[id].generation) \notin CreateCalls \cup RestartCalls
      BY DEF CloseCall, CreateCalls, RestartCalls
    <3> QED
      BY <1>2, <3>1, <3>2, <3>3 DEF Calls
  <2>4. CASE KillAllBegin(c)
    <3> DEFINE drained == {<<id, live[id].generation, live[id].child>> : id \in DOMAIN live}
    <3>1. drained \subseteq TerminalId \X Generation \X BOOLEAN
      BY DEF LiveOK, TypeOK
    <3>2. KillAllCall(drained) \in KillAllCalls
      BY <3>1 DEF KillAllCall, KillAllCalls
    <3>3. KillAllCall(drained) \notin CreateCalls \cup RestartCalls
      BY DEF KillAllCall, CreateCalls, RestartCalls
    <3> QED
      BY <1>2, <2>4, <3>2, <3>3 DEF KillAllBegin, Calls
  <2> QED
    BY <1>5, <2>1, <2>2, <2>3, <2>4 DEF CallBegins
<1>6. ASSUME NEW c \in Caller, CallGoesOn(c) PROVE CallsOK'
  <2>0. calls[c] \in Calls
    OBVIOUS
  <2>1. CASE Spawn(c) \/ Commit(c)
    BY <1>3, <2>0, <2>1
    DEF Spawn, Commit, At, Calls, Idle, CreateCalls, RestartCalls, CloseCalls, KillAllCalls
  <2>2. CASE CommitRefused(c) \/ AttachLive(c)
    BY <1>3, <2>0, <2>2
    DEF CommitRefused, AttachLive, At, Calls, Idle, CreateCalls, RestartCalls, CloseCalls,
        KillAllCalls
  <2>3. CASE ReplaceGeneration(c) \/ KillReplaced(c)
    <3>1. calls[c] \in RestartCalls
      BY <2>0, <2>3, OpNamesCall DEF ReplaceGeneration, KillReplaced, Doing
    <3>2. \E at \in {"spawn", "kill"} : Goto(c, at)
      BY <2>3 DEF ReplaceGeneration, KillReplaced
    <3> QED
      BY <1>3, <3>1, <3>2
  <2>4. CASE Terminate(c) \/ KillClosed(c)
    <3>1. calls[c] \in CloseCalls
      BY <2>0, <2>4, OpNamesCall DEF Terminate, KillClosed, Doing
    <3>2. \E at \in {"kill", "finish"} : Goto(c, at)
      BY <2>4 DEF Terminate, KillClosed
    <3> QED
      BY <1>3, <3>1, <3>2
  <2>5. CASE SpawnFailed(c) \/ Detach(c) \/ AttachOutput(c) \/ CloseFinish(c) \/ KillAllDone(c)
    BY <1>1, <2>5 DEF SpawnFailed, Detach, AttachOutput, CloseFinish, KillAllDone
  <2>6. CASE FinishDrained(c)
    BY <1>1, <1>3, <2>0, <2>6
    DEF FinishDrained, Doing, Calls, Idle, CreateCalls, RestartCalls, CloseCalls, KillAllCalls
  <2>7. CASE KillDrained(c)
    <3>1. calls[c] \in KillAllCalls
      BY <2>0, <2>7, OpNamesCall DEF KillDrained, Doing
    <3>2. PICK lt \in calls[c].drained :
              calls' = [calls EXCEPT ![c].at = "finish", ![c].drained = @ \ {lt},
                                     ![c].id = lt[1], ![c].generation = lt[2]]
      BY <2>7 DEF KillDrained
    <3>3. lt \in TerminalId \X Generation \X BOOLEAN
      BY <3>1, <3>2 DEF KillAllCalls
    <3> DEFINE call == [op |-> "kill_all", at |-> "finish", id |-> lt[1], generation |-> lt[2],
                        drained |-> calls[c].drained \ {lt}]
    <3>4. calls' = [calls EXCEPT ![c] = call]
      BY <3>1, <3>2 DEF KillAllCalls
    <3>5. call \in KillAllCalls
      BY <3>1, <3>3 DEF KillAllCalls
    <3>6. call \notin CreateCalls \cup RestartCalls
      BY DEF CreateCalls, RestartCalls
    <3> HIDE DEF call
    <3> QED
      BY <3>4, <3>5, <3>6 DEF Calls
  <2> QED
    BY <1>6, <2>1, <2>2, <2>3, <2>4, <2>5, <2>6, <2>7 DEF CallGoesOn
<1>7. ASSUME NEW p \in Pty, ReaderGoesOn(p) \/ PtyWrite(p) \/ PtyEnd(p) PROVE CallsOK'
  BY <1>4, <1>7 DEF ReaderGoesOn, ReaderAppend, ReaderTake, ReaderWait, ReaderRemove, ReaderMark,
                    PtyWrite, PtyEnd
<1>8. CASE UNCHANGED managerVars
  BY <1>4, <1>8 DEF managerVars
<1> QED
  BY <1>5, <1>6, <1>7, <1>8 DEF ManagerNext

-----------------------------------------------------------------------------
(* One lemma for each part of the state                                      *)

\* A command that attaches has the generation and the id that it reserved.
LEMMA AttachingIsTyped ==
    ASSUME TypeOK, CallsOK, NEW c \in Caller, At(c, "attach") \/ At(c, "output")
    PROVE  calls[c].id \in issued /\ calls[c].generation \in Generation
BY DEF CallsOK, At, Calls, Idle, CreateCalls, RestartCalls, CloseCalls, KillAllCalls

\* A command that replaces a generation has an id that was handed out.
LEMMA ReplacingIsTyped ==
    ASSUME CallsOK, NEW c \in Caller, Doing(c, "restart", "replace")
    PROVE  calls[c].id \in issued
BY DEF CallsOK, Doing, Calls, Idle, CreateCalls, RestartCalls, CloseCalls, KillAllCalls

LEMMA LiveStep ==
    ASSUME TypeOK, CallsOK, LiveOK, issued \subseteq issued', [ManagerNext]_managerVars
    PROVE  LiveOK'
<1> USE DEF LiveOK
<1>1. CASE UNCHANGED live
  BY <1>1
<1>2. ASSUME NEW id, live' = Without(live, id) PROVE LiveOK'
  BY <1>2 DEF Without
<1>3. ASSUME NEW c \in Caller, CallBegins(c) PROVE LiveOK'
  <2>1. CASE CreateBegin(c) \/ RestartBegin(c) \/ CloseBegin(c)
    BY <1>1, <2>1 DEF CreateBegin, RestartBegin, CloseBegin
  <2>2. CASE KillAllBegin(c)
    BY <2>2 DEF KillAllBegin
  <2> QED
    BY <1>3, <2>1, <2>2 DEF CallBegins
<1>4. ASSUME NEW c \in Caller, CallGoesOn(c) PROVE LiveOK'
  <2>1. CASE AttachLive(c)
    BY <2>1, AttachingIsTyped DEF AttachLive, Put
  <2>2. CASE ReplaceGeneration(c) \/ Terminate(c)
    BY <1>1, <1>2, <2>2 DEF ReplaceGeneration, Terminate
  <2>3. CASE \/ Spawn(c) \/ SpawnFailed(c) \/ Commit(c) \/ CommitRefused(c) \/ Detach(c)
             \/ AttachOutput(c) \/ KillReplaced(c) \/ KillClosed(c) \/ CloseFinish(c)
             \/ KillDrained(c) \/ FinishDrained(c) \/ KillAllDone(c)
    BY <1>1, <2>3
    DEF Spawn, SpawnFailed, Commit, CommitRefused, Detach, AttachOutput, KillReplaced, KillClosed,
        CloseFinish, KillDrained, FinishDrained, KillAllDone
  <2> QED
    BY <1>4, <2>1, <2>2, <2>3 DEF CallGoesOn
<1>5. ASSUME NEW p \in Pty, ReaderGoesOn(p) PROVE LiveOK'
  <2>1. CASE ReaderTake(p)
    <3>1. CASE LeavesChild(p[1], p[2])
      <4>1. p[1] \in DOMAIN live /\ live' = [live EXCEPT ![p[1]].child = FALSE]
        BY <2>1, <3>1 DEF ReaderTake, LeavesChild, IsLive
      <4>2. live'[p[1]] = [live[p[1]] EXCEPT !.child = FALSE]
        BY <4>1
      <4>3. live'[p[1]] \in [generation : Generation, child : BOOLEAN]
        BY <4>1, <4>2
      <4> QED
        BY <4>1, <4>3
    <3>2. CASE ~LeavesChild(p[1], p[2])
      BY <1>1, <2>1, <3>2 DEF ReaderTake
    <3> QED
      BY <3>1, <3>2
  <2>2. CASE ReaderRemove(p)
    BY <1>1, <1>2, <2>2 DEF ReaderRemove
  <2>3. CASE ReaderAppend(p) \/ ReaderWait(p) \/ ReaderMark(p)
    BY <1>1, <2>3 DEF ReaderAppend, ReaderWait, ReaderMark
  <2> QED
    BY <1>5, <2>1, <2>2, <2>3 DEF ReaderGoesOn
<1>6. ASSUME NEW p \in Pty, PtyWrite(p) \/ PtyEnd(p) PROVE LiveOK'
  BY <1>1, <1>6 DEF PtyWrite, PtyEnd
<1>7. CASE UNCHANGED managerVars
  BY <1>1, <1>7 DEF managerVars
<1> QED
  BY <1>3, <1>4, <1>5, <1>6, <1>7 DEF ManagerNext

LEMMA OutputsStep ==
    ASSUME TypeOK, CallsOK, LiveOK, OutputsOK, issued \subseteq issued', [ManagerNext]_managerVars
    PROVE  OutputsOK'
<1> USE DEF OutputsOK
<1>0. << >> \in Seq(Generation)
  OBVIOUS
<1>1. CASE UNCHANGED outputs
  BY <1>1
<1>2. ASSUME NEW id, outputs' = Without(outputs, id) PROVE OutputsOK'
  BY <1>2 DEF Without
<1>3. ASSUME NEW id \in issued, NEW s \in Seq(Generation), outputs' = Put(outputs, id, s)
      PROVE  OutputsOK'
  BY <1>3 DEF Put
<1>4. ASSUME NEW c \in Caller, CallBegins(c) PROVE OutputsOK'
  BY <1>1, <1>4
  DEF CallBegins, CreateBegin, RestartBegin, CloseBegin, KillAllBegin
<1>5. ASSUME NEW c \in Caller, CallGoesOn(c) PROVE OutputsOK'
  <2>1. CASE AttachOutput(c)
    <3>1. calls[c].id \in issued
      BY <2>1, AttachingIsTyped DEF AttachOutput
    <3>2. outputs' = Put(outputs, calls[c].id, << >>) \/ UNCHANGED outputs
      BY <2>1 DEF AttachOutput
    <3> QED
      BY <1>1, <1>3, <3>1, <3>2, <1>0
  <2>2. CASE ReplaceGeneration(c)
    <3>1. calls[c].id \in issued
      BY <2>2, ReplacingIsTyped DEF ReplaceGeneration
    <3>2. outputs' = Put(outputs, calls[c].id, << >>) \/ UNCHANGED outputs
      BY <2>2 DEF ReplaceGeneration
    <3> QED
      BY <1>1, <1>3, <3>1, <3>2, <1>0
  <2>3. CASE Terminate(c)
    BY <1>1, <1>2, <2>3 DEF Terminate
  <2>4. CASE \/ Spawn(c) \/ SpawnFailed(c) \/ Commit(c) \/ CommitRefused(c) \/ Detach(c)
             \/ AttachLive(c) \/ KillReplaced(c) \/ KillClosed(c) \/ CloseFinish(c)
             \/ KillDrained(c) \/ FinishDrained(c) \/ KillAllDone(c)
    BY <1>1, <2>4
    DEF Spawn, SpawnFailed, Commit, CommitRefused, Detach, AttachLive, KillReplaced, KillClosed,
        CloseFinish, KillDrained, FinishDrained, KillAllDone
  <2> QED
    BY <1>5, <2>1, <2>2, <2>3, <2>4 DEF CallGoesOn
<1>6. ASSUME NEW p \in Pty, ReaderGoesOn(p) PROVE OutputsOK'
  <2>1. CASE ReaderAppend(p)
    <3>1. CASE IsLive(p[1], p[2])
      <4>1. p[1] \in issued /\ p[2] \in Generation
        BY <3>1 DEF IsLive, LiveOK, Pty
      <4>2. (IF p[1] \in DOMAIN outputs THEN outputs[p[1]] ELSE << >>) \in Seq(Generation)
        OBVIOUS
      <4>3. Append(IF p[1] \in DOMAIN outputs THEN outputs[p[1]] ELSE << >>, p[2])
                \in Seq(Generation)
        BY <4>1, <4>2
      <4> QED
        BY <1>3, <2>1, <3>1, <4>1, <4>3 DEF ReaderAppend, AppendIfCurrent
    <3>2. CASE ~IsLive(p[1], p[2])
      BY <1>1, <2>1, <3>2 DEF ReaderAppend, AppendIfCurrent
    <3> QED
      BY <3>1, <3>2
  <2>2. CASE ReaderTake(p) \/ ReaderWait(p) \/ ReaderRemove(p) \/ ReaderMark(p)
    BY <1>1, <2>2 DEF ReaderTake, ReaderWait, ReaderRemove, ReaderMark
  <2> QED
    BY <1>6, <2>1, <2>2 DEF ReaderGoesOn
<1>7. ASSUME NEW p \in Pty, PtyWrite(p) \/ PtyEnd(p) PROVE OutputsOK'
  BY <1>1, <1>7 DEF PtyWrite, PtyEnd
<1>8. CASE UNCHANGED managerVars
  BY <1>1, <1>8 DEF managerVars
<1> QED
  BY <1>4, <1>5, <1>6, <1>7, <1>8 DEF ManagerNext

LEMMA PtysStep ==
    ASSUME TypeOK, CallsOK, PtysOK, [ManagerNext]_managerVars
    PROVE  PtysOK'
<1> USE DEF PtysOK
<1>1. CASE UNCHANGED <<ptyVars, reader, strays>>
  BY <1>1 DEF ptyVars
<1>2. ASSUME NEW p, NEW s \in {"none", "running", "mute", "held", "dead"},
             pty' = [pty EXCEPT ![p] = s], UNCHANGED <<unread, wrote, reader, strays>>
      PROVE  PtysOK'
  BY <1>2
<1>3. ASSUME NEW p, NEW there, KillIfThere(p, there), UNCHANGED <<unread, wrote, reader, strays>>
      PROVE  PtysOK'
  BY <1>1, <1>2, <1>3 DEF KillIfThere, ptyVars
<1>4. ASSUME NEW p, NEW at \in {"read", "wait", "remove", "mark", "done"}, ReaderTo(p, at),
             UNCHANGED <<ptyVars, strays>>
      PROVE  PtysOK'
  BY <1>4 DEF ReaderTo, ptyVars
<1>5. ASSUME NEW c \in Caller, CallBegins(c) PROVE PtysOK'
  BY <1>1, <1>5 DEF CallBegins, CreateBegin, RestartBegin, CloseBegin, KillAllBegin
<1>6. ASSUME NEW c \in Caller, CallGoesOn(c) PROVE PtysOK'
  <2>1. CASE Spawn(c)
    BY <1>1, <1>2, <2>1 DEF Spawn, ptyVars
  <2>2. CASE Detach(c) \/ KillReplaced(c) \/ KillClosed(c) \/ KillDrained(c)
    BY <1>3, <2>2 DEF Detach, KillReplaced, KillClosed, KillDrained
  <2>3. CASE AttachOutput(c)
    BY <1>4, <2>3 DEF AttachOutput, ReaderTo
  <2>4. CASE \/ SpawnFailed(c) \/ Commit(c) \/ CommitRefused(c)
             \/ ReplaceGeneration(c) \/ Terminate(c) \/ CloseFinish(c)
             \/ FinishDrained(c) \/ KillAllDone(c)
    BY <1>1, <2>4
    DEF SpawnFailed, Commit, CommitRefused, ReplaceGeneration, Terminate, CloseFinish,
        FinishDrained, KillAllDone
  <2>5. CASE AttachLive(c)
    <3>1. PtyOf(c) \in Pty
      BY <2>5, AttachingIsTyped DEF AttachLive, PtyOf, Pty, TypeOK
    <3> QED
      BY <2>5, <3>1 DEF AttachLive, ptyVars
  <2> QED
    BY <1>6, <2>1, <2>2, <2>3, <2>4, <2>5 DEF CallGoesOn
<1>7. ASSUME NEW p \in Pty, ReaderGoesOn(p) PROVE PtysOK'
  <2>1. CASE ReaderAppend(p)
    BY <2>1 DEF ReaderAppend
  <2>2. CASE ReaderTake(p) \/ ReaderWait(p) \/ ReaderRemove(p) \/ ReaderMark(p)
    BY <1>4, <2>2 DEF ReaderTake, ReaderWait, ReaderRemove, ReaderMark
  <2> QED
    BY <1>7, <2>1, <2>2 DEF ReaderGoesOn
<1>8. ASSUME NEW p \in Pty, PtyWrite(p) PROVE PtysOK'
  BY <1>8 DEF PtyWrite
<1>9. ASSUME NEW p \in Pty, PtyEnd(p) PROVE PtysOK'
  BY <1>2, <1>9 DEF PtyEnd
<1>10. CASE UNCHANGED managerVars
  BY <1>1, <1>10 DEF managerVars
<1> QED
  BY <1>5, <1>6, <1>7, <1>8, <1>9, <1>10 DEF ManagerNext

-----------------------------------------------------------------------------
(* The manager's invariant, and what follows                                 *)

LEMMA ManagerInitInvariant == ManagerInit => ManagerInvariant
<1> SUFFICES ASSUME ManagerInit PROVE ManagerInvariant
  OBVIOUS
<1>1. RegistryInvariant
  BY InitInvariant DEF ManagerInit
<1>2. CallsOK
  BY IdleIsNoCall DEF ManagerInit, CallsOK
<1>3. LiveOK /\ OutputsOK
  BY DEF ManagerInit, LiveOK, OutputsOK
<1>4. PtysOK
  BY DEF ManagerInit, PtysOK
<1> QED
  BY <1>1, <1>2, <1>3, <1>4 DEF ManagerInvariant

LEMMA ManagerNextInvariant ==
    ManagerInvariant /\ [ManagerNext]_managerVars => ManagerInvariant'
<1> SUFFICES ASSUME ManagerInvariant, [ManagerNext]_managerVars PROVE ManagerInvariant'
  OBVIOUS
<1>1. TypeOK
  BY DEF ManagerInvariant, RegistryInvariant
<1>2. [Next]_registryVars
  BY <1>1, RegistryStep
<1>3. issued \subseteq issued' /\ RegistryInvariant'
  BY <1>2, IssuedGrows, NextInvariant DEF ManagerInvariant
<1> QED
  BY <1>1, <1>3, CallsStep, LiveStep, OutputsStep, PtysStep DEF ManagerInvariant

\* The manager's own state keeps its types under any overlap of commands.
THEOREM ManagerInvariantHolds == ManagerSpec => []ManagerInvariant
BY ManagerInitInvariant, ManagerNextInvariant, PTL DEF ManagerSpec

\* The live map and the output stores only ever hold what the registry handed
\* out, and no reader reads more than its PTY wrote.
THEOREM ManagerTypes == ManagerSpec => []ManagerTypeOK
<1>1. ManagerInvariant => ManagerTypeOK
  BY DEF ManagerInvariant, RegistryInvariant, LiveOK, OutputsOK, PtysOK, ManagerTypeOK
<1> QED
  BY <1>1, ManagerInvariantHolds, PTL

\* A store grows only by a reader whose generation is live.
LEMMA OutputGrows ==
    ASSUME ManagerInvariant, [ManagerNext]_managerVars,
           NEW id \in DOMAIN live, id \in DOMAIN outputs, id \in DOMAIN outputs',
           Len(outputs'[id]) = Len(outputs[id]) + 1
    PROVE  outputs'[id][Len(outputs'[id])] = live[id].generation
<1>1. outputs[id] \in Seq(Generation) /\ Len(outputs[id]) \in Nat
  BY DEF ManagerInvariant, OutputsOK
<1>2. outputs'[id] # outputs[id] /\ outputs'[id] # << >>
  BY <1>1
<1>3. ASSUME NEW c \in Caller, CallBegins(c) \/ CallGoesOn(c) PROVE FALSE
  BY <1>2, <1>3
  DEF CallBegins, CreateBegin, RestartBegin, CloseBegin, KillAllBegin, CallGoesOn,
      Spawn, SpawnFailed, Commit, CommitRefused, Detach, AttachLive, AttachOutput,
      ReplaceGeneration, KillReplaced, Terminate, KillClosed, CloseFinish, KillDrained,
      FinishDrained, KillAllDone, Put, Without
<1>4. PICK p \in Pty : ReaderAppend(p)
  BY <1>2, <1>3
  DEF ManagerNext, ReaderGoesOn, ReaderTake, ReaderWait, ReaderRemove, ReaderMark, PtyWrite, PtyEnd,
      managerVars
<1>5. IsLive(p[1], p[2]) /\ p[1] = id /\ outputs'[id] = Append(outputs[id], p[2])
  BY <1>2, <1>4 DEF ReaderAppend, AppendIfCurrent, Put
<1>6. p[2] \in Generation
  BY DEF Pty
<1> QED
  BY <1>1, <1>5, <1>6 DEF IsLive

\* append_output_if_current is enough: what a reader of a replaced generation
\* still finds in its pipe never gets into the store of the one that is live.
THEOREM LateOutputIsDropped == ManagerSpec => NoLateOutput
<1>1. ManagerInvariant /\ [ManagerNext]_managerVars =>
        [\A id \in DOMAIN live \cap DOMAIN outputs \cap DOMAIN outputs' :
            Len(outputs'[id]) = Len(outputs[id]) + 1
                => outputs'[id][Len(outputs'[id])] = live[id].generation]_managerVars
  BY OutputGrows
<1> QED
  BY <1>1, ManagerInvariantHolds, PTL DEF ManagerSpec, NoLateOutput

-----------------------------------------------------------------------------
(* Whose each process is                                                     *)

\* c is the command that gives p its process.
Creates(c, p) == calls[c].op \in {"create", "restart"} /\ p = PtyOf(c)

Closes(c, p) == calls[c].op = "close" /\ p = PtyOf(c)

\* A close took p out of the live map and is about to kill it.
Terminates(c, p) == Closes(c, p) /\ At(c, "kill")

Mentions(c, p) == Creates(c, p) \/ Closes(c, p) \/ Drains(c, p)

\* A generation that is still to be allocated.
Future(p) ==
    \/ p[1] \notin issued
    \/ p[1] \in DOMAIN tabs /\ p[2] > tabs[p[1]].generation

\* A generation is allocated once, so that nothing knows of it before.
FutureIsUnused(p) ==
    Future(p) => /\ reader[p] = "off"
                 /\ ~IsLive(p[1], p[2])
                 /\ \A c \in Caller : ~Mentions(c, p)

\* One command creates a process, and nobody else has it until it is attached.
CreationIsPrivate(p) ==
    \A c \in Caller : Creates(c, p) =>
        /\ \A d \in Caller : Creates(d, p) => d = c
        /\ reader[p] = "off"
        /\ calls[c].at # "output" =>
              ~IsLive(p[1], p[2]) /\ \A d \in Caller : ~Drains(d, p) /\ ~Terminates(d, p)

\* A reader that has seen the end left no child in the live map, and nobody
\* else takes a child and leaves its terminal there.
ReaderTookChild(p) ==
    /\ reader[p] \in {"wait", "remove", "mark", "done"} => ~LeavesChild(p[1], p[2])
    /\ IsLive(p[1], p[2]) /\ ~LeavesChild(p[1], p[2]) => reader[p] \in {"wait", "remove"}

\* A tab that is closed never runs that generation again, and what its command
\* took out of the live map comes back as a stray only.
ClosedStaysClosed(p) ==
    \A c \in Caller : Closes(c, p) =>
        /\ ~Has(p[1], p[2], {"creating", "running"})
        /\ At(c, "kill") \/ At(c, "finish") => ~LeavesChild(p[1], p[2]) \/ p \in strays

DrainedIsGone(p) == \A c \in Caller : Drains(c, p) => ~IsLive(p[1], p[2])

IsOwned(p) ==
    Alive(p) => \/ LeavesChild(p[1], p[2])
                \/ \E c \in Caller : Holds(c, p)
                \/ Awaited(p) \/ p \in strays

LiveHasItsTab(p) ==
    LeavesChild(p[1], p[2]) =>
        Known(p[1], p[2]) \/ (\E c \in Caller : Replaces(c, p)) \/ p \in strays

TakesInput(p) ==
    Has(p[1], p[2], {"running"}) =>
        \/ IsLive(p[1], p[2])
        \/ \E c \in Caller : Drains(c, p) \/ (At(c, "attach") /\ p = PtyOf(c))
        \/ reader[p] \in {"wait", "remove", "mark"} \/ p \in strays

\* A process that is on its way or is live, as far as the quota is concerned.
Pending(p) ==
    \/ \E c \in Caller : /\ Creates(c, p)
                         /\ calls[c].at \in {"replace", "kill", "spawn", "commit", "attach"}
    \/ p \notin strays /\ (LeavesChild(p[1], p[2]) \/ \E c \in Caller : Terminates(c, p))

\* Its tab has a place in the quota.
PendingIsReserved(p) ==
    Known(p[1], p[2]) /\ Pending(p) => tabs[p[1]].status \in {"creating", "running", "closing"}

PtyIsKept(p) ==
    /\ FutureIsUnused(p) /\ CreationIsPrivate(p) /\ ReaderTookChild(p)
    /\ ClosedStaysClosed(p) /\ DrainedIsGone(p)
    /\ IsOwned(p) /\ LiveHasItsTab(p) /\ TakesInput(p) /\ PendingIsReserved(p)

\* A restart replaces an older generation.
OldIsOlder == \A c \in Caller : calls[c].op = "restart" => calls[c].old < calls[c].generation

PtysAreKept == OldIsOlder /\ \A p \in Pty : PtyIsKept(p)

\* The tabs whose process takes a place of the quota.
Holders == {id \in DOMAIN tabs :
    \/ tabs[id].status \in {"creating", "running"}
    \/ /\ tabs[id].status = "closing"
       /\ \E p \in Pty : p[1] = id /\ p[2] = tabs[id].generation /\ Pending(p)}

HoldersAreFew == Cardinality(Holders) <= GlobalQuota

PtyInvariant == ManagerInvariant /\ PtysAreKept

-----------------------------------------------------------------------------
(* What a step makes of the commands                                         *)

LEMMA PtyIsPair ==
    ASSUME NEW p \in Pty
    PROVE  /\ p = <<p[1], p[2]>> /\ p[1] \in TerminalId /\ p[2] \in Generation
           /\ \A id, g : p = <<id, g>> <=> p[1] = id /\ p[2] = g
BY DEF Pty

\* The operation of a call tells its fields, and its step tells the operation.
LEMMA CallFacts ==
    ASSUME CallsOK, NEW c \in Caller
    PROVE  /\ calls[c].op \in {"idle", "create", "restart", "close", "kill_all"}
           /\ calls[c].op = "idle" <=> calls[c] = Idle
           /\ calls[c].op \in {"create", "restart"} => calls[c].id \in issued /\ PtyOf(c) \in Pty
           /\ calls[c].op = "restart" => calls[c].old \in Generation /\ calls[c].at # "refused"
           /\ calls[c].op = "create" => calls[c].at \notin {"replace", "kill"}
           /\ calls[c].op = "close" => PtyOf(c) \in Pty
           /\ calls[c].at \in {"spawn", "failed", "commit", "refused", "detach", "attach", "output"}
                  => calls[c].op \in {"create", "restart"}
           /\ calls[c].op = "kill_all" =>
                  calls[c].drained \in SUBSET (TerminalId \X Generation \X BOOLEAN)
<1>1. calls[c] \in Calls
  BY DEF CallsOK
<1>2. CASE calls[c] = Idle
  BY <1>2 DEF Idle
<1>3. CASE calls[c] \in CreateCalls
  BY <1>3 DEF CreateCalls, CallsOK, PtyOf, Pty, Idle
<1>4. CASE calls[c] \in RestartCalls
  BY <1>4 DEF RestartCalls, CallsOK, PtyOf, Pty, Idle
<1>5. CASE calls[c] \in CloseCalls
  BY <1>5 DEF CloseCalls, PtyOf, Pty, Idle
<1>6. CASE calls[c] \in KillAllCalls
  BY <1>6 DEF KillAllCalls, Idle
<1> QED BY <1>1, <1>2, <1>3, <1>4, <1>5, <1>6 DEF Calls

\* A command that goes on is the same command at another step.
LEMMA GoesOn ==
    ASSUME CallsOK, NEW c \in Caller, calls[c].op # "idle", NEW at, Goto(c, at)
    PROVE  /\ calls'[c].at = at /\ calls'[c].op = calls[c].op
           /\ calls[c].op # "idle" => /\ calls'[c].id = calls[c].id
                                      /\ calls'[c].generation = calls[c].generation
           /\ calls[c].op = "restart" => calls'[c].old = calls[c].old
           /\ calls[c].op = "kill_all" => calls'[c].drained = calls[c].drained
           /\ \A d \in Caller : d # c => calls'[d] = calls[d]
<1>1. calls' = [calls EXCEPT ![c] = [calls[c] EXCEPT !.at = at]] /\ calls[c] \in Calls /\ calls[c] # Idle
  BY CallFacts DEF Goto, CallsOK
<1>2. calls \in [Caller -> Calls]
  BY DEF CallsOK
<1>3. calls'[c] = [calls[c] EXCEPT !.at = at] /\ \A d \in Caller : d # c => calls'[d] = calls[d]
  BY <1>1, <1>2
<1>4. CASE calls[c] \in CreateCalls
  BY <1>3, <1>4 DEF CreateCalls
<1>5. CASE calls[c] \in RestartCalls
  BY <1>3, <1>5 DEF RestartCalls
<1>6. CASE calls[c] \in CloseCalls
  BY <1>3, <1>6 DEF CloseCalls
<1>7. CASE calls[c] \in KillAllCalls
  BY <1>3, <1>7 DEF KillAllCalls
<1> QED BY <1>1, <1>4, <1>5, <1>6, <1>7 DEF Calls

LEMMA Ends ==
    ASSUME CallsOK, NEW c \in Caller, Finish(c)
    PROVE  /\ calls'[c].op = "idle" /\ calls'[c].at = "idle"
           /\ \A d \in Caller : d # c => calls'[d] = calls[d]
BY DEF CallsOK, Finish, Idle

\* It has the same PTYs in hand as before, unless it is a kill_all.
LEMMA SamePtys ==
    ASSUME CallsOK, NEW c \in Caller, calls[c].op \in {"create", "restart", "close"}, NEW at, Goto(c, at),
           NEW p, NEW d \in Caller
    PROVE  /\ Creates(d, p)' <=> Creates(d, p)
           /\ Closes(d, p)' <=> Closes(d, p)
           /\ Drains(d, p)' <=> Drains(d, p)
<1>1. CASE d = c
  BY <1>1, GoesOn DEF Creates, Closes, Drains, PtyOf
<1>2. CASE d # c
  BY <1>2, GoesOn DEF Creates, Closes, Drains, PtyOf, At
<1> QED BY <1>1, <1>2

LEMMA NoMorePtys ==
    ASSUME CallsOK, NEW c \in Caller, Finish(c), NEW p, NEW d \in Caller
    PROVE  /\ Creates(d, p)' <=> (Creates(d, p) /\ d # c)
           /\ Closes(d, p)' <=> (Closes(d, p) /\ d # c)
           /\ Drains(d, p)' <=> (Drains(d, p) /\ d # c)
           /\ Holds(d, p)' <=> (Holds(d, p) /\ d # c)
           /\ Replaces(d, p)' <=> (Replaces(d, p) /\ d # c)
<1>1. CASE d = c
  BY <1>1, Ends DEF Creates, Closes, Drains, PtyOf, Holds, Replaces, Doing
<1>2. CASE d # c
  BY <1>2, Ends DEF Creates, Closes, Drains, PtyOf, At, Holds, Replaces, Doing
<1> QED BY <1>1, <1>2

\* What another command has in hand stays with it.
LEMMA OthersHold ==
    ASSUME NEW d \in Caller, calls'[d] = calls[d], NEW p
    PROVE  /\ Holds(d, p)' <=> Holds(d, p)
           /\ Replaces(d, p)' <=> Replaces(d, p)
BY DEF Holds, Replaces, PtyOf, Doing, At

-----------------------------------------------------------------------------
(* What a create and a restart keep, then a close and a kill_all             *)

LEMMA CreateBeginKeeps ==
    ASSUME PtyInvariant, NEW c \in Caller, CreateBegin(c), NEW p \in Pty
    PROVE  PtyIsKept(p)'
<1> USE DEF PtyInvariant, ManagerInvariant, PtysAreKept
<1>1. PICK k \in Partition, id \in TerminalId, g \in Generation :
          /\ Reserve(k, id, g) /\ Begin(c, "create", CreateCall(id, g))
          /\ UNCHANGED <<live, outputs, ptyVars, reader, strays>>
  BY DEF CreateBegin
<1>2. /\ calls[c] = Idle /\ calls'[c] = CreateCall(id, g)
      /\ \A d \in Caller : d # c => calls'[d] = calls[d]
  BY <1>1 DEF Begin, CallsOK
<1>3. /\ UNCHANGED <<live, pty, reader, strays>>
      /\ id \notin issued /\ issued' = issued \cup {id} /\ id \notin DOMAIN tabs
      /\ DOMAIN tabs' = DOMAIN tabs \cup {id}
      /\ \A x \in DOMAIN tabs : tabs'[x] = tabs[x]
      /\ tabs'[id].generation = g /\ tabs'[id].status = "creating"
  BY <1>1 DEF Reserve, ptyVars, RegistryInvariant, TypeOK
<1>4. PICK q : q = <<id, g>>
  OBVIOUS
<1>04. q \in Pty /\ q[1] = id /\ q[2] = g
  BY <1>4 DEF Pty
<1>5. \A d \in Caller : /\ Creates(d, p)' <=> (Creates(d, p) \/ (d = c /\ p = q))
                        /\ Closes(d, p)' <=> Closes(d, p)
                        /\ Drains(d, p)' <=> Drains(d, p)
                        /\ Holds(d, p)' <=> Holds(d, p)
                        /\ Replaces(d, p)' <=> Replaces(d, p)
  <2>1. ASSUME NEW d \in Caller, d # c
        PROVE  /\ Creates(d, p)' <=> Creates(d, p)
               /\ Closes(d, p)' <=> Closes(d, p)
               /\ Drains(d, p)' <=> Drains(d, p)
               /\ Holds(d, p)' <=> Holds(d, p)
               /\ Replaces(d, p)' <=> Replaces(d, p)
    BY <1>2, <2>1, OthersHold DEF Creates, Closes, Drains, PtyOf, At
  <2>2. /\ ~Creates(c, p) /\ ~Closes(c, p) /\ ~Drains(c, p) /\ ~Holds(c, p) /\ ~Replaces(c, p)
        /\ Creates(c, p)' <=> (p = q)
        /\ ~Closes(c, p)' /\ ~Drains(c, p)' /\ ~Holds(c, p)' /\ ~Replaces(c, p)'
    BY <1>2, <1>4 DEF Creates, Closes, Drains, Holds, Replaces, Doing, PtyOf, Idle, CreateCall
  <2> QED BY <2>1, <2>2
<1>05. ~Creates(c, p)
  BY <1>2 DEF Creates, Idle
<1>6. IsLive(p[1], p[2])' = IsLive(p[1], p[2]) /\ LeavesChild(p[1], p[2])' = LeavesChild(p[1], p[2])
      /\ Alive(p)' = Alive(p)
  BY <1>3 DEF IsLive, LeavesChild, Alive
<1>7. PtyIsKept(p) /\ PtyIsKept(q)
  BY <1>04
<1>8. /\ reader[q] = "off" /\ ~IsLive(q[1], q[2]) /\ \A d \in Caller : ~Mentions(d, q)
      /\ p # q /\ p[1] = id => /\ reader[p] = "off" /\ ~IsLive(p[1], p[2])
                               /\ \A d \in Caller : ~Mentions(d, p)
  BY <1>3, <1>04, <1>7 DEF PtyIsKept, FutureIsUnused, Future
<1>9. p = q <=> p[1] = id /\ p[2] = g
  BY <1>4, <1>04, PtyIsPair
<1> USE DEF PtyIsKept
<1>10. FutureIsUnused(p)'
  BY <1>3, <1>04, <1>5, <1>6, <1>7, <1>8, <1>9 DEF FutureIsUnused, Future, Mentions, Generation
<1>11. CreationIsPrivate(p)'
  BY <1>2, <1>3, <1>5, <1>05, <1>6, <1>7, <1>8, <1>9 DEF CreationIsPrivate, Mentions, CreateCall, Terminates, At
<1>12. ReaderTookChild(p)' /\ DrainedIsGone(p)'
  BY <1>3, <1>5, <1>6, <1>7 DEF ReaderTookChild, DrainedIsGone
<1>13. ClosedStaysClosed(p)'
  BY <1>2, <1>3, <1>5, <1>6, <1>7, <1>8, <1>9 DEF ClosedStaysClosed, Mentions, At, Has, Known, CreateCall
<1>14. IsOwned(p)' /\ LiveHasItsTab(p)'
  BY <1>3, <1>5, <1>6, <1>7 DEF IsOwned, LiveHasItsTab, Awaited, Known
<1>15. TakesInput(p)'
  BY <1>2, <1>3, <1>5, <1>6, <1>7, <1>9 DEF TakesInput, Has, Known, At, PtyOf, Idle
<1>16. PendingIsReserved(p)'
  BY <1>2, <1>3, <1>5, <1>05, <1>6, <1>7, <1>8, <1>9 DEF PendingIsReserved, Pending, Known, Mentions, CreateCall, Terminates, At
<1> QED BY <1>10, <1>11, <1>12, <1>13, <1>14, <1>15, <1>16

LEMMA RestartBeginKeeps ==
    ASSUME PtyInvariant, NEW c \in Caller, RestartBegin(c), NEW p \in Pty
    PROVE  PtyIsKept(p)'
<1> USE DEF PtyInvariant, ManagerInvariant, PtysAreKept
<1>1. PICK id \in DOMAIN tabs, g \in Generation :
          /\ Restart(id, tabs[id].generation, g)
          /\ Begin(c, "restart", RestartCall(id, tabs[id].generation, g))
          /\ UNCHANGED <<live, outputs, ptyVars, reader, strays>>
  BY DEF RestartBegin
<1> DEFINE old == tabs[id].generation
<1>2. /\ calls[c] = Idle /\ calls'[c] = RestartCall(id, old, g)
      /\ \A d \in Caller : d # c => calls'[d] = calls[d]
  BY <1>1 DEF Begin, CallsOK
<1>01. old \in Generation /\ old < g /\ id \in TerminalId /\ id \in issued
  BY <1>1, GenerationAssumption DEF Restart, AllocateGeneration, RegistryInvariant, GenerationsAreAllocated,
          TypeOK, Record, Generation
<1>3. /\ UNCHANGED <<live, pty, reader, strays, issued>>
      /\ DOMAIN tabs' = DOMAIN tabs
      /\ \A x \in DOMAIN tabs : x # id => tabs'[x] = tabs[x]
      /\ tabs'[id].generation = g /\ tabs'[id].status = "creating"
  BY <1>1 DEF Restart, ptyVars, RegistryInvariant, TypeOK, Record
<1>4. PICK q : q = <<id, g>>
  OBVIOUS
<1>04. q \in Pty /\ q[1] = id /\ q[2] = g
  BY <1>01, <1>4 DEF Pty
<1> HIDE DEF old
<1>5. \A d \in Caller : /\ Creates(d, p)' <=> (Creates(d, p) \/ (d = c /\ p = q))
                        /\ Closes(d, p)' <=> Closes(d, p)
                        /\ Drains(d, p)' <=> Drains(d, p)
                        /\ Holds(d, p)' <=> Holds(d, p)
                        /\ Replaces(d, p)' <=> (Replaces(d, p) \/ (d = c /\ p = <<id, old>>))
  <2>1. ASSUME NEW d \in Caller, d # c
        PROVE  /\ Creates(d, p)' <=> Creates(d, p)
               /\ Closes(d, p)' <=> Closes(d, p)
               /\ Drains(d, p)' <=> Drains(d, p)
               /\ Holds(d, p)' <=> Holds(d, p)
               /\ Replaces(d, p)' <=> Replaces(d, p)
    BY <1>2, <2>1, OthersHold DEF Creates, Closes, Drains, PtyOf, At
  <2>2. /\ ~Creates(c, p) /\ ~Closes(c, p) /\ ~Drains(c, p) /\ ~Holds(c, p) /\ ~Replaces(c, p)
        /\ Creates(c, p)' <=> (p = q)
        /\ ~Closes(c, p)' /\ ~Drains(c, p)' /\ ~Holds(c, p)' /\ (Replaces(c, p)' <=> p = <<id, old>>)
    BY <1>2, <1>4 DEF Creates, Closes, Drains, Holds, Replaces, Doing, PtyOf, Idle, RestartCall
  <2> QED BY <2>1, <2>2
<1>05. ~Creates(c, p)
  BY <1>2 DEF Creates, Idle
<1>6. IsLive(p[1], p[2])' = IsLive(p[1], p[2]) /\ LeavesChild(p[1], p[2])' = LeavesChild(p[1], p[2])
      /\ Alive(p)' = Alive(p)
  BY <1>3 DEF IsLive, LeavesChild, Alive
<1>7. PtyIsKept(p) /\ PtyIsKept(q)
  BY <1>04
<1>8. /\ reader[q] = "off" /\ ~IsLive(q[1], q[2]) /\ \A d \in Caller : ~Mentions(d, q)
  BY <1>01, <1>3, <1>04, <1>7 DEF PtyIsKept, FutureIsUnused, Future, old
<1>9. p = q <=> p[1] = id /\ p[2] = g
  BY <1>4, <1>04, PtyIsPair
<1> USE DEF PtyIsKept
<1>10. FutureIsUnused(p)'
  BY <1>01, <1>3, <1>04, <1>5, <1>6, <1>7, <1>8, <1>9, PtyIsPair DEF old, FutureIsUnused, Future, Mentions, Generation
<1>11. CreationIsPrivate(p)'
  BY <1>2, <1>3, <1>5, <1>05, <1>6, <1>7, <1>8, <1>9 DEF CreationIsPrivate, Mentions, RestartCall, Terminates, At
<1>12. ReaderTookChild(p)' /\ DrainedIsGone(p)'
  BY <1>3, <1>5, <1>6, <1>7 DEF ReaderTookChild, DrainedIsGone
<1>13. ClosedStaysClosed(p)'
  BY <1>2, <1>3, <1>5, <1>6, <1>7, <1>8, <1>9 DEF ClosedStaysClosed, Mentions, At, Has, Known, RestartCall
<1>14. IsOwned(p)' /\ LiveHasItsTab(p)'
  <2>1. IsOwned(p)'
    BY <1>3, <1>5, <1>6, <1>7 DEF IsOwned, Awaited
  <2>2. LiveHasItsTab(p)'
    <3>1. p = <<id, old>> <=> p[1] = id /\ p[2] = old
      BY PtyIsPair
    <3> QED BY <1>3, <1>5, <1>6, <1>7, <3>1 DEF LiveHasItsTab, Known, old
  <2> QED BY <2>1, <2>2
<1>15. TakesInput(p)'
  BY <1>2, <1>3, <1>5, <1>6, <1>7, <1>9 DEF TakesInput, Has, Known, At, PtyOf, Idle
<1>16. PendingIsReserved(p)'
  BY <1>2, <1>3, <1>5, <1>05, <1>6, <1>7, <1>8, <1>9 DEF PendingIsReserved, Pending, Known, Mentions, RestartCall, Terminates, At
<1> QED BY <1>10, <1>11, <1>12, <1>13, <1>14, <1>15, <1>16

LEMMA CloseBeginKeeps ==
    ASSUME PtyInvariant, NEW c \in Caller, CloseBegin(c), NEW p \in Pty
    PROVE  PtyIsKept(p)'
<1> USE DEF PtyInvariant, ManagerInvariant, PtysAreKept
<1>1. PICK id \in DOMAIN tabs :
          /\ BeginClose(id, tabs[id].generation)
          /\ Begin(c, "close", CloseCall(id, tabs[id].generation))
          /\ UNCHANGED <<live, outputs, ptyVars, reader, strays>>
  BY DEF CloseBegin
<1>2. PICK g : g = tabs[id].generation
  OBVIOUS
<1>3. /\ calls[c] = Idle /\ calls'[c] = CloseCall(id, g)
      /\ \A d \in Caller : d # c => calls'[d] = calls[d]
  BY <1>1, <1>2 DEF Begin, CallsOK
<1>4. /\ UNCHANGED <<live, pty, reader, strays, issued>> /\ id \in issued
      /\ DOMAIN tabs' = DOMAIN tabs
      /\ \A x \in DOMAIN tabs : tabs'[x].generation = tabs[x].generation
      /\ \A x \in DOMAIN tabs : x # id => tabs'[x] = tabs[x]
      /\ tabs'[id].status = "closing"
  BY <1>1, BecomeChanges DEF BeginClose, ptyVars, RegistryInvariant, TypeOK, TerminalStatus
<1>5. PICK q : q = <<id, g>>
  OBVIOUS
<1>6. p = q <=> p[1] = id /\ p[2] = g
  BY <1>5, PtyIsPair
<1>7. \A d \in Caller : /\ Creates(d, p)' <=> Creates(d, p)
                        /\ Closes(d, p)' <=> (Closes(d, p) \/ (d = c /\ p = q))
                        /\ Drains(d, p)' <=> Drains(d, p)
                        /\ Holds(d, p)' <=> Holds(d, p)
                        /\ Replaces(d, p)' <=> Replaces(d, p)
  <2>1. ASSUME NEW d \in Caller, d # c
        PROVE  /\ Creates(d, p)' <=> Creates(d, p)
               /\ Closes(d, p)' <=> Closes(d, p)
               /\ Drains(d, p)' <=> Drains(d, p)
               /\ Holds(d, p)' <=> Holds(d, p)
               /\ Replaces(d, p)' <=> Replaces(d, p)
    BY <1>3, <2>1, OthersHold DEF Creates, Closes, Drains, PtyOf, At
  <2>2. /\ ~Creates(c, p) /\ ~Closes(c, p) /\ ~Drains(c, p) /\ ~Holds(c, p) /\ ~Replaces(c, p)
        /\ Closes(c, p)' <=> (p = q)
        /\ ~Creates(c, p)' /\ ~Drains(c, p)' /\ ~Holds(c, p)' /\ ~Replaces(c, p)'
    BY <1>3, <1>5 DEF Creates, Closes, Drains, Holds, Replaces, Doing, PtyOf, Idle, CloseCall
  <2> QED BY <2>1, <2>2
<1>8. /\ IsLive(p[1], p[2])' = IsLive(p[1], p[2]) /\ LeavesChild(p[1], p[2])' = LeavesChild(p[1], p[2])
      /\ Alive(p)' = Alive(p) /\ Known(p[1], p[2])' = Known(p[1], p[2])
  BY <1>4 DEF IsLive, LeavesChild, Alive, Known
<1>9. PtyIsKept(p) /\ ~Creates(c, p) /\ ~Closes(c, p)
  BY <1>3 DEF Creates, Closes, Idle
<1> USE DEF PtyIsKept
<1>10. FutureIsUnused(p)'
  BY <1>2, <1>4, <1>6, <1>7, <1>8, <1>9 DEF FutureIsUnused, Future, Mentions, RegistryInvariant, TypeOK, Record, Generation
<1>11. CreationIsPrivate(p)'
  BY <1>3, <1>4, <1>7, <1>8, <1>9 DEF CreationIsPrivate, Terminates, At, CloseCall
<1>12. ReaderTookChild(p)' /\ DrainedIsGone(p)'
  BY <1>4, <1>7, <1>8, <1>9 DEF ReaderTookChild, DrainedIsGone
<1>13. ClosedStaysClosed(p)'
  BY <1>3, <1>4, <1>6, <1>7, <1>8, <1>9 DEF ClosedStaysClosed, At, Has, Known, CloseCall
<1>14. IsOwned(p)' /\ LiveHasItsTab(p)'
  BY <1>4, <1>7, <1>8, <1>9 DEF IsOwned, LiveHasItsTab, Awaited
<1>15. TakesInput(p)'
  BY <1>3, <1>4, <1>7, <1>8, <1>9 DEF TakesInput, Has, Known, At, PtyOf, Idle
<1>16. PendingIsReserved(p)'
  BY <1>3, <1>4, <1>7, <1>8, <1>9 DEF PendingIsReserved, Pending, Known, Terminates, At, CloseCall
<1> QED BY <1>10, <1>11, <1>12, <1>13, <1>14, <1>15, <1>16

LEMMA KillAllBeginKeeps ==
    ASSUME PtyInvariant, NEW c \in Caller, KillAllBegin(c), NEW p \in Pty
    PROVE  PtyIsKept(p)'
<1> USE DEF PtyInvariant, ManagerInvariant, PtysAreKept
<1>1. PICK drained : drained = {<<id, live[id].generation, live[id].child>> : id \in DOMAIN live}
  OBVIOUS
<1>2. /\ calls[c] = Idle /\ calls'[c] = KillAllCall(drained)
      /\ \A d \in Caller : d # c => calls'[d] = calls[d]
      /\ UNCHANGED <<tabs, issued, pty, reader, strays>> /\ live' = << >>
  BY <1>1 DEF KillAllBegin, Begin, CallsOK, registryVars, ptyVars
<1>3. /\ (\E there \in BOOLEAN : <<p[1], p[2], there>> \in drained) <=> IsLive(p[1], p[2])
      /\ <<p[1], p[2], TRUE>> \in drained <=> LeavesChild(p[1], p[2])
  BY <1>1 DEF IsLive, LeavesChild, LiveOK
<1>4. \A d \in Caller : /\ Creates(d, p)' <=> Creates(d, p)
                        /\ Closes(d, p)' <=> Closes(d, p)
                        /\ Drains(d, p)' <=> (Drains(d, p) \/ (d = c /\ IsLive(p[1], p[2])))
                        /\ Holds(d, p)' <=> (Holds(d, p) \/ (d = c /\ LeavesChild(p[1], p[2])))
                        /\ Replaces(d, p)' <=> Replaces(d, p)
  <2>1. ASSUME NEW d \in Caller, d # c
        PROVE  /\ Creates(d, p)' <=> Creates(d, p)
               /\ Closes(d, p)' <=> Closes(d, p)
               /\ Drains(d, p)' <=> Drains(d, p)
               /\ Holds(d, p)' <=> Holds(d, p)
               /\ Replaces(d, p)' <=> Replaces(d, p)
    BY <1>2, <2>1, OthersHold DEF Creates, Closes, Drains, PtyOf, At
  <2>2. ~Creates(c, p) /\ ~Closes(c, p) /\ ~Drains(c, p) /\ ~Holds(c, p) /\ ~Replaces(c, p)
    BY <1>2 DEF Creates, Closes, Drains, Holds, Replaces, Doing, Idle
  <2>3. ~Creates(c, p)' /\ ~Closes(c, p)' /\ ~Replaces(c, p)'
    BY <1>2 DEF Creates, Closes, Replaces, Doing, KillAllCall
  <2>4. Drains(c, p)' <=> IsLive(p[1], p[2])
    <3>1. /\ calls'[c].op = "kill_all" /\ calls'[c].at = "next" /\ calls'[c].drained = drained
      BY <1>2 DEF KillAllCall
    <3> QED BY <1>3, <3>1 DEF Drains, At
  <2>5. Holds(c, p)' <=> LeavesChild(p[1], p[2])
    BY <1>2, <1>3 DEF Holds, Doing, KillAllCall
  <2> QED BY <2>1, <2>2, <2>3, <2>4, <2>5
<1>5. /\ ~IsLive(p[1], p[2])' /\ ~LeavesChild(p[1], p[2])' /\ Alive(p)' = Alive(p)
      /\ Known(p[1], p[2])' = Known(p[1], p[2])
  BY <1>2 DEF IsLive, LeavesChild, Alive, Known
<1>6. PtyIsKept(p) /\ ~Creates(c, p) /\ ~Closes(c, p)
  BY <1>2 DEF Creates, Closes, Idle
<1> USE DEF PtyIsKept
<1>7. FutureIsUnused(p)'
  BY <1>2, <1>4, <1>5, <1>6 DEF FutureIsUnused, Future, Mentions
<1>8. CreationIsPrivate(p)'
  BY <1>2, <1>4, <1>5, <1>6 DEF CreationIsPrivate, Creates, Terminates, At
<1>9. ReaderTookChild(p)' /\ DrainedIsGone(p)'
  BY <1>2, <1>4, <1>5, <1>6 DEF ReaderTookChild, DrainedIsGone
<1>10. ClosedStaysClosed(p)'
  BY <1>2, <1>4, <1>5, <1>6 DEF ClosedStaysClosed, At, Has, Known
<1>11. IsOwned(p)' /\ LiveHasItsTab(p)'
  BY <1>2, <1>4, <1>5, <1>6 DEF IsOwned, LiveHasItsTab, Awaited
<1>12. TakesInput(p)'
  BY <1>2, <1>4, <1>5, <1>6 DEF TakesInput, Has, Known, At, PtyOf, Idle
<1>13. PendingIsReserved(p)'
  BY <1>2, <1>4, <1>5, <1>6 DEF PendingIsReserved, Pending, Known, Terminates, At
<1> QED BY <1>7, <1>8, <1>9, <1>10, <1>11, <1>12, <1>13

LEMMA SpawnKeeps ==
    ASSUME PtyInvariant, NEW c \in Caller, Spawn(c), NEW p \in Pty
    PROVE  PtyIsKept(p)'
<1> USE DEF PtyInvariant, ManagerInvariant, PtysAreKept
<1>1. /\ calls[c].op \in {"create", "restart"} /\ calls[c].at = "spawn" /\ PtyIsKept(p)
      /\ PtyOf(c) \in Pty
  BY CallFacts DEF Spawn, At
<1>2. PICK at \in {"commit", "failed"} :
          /\ Goto(c, at)
          /\ IF at = "commit" THEN pty' = [pty EXCEPT ![PtyOf(c)] = "running"] ELSE UNCHANGED pty
  BY DEF Spawn
<1>3. /\ UNCHANGED <<tabs, issued, live, reader, strays>>
      /\ IsLive(p[1], p[2])' = IsLive(p[1], p[2]) /\ LeavesChild(p[1], p[2])' = LeavesChild(p[1], p[2])
      /\ Known(p[1], p[2])' = Known(p[1], p[2])
  BY DEF Spawn, registryVars, IsLive, LeavesChild, Known
<1>4. /\ calls'[c].at = at /\ calls'[c].op = calls[c].op /\ PtyOf(c)' = PtyOf(c)
      /\ \A d \in Caller : d # c => calls'[d] = calls[d]
  BY <1>1, <1>2, GoesOn DEF PtyOf
<1>5. \A d \in Caller : /\ Creates(d, p)' <=> Creates(d, p)
                        /\ Closes(d, p)' <=> Closes(d, p)
                        /\ Drains(d, p)' <=> Drains(d, p)
  BY <1>1, <1>2, SamePtys
<1>6. \A d \in Caller : /\ Holds(d, p)' <=> (Holds(d, p) \/ (d = c /\ at = "commit" /\ p = PtyOf(c)))
                        /\ Replaces(d, p)' <=> Replaces(d, p)
  <2>1. /\ ~Holds(c, p) /\ ~Replaces(c, p) /\ ~Replaces(c, p)'
        /\ Holds(c, p)' <=> at = "commit" /\ p = PtyOf(c)
    BY <1>1, <1>2, <1>4 DEF Holds, Replaces, Doing
  <2>2. ASSUME NEW d \in Caller, d # c
        PROVE  /\ Holds(d, p)' <=> Holds(d, p)
               /\ Replaces(d, p)' <=> Replaces(d, p)
    BY <1>4, <2>2, OthersHold
  <2> QED BY <2>1, <2>2
<1>7. p = PtyOf(c) => at = "commit" \/ Alive(p)' = Alive(p)
  BY <1>2 DEF Alive
<1>8. p # PtyOf(c) => Alive(p)' = Alive(p)
  BY <1>2 DEF Alive, PtysOK
<1> USE DEF PtyIsKept
<1>9. FutureIsUnused(p)'
  BY <1>1, <1>3, <1>5 DEF FutureIsUnused, Future, Mentions
<1>10. CreationIsPrivate(p)'
  BY <1>1, <1>3, <1>4, <1>5 DEF CreationIsPrivate, Terminates, At
<1>11. ReaderTookChild(p)' /\ DrainedIsGone(p)' /\ LiveHasItsTab(p)'
  BY <1>1, <1>3, <1>5, <1>6 DEF ReaderTookChild, DrainedIsGone, LiveHasItsTab
<1>12. ClosedStaysClosed(p)'
  BY <1>1, <1>3, <1>4, <1>5 DEF ClosedStaysClosed, Closes, At, Has
<1>13. IsOwned(p)'
  BY <1>1, <1>3, <1>6, <1>7, <1>8 DEF IsOwned, Awaited
<1>14. TakesInput(p)'
  BY <1>1, <1>3, <1>4, <1>5 DEF TakesInput, Has, At, PtyOf
<1>15. PendingIsReserved(p)'
  BY <1>1, <1>3, <1>4, <1>5 DEF PendingIsReserved, Pending, Terminates, At
<1> QED BY <1>9, <1>10, <1>11, <1>12, <1>13, <1>14, <1>15

\* mark_failed of a create: the tab is that of its PTY.
LEMMA FailedIsMarked ==
    ASSUME TypeOK, NEW q \in Pty,
           IF Known(q[1], q[2]) THEN MarkFailed(q[1], q[2]) ELSE UNCHANGED registryVars
    PROVE  /\ issued' = issued /\ DOMAIN tabs' = DOMAIN tabs
           /\ \A x \in DOMAIN tabs : tabs'[x].generation = tabs[x].generation
           /\ \A x \in DOMAIN tabs : x # q[1] \/ ~Known(q[1], q[2]) => tabs'[x] = tabs[x]
           /\ Known(q[1], q[2]) => tabs'[q[1]].status = "failed"
<1>1. CASE Known(q[1], q[2])
  BY <1>1, BecomeChanges DEF MarkFailed, Known, TerminalStatus
<1>2. CASE ~Known(q[1], q[2])
  BY <1>2 DEF registryVars
<1> QED BY <1>1, <1>2

LEMMA SpawnFailedKeeps ==
    ASSUME PtyInvariant, NEW c \in Caller, SpawnFailed(c), NEW p \in Pty
    PROVE  PtyIsKept(p)'
<1> USE DEF PtyInvariant, ManagerInvariant, PtysAreKept
<1>1. /\ calls[c].op \in {"create", "restart"} /\ calls[c].at = "failed" /\ PtyIsKept(p)
      /\ PtyOf(c) \in Pty
  BY CallFacts DEF SpawnFailed, At
<1>2. PICK q \in Pty : q = PtyOf(c) /\ q[1] = calls[c].id /\ q[2] = calls[c].generation
  BY <1>1 DEF PtyOf
<1>3. /\ issued' = issued /\ DOMAIN tabs' = DOMAIN tabs
      /\ \A x \in DOMAIN tabs : tabs'[x].generation = tabs[x].generation
      /\ \A x \in DOMAIN tabs : x # q[1] \/ ~Known(q[1], q[2]) => tabs'[x] = tabs[x]
      /\ Known(q[1], q[2]) => tabs'[q[1]].status = "failed"
  BY <1>2, FailedIsMarked DEF SpawnFailed, RegistryInvariant
<1>4. /\ UNCHANGED <<live, pty, reader, strays>>
      /\ IsLive(p[1], p[2])' = IsLive(p[1], p[2]) /\ LeavesChild(p[1], p[2])' = LeavesChild(p[1], p[2])
      /\ Known(p[1], p[2])' = Known(p[1], p[2]) /\ Alive(p)' = Alive(p)
  BY <1>3 DEF SpawnFailed, ptyVars, IsLive, LeavesChild, Known, Alive
<1>5. /\ p = q <=> p[1] = q[1] /\ p[2] = q[2]
      /\ Known(p[1], p[2]) /\ Known(q[1], q[2]) /\ p[1] = q[1] => p = q
  BY <1>2, PtyIsPair DEF Known
<1>6. \A d \in Caller : /\ Creates(d, p)' <=> (Creates(d, p) /\ d # c)
                        /\ Closes(d, p)' <=> (Closes(d, p) /\ d # c)
                        /\ Drains(d, p)' <=> (Drains(d, p) /\ d # c)
                        /\ Holds(d, p)' <=> (Holds(d, p) /\ d # c)
                        /\ Replaces(d, p)' <=> (Replaces(d, p) /\ d # c)
  BY NoMorePtys DEF SpawnFailed
<1>7. /\ ~Drains(c, p) /\ ~Holds(c, p) /\ ~Replaces(c, p) /\ (p = q <=> Creates(c, p))
      /\ \A d \in Caller : d # c => calls'[d] = calls[d]
      /\ calls'[c].at = "idle"
  BY <1>1, <1>2, Ends DEF SpawnFailed, Drains, Holds, Replaces, Doing, Creates
<1> USE DEF PtyIsKept
<1>8. FutureIsUnused(p)'
  BY <1>1, <1>3, <1>4, <1>6 DEF FutureIsUnused, Future, Mentions
<1>9. CreationIsPrivate(p)'
  BY <1>1, <1>4, <1>6, <1>7 DEF CreationIsPrivate, Terminates, At
<1>10. ReaderTookChild(p)' /\ DrainedIsGone(p)' /\ LiveHasItsTab(p)'
  BY <1>1, <1>4, <1>6, <1>7 DEF ReaderTookChild, DrainedIsGone, LiveHasItsTab
<1>11. ClosedStaysClosed(p)'
  BY <1>1, <1>3, <1>4, <1>5, <1>6, <1>7 DEF ClosedStaysClosed, At, Has, Known
<1>12. IsOwned(p)'
  BY <1>1, <1>4, <1>6, <1>7 DEF IsOwned, Awaited
<1>13. TakesInput(p)'
  BY <1>1, <1>3, <1>4, <1>6, <1>7 DEF TakesInput, Has, Known, At, PtyOf
<1>14. PendingIsReserved(p)'
  <2>1. CASE p = q /\ Known(q[1], q[2])
    BY <1>1, <1>4, <1>6, <1>7, <2>1 DEF Pending, PendingIsReserved, CreationIsPrivate, LeavesChild, Terminates, At
  <2>2. CASE ~(p = q /\ Known(q[1], q[2]))
    BY <1>1, <1>3, <1>4, <1>5, <1>6, <1>7, <2>2 DEF PendingIsReserved, Pending, Known, Terminates, At
  <2> QED BY <2>1, <2>2
<1> QED BY <1>8, <1>9, <1>10, <1>11, <1>12, <1>13, <1>14

LEMMA CommitKeeps ==
    ASSUME PtyInvariant, NEW c \in Caller, Commit(c), NEW p \in Pty
    PROVE  PtyIsKept(p)'
<1> USE DEF PtyInvariant, ManagerInvariant, PtysAreKept
<1>1. /\ calls[c].op \in {"create", "restart"} /\ calls[c].at = "commit" /\ PtyIsKept(p)
      /\ PtyOf(c) \in Pty
  BY CallFacts DEF Commit, At
<1>2. PICK q \in Pty : q = PtyOf(c) /\ q[1] = calls[c].id /\ q[2] = calls[c].generation
  BY <1>1 DEF PtyOf
<1>3. PICK at \in {"attach", "refused", "detach"} :
          /\ Goto(c, at)
          /\ IF at = "attach" THEN CommitRunning(q[1], q[2]) ELSE UNCHANGED registryVars
  BY <1>2 DEF Commit
<1>4. /\ issued' = issued /\ DOMAIN tabs' = DOMAIN tabs
      /\ \A x \in DOMAIN tabs : tabs'[x].generation = tabs[x].generation
      /\ \A x \in DOMAIN tabs : x # q[1] \/ at # "attach" => tabs'[x] = tabs[x]
      /\ at = "attach" => /\ Has(q[1], q[2], {"creating"})
                         /\ tabs'[q[1]].status = "running"
  <2>1. CASE at = "attach"
    BY <1>3, <2>1, BecomeChanges DEF CommitRunning, Has, Known, TerminalStatus, RegistryInvariant
  <2>2. CASE at # "attach"
    BY <1>3, <2>2 DEF registryVars
  <2> QED BY <2>1, <2>2
<1>5. /\ UNCHANGED <<live, pty, reader, strays>>
      /\ IsLive(p[1], p[2])' = IsLive(p[1], p[2]) /\ LeavesChild(p[1], p[2])' = LeavesChild(p[1], p[2])
      /\ Known(p[1], p[2])' = Known(p[1], p[2]) /\ Alive(p)' = Alive(p)
  BY <1>4 DEF Commit, ptyVars, IsLive, LeavesChild, Known, Alive
<1>6. /\ p = q <=> p[1] = q[1] /\ p[2] = q[2]
      /\ Known(p[1], p[2]) /\ Known(q[1], q[2]) /\ p[1] = q[1] => p = q
  BY <1>2, PtyIsPair DEF Known
<1>7. /\ ~Closes(c, p) /\ (p = q <=> Creates(c, p))
      /\ \A d \in Caller : d # c => calls'[d] = calls[d]
      /\ calls'[c].at = at /\ PtyOf(c)' = PtyOf(c) /\ calls'[c].op = calls[c].op
  BY <1>1, <1>2, <1>3, GoesOn DEF Closes, Creates, PtyOf
<1>8. \A d \in Caller : /\ Creates(d, p)' <=> Creates(d, p)
                        /\ Closes(d, p)' <=> Closes(d, p)
                        /\ Drains(d, p)' <=> Drains(d, p)
                        /\ Holds(d, p)' <=> Holds(d, p)
                        /\ Replaces(d, p)' <=> Replaces(d, p)
  <2>1. /\ Holds(c, p)' <=> Holds(c, p)
        /\ Replaces(c, p)' <=> Replaces(c, p)
    BY <1>1, <1>7 DEF Holds, Replaces, Doing
  <2>2. ASSUME NEW d \in Caller, d # c
        PROVE  /\ Holds(d, p)' <=> Holds(d, p)
               /\ Replaces(d, p)' <=> Replaces(d, p)
    BY <1>7, <2>2, OthersHold
  <2>3. ASSUME NEW d \in Caller
        PROVE  /\ Creates(d, p)' <=> Creates(d, p)
               /\ Closes(d, p)' <=> Closes(d, p)
               /\ Drains(d, p)' <=> Drains(d, p)
    BY <1>1, <1>3, SamePtys
  <2> QED BY <2>1, <2>2, <2>3
<1> USE DEF PtyIsKept
<1>9. FutureIsUnused(p)'
  BY <1>1, <1>4, <1>5, <1>8 DEF FutureIsUnused, Future, Mentions
<1>10. CreationIsPrivate(p)'
  BY <1>1, <1>5, <1>7, <1>8 DEF CreationIsPrivate, Terminates, At
<1>11. ReaderTookChild(p)' /\ DrainedIsGone(p)' /\ LiveHasItsTab(p)'
  BY <1>1, <1>5, <1>7, <1>8 DEF ReaderTookChild, DrainedIsGone, LiveHasItsTab
<1>12. ClosedStaysClosed(p)'
  BY <1>1, <1>4, <1>5, <1>6, <1>7, <1>8 DEF ClosedStaysClosed, At, Has, Known
<1>13. IsOwned(p)'
  BY <1>1, <1>5, <1>7, <1>8 DEF IsOwned, Awaited
<1>14. TakesInput(p)'
  <2>1. CASE at = "attach" /\ p = q
    BY <1>2, <1>7, <2>1 DEF TakesInput, At
  <2>2. CASE at = "attach" /\ p # q
    BY <1>1, <1>4, <1>5, <1>6, <1>7, <1>8, <2>2 DEF TakesInput, Has, Known, At, PtyOf
  <2>3. CASE at # "attach"
    BY <1>1, <1>4, <1>5, <1>7, <1>8, <2>3 DEF TakesInput, Has, Known, At, PtyOf
  <2> QED BY <2>1, <2>2, <2>3
<1>15. PendingIsReserved(p)'
  BY <1>1, <1>4, <1>5, <1>6, <1>7, <1>8 DEF PendingIsReserved, Pending, Known, Has, Terminates, At
<1> QED BY <1>9, <1>10, <1>11, <1>12, <1>13, <1>14, <1>15

LEMMA CommitRefusedKeeps ==
    ASSUME PtyInvariant, NEW c \in Caller, CommitRefused(c), NEW p \in Pty
    PROVE  PtyIsKept(p)'
<1> USE DEF PtyInvariant, ManagerInvariant, PtysAreKept
<1>1. /\ calls[c].op \in {"create", "restart"} /\ calls[c].at = "refused" /\ PtyIsKept(p)
      /\ PtyOf(c) \in Pty
  BY CallFacts DEF CommitRefused, At
<1>2. PICK q \in Pty : q = PtyOf(c) /\ q[1] = calls[c].id /\ q[2] = calls[c].generation
  BY <1>1 DEF PtyOf
<1>3. /\ issued' = issued /\ DOMAIN tabs' = DOMAIN tabs
      /\ \A x \in DOMAIN tabs : tabs'[x].generation = tabs[x].generation
      /\ \A x \in DOMAIN tabs : x # q[1] \/ ~Known(q[1], q[2]) => tabs'[x] = tabs[x]
      /\ Known(q[1], q[2]) => tabs'[q[1]].status = "failed"
  BY <1>2, FailedIsMarked DEF CommitRefused, RegistryInvariant
<1>4. /\ UNCHANGED <<live, pty, reader, strays>>
      /\ IsLive(p[1], p[2])' = IsLive(p[1], p[2]) /\ LeavesChild(p[1], p[2])' = LeavesChild(p[1], p[2])
      /\ Known(p[1], p[2])' = Known(p[1], p[2]) /\ Alive(p)' = Alive(p)
  BY <1>3 DEF CommitRefused, ptyVars, IsLive, LeavesChild, Known, Alive
<1>5. /\ p = q <=> p[1] = q[1] /\ p[2] = q[2]
      /\ Known(p[1], p[2]) /\ Known(q[1], q[2]) /\ p[1] = q[1] => p = q
  BY <1>2, PtyIsPair DEF Known
<1>6. \A d \in Caller : /\ Creates(d, p)' <=> Creates(d, p)
                        /\ Closes(d, p)' <=> Closes(d, p)
                        /\ Drains(d, p)' <=> Drains(d, p)
                        /\ Holds(d, p)' <=> Holds(d, p)
                        /\ Replaces(d, p)' <=> Replaces(d, p)
  <2>1. /\ calls'[c].at = "detach" /\ calls'[c].op = calls[c].op /\ PtyOf(c)' = PtyOf(c)
        /\ \A d \in Caller : d # c => calls'[d] = calls[d]
    BY <1>1, GoesOn DEF PtyOf, CommitRefused
  <2>2. /\ Holds(c, p)' <=> Holds(c, p)
        /\ Replaces(c, p)' <=> Replaces(c, p)
    BY <1>1, <2>1 DEF Holds, Replaces, Doing
  <2>3. ASSUME NEW d \in Caller, d # c
        PROVE  /\ Holds(d, p)' <=> Holds(d, p)
               /\ Replaces(d, p)' <=> Replaces(d, p)
    BY <2>1, <2>3, OthersHold
  <2>4. ASSUME NEW d \in Caller
        PROVE  /\ Creates(d, p)' <=> Creates(d, p)
               /\ Closes(d, p)' <=> Closes(d, p)
               /\ Drains(d, p)' <=> Drains(d, p)
    BY <1>1, SamePtys DEF CommitRefused
  <2> QED BY <2>2, <2>3, <2>4
<1>7. /\ ~Closes(c, p) /\ (p = q <=> Creates(c, p))
      /\ \A d \in Caller : d # c => calls'[d] = calls[d]
      /\ calls'[c].at = "detach"
  BY <1>1, <1>2, GoesOn DEF CommitRefused, Closes, Creates
<1> USE DEF PtyIsKept
<1>8. FutureIsUnused(p)'
  BY <1>1, <1>3, <1>4, <1>6 DEF FutureIsUnused, Future, Mentions
<1>9. CreationIsPrivate(p)'
  BY <1>1, <1>4, <1>6, <1>7 DEF CreationIsPrivate, Terminates, At
<1>10. ReaderTookChild(p)' /\ DrainedIsGone(p)' /\ LiveHasItsTab(p)'
  BY <1>1, <1>4, <1>6, <1>7 DEF ReaderTookChild, DrainedIsGone, LiveHasItsTab
<1>11. ClosedStaysClosed(p)'
  BY <1>1, <1>3, <1>4, <1>5, <1>6, <1>7 DEF ClosedStaysClosed, At, Has, Known
<1>12. IsOwned(p)'
  BY <1>1, <1>4, <1>6, <1>7 DEF IsOwned, Awaited
<1>13. TakesInput(p)'
  BY <1>1, <1>3, <1>4, <1>6, <1>7 DEF TakesInput, Has, Known, At, PtyOf
<1>14. PendingIsReserved(p)'
  <2>1. CASE p = q /\ Known(q[1], q[2])
    BY <1>1, <1>4, <1>6, <1>7, <2>1 DEF Pending, PendingIsReserved, CreationIsPrivate, LeavesChild, Terminates, At
  <2>2. CASE ~(p = q /\ Known(q[1], q[2]))
    BY <1>1, <1>3, <1>4, <1>5, <1>6, <1>7, <2>2 DEF PendingIsReserved, Pending, Known, Terminates, At
  <2> QED BY <2>1, <2>2
<1> QED BY <1>8, <1>9, <1>10, <1>11, <1>12, <1>13, <1>14

\* What a kill does to the shells: none comes to life, and the one killed is dead.
LEMMA KillFacts ==
    ASSUME PtysOK, NEW q \in Pty, NEW there, KillIfThere(q, there), NEW p \in Pty
    PROVE  /\ Alive(p)' => Alive(p)
           /\ there /\ p = q => ~Alive(p)'
BY DEF KillIfThere, Alive, PtysOK

\* A tab that is removed.
LEMMA TabIsRemoved ==
    ASSUME TypeOK, NEW id, NEW g,
           IF Known(id, g) THEN FinishClose(id, g) ELSE UNCHANGED registryVars
    PROVE  /\ issued' = issued /\ DOMAIN tabs' \subseteq DOMAIN tabs
           /\ \A x \in DOMAIN tabs' : tabs'[x] = tabs[x]
           /\ ~Known(id, g)'
           /\ \A x \in DOMAIN tabs : x \notin DOMAIN tabs' => x = id /\ Known(id, g)
<1>1. CASE Known(id, g)
  BY <1>1 DEF FinishClose, Known
<1>2. CASE ~Known(id, g)
  BY <1>2 DEF registryVars, Known
<1> QED BY <1>1, <1>2

LEMMA DetachKeeps ==
    ASSUME PtyInvariant, NEW c \in Caller, Detach(c), NEW p \in Pty
    PROVE  PtyIsKept(p)'
<1> USE DEF PtyInvariant, ManagerInvariant, PtysAreKept
<1>1. /\ calls[c].op \in {"create", "restart"} /\ calls[c].at = "detach" /\ PtyIsKept(p)
      /\ PtyOf(c) \in Pty
  BY CallFacts DEF Detach, At
<1>2. /\ UNCHANGED <<tabs, issued, live, reader, strays>>
      /\ IsLive(p[1], p[2])' = IsLive(p[1], p[2]) /\ LeavesChild(p[1], p[2])' = LeavesChild(p[1], p[2])
      /\ Known(p[1], p[2])' = Known(p[1], p[2])
  BY DEF Detach, registryVars, IsLive, LeavesChild, Known
<1>3. (Alive(p)' => Alive(p)) /\ (p = PtyOf(c) => ~Alive(p)')
  BY <1>1, KillFacts DEF Detach
<1>4. \A d \in Caller : /\ Creates(d, p)' <=> (Creates(d, p) /\ d # c)
                        /\ Closes(d, p)' <=> (Closes(d, p) /\ d # c)
                        /\ Drains(d, p)' <=> (Drains(d, p) /\ d # c)
                        /\ Holds(d, p)' <=> (Holds(d, p) /\ d # c)
                        /\ Replaces(d, p)' <=> (Replaces(d, p) /\ d # c)
  BY NoMorePtys DEF Detach
<1>5. /\ ~Drains(c, p) /\ ~Replaces(c, p) /\ (Holds(c, p) => p = PtyOf(c))
      /\ \A d \in Caller : d # c => calls'[d] = calls[d]
      /\ calls[c].at # "attach"
  BY <1>1, Ends DEF Detach, Drains, Holds, Replaces, Doing
<1> USE DEF PtyIsKept
<1>6. FutureIsUnused(p)'
  BY <1>1, <1>2, <1>4 DEF FutureIsUnused, Future, Mentions
<1>7. CreationIsPrivate(p)'
  BY <1>1, <1>2, <1>4, <1>5 DEF CreationIsPrivate, Terminates, At
<1>8. ReaderTookChild(p)' /\ DrainedIsGone(p)' /\ LiveHasItsTab(p)'
  BY <1>1, <1>2, <1>4, <1>5 DEF ReaderTookChild, DrainedIsGone, LiveHasItsTab
<1>9. ClosedStaysClosed(p)'
  BY <1>1, <1>2, <1>4, <1>5 DEF ClosedStaysClosed, At, Has
<1>10. IsOwned(p)'
  BY <1>1, <1>2, <1>3, <1>4, <1>5 DEF IsOwned, Awaited
<1>11. TakesInput(p)'
  BY <1>1, <1>2, <1>4, <1>5 DEF TakesInput, Has, At, PtyOf
<1>12. PendingIsReserved(p)'
  BY <1>1, <1>2, <1>4, <1>5 DEF PendingIsReserved, Pending, Terminates, At
<1> QED BY <1>6, <1>7, <1>8, <1>9, <1>10, <1>11, <1>12

LEMMA AttachLiveKeeps ==
    ASSUME PtyInvariant, NEW c \in Caller, AttachLive(c), NEW p \in Pty
    PROVE  PtyIsKept(p)'
<1> USE DEF PtyInvariant, ManagerInvariant, PtysAreKept
<1>0. PtyIsKept(p) /\ PtyIsKept(PtyOf(c)) /\ PtyOf(c) \in Pty /\ calls[c].op \in {"create", "restart"} /\ At(c, "attach")
  BY CallFacts DEF AttachLive, At
<1> USE DEF PtyIsKept
<1> DEFINE q == PtyOf(c)
<1>1. /\ calls'[c].at = "output" /\ calls'[c].op = calls[c].op
      /\ calls'[c].id = calls[c].id /\ calls'[c].generation = calls[c].generation
      /\ calls[c].op = "restart" => calls'[c].old = calls[c].old
      /\ \A d \in Caller : d # c => calls'[d] = calls[d]
  BY <1>0, GoesOn DEF AttachLive
<1>2. /\ UNCHANGED <<tabs, issued, reader, pty>>
      /\ strays \subseteq strays'
  BY DEF AttachLive, registryVars, ptyVars
<1>3. /\ q[1] = p[1] /\ q # p => ~IsLive(p[1], p[2])' /\ ~LeavesChild(p[1], p[2])'
                                 /\ (LeavesChild(p[1], p[2]) => p \in strays')
      /\ q[1] # p[1] => (IsLive(p[1], p[2])' = IsLive(p[1], p[2]))
                        /\ (LeavesChild(p[1], p[2])' = LeavesChild(p[1], p[2]))
      /\ q = p => LeavesChild(p[1], p[2])' /\ IsLive(p[1], p[2])'
      /\ q = p /\ ~Has(p[1], p[2], {"running"}) => p \in strays'
  BY <1>0, PtyIsPair DEF AttachLive, IsLive, LeavesChild, Put, PtyOf, LiveOK
<1> HIDE DEF q
<1>13. \A d \in Caller : /\ Creates(d, p)' <=> Creates(d, p)
                         /\ Closes(d, p)' <=> Closes(d, p)
                         /\ Drains(d, p)' <=> Drains(d, p)
  BY <1>0, SamePtys DEF AttachLive
<1>4. FutureIsUnused(p)'
  BY <1>0, <1>1, <1>2, <1>3 DEF FutureIsUnused, Future, Mentions, Creates, Closes, Drains, PtyOf, At, q
<1>5. CreationIsPrivate(p)'
  BY <1>0, <1>1, <1>2, <1>3, <1>13 DEF CreationIsPrivate, Creates, At, q, Terminates
<1>6. ReaderTookChild(p)'
  BY <1>0, <1>1, <1>2, <1>3 DEF ReaderTookChild, CreationIsPrivate, Creates, q, Terminates, At
<1>7. ClosedStaysClosed(p)'
  BY <1>0, <1>1, <1>2, <1>3, PtyIsPair DEF ClosedStaysClosed, Closes, PtyOf, At, Has, Known, q
<1>8. DrainedIsGone(p)'
  BY <1>0, <1>1, <1>2, <1>3, <1>13 DEF DrainedIsGone, CreationIsPrivate, Creates, At, q, Terminates
<1>9. IsOwned(p)'
  BY <1>0, <1>1, <1>2, <1>3 DEF IsOwned, Alive, Holds, Awaited, PtyOf, Doing, At, q
<1>10. LiveHasItsTab(p)'
  BY <1>0, <1>1, <1>2, <1>3 DEF LiveHasItsTab, Replaces, PtyOf, Doing, At, Has, Known, q
<1>11. TakesInput(p)'
  BY <1>0, <1>1, <1>2, <1>3, <1>13 DEF TakesInput, ReaderTookChild, PtyOf, At, Has, Known, q
<1>12. PendingIsReserved(p)'
  <2>1. Pending(p)' => Pending(p)
    <3>1. LeavesChild(p[1], p[2])' /\ p \notin strays' => Pending(p)
      BY <1>0, <1>2, <1>3 DEF Pending, Creates, At, q
    <3>2. ASSUME NEW d \in Caller PROVE Terminates(d, p)' <=> Terminates(d, p)
      BY <1>0, <1>1, <1>13 DEF Terminates, Closes, At
    <3>3. ASSUME NEW d \in Caller, Creates(d, p)', calls'[d].at # "output"
          PROVE  Creates(d, p) /\ calls'[d] = calls[d]
      BY <1>1, <1>13, <3>3
    <3> QED BY <1>2, <3>1, <3>2, <3>3 DEF Pending
  <2> QED BY <1>0, <1>2, <2>1 DEF PendingIsReserved, Known
<1> QED BY <1>4, <1>5, <1>6, <1>7, <1>8, <1>9, <1>10, <1>11, <1>12

LEMMA AttachOutputKeeps ==
    ASSUME PtyInvariant, NEW c \in Caller, AttachOutput(c), NEW p \in Pty
    PROVE  PtyIsKept(p)'
<1> USE DEF PtyInvariant, ManagerInvariant, PtysAreKept
<1>1. /\ calls[c].op \in {"create", "restart"} /\ calls[c].at = "output" /\ PtyIsKept(p)
      /\ PtyOf(c) \in Pty
  BY CallFacts DEF AttachOutput, At
<1>2. /\ UNCHANGED <<tabs, issued, live, strays, pty>>
      /\ p # PtyOf(c) => reader'[p] = reader[p]
      /\ p = PtyOf(c) => reader'[p] = "read" /\ reader[p] = "off"
      /\ IsLive(p[1], p[2])' = IsLive(p[1], p[2]) /\ LeavesChild(p[1], p[2])' = LeavesChild(p[1], p[2])
      /\ Known(p[1], p[2])' = Known(p[1], p[2]) /\ Alive(p)' = Alive(p)
  BY <1>1 DEF AttachOutput, registryVars, ptyVars, IsLive, LeavesChild, Known, Alive, PtysOK,
              PtyIsKept, CreationIsPrivate, Creates, Terminates, At
<1>3. \A d \in Caller : /\ Creates(d, p)' <=> (Creates(d, p) /\ d # c)
                        /\ Closes(d, p)' <=> (Closes(d, p) /\ d # c)
                        /\ Drains(d, p)' <=> (Drains(d, p) /\ d # c)
                        /\ Holds(d, p)' <=> (Holds(d, p) /\ d # c)
                        /\ Replaces(d, p)' <=> (Replaces(d, p) /\ d # c)
  BY NoMorePtys DEF AttachOutput
<1>4. /\ ~Drains(c, p) /\ ~Holds(c, p) /\ ~Replaces(c, p) /\ (p = PtyOf(c) => Creates(c, p))
      /\ \A d \in Caller : d # c => calls'[d] = calls[d]
  BY <1>1, Ends DEF AttachOutput, Drains, Holds, Replaces, Doing, Creates
<1> USE DEF PtyIsKept
<1>5. FutureIsUnused(p)'
  BY <1>1, <1>2, <1>3, <1>4 DEF FutureIsUnused, Future, Mentions
<1>6. CreationIsPrivate(p)'
  BY <1>1, <1>2, <1>3, <1>4 DEF CreationIsPrivate, Terminates, At
<1>7. ReaderTookChild(p)' /\ DrainedIsGone(p)' /\ LiveHasItsTab(p)'
  BY <1>1, <1>2, <1>3, <1>4 DEF ReaderTookChild, DrainedIsGone, LiveHasItsTab
<1>8. ClosedStaysClosed(p)'
  BY <1>1, <1>2, <1>3, <1>4 DEF ClosedStaysClosed, At, Has
<1>9. IsOwned(p)'
  BY <1>1, <1>2, <1>3, <1>4 DEF IsOwned, Awaited
<1>10. TakesInput(p)'
  BY <1>1, <1>2, <1>3, <1>4 DEF TakesInput, Has, At, PtyOf
<1>11. PendingIsReserved(p)'
  BY <1>1, <1>2, <1>3, <1>4 DEF PendingIsReserved, Pending, Terminates, At
<1> QED BY <1>5, <1>6, <1>7, <1>8, <1>9, <1>10, <1>11

LEMMA ReplaceGenerationKeeps ==
    ASSUME PtyInvariant, NEW c \in Caller, ReplaceGeneration(c), NEW p \in Pty
    PROVE  PtyIsKept(p)'
<1> USE DEF PtyInvariant, ManagerInvariant, PtysAreKept
<1>1. /\ calls[c].op = "restart" /\ calls[c].at = "replace" /\ PtyIsKept(p)
      /\ PtyOf(c) \in Pty /\ calls[c].old \in Generation /\ calls[c].old < calls[c].generation
  BY CallFacts DEF ReplaceGeneration, Doing, OldIsOlder
<1>2. PICK q \in Pty : q = <<calls[c].id, calls[c].old>> /\ q[1] = calls[c].id /\ q[2] = calls[c].old
  <2>1. PICK id \in TerminalId : id = calls[c].id
    BY <1>1 DEF PtyOf, Pty
  <2>2. PICK old \in Generation : old = calls[c].old
    BY <1>1
  <2>3. PICK q \in Pty : q = <<id, old>>
    BY DEF Pty
  <2> QED BY <2>1, <2>2, <2>3
<1>3. /\ Goto(c, IF LeavesChild(q[1], q[2]) THEN "kill" ELSE "spawn")
      /\ live' = IF IsLive(q[1], q[2]) THEN Without(live, q[1]) ELSE live
      /\ UNCHANGED <<tabs, issued, pty, reader, strays>>
  BY <1>2 DEF ReplaceGeneration, registryVars, ptyVars
<1>4. p = q <=> p[1] = q[1] /\ p[2] = q[2]
  BY <1>2, PtyIsPair
<1>5. /\ p = q => ~IsLive(p[1], p[2])' /\ ~LeavesChild(p[1], p[2])'
      /\ p # q => /\ IsLive(p[1], p[2])' <=> IsLive(p[1], p[2])
                  /\ LeavesChild(p[1], p[2])' <=> LeavesChild(p[1], p[2])
      /\ Known(p[1], p[2])' = Known(p[1], p[2]) /\ Alive(p)' = Alive(p)
  BY <1>3, <1>4 DEF IsLive, LeavesChild, Without, Known, Alive
<1>6. ~Known(q[1], q[2])
  <2>1. PICK r \in Pty : r = PtyOf(c) /\ r[1] = calls[c].id /\ r[2] = calls[c].generation
    BY <1>1 DEF PtyOf
  <2>2. ~Future(r)
    BY <1>1, <2>1 DEF PtyIsKept, FutureIsUnused, Mentions, Creates
  <2> QED BY <1>1, <1>2, <2>1, <2>2 DEF Future, Known, Generation, Pty
<1>7. /\ calls'[c].at \in {"kill", "spawn"} /\ calls'[c].op = calls[c].op
      /\ calls'[c].at = "kill" <=> LeavesChild(q[1], q[2])
      /\ calls'[c].id = calls[c].id /\ calls'[c].old = calls[c].old
      /\ PtyOf(c)' = PtyOf(c)
      /\ \A d \in Caller : d # c => calls'[d] = calls[d]
  BY <1>1, <1>3, GoesOn DEF PtyOf
<1>8. \A d \in Caller : /\ Creates(d, p)' <=> Creates(d, p)
                        /\ Closes(d, p)' <=> Closes(d, p)
                        /\ Drains(d, p)' <=> Drains(d, p)
  BY <1>1, <1>3, SamePtys
<1>9. \A d \in Caller : /\ Holds(d, p)' <=> (Holds(d, p) \/ (d = c /\ p = q /\ LeavesChild(p[1], p[2])))
                        /\ Replaces(d, p)' <=> (Replaces(d, p) /\ d # c)
  <2>1. ASSUME NEW d \in Caller, d # c
        PROVE  /\ Holds(d, p)' <=> Holds(d, p)
               /\ Replaces(d, p)' <=> Replaces(d, p)
    BY <1>7, <2>1, OthersHold
  <2>2. /\ ~Holds(c, p) /\ ~Replaces(c, p)'
        /\ Holds(c, p)' <=> p = q /\ LeavesChild(q[1], q[2])
    BY <1>1, <1>2, <1>7 DEF Holds, Replaces, Doing
  <2> QED BY <2>1, <2>2
<1>10. Replaces(c, p) => p = q
  BY <1>2 DEF Replaces
<1> USE DEF PtyIsKept
<1>11. FutureIsUnused(p)'
  BY <1>1, <1>3, <1>5, <1>8 DEF FutureIsUnused, Future, Mentions
<1>12. CreationIsPrivate(p)'
  BY <1>1, <1>3, <1>5, <1>7, <1>8 DEF CreationIsPrivate, Terminates, Closes, At
<1>13. ReaderTookChild(p)' /\ DrainedIsGone(p)'
  BY <1>1, <1>3, <1>5, <1>8 DEF ReaderTookChild, DrainedIsGone
<1>14. LiveHasItsTab(p)'
  BY <1>1, <1>3, <1>5, <1>9, <1>10 DEF LiveHasItsTab
<1>15. ClosedStaysClosed(p)'
  BY <1>1, <1>3, <1>5, <1>7, <1>8 DEF ClosedStaysClosed, Closes, At, Has
<1>16. IsOwned(p)'
  BY <1>1, <1>3, <1>5, <1>9 DEF IsOwned, Awaited
<1>17. TakesInput(p)'
  BY <1>1, <1>3, <1>5, <1>6, <1>7, <1>8 DEF TakesInput, Has, At, PtyOf
<1>18. PendingIsReserved(p)'
  BY <1>1, <1>3, <1>5, <1>7, <1>8 DEF PendingIsReserved, Pending, Terminates, Closes, At
<1> QED BY <1>11, <1>12, <1>13, <1>14, <1>15, <1>16, <1>17, <1>18

LEMMA KillReplacedKeeps ==
    ASSUME PtyInvariant, NEW c \in Caller, KillReplaced(c), NEW p \in Pty
    PROVE  PtyIsKept(p)'
<1> USE DEF PtyInvariant, ManagerInvariant, PtysAreKept
<1>1. /\ calls[c].op = "restart" /\ calls[c].at = "kill" /\ PtyIsKept(p) /\ PtyOf(c) \in Pty
      /\ <<calls[c].id, calls[c].old>> \in Pty
  BY CallFacts DEF KillReplaced, Doing, PtyOf, Pty
<1>2. /\ UNCHANGED <<tabs, issued, live, reader, strays>>
      /\ IsLive(p[1], p[2])' = IsLive(p[1], p[2]) /\ LeavesChild(p[1], p[2])' = LeavesChild(p[1], p[2])
      /\ Known(p[1], p[2])' = Known(p[1], p[2])
  BY DEF KillReplaced, registryVars, IsLive, LeavesChild, Known
<1>3. (Alive(p)' => Alive(p)) /\ (p = <<calls[c].id, calls[c].old>> => ~Alive(p)')
  BY <1>1, KillFacts DEF KillReplaced
<1>4. /\ calls'[c].at = "spawn" /\ calls'[c].op = calls[c].op /\ PtyOf(c)' = PtyOf(c)
      /\ \A d \in Caller : d # c => calls'[d] = calls[d]
  BY <1>1, GoesOn DEF KillReplaced, PtyOf
<1>5. \A d \in Caller : /\ Creates(d, p)' <=> Creates(d, p)
                        /\ Closes(d, p)' <=> Closes(d, p)
                        /\ Drains(d, p)' <=> Drains(d, p)
  BY <1>1, SamePtys DEF KillReplaced
<1>6. \A d \in Caller : /\ Holds(d, p)' <=> (Holds(d, p) /\ d # c)
                        /\ Replaces(d, p)' <=> Replaces(d, p)
  <2>1. ASSUME NEW d \in Caller, d # c
        PROVE  /\ Holds(d, p)' <=> Holds(d, p)
               /\ Replaces(d, p)' <=> Replaces(d, p)
    BY <1>4, <2>1, OthersHold
  <2>2. ~Holds(c, p)' /\ ~Replaces(c, p) /\ ~Replaces(c, p)'
    BY <1>1, <1>4 DEF Holds, Replaces, Doing
  <2> QED BY <2>1, <2>2
<1>7. Holds(c, p) => p = <<calls[c].id, calls[c].old>>
  BY <1>1 DEF Holds, Doing
<1> USE DEF PtyIsKept
<1>8. FutureIsUnused(p)'
  BY <1>1, <1>2, <1>5 DEF FutureIsUnused, Future, Mentions
<1>9. CreationIsPrivate(p)'
  BY <1>1, <1>2, <1>4, <1>5 DEF CreationIsPrivate, Terminates, At
<1>10. ReaderTookChild(p)' /\ DrainedIsGone(p)' /\ LiveHasItsTab(p)'
  BY <1>1, <1>2, <1>5, <1>6 DEF ReaderTookChild, DrainedIsGone, LiveHasItsTab
<1>11. ClosedStaysClosed(p)'
  BY <1>1, <1>2, <1>4, <1>5 DEF ClosedStaysClosed, Closes, At, Has
<1>12. IsOwned(p)'
  BY <1>1, <1>2, <1>3, <1>6, <1>7 DEF IsOwned, Awaited
<1>13. TakesInput(p)'
  BY <1>1, <1>2, <1>4, <1>5 DEF TakesInput, Has, At, PtyOf
<1>14. PendingIsReserved(p)'
  BY <1>1, <1>2, <1>4, <1>5 DEF PendingIsReserved, Pending, Terminates, At
<1> QED BY <1>8, <1>9, <1>10, <1>11, <1>12, <1>13, <1>14

LEMMA TerminateKeeps ==
    ASSUME PtyInvariant, NEW c \in Caller, Terminate(c), NEW p \in Pty
    PROVE  PtyIsKept(p)'
<1> USE DEF PtyInvariant, ManagerInvariant, PtysAreKept
<1>1. /\ calls[c].op = "close" /\ calls[c].at = "terminate" /\ PtyIsKept(p) /\ PtyOf(c) \in Pty
  BY CallFacts DEF Terminate, Doing
<1>2. PICK q \in Pty : q = PtyOf(c) /\ q[1] = calls[c].id /\ q[2] = calls[c].generation
  BY <1>1 DEF PtyOf
<1>3. /\ Goto(c, IF LeavesChild(q[1], q[2]) THEN "kill" ELSE "finish")
      /\ live' = IF IsLive(q[1], q[2]) THEN Without(live, q[1]) ELSE live
      /\ UNCHANGED <<tabs, issued, pty, reader, strays>>
  BY <1>2 DEF Terminate, registryVars, ptyVars
<1>4. p = q <=> p[1] = q[1] /\ p[2] = q[2]
  BY <1>2, PtyIsPair
<1>5. /\ p = q => ~IsLive(p[1], p[2])' /\ ~LeavesChild(p[1], p[2])'
      /\ p # q => /\ IsLive(p[1], p[2])' <=> IsLive(p[1], p[2])
                  /\ LeavesChild(p[1], p[2])' <=> LeavesChild(p[1], p[2])
      /\ Known(p[1], p[2])' = Known(p[1], p[2]) /\ Alive(p)' = Alive(p)
  BY <1>3, <1>4 DEF IsLive, LeavesChild, Without, Known, Alive
<1>6. Closes(c, p) <=> p = q
  BY <1>1, <1>2 DEF Closes
<1>7. /\ calls'[c].at \in {"kill", "finish"} /\ calls'[c].op = calls[c].op
      /\ calls'[c].at = "kill" <=> LeavesChild(q[1], q[2])
      /\ PtyOf(c)' = PtyOf(c)
      /\ \A d \in Caller : d # c => calls'[d] = calls[d]
  BY <1>1, <1>3, GoesOn DEF PtyOf
<1>8. \A d \in Caller : /\ Creates(d, p)' <=> Creates(d, p)
                        /\ Closes(d, p)' <=> Closes(d, p)
                        /\ Drains(d, p)' <=> Drains(d, p)
  BY <1>1, <1>3, SamePtys
<1>9. \A d \in Caller : /\ Holds(d, p)' <=> (Holds(d, p) \/ (d = c /\ p = q /\ LeavesChild(p[1], p[2])))
                        /\ Replaces(d, p)' <=> Replaces(d, p)
  <2>1. ASSUME NEW d \in Caller, d # c
        PROVE  /\ Holds(d, p)' <=> Holds(d, p)
               /\ Replaces(d, p)' <=> Replaces(d, p)
    BY <1>7, <2>1, OthersHold
  <2>2. /\ ~Holds(c, p) /\ ~Replaces(c, p) /\ ~Replaces(c, p)'
        /\ Holds(c, p)' <=> p = q /\ LeavesChild(q[1], q[2])
    BY <1>1, <1>2, <1>7 DEF Holds, Replaces, Doing
  <2> QED BY <2>1, <2>2
<1> USE DEF PtyIsKept
<1>10. FutureIsUnused(p)'
  BY <1>1, <1>3, <1>5, <1>8 DEF FutureIsUnused, Future, Mentions
<1>11. CreationIsPrivate(p)'
  BY <1>1, <1>3, <1>5, <1>6, <1>7, <1>8 DEF CreationIsPrivate, Creates, Terminates, LeavesChild, At
<1>12. ReaderTookChild(p)' /\ DrainedIsGone(p)'
  BY <1>1, <1>3, <1>5, <1>8 DEF ReaderTookChild, DrainedIsGone
<1>13. LiveHasItsTab(p)'
  BY <1>1, <1>3, <1>5, <1>9 DEF LiveHasItsTab
<1>14. ClosedStaysClosed(p)'
  BY <1>1, <1>3, <1>5, <1>6, <1>7, <1>8 DEF ClosedStaysClosed, At, Has
<1>15. IsOwned(p)'
  BY <1>1, <1>3, <1>5, <1>9 DEF IsOwned, Awaited
<1>16. TakesInput(p)'
  BY <1>1, <1>3, <1>5, <1>6, <1>7, <1>8 DEF TakesInput, ClosedStaysClosed, Has, At, PtyOf
<1>17. PendingIsReserved(p)'
  BY <1>1, <1>3, <1>5, <1>6, <1>7, <1>8 DEF PendingIsReserved, Pending, Creates, Terminates, At
<1> QED BY <1>10, <1>11, <1>12, <1>13, <1>14, <1>15, <1>16, <1>17

LEMMA KillClosedKeeps ==
    ASSUME PtyInvariant, NEW c \in Caller, KillClosed(c), NEW p \in Pty
    PROVE  PtyIsKept(p)'
<1> USE DEF PtyInvariant, ManagerInvariant, PtysAreKept
<1>1. /\ calls[c].op = "close" /\ calls[c].at = "kill" /\ PtyIsKept(p) /\ PtyOf(c) \in Pty
  BY CallFacts DEF KillClosed, Doing, PtyOf, Pty
<1>2. /\ UNCHANGED <<tabs, issued, live, reader, strays>>
      /\ IsLive(p[1], p[2])' = IsLive(p[1], p[2]) /\ LeavesChild(p[1], p[2])' = LeavesChild(p[1], p[2])
      /\ Known(p[1], p[2])' = Known(p[1], p[2])
  BY DEF KillClosed, registryVars, IsLive, LeavesChild, Known
<1>3. (Alive(p)' => Alive(p)) /\ (p = PtyOf(c) => ~Alive(p)')
  BY <1>1, KillFacts DEF KillClosed
<1>4. /\ calls'[c].at = "finish" /\ calls'[c].op = calls[c].op /\ PtyOf(c)' = PtyOf(c)
      /\ \A d \in Caller : d # c => calls'[d] = calls[d]
  BY <1>1, GoesOn DEF KillClosed, PtyOf
<1>5. \A d \in Caller : /\ Creates(d, p)' <=> Creates(d, p)
                        /\ Closes(d, p)' <=> Closes(d, p)
                        /\ Drains(d, p)' <=> Drains(d, p)
  BY <1>1, SamePtys DEF KillClosed
<1>6. \A d \in Caller : /\ Holds(d, p)' <=> (Holds(d, p) /\ d # c)
                        /\ Replaces(d, p)' <=> Replaces(d, p)
  <2>1. ASSUME NEW d \in Caller, d # c
        PROVE  /\ Holds(d, p)' <=> Holds(d, p)
               /\ Replaces(d, p)' <=> Replaces(d, p)
    BY <1>4, <2>1, OthersHold
  <2>2. ~Holds(c, p)' /\ ~Replaces(c, p) /\ ~Replaces(c, p)'
    BY <1>1, <1>4 DEF Holds, Replaces, Doing
  <2> QED BY <2>1, <2>2
<1>7. Holds(c, p) => p = PtyOf(c)
  BY <1>1 DEF Holds, Doing
<1> USE DEF PtyIsKept
<1>8. FutureIsUnused(p)'
  BY <1>1, <1>2, <1>5 DEF FutureIsUnused, Future, Mentions
<1>9. CreationIsPrivate(p)'
  BY <1>1, <1>2, <1>4, <1>5 DEF CreationIsPrivate, Terminates, At
<1>10. ReaderTookChild(p)' /\ DrainedIsGone(p)' /\ LiveHasItsTab(p)'
  BY <1>1, <1>2, <1>5, <1>6 DEF ReaderTookChild, DrainedIsGone, LiveHasItsTab
<1>11. ClosedStaysClosed(p)'
  BY <1>1, <1>2, <1>4, <1>5 DEF ClosedStaysClosed, Closes, At, Has
<1>12. IsOwned(p)'
  BY <1>1, <1>2, <1>3, <1>6, <1>7 DEF IsOwned, Awaited
<1>13. TakesInput(p)'
  BY <1>1, <1>2, <1>4, <1>5 DEF TakesInput, Has, At, PtyOf
<1>14. PendingIsReserved(p)'
  BY <1>1, <1>2, <1>4, <1>5 DEF PendingIsReserved, Pending, Terminates, At
<1> QED BY <1>8, <1>9, <1>10, <1>11, <1>12, <1>13, <1>14

LEMMA CloseFinishKeeps ==
    ASSUME PtyInvariant, NEW c \in Caller, CloseFinish(c), NEW p \in Pty
    PROVE  PtyIsKept(p)'
<1> USE DEF PtyInvariant, ManagerInvariant, PtysAreKept
<1>1. calls[c].op = "close" /\ calls[c].at = "finish" /\ PtyIsKept(p)
  BY DEF CloseFinish, Doing
<1>2. PICK q \in Pty : q = PtyOf(c) /\ q[1] = calls[c].id /\ q[2] = calls[c].generation
  BY <1>1, CallFacts DEF PtyOf
<1>3. /\ issued' = issued /\ DOMAIN tabs' \subseteq DOMAIN tabs
      /\ \A x \in DOMAIN tabs' : tabs'[x] = tabs[x]
      /\ ~Known(q[1], q[2])'
      /\ \A x \in DOMAIN tabs : x \notin DOMAIN tabs' => x = q[1] /\ Known(q[1], q[2])
  BY <1>2, TabIsRemoved DEF CloseFinish, RegistryInvariant
<1>4. /\ UNCHANGED <<live, pty, reader, strays>>
      /\ IsLive(p[1], p[2])' = IsLive(p[1], p[2]) /\ LeavesChild(p[1], p[2])' = LeavesChild(p[1], p[2])
      /\ Alive(p)' = Alive(p)
  BY DEF CloseFinish, ptyVars, IsLive, LeavesChild, Alive
<1>5. /\ Known(p[1], p[2])' => Known(p[1], p[2]) /\ tabs'[p[1]] = tabs[p[1]]
      /\ Known(p[1], p[2]) => Known(p[1], p[2])' \/ p = q
  BY <1>2, <1>3, PtyIsPair DEF Known
<1>6. \A d \in Caller : /\ Creates(d, p)' <=> (Creates(d, p) /\ d # c)
                        /\ Closes(d, p)' <=> (Closes(d, p) /\ d # c)
                        /\ Drains(d, p)' <=> (Drains(d, p) /\ d # c)
                        /\ Holds(d, p)' <=> (Holds(d, p) /\ d # c)
                        /\ Replaces(d, p)' <=> (Replaces(d, p) /\ d # c)
  BY NoMorePtys DEF CloseFinish
<1>7. /\ ~Creates(c, p) /\ ~Drains(c, p) /\ ~Holds(c, p) /\ ~Replaces(c, p) /\ (p = q => Closes(c, p))
      /\ \A d \in Caller : d # c => calls'[d] = calls[d]
  BY <1>1, <1>2, Ends DEF CloseFinish, Creates, Drains, Holds, Replaces, Doing, Closes
<1> USE DEF PtyIsKept
<1>8. FutureIsUnused(p)'
  BY <1>1, <1>3, <1>4, <1>6 DEF FutureIsUnused, Future, Mentions
<1>9. CreationIsPrivate(p)'
  BY <1>1, <1>4, <1>6, <1>7 DEF CreationIsPrivate, Terminates, At
<1>10. ReaderTookChild(p)' /\ DrainedIsGone(p)'
  BY <1>1, <1>4, <1>6 DEF ReaderTookChild, DrainedIsGone
<1>11. LiveHasItsTab(p)'
  <2>1. CASE p = q
    BY <1>1, <1>4, <1>7, <2>1 DEF LiveHasItsTab, ClosedStaysClosed, At
  <2>2. CASE p # q
    BY <1>1, <1>4, <1>5, <1>6, <1>7, <2>2 DEF LiveHasItsTab
  <2> QED BY <2>1, <2>2
<1>12. ClosedStaysClosed(p)'
  BY <1>1, <1>4, <1>5, <1>6, <1>7 DEF ClosedStaysClosed, At, Has
<1>13. IsOwned(p)'
  BY <1>1, <1>4, <1>6, <1>7 DEF IsOwned, Awaited
<1>14. TakesInput(p)'
  BY <1>1, <1>4, <1>5, <1>6, <1>7 DEF TakesInput, Has, At, PtyOf
<1>15. PendingIsReserved(p)'
  BY <1>1, <1>4, <1>5, <1>6, <1>7 DEF PendingIsReserved, Pending, Terminates, At
<1> QED BY <1>8, <1>9, <1>10, <1>11, <1>12, <1>13, <1>14, <1>15

LEMMA KillDrainedKeeps ==
    ASSUME PtyInvariant, NEW c \in Caller, KillDrained(c), NEW p \in Pty
    PROVE  PtyIsKept(p)'
<1> USE DEF PtyInvariant, ManagerInvariant, PtysAreKept
<1>1. /\ calls[c].op = "kill_all" /\ calls[c].at = "next" /\ PtyIsKept(p)
      /\ calls[c].drained \in SUBSET (TerminalId \X Generation \X BOOLEAN)
      /\ calls[c] \in KillAllCalls
  BY CallFacts, OpNamesCall DEF KillDrained, Doing, CallsOK
<1>2. PICK lt \in calls[c].drained :
          /\ KillIfThere(<<lt[1], lt[2]>>, lt[3])
          /\ calls' = [calls EXCEPT ![c].at = "finish", ![c].drained = @ \ {lt},
                                    ![c].id = lt[1], ![c].generation = lt[2]]
  BY DEF KillDrained
<1>3. /\ lt = <<lt[1], lt[2], lt[3]>> /\ lt[1] \in TerminalId /\ lt[2] \in Generation
      /\ lt[3] \in BOOLEAN
  BY <1>1
<1>4. PICK q \in Pty : q = <<lt[1], lt[2]>> /\ q[1] = lt[1] /\ q[2] = lt[2]
  <2>1. PICK x \in TerminalId, y \in Generation : x = lt[1] /\ y = lt[2]
    BY <1>3
  <2>2. PICK q \in Pty : q = <<x, y>>
    BY DEF Pty
  <2> QED BY <2>1, <2>2
<1>5. p = q <=> p[1] = lt[1] /\ p[2] = lt[2]
  BY <1>4, PtyIsPair
<1>6. /\ UNCHANGED <<tabs, issued, live, reader, strays>>
      /\ IsLive(p[1], p[2])' = IsLive(p[1], p[2]) /\ LeavesChild(p[1], p[2])' = LeavesChild(p[1], p[2])
      /\ Known(p[1], p[2])' = Known(p[1], p[2])
  BY DEF KillDrained, registryVars, IsLive, LeavesChild, Known
<1>7. (Alive(p)' => Alive(p)) /\ (lt[3] /\ p = q => ~Alive(p)')
  BY <1>2, <1>4, KillFacts
<1>8. /\ calls'[c].op = "kill_all" /\ calls'[c].at = "finish"
      /\ calls'[c].drained = calls[c].drained \ {lt}
      /\ calls'[c].id = lt[1] /\ calls'[c].generation = lt[2]
      /\ \A d \in Caller : d # c => calls'[d] = calls[d]
  BY <1>1, <1>2 DEF CallsOK, KillAllCalls
<1>9. Drains(c, p)' <=> Drains(c, p)
  <2>1. Drains(c, p) <=> \E there \in BOOLEAN : <<p[1], p[2], there>> \in calls[c].drained
    BY <1>1 DEF Drains, At
  <2>2. Drains(c, p)' <=> \/ \E there \in BOOLEAN : <<p[1], p[2], there>> \in calls[c].drained \ {lt}
                          \/ p = q
    BY <1>4, <1>8 DEF Drains, At, PtyOf
  <2>3. p = q => <<p[1], p[2], lt[3]>> \in calls[c].drained
    BY <1>2, <1>3, <1>5
  <2>4. ASSUME NEW there \in BOOLEAN, <<p[1], p[2], there>> = lt
        PROVE  p = q
    BY <1>3, <1>5, <2>4
  <2> QED BY <1>3, <2>1, <2>2, <2>3, <2>4
<1>10. /\ Holds(c, p)' => Holds(c, p)
       /\ Holds(c, p) => Holds(c, p)' \/ (lt[3] /\ p = q)
  <2>1. Holds(c, p) <=> <<p[1], p[2], TRUE>> \in calls[c].drained
    BY <1>1 DEF Holds, Doing
  <2>2. Holds(c, p)' <=> <<p[1], p[2], TRUE>> \in calls[c].drained \ {lt}
    BY <1>8 DEF Holds, Doing
  <2>3. ASSUME <<p[1], p[2], TRUE>> = lt
        PROVE  lt[3] /\ p = q
    <3>1. lt[1] = p[1] /\ lt[2] = p[2] /\ lt[3] = TRUE
      BY <2>3
    <3> QED BY <1>5, <3>1
  <2> QED BY <2>1, <2>2, <2>3
<1>11. /\ ~Creates(c, p) /\ ~Creates(c, p)' /\ ~Closes(c, p) /\ ~Closes(c, p)'
       /\ ~Replaces(c, p) /\ ~Replaces(c, p)'
  BY <1>1, <1>8 DEF Creates, Closes, Replaces, Doing
<1>12. ASSUME NEW d \in Caller, d # c
       PROVE  /\ Creates(d, p)' <=> Creates(d, p)
              /\ Closes(d, p)' <=> Closes(d, p)
              /\ Drains(d, p)' <=> Drains(d, p)
              /\ Holds(d, p)' <=> Holds(d, p)
              /\ Replaces(d, p)' <=> Replaces(d, p)
  BY <1>8, <1>12, OthersHold DEF Creates, Closes, Drains, PtyOf, At
<1>13. \A d \in Caller : /\ Creates(d, p)' <=> Creates(d, p)
                         /\ Closes(d, p)' <=> Closes(d, p)
                         /\ Drains(d, p)' <=> Drains(d, p)
                         /\ Replaces(d, p)' <=> Replaces(d, p)
  BY <1>9, <1>11, <1>12
<1> USE DEF PtyIsKept
<1>14. FutureIsUnused(p)'
  BY <1>1, <1>6, <1>13 DEF FutureIsUnused, Future, Mentions
<1>15. CreationIsPrivate(p)'
  BY <1>1, <1>6, <1>8, <1>11, <1>13 DEF CreationIsPrivate, Terminates, At
<1>16. ReaderTookChild(p)' /\ DrainedIsGone(p)' /\ LiveHasItsTab(p)'
  BY <1>1, <1>6, <1>13 DEF ReaderTookChild, DrainedIsGone, LiveHasItsTab
<1>17. ClosedStaysClosed(p)'
  BY <1>1, <1>6, <1>8, <1>11, <1>13 DEF ClosedStaysClosed, At, Has
<1>18. IsOwned(p)'
  BY <1>1, <1>6, <1>7, <1>10, <1>12 DEF IsOwned, Awaited
<1>19. TakesInput(p)'
  BY <1>1, <1>6, <1>8, <1>13 DEF TakesInput, Has, At, PtyOf
<1>20. PendingIsReserved(p)'
  BY <1>1, <1>6, <1>8, <1>11, <1>13 DEF PendingIsReserved, Pending, Terminates, At
<1> QED BY <1>14, <1>15, <1>16, <1>17, <1>18, <1>19, <1>20

LEMMA FinishDrainedKeeps ==
    ASSUME PtyInvariant, NEW c \in Caller, FinishDrained(c), NEW p \in Pty
    PROVE  PtyIsKept(p)'
<1> USE DEF PtyInvariant, ManagerInvariant, PtysAreKept
<1>1. calls[c].op = "kill_all" /\ calls[c].at = "finish" /\ PtyIsKept(p)
  BY DEF FinishDrained, Doing
<1>2. PICK id : id = calls[c].id
  OBVIOUS
<1>3. PICK g : g = calls[c].generation
  OBVIOUS
<1>4. p = PtyOf(c) <=> p[1] = id /\ p[2] = g
  BY <1>2, <1>3, PtyIsPair DEF PtyOf
<1>5. /\ issued' = issued /\ DOMAIN tabs' \subseteq DOMAIN tabs
      /\ \A x \in DOMAIN tabs' : tabs'[x] = tabs[x]
      /\ ~Known(id, g)'
      /\ \A x \in DOMAIN tabs : x \notin DOMAIN tabs' => x = id /\ Known(id, g)
  BY <1>2, <1>3, TabIsRemoved DEF FinishDrained, RegistryInvariant
<1>6. /\ UNCHANGED <<live, pty, reader, strays>>
      /\ IsLive(p[1], p[2])' = IsLive(p[1], p[2]) /\ LeavesChild(p[1], p[2])' = LeavesChild(p[1], p[2])
      /\ Alive(p)' = Alive(p)
  BY DEF FinishDrained, ptyVars, IsLive, LeavesChild, Alive
<1>7. /\ Known(p[1], p[2])' => Known(p[1], p[2]) /\ tabs'[p[1]] = tabs[p[1]]
      /\ Known(p[1], p[2]) => Known(p[1], p[2])' \/ p = PtyOf(c)
  BY <1>4, <1>5 DEF Known
<1>8. p = PtyOf(c) => Drains(c, p) /\ ~IsLive(p[1], p[2]) /\ ~Known(p[1], p[2])'
  BY <1>1, <1>4, <1>5 DEF Drains, At, PtyIsKept, DrainedIsGone
<1>9. \A d \in Caller : d # c => calls'[d] = calls[d]
  BY GoesOn, Ends, <1>1 DEF FinishDrained
<1>10. ASSUME NEW d \in Caller
       PROVE  /\ Creates(d, p)' <=> Creates(d, p)
              /\ Closes(d, p)' <=> Closes(d, p)
              /\ Drains(d, p)' => Drains(d, p)
              /\ Drains(d, p) => Drains(d, p)' \/ p = PtyOf(c)
              /\ Holds(d, p)' <=> Holds(d, p)
              /\ Replaces(d, p)' <=> Replaces(d, p)
  <2>1. CASE d # c
    BY <1>9, <2>1, OthersHold DEF Creates, Closes, Drains, PtyOf, At
  <2>2. CASE d = c
    <3>1. /\ ~Creates(c, p) /\ ~Closes(c, p) /\ ~Replaces(c, p)
          /\ Holds(c, p) <=> <<p[1], p[2], TRUE>> \in calls[c].drained
          /\ Drains(c, p) <=> \/ \E there \in BOOLEAN : <<p[1], p[2], there>> \in calls[c].drained
                              \/ p = PtyOf(c)
      BY <1>1 DEF Creates, Closes, Replaces, Doing, Holds, Drains, At
    <3>2. CASE calls[c].drained = {}
      <4>1. calls'[c].op = "idle" /\ calls'[c].at = "idle"
        BY <3>2, Ends DEF FinishDrained
      <4> QED BY <2>2, <3>1, <3>2, <4>1 DEF Creates, Closes, Replaces, Doing, Holds, Drains
    <3>3. CASE calls[c].drained # {}
      <4>1. calls'[c].op = "kill_all" /\ calls'[c].at = "next" /\ calls'[c].drained = calls[c].drained
        BY <1>1, <3>3, GoesOn DEF FinishDrained
      <4> QED BY <2>2, <3>1, <4>1 DEF Creates, Closes, Replaces, Doing, Holds, Drains, At
    <3> QED BY <3>2, <3>3
  <2> QED BY <2>1, <2>2
<1>11. ~Creates(c, p) /\ ~Closes(c, p)
  BY <1>1 DEF Creates, Closes
<1>12. At(c, "attach") /\ p = PtyOf(c) => FALSE
  BY <1>1 DEF At
<1> USE DEF PtyIsKept
<1>13. FutureIsUnused(p)'
  BY <1>1, <1>5, <1>6, <1>10 DEF FutureIsUnused, Future, Mentions
<1>14. CreationIsPrivate(p)'
  BY <1>1, <1>6, <1>9, <1>10, <1>11 DEF CreationIsPrivate, Terminates, At
<1>15. ReaderTookChild(p)' /\ DrainedIsGone(p)'
  BY <1>1, <1>6, <1>10 DEF ReaderTookChild, DrainedIsGone
<1>16. LiveHasItsTab(p)'
  BY <1>1, <1>6, <1>7, <1>8, <1>10 DEF LiveHasItsTab, LeavesChild
<1>17. ClosedStaysClosed(p)'
  BY <1>1, <1>6, <1>7, <1>9, <1>10, <1>11 DEF ClosedStaysClosed, At, Has
<1>18. IsOwned(p)'
  BY <1>1, <1>6, <1>10 DEF IsOwned, Awaited
<1>19. TakesInput(p)'
  BY <1>1, <1>6, <1>7, <1>8, <1>9, <1>10, <1>12 DEF TakesInput, Has, At, PtyOf
<1>20. PendingIsReserved(p)'
  BY <1>1, <1>6, <1>7, <1>9, <1>10, <1>11 DEF PendingIsReserved, Pending, Terminates, At
<1> QED BY <1>13, <1>14, <1>15, <1>16, <1>17, <1>18, <1>19, <1>20

LEMMA KillAllDoneKeeps ==
    ASSUME PtyInvariant, NEW c \in Caller, KillAllDone(c), NEW p \in Pty
    PROVE  PtyIsKept(p)'
<1> USE DEF PtyInvariant, ManagerInvariant, PtysAreKept
<1>1. /\ calls[c].op = "kill_all" /\ calls[c].at = "next" /\ calls[c].drained = {} /\ PtyIsKept(p)
  BY DEF KillAllDone, Doing
<1>2. /\ UNCHANGED <<tabs, issued, live, pty, reader, strays>>
      /\ IsLive(p[1], p[2])' = IsLive(p[1], p[2]) /\ LeavesChild(p[1], p[2])' = LeavesChild(p[1], p[2])
      /\ Known(p[1], p[2])' = Known(p[1], p[2]) /\ Alive(p)' = Alive(p)
  BY DEF KillAllDone, registryVars, ptyVars, IsLive, LeavesChild, Known, Alive
<1>3. ~Creates(c, p) /\ ~Closes(c, p) /\ ~Drains(c, p) /\ ~Holds(c, p) /\ ~Replaces(c, p)
  BY <1>1 DEF Creates, Closes, Drains, Holds, Replaces, Doing, At
<1>4. \A d \in Caller : /\ Creates(d, p)' <=> Creates(d, p)
                        /\ Closes(d, p)' <=> Closes(d, p)
                        /\ Drains(d, p)' <=> Drains(d, p)
                        /\ Holds(d, p)' <=> Holds(d, p)
                        /\ Replaces(d, p)' <=> Replaces(d, p)
  BY <1>3, NoMorePtys DEF KillAllDone
<1>5. \A d \in Caller : d # c => calls'[d] = calls[d]
  BY Ends DEF KillAllDone
<1> USE DEF PtyIsKept
<1>6. FutureIsUnused(p)'
  BY <1>1, <1>2, <1>4 DEF FutureIsUnused, Future, Mentions
<1>7. CreationIsPrivate(p)'
  BY <1>1, <1>2, <1>3, <1>4, <1>5 DEF CreationIsPrivate, Terminates, At
<1>8. ReaderTookChild(p)' /\ DrainedIsGone(p)' /\ LiveHasItsTab(p)'
  BY <1>1, <1>2, <1>4 DEF ReaderTookChild, DrainedIsGone, LiveHasItsTab
<1>9. ClosedStaysClosed(p)'
  BY <1>1, <1>2, <1>3, <1>4, <1>5 DEF ClosedStaysClosed, At, Has
<1>10. IsOwned(p)'
  BY <1>1, <1>2, <1>4 DEF IsOwned, Awaited
<1>11. TakesInput(p)'
  BY <1>1, <1>2, <1>4, <1>5 DEF TakesInput, Has, At, PtyOf
<1>12. PendingIsReserved(p)'
  BY <1>1, <1>2, <1>3, <1>4, <1>5 DEF PendingIsReserved, Pending, Terminates, At
<1> QED BY <1>6, <1>7, <1>8, <1>9, <1>10, <1>11, <1>12

-----------------------------------------------------------------------------
(* What the readers and the shells keep                                      *)

\* Where neither a tab, a command nor a reader moves, a shell can only end.
LEMMA QuietStepKeeps ==
    ASSUME PtyInvariant, NEW p \in Pty,
           UNCHANGED <<tabs, issued, live, reader, calls, strays>>, Alive(p)' => Alive(p)
    PROVE  PtyIsKept(p)'
<1>1. PtyIsKept(p)
  BY DEF PtyInvariant, PtysAreKept
<1>2. /\ IsLive(p[1], p[2])' <=> IsLive(p[1], p[2])
      /\ LeavesChild(p[1], p[2])' <=> LeavesChild(p[1], p[2])
      /\ Known(p[1], p[2])' <=> Known(p[1], p[2])
  BY DEF IsLive, LeavesChild, Known
<1>3. \A d \in Caller : /\ Creates(d, p)' <=> Creates(d, p)
                        /\ Closes(d, p)' <=> Closes(d, p)
                        /\ Drains(d, p)' <=> Drains(d, p)
                        /\ Holds(d, p)' <=> Holds(d, p)
                        /\ Replaces(d, p)' <=> Replaces(d, p)
  BY DEF Creates, Closes, Drains, Holds, Replaces, Doing, At, PtyOf
<1> USE DEF PtyIsKept
<1>4. FutureIsUnused(p)' /\ CreationIsPrivate(p)' /\ ReaderTookChild(p)' /\ DrainedIsGone(p)'
  BY <1>1, <1>2, <1>3 DEF FutureIsUnused, Future, Mentions, CreationIsPrivate, ReaderTookChild,
                          DrainedIsGone, Terminates, At
<1>5. ClosedStaysClosed(p)' /\ PendingIsReserved(p)'
  BY <1>1, <1>2, <1>3 DEF ClosedStaysClosed, PendingIsReserved, Pending, At, Has, Terminates
<1>6. IsOwned(p)' /\ LiveHasItsTab(p)'
  BY <1>1, <1>2, <1>3 DEF IsOwned, LiveHasItsTab, Awaited
<1>7. TakesInput(p)'
  BY <1>1, <1>2, <1>3 DEF TakesInput, Has, At, PtyOf
<1> QED BY <1>4, <1>5, <1>6, <1>7

\* A reader moves on: no command does, and no tab but the one it marks.
LEMMA ReaderKeeps ==
    ASSUME PtyInvariant, NEW q \in Pty,
           ReaderTake(q) \/ ReaderWait(q) \/ ReaderRemove(q) \/ ReaderMark(q), NEW p \in Pty
    PROVE  PtyIsKept(p)'
<1> USE DEF PtyInvariant, ManagerInvariant, PtysAreKept
<1>1. /\ UNCHANGED <<issued, pty, calls, strays>> /\ (Alive(p)' <=> Alive(p))
      /\ PtyIsKept(p) /\ PtyIsKept(q) /\ reader \in [Pty -> {"off", "read", "wait", "remove", "mark", "done"}]
  BY DEF ReaderTake, ReaderWait, ReaderRemove, ReaderMark, MarkExited, Become, registryVars, ptyVars,
         Alive, PtysOK
<1>2. p = q <=> p[1] = q[1] /\ p[2] = q[2]
  BY PtyIsPair
<1>3. \A d \in Caller : /\ Creates(d, p)' <=> Creates(d, p)
                        /\ Closes(d, p)' <=> Closes(d, p)
                        /\ Drains(d, p)' <=> Drains(d, p)
                        /\ Holds(d, p)' <=> Holds(d, p)
                        /\ Replaces(d, p)' <=> Replaces(d, p)
  BY <1>1 DEF Creates, Closes, Drains, Holds, Replaces, Doing, At, PtyOf
<1>4. p # q => reader'[p] = reader[p]
  BY <1>1 DEF ReaderTake, ReaderWait, ReaderRemove, ReaderMark, ReaderTo
<1>5. /\ reader[q] \in {"read", "wait", "remove", "mark"}
      /\ reader'[q] \in {"wait", "remove", "mark", "done"}
  BY <1>1 DEF ReaderTake, ReaderWait, ReaderRemove, ReaderMark, ReaderTo
<1>6. ~Future(q) /\ \A d \in Caller : ~Creates(d, q)
  BY <1>1, <1>5 DEF PtyIsKept, FutureIsUnused, CreationIsPrivate, Terminates, At
<1>7. /\ IsLive(p[1], p[2])' => IsLive(p[1], p[2])
      /\ LeavesChild(p[1], p[2])' => LeavesChild(p[1], p[2])
      /\ p # q => /\ IsLive(p[1], p[2])' <=> IsLive(p[1], p[2])
                  /\ LeavesChild(p[1], p[2])' <=> LeavesChild(p[1], p[2])
      /\ p = q => ~LeavesChild(p[1], p[2])'
  <2>1. CASE ReaderTake(q)
    <3>1. /\ q[1] \in TerminalId
          /\ LeavesChild(q[1], q[2]) => live' = [live EXCEPT ![q[1]].child = FALSE]
          /\ ~LeavesChild(q[1], q[2]) => live' = live
      BY <2>1, PtyIsPair DEF ReaderTake
    <3>2. CASE LeavesChild(q[1], q[2])
      <4>1. /\ DOMAIN live' = DOMAIN live
            /\ live'[q[1]].generation = q[2] /\ live'[q[1]].child = FALSE
            /\ live[q[1]].generation = q[2]
            /\ \A x \in DOMAIN live : x # q[1] => live'[x] = live[x]
        BY <3>1, <3>2 DEF LeavesChild, IsLive, LiveOK
      <4> QED BY <1>2, <3>2, <4>1 DEF LeavesChild, IsLive
    <3>3. CASE ~LeavesChild(q[1], q[2])
      BY <1>2, <3>1, <3>3 DEF LeavesChild, IsLive
    <3> QED BY <3>2, <3>3
  <2>2. CASE ReaderWait(q) \/ ReaderMark(q)
    <3>1. live' = live /\ ~LeavesChild(q[1], q[2])
      BY <1>1, <2>2 DEF ReaderWait, ReaderMark, PtyIsKept, ReaderTookChild
    <3> QED BY <1>2, <3>1 DEF LeavesChild, IsLive
  <2>3. CASE ReaderRemove(q)
    <3>1. live' = (IF IsLive(q[1], q[2]) THEN Without(live, q[1]) ELSE live) /\ ~LeavesChild(q[1], q[2])
      BY <1>1, <2>3 DEF ReaderRemove, PtyIsKept, ReaderTookChild
    <3> QED BY <1>2, <3>1 DEF LeavesChild, IsLive, Without
  <2> QED BY <2>1, <2>2, <2>3
<1>8. /\ DOMAIN tabs' = DOMAIN tabs
      /\ \A x \in DOMAIN tabs : tabs'[x].generation = tabs[x].generation
      /\ \A x \in DOMAIN tabs : \/ tabs'[x].status = tabs[x].status
                                \/ /\ x = q[1] /\ Known(q[1], q[2]) /\ reader[q] = "mark"
                                   /\ tabs[x].status = "running" /\ tabs'[x].status = "exited"
      /\ reader[q] = "mark" => ~Has(q[1], q[2], {"running"})'
  <2>1. CASE ReaderTake(q) \/ ReaderWait(q) \/ ReaderRemove(q)
    <3>1. tabs' = tabs /\ reader[q] # "mark"
      BY <2>1 DEF ReaderTake, ReaderWait, ReaderRemove, registryVars
    <3> QED BY <3>1
  <2>2. CASE ReaderMark(q)
    <3>1. CASE Has(q[1], q[2], {"running"})
      <4>1. /\ tabs' = [tabs EXCEPT ![q[1]].status = "exited"] /\ Known(q[1], q[2])
            /\ tabs[q[1]].status = "running" /\ reader[q] = "mark"
        BY <2>2, <3>1 DEF ReaderMark, MarkExited, Become, Has
      <4>2. tabs \in [DOMAIN tabs -> Record]
        BY DEF RegistryInvariant, TypeOK
      <4> QED BY <4>1, <4>2 DEF Record, Has, Known
    <3>2. CASE ~Has(q[1], q[2], {"running"})
      BY <2>2, <3>2 DEF ReaderMark, registryVars, Has, Known
    <3> QED BY <3>1, <3>2
  <2> QED BY <2>1, <2>2
<1>9. Known(p[1], p[2])' <=> Known(p[1], p[2])
  BY <1>8 DEF Known
<1> USE DEF PtyIsKept
<1>10. FutureIsUnused(p)'
  BY <1>1, <1>3, <1>4, <1>6, <1>7, <1>8 DEF FutureIsUnused, Future, Mentions
<1>11. CreationIsPrivate(p)'
  BY <1>1, <1>3, <1>4, <1>6, <1>7 DEF CreationIsPrivate, Terminates, At
<1>12. ReaderTookChild(p)'
  <2>1. CASE p # q
    BY <1>1, <1>4, <1>7, <2>1 DEF ReaderTookChild
  <2>2. CASE p = q
    <3>1. IsLive(p[1], p[2])' => reader'[q] \in {"wait", "remove"}
      <4>1. CASE ReaderTake(q) \/ ReaderWait(q)
        BY <1>1, <4>1 DEF ReaderTake, ReaderWait, ReaderTo
      <4>2. CASE ReaderRemove(q)
        BY <2>2, <4>2 DEF ReaderRemove, IsLive, Without
      <4>3. CASE ReaderMark(q)
        BY <1>1, <1>7, <2>2, <4>3 DEF ReaderMark, ReaderTookChild
      <4> QED BY <4>1, <4>2, <4>3
    <3> QED BY <1>7, <2>2, <3>1 DEF ReaderTookChild
  <2> QED BY <2>1, <2>2
<1>13. ClosedStaysClosed(p)'
  BY <1>1, <1>3, <1>7, <1>8, <1>9 DEF ClosedStaysClosed, At, Has, Known
<1>14. DrainedIsGone(p)' /\ LiveHasItsTab(p)'
  BY <1>1, <1>3, <1>7, <1>9 DEF DrainedIsGone, LiveHasItsTab
<1>15. IsOwned(p)'
  <2>1. CASE p # q
    BY <1>1, <1>3, <1>4, <1>7, <2>1 DEF IsOwned, Awaited
  <2>2. CASE p = q
    <3>1. Awaited(q) => ~Alive(q)
      BY DEF Awaited, ReaderTake, ReaderWait, ReaderRemove, ReaderMark, Alive
    <3>2. LeavesChild(q[1], q[2]) => reader'[q] = "wait"
      BY <1>1 DEF ReaderTake, ReaderWait, ReaderRemove, ReaderMark, ReaderTo, ReaderTookChild
    <3> QED BY <1>1, <1>3, <2>2, <3>1, <3>2 DEF IsOwned, Awaited
  <2> QED BY <2>1, <2>2
<1>16. TakesInput(p)'
  <2>1. CASE p # q
    BY <1>1, <1>3, <1>4, <1>7, <1>8, <1>9, <2>1 DEF TakesInput, Has, Known, At, PtyOf
  <2>2. CASE p = q
    <3>1. reader[q] # "mark" => reader'[q] \in {"wait", "remove", "mark"}
      BY <1>1 DEF ReaderTake, ReaderWait, ReaderRemove, ReaderMark, ReaderTo
    <3> QED BY <1>8, <2>2, <3>1 DEF TakesInput
  <2> QED BY <2>1, <2>2
<1>17. PendingIsReserved(p)'
  <2>1. Pending(p)' => Pending(p)
    BY <1>1, <1>3, <1>7 DEF Pending, Terminates, At
  <2>2. p = q /\ reader[q] = "mark" => ~Pending(p) \/ ~Has(q[1], q[2], {"running"})
    BY <1>1, <1>6 DEF Pending, Terminates, ReaderTookChild, ClosedStaysClosed, Has
  <2>3. \/ Known(p[1], p[2]) => tabs'[p[1]].status = tabs[p[1]].status
        \/ p = q /\ reader[q] = "mark" /\ Has(q[1], q[2], {"running"})
    BY <1>2, <1>8 DEF Known, Has
  <2> QED BY <1>1, <1>9, <2>1, <2>2, <2>3 DEF PendingIsReserved
<1> QED BY <1>10, <1>11, <1>12, <1>13, <1>14, <1>15, <1>16, <1>17

LEMMA OldIsOlderStep ==
    ASSUME PtyInvariant, ManagerNext
    PROVE  OldIsOlder'
<1> USE DEF PtyInvariant, ManagerInvariant, PtysAreKept
<1>1. SUFFICES ASSUME NEW d \in Caller, calls'[d].op = "restart"
               PROVE  calls'[d].old < calls'[d].generation
  BY DEF OldIsOlder
<1>2. ASSUME calls'[d] = calls[d]
      PROVE  calls'[d].old < calls'[d].generation
  BY <1>1, <1>2 DEF OldIsOlder
<1>3. ASSUME NEW c \in Caller, RestartBegin(c)
      PROVE  calls'[d].old < calls'[d].generation
  <2>1. PICK id \in DOMAIN tabs, new \in Generation :
            /\ Restart(id, tabs[id].generation, new)
            /\ Begin(c, "restart", RestartCall(id, tabs[id].generation, new))
    BY <1>3 DEF RestartBegin
  <2>2. PICK old : old = tabs[id].generation
    OBVIOUS
  <2>3. /\ calls'[c] = RestartCall(id, old, new)
        /\ d # c => calls'[d] = calls[d]
    BY <2>1, <2>2 DEF Begin, CallsOK
  <2>4. old < new
    <3>1. /\ tabs[id].key \in Partition /\ tabs[id].generation \in Generation
          /\ nextGeneration[tabs[id].key] \in Nat
          /\ tabs[id].generation <= nextGeneration[tabs[id].key]
      BY DEF RegistryInvariant, TypeOK, GenerationsAreAllocated, Record
    <3>2. new = nextGeneration[tabs[id].key] + 1
      BY <2>1 DEF Restart, AllocateGeneration
    <3> QED BY <2>2, <3>1, <3>2 DEF Generation
  <2> QED BY <1>2, <2>3, <2>4 DEF RestartCall
<1>4. ASSUME NEW c \in Caller, CreateBegin(c) \/ CloseBegin(c) \/ KillAllBegin(c)
      PROVE  calls'[d].old < calls'[d].generation
  <2>1. calls'[c].op # "restart" /\ (d # c => calls'[d] = calls[d])
    BY <1>4 DEF CreateBegin, CloseBegin, KillAllBegin, Begin, CreateCall, CloseCall, KillAllCall, CallsOK
  <2> QED BY <1>1, <1>2, <2>1
<1>5. ASSUME NEW c \in Caller, KillDrained(c)
      PROVE  calls'[d].old < calls'[d].generation
  <2>1. calls[c].op = "kill_all" /\ calls[c] \in KillAllCalls
    BY <1>5, OpNamesCall DEF KillDrained, Doing, CallsOK
  <2>2. calls'[c].op = "kill_all" /\ (d # c => calls'[d] = calls[d])
    BY <1>5, <2>1 DEF KillDrained, CallsOK, KillAllCalls
  <2> QED BY <1>1, <1>2, <2>2
<1>6. ASSUME NEW c \in Caller, NEW at, Goto(c, at), calls[c].op # "idle"
      PROVE  calls'[d].old < calls'[d].generation
  <2>1. CASE d = c
    BY <1>1, <1>6, <2>1, GoesOn DEF OldIsOlder
  <2>2. CASE d # c
    BY <1>2, <1>6, <2>2, GoesOn
  <2> QED BY <2>1, <2>2
<1>7. ASSUME NEW c \in Caller, Finish(c)
      PROVE  calls'[d].old < calls'[d].generation
  BY <1>1, <1>2, <1>7, Ends
<1>8. ASSUME NEW c \in Caller, CallGoesOn(c), ~KillDrained(c)
      PROVE  Finish(c) \/ \E at : Goto(c, at) /\ calls[c].op # "idle"
  <2>1. calls[c].at # "idle" => calls[c].op # "idle"
    BY CallFacts DEF Idle
  <2>2. ASSUME Spawn(c) PROVE \E at : Goto(c, at) /\ calls[c].op # "idle"
    BY <2>1, <2>2 DEF Spawn, At
  <2>3. ASSUME SpawnFailed(c) \/ Detach(c) \/ AttachOutput(c) \/ CloseFinish(c) \/ KillAllDone(c) PROVE Finish(c)
    BY <2>3 DEF SpawnFailed, Detach, AttachOutput, CloseFinish, KillAllDone
  <2>4. ASSUME Commit(c) \/ CommitRefused(c) \/ AttachLive(c) PROVE \E at : Goto(c, at) /\ calls[c].op # "idle"
    BY <2>1, <2>4 DEF Commit, CommitRefused, AttachLive, At
  <2>5. ASSUME ReplaceGeneration(c) \/ KillReplaced(c) \/ Terminate(c) \/ KillClosed(c)
        PROVE \E at : Goto(c, at) /\ calls[c].op # "idle"
    BY <2>5 DEF ReplaceGeneration, KillReplaced, Terminate, KillClosed, Doing
  <2>6. ASSUME FinishDrained(c) PROVE Finish(c) \/ \E at : Goto(c, at) /\ calls[c].op # "idle"
    BY <2>6 DEF FinishDrained, Doing
  <2> QED BY <1>8, <2>2, <2>3, <2>4, <2>5, <2>6 DEF CallGoesOn
<1>9. ASSUME NEW p \in Pty, ReaderGoesOn(p) \/ PtyWrite(p) \/ PtyEnd(p)
      PROVE  calls' = calls
  BY <1>9 DEF ReaderGoesOn, ReaderAppend, ReaderTake, ReaderWait, ReaderRemove, ReaderMark, PtyWrite, PtyEnd
<1> QED BY <1>2, <1>3, <1>4, <1>5, <1>6, <1>7, <1>8, <1>9 DEF ManagerNext, CallBegins

-----------------------------------------------------------------------------
(* The invariant holds, and what follows                                     *)

LEMMA PtyInitInvariant == ManagerInit => PtyInvariant
<1> SUFFICES ASSUME ManagerInit PROVE PtyInvariant
  OBVIOUS
<1>1. OldIsOlder
  BY DEF ManagerInit, OldIsOlder, Idle
<1>2. ASSUME NEW p \in Pty PROVE PtyIsKept(p)
  <2>1. /\ tabs = << >> /\ live = << >> /\ reader[p] = "off" /\ ~Alive(p)
        /\ \A c \in Caller : calls[c].op = "idle"
    BY DEF ManagerInit, Init, Alive, Idle
  <2>2. /\ ~IsLive(p[1], p[2]) /\ ~LeavesChild(p[1], p[2]) /\ ~Known(p[1], p[2])
        /\ \A c \in Caller : ~Mentions(c, p)
    BY <2>1 DEF IsLive, LeavesChild, Known, Mentions, Creates, Closes, Drains
  <2> QED BY <2>1, <2>2 DEF PtyIsKept, FutureIsUnused, CreationIsPrivate, ReaderTookChild,
                            ClosedStaysClosed, DrainedIsGone, IsOwned, LiveHasItsTab, TakesInput,
                            PendingIsReserved, Has, Mentions
<1> QED BY <1>1, <1>2, ManagerInitInvariant DEF PtyInvariant, PtysAreKept

LEMMA PtyNextInvariant == PtyInvariant /\ [ManagerNext]_managerVars => PtyInvariant'
<1> SUFFICES ASSUME PtyInvariant, [ManagerNext]_managerVars PROVE PtyInvariant'
  OBVIOUS
<1>1. ManagerInvariant'
  BY ManagerNextInvariant DEF PtyInvariant
<1>2. OldIsOlder'
  <2>1. CASE ManagerNext
    BY <2>1, OldIsOlderStep
  <2>2. CASE UNCHANGED managerVars
    BY <2>2 DEF managerVars, OldIsOlder, PtyInvariant, PtysAreKept
  <2> QED BY <2>1, <2>2
<1>3. ASSUME NEW p \in Pty PROVE PtyIsKept(p)'
  <2>1. CASE \E c \in Caller : CallBegins(c)
    BY <2>1, CreateBeginKeeps, RestartBeginKeeps, CloseBeginKeeps, KillAllBeginKeeps DEF CallBegins
  <2>2. CASE \E c \in Caller : CallGoesOn(c)
    BY <2>2, SpawnKeeps, SpawnFailedKeeps, CommitKeeps, CommitRefusedKeeps, DetachKeeps,
       AttachLiveKeeps, AttachOutputKeeps, ReplaceGenerationKeeps, KillReplacedKeeps, TerminateKeeps,
       KillClosedKeeps, CloseFinishKeeps, KillDrainedKeeps, FinishDrainedKeeps, KillAllDoneKeeps
       DEF CallGoesOn
  <2>3. ASSUME NEW q \in Pty, ReaderGoesOn(q), ~ReaderAppend(q) PROVE PtyIsKept(p)'
    BY <2>3, ReaderKeeps DEF ReaderGoesOn
  <2>4. ASSUME NEW q \in Pty, ReaderAppend(q) \/ PtyWrite(q) \/ PtyEnd(q) PROVE PtyIsKept(p)'
    <3>1. UNCHANGED <<tabs, issued, live, reader, calls, strays>>
      BY <2>4 DEF ReaderAppend, PtyWrite, PtyEnd, registryVars
    <3>2. Alive(p)' => Alive(p)
      BY <2>4 DEF ReaderAppend, PtyWrite, PtyEnd, Alive, PtyInvariant, ManagerInvariant, PtysOK
    <3> QED BY <3>1, <3>2, QuietStepKeeps
  <2>5. CASE UNCHANGED managerVars
    <3>1. UNCHANGED <<tabs, issued, live, reader, calls, strays, pty>>
      BY <2>5 DEF managerVars, registryVars, ptyVars
    <3> QED BY <3>1, QuietStepKeeps DEF Alive
  <2> QED BY <2>1, <2>2, <2>3, <2>4, <2>5 DEF ManagerNext
<1> QED BY <1>1, <1>2, <1>3 DEF PtyInvariant, PtysAreKept

\* Every PTY is accounted for in every reachable state, whatever overlaps.
THEOREM PtyInvariantHolds == ManagerSpec => []PtyInvariant
BY PtyInitInvariant, PtyNextInvariant, PTL DEF ManagerSpec

\* However commands overlap and shells end, nothing is left without an owner
\* but the strays of an attach that overlaps a close or a restart of its tab.
THEOREM EveryPtyHasAnOwner == ManagerSpec => []EveryPtyIsOwned
<1>1. PtyInvariant => EveryPtyIsOwned
  BY DEF PtyInvariant, PtysAreKept, PtyIsKept, IsOwned, EveryPtyIsOwned
<1> QED BY <1>1, PtyInvariantHolds, PTL

\* What a restart replaces has no tab any more.
LEMMA OldIsUnknown ==
    ASSUME PtyInvariant, NEW c \in Caller, calls[c].op = "restart"
    PROVE  ~Known(calls[c].id, calls[c].old)
<1>1. PICK r \in Pty : r = PtyOf(c) /\ r[1] = calls[c].id /\ r[2] = calls[c].generation
  BY CallFacts DEF PtyOf, PtyInvariant, ManagerInvariant
<1>2. ~Future(r)
  BY <1>1 DEF PtyInvariant, PtysAreKept, PtyIsKept, FutureIsUnused, Mentions, Creates
<1>3. calls[c].old \in Generation /\ calls[c].old < calls[c].generation
  BY CallFacts DEF PtyInvariant, ManagerInvariant, PtysAreKept, OldIsOlder
<1> QED BY <1>1, <1>2, <1>3 DEF Future, Known, Generation, Pty

\* A shell whose tab is gone, or has a newer generation, is on its way to be
\* killed: what CloseLease promises, but for strays and for shells that closed
\* their terminal themselves.
THEOREM NoPtyWithoutItsTab == ManagerSpec => []NoPtyOutlivesItsTab
<1>1. PtyInvariant => NoPtyOutlivesItsTab
  BY DEF PtyInvariant, PtysAreKept, PtyIsKept, IsOwned, LiveHasItsTab, NoPtyOutlivesItsTab
<1> QED BY <1>1, PtyInvariantHolds, PTL

\* A tab that is shown running has a terminal to write to, or its end is about
\* to be told, unless it is a stray's.
THEOREM RunningTabsTakeInput == ManagerSpec => []RunningTabsAreLive
<1>1. PtyInvariant => RunningTabsAreLive
  BY DEF PtyInvariant, PtysAreKept, PtyIsKept, TakesInput, RunningTabsAreLive
<1> QED BY <1>1, PtyInvariantHolds, PTL

-----------------------------------------------------------------------------
(* The quota and the processes                                               *)

LEMMA NumbersAreOrdered ==
    ASSUME NEW S, IsFiniteSet(S), NEW T \in SUBSET S
    PROVE  /\ IsFiniteSet(T) /\ Cardinality(T) \in Nat /\ Cardinality(S) \in Nat
           /\ Cardinality(T) <= Cardinality(S)
BY FS_Subset, FS_CardinalityType

Reserved == {id \in DOMAIN tabs : tabs[id].status \in {"creating", "running", "closing"}}

\* A holder has one of the places that are counted before a reservation.
LEMMA HoldersAreReserved ==
    ASSUME PtyInvariant
    PROVE  Holders \subseteq Reserved /\ IsFiniteSet(Reserved) /\ IsFiniteSet(Holders)
<1>1. Holders \subseteq Reserved
  BY DEF Holders, Reserved
<1>2. IsFiniteSet(Reserved)
  BY FS_Subset DEF Reserved, PtyInvariant, ManagerInvariant, RegistryInvariant
<1> QED BY <1>1, <1>2, FS_Subset

LEMMA FewerHolders ==
    ASSUME PtyInvariant, HoldersAreFew, Holders' \subseteq Holders
    PROVE  HoldersAreFew'
<1>1. IsFiniteSet(Holders)
  BY HoldersAreReserved
<1>2. Cardinality(Holders') <= Cardinality(Holders) /\ Cardinality(Holders') \in Nat /\ Cardinality(Holders) \in Nat
  BY <1>1, NumbersAreOrdered
<1> QED BY <1>2, QuotaAssumption DEF HoldersAreFew

LEMMA OneMoreHolder ==
    ASSUME PtyInvariant, LiveReservations < GlobalQuota, NEW t, Holders' \subseteq Holders \cup {t}
    PROVE  HoldersAreFew'
<1>1. Holders \subseteq Reserved /\ IsFiniteSet(Reserved) /\ IsFiniteSet(Holders)
  BY HoldersAreReserved
<1>2. Cardinality(Reserved) < GlobalQuota
  BY DEF LiveReservations, Reserved
<1>3. /\ Cardinality(Holders) <= Cardinality(Reserved)
      /\ Cardinality(Holders) \in Nat /\ Cardinality(Reserved) \in Nat
  BY <1>1, NumbersAreOrdered
<1>4. IsFiniteSet(Holders \cup {t}) /\ Cardinality(Holders \cup {t}) <= Cardinality(Holders) + 1
      /\ Cardinality(Holders \cup {t}) \in Nat
  <2>1. IsFiniteSet(Holders \cup {t})
        /\ Cardinality(Holders \cup {t})
               = IF t \in Holders THEN Cardinality(Holders) ELSE Cardinality(Holders) + 1
    BY <1>1, FS_AddElement
  <2> QED BY <1>3, <2>1
<1>5. /\ Cardinality(Holders') <= Cardinality(Holders \cup {t})
      /\ Cardinality(Holders') \in Nat
  BY <1>4, NumbersAreOrdered
<1> QED BY <1>2, <1>3, <1>4, <1>5, QuotaAssumption DEF HoldersAreFew

\* Only a create and a restart put a process on its way.
LEMMA PendingBegins ==
    ASSUME PtyInvariant, NEW c \in Caller, NEW id, calls'[c].id = id, calls'[c].op # "close",
           \A d \in Caller : d # c => calls'[d] = calls[d],
           UNCHANGED <<live, strays>>, NEW p \in Pty, p[1] # id
    PROVE  Pending(p)' => Pending(p)
<1>1. ~Creates(c, p)' /\ ~Terminates(c, p)'
  <2>1. p # PtyOf(c)'
    BY DEF PtyOf
  <2> QED BY <2>1 DEF Creates, Terminates, Closes
<1>2. ASSUME NEW d \in Caller, d # c
      PROVE  (Creates(d, p)' <=> Creates(d, p)) /\ (Terminates(d, p)' <=> Terminates(d, p))
  BY <1>2 DEF Creates, Terminates, Closes, At, PtyOf
<1>3. LeavesChild(p[1], p[2])' <=> LeavesChild(p[1], p[2])
  BY DEF LeavesChild, IsLive
<1> QED BY <1>1, <1>2, <1>3 DEF Pending

\* Any other command takes it at most one step further.
LEMMA PendingGoesOn ==
    ASSUME PtyInvariant, NEW c \in Caller, CloseBegin(c) \/ KillAllBegin(c) \/ CallGoesOn(c), NEW p \in Pty
    PROVE  Pending(p)' => Pending(p)
<1> USE DEF PtyInvariant, ManagerInvariant
<1>1. ASSUME NEW at, NEW from, Goto(c, at), calls[c].op # "idle", calls[c].at = from,
             LeavesChild(p[1], p[2])' /\ p \notin strays' => LeavesChild(p[1], p[2]),
             strays \subseteq strays',
             calls[c].op \in {"create", "restart"} /\ at \in {"replace", "kill", "spawn", "commit", "attach"}
                 => from \in {"replace", "kill", "spawn", "commit", "attach"},
             Closes(c, p) /\ at = "kill" => from = "kill" \/ LeavesChild(p[1], p[2])
      PROVE  Pending(p)' => Pending(p)
  <2>1. /\ calls'[c].at = at /\ calls'[c].op = calls[c].op /\ PtyOf(c)' = PtyOf(c)
        /\ \A d \in Caller : d # c => calls'[d] = calls[d]
    BY <1>1, GoesOn DEF PtyOf
  <2>2. (Creates(c, p)' <=> Creates(c, p)) /\ (Closes(c, p)' <=> Closes(c, p))
    BY <2>1 DEF Creates, Closes
  <2>3. ASSUME NEW d \in Caller, d # c
        PROVE  (Creates(d, p)' <=> Creates(d, p)) /\ (Terminates(d, p)' <=> Terminates(d, p))
    BY <2>1, <2>3 DEF Creates, Terminates, Closes, At, PtyOf
  <2>4. Creates(c, p)' /\ calls'[c].at \in {"replace", "kill", "spawn", "commit", "attach"} => Pending(p)
    BY <1>1, <2>1, <2>2 DEF Pending, Creates
  <2>5. Terminates(c, p)' /\ p \notin strays => Pending(p)
    BY <1>1, <2>1, <2>2 DEF Pending, Terminates, At
  <2>6. LeavesChild(p[1], p[2])' /\ p \notin strays' => Pending(p)
    BY <1>1 DEF Pending
  <2>7. ASSUME NEW d \in Caller, d # c, Creates(d, p)',
               calls'[d].at \in {"replace", "kill", "spawn", "commit", "attach"}
        PROVE  Pending(p)
    BY <2>1, <2>3, <2>7 DEF Pending
  <2>8. ASSUME NEW d \in Caller, d # c, Terminates(d, p)', p \notin strays
        PROVE  Pending(p)
    BY <2>3, <2>8 DEF Pending
  <2> QED BY <1>1, <2>4, <2>5, <2>6, <2>7, <2>8 DEF Pending
<1>2. ASSUME calls'[c].op \notin {"create", "restart"}, calls'[c].op = "close" => calls'[c].at # "kill",
             \A d \in Caller : d # c => calls'[d] = calls[d],
             LeavesChild(p[1], p[2])' => LeavesChild(p[1], p[2]), UNCHANGED strays
      PROVE  Pending(p)' => Pending(p)
  <2>1. ~Creates(c, p)' /\ ~Terminates(c, p)'
    BY <1>2 DEF Creates, Terminates, Closes, At
  <2>2. ASSUME NEW d \in Caller, d # c
        PROVE  /\ Creates(d, p)' <=> Creates(d, p)
               /\ Terminates(d, p)' <=> Terminates(d, p)
               /\ calls'[d] = calls[d]
    BY <1>2, <2>2 DEF Creates, Terminates, Closes, At, PtyOf
  <2> QED BY <1>2, <2>1, <2>2 DEF Pending
<1>3. live' = live => (LeavesChild(p[1], p[2])' <=> LeavesChild(p[1], p[2]))
  BY DEF LeavesChild, IsLive
<1>4. calls[c].at # "idle" => calls[c].op # "idle"
  BY CallFacts DEF Idle
<1>5. ASSUME Spawn(c) \/ Commit(c) \/ CommitRefused(c) \/ KillReplaced(c) \/ KillClosed(c)
      PROVE  Pending(p)' => Pending(p)
  <2>1. \E at : /\ Goto(c, at) /\ UNCHANGED <<live, strays>>
                 /\ \/ calls[c].at \in {"spawn", "commit", "kill"} /\ at # "kill"
                    \/ calls[c].at = "refused" /\ at = "detach"
    <3>1. CASE Spawn(c)
      BY <3>1 DEF Spawn, At
    <3>2. CASE Commit(c)
      BY <3>2 DEF Commit, At
    <3>3. CASE CommitRefused(c)
      BY <3>3 DEF CommitRefused, At
    <3>4. CASE KillReplaced(c)
      BY <3>4 DEF KillReplaced, Doing
    <3>5. CASE KillClosed(c)
      BY <3>5 DEF KillClosed, Doing
    <3> QED BY <1>5, <3>1, <3>2, <3>3, <3>4, <3>5
  <2> QED BY <1>1, <1>3, <1>4, <2>1
<1>6. ASSUME AttachLive(c)
      PROVE  Pending(p)' => Pending(p)
  <2>1. /\ Goto(c, "output") /\ calls[c].at = "attach" /\ strays \subseteq strays'
        /\ calls[c].op \in {"create", "restart"} /\ PtyOf(c) \in Pty
    BY <1>6, CallFacts DEF AttachLive, At
  <2>2. CASE p = PtyOf(c)
    BY <2>1, <2>2 DEF Pending, Creates
  <2>3. CASE p # PtyOf(c)
    <3>1. LeavesChild(p[1], p[2])' => LeavesChild(p[1], p[2])
      BY <1>6, <2>1, <2>3, PtyIsPair DEF AttachLive, LeavesChild, IsLive, Put, PtyOf
    <3> QED BY <1>1, <1>4, <2>1, <3>1
  <2> QED BY <2>2, <2>3
<1>7. ASSUME ReplaceGeneration(c)
      PROVE  Pending(p)' => Pending(p)
  <2>1. PICK at : /\ Goto(c, at) /\ calls[c].at = "replace" /\ calls[c].op = "restart" /\ UNCHANGED strays
                  /\ LeavesChild(p[1], p[2])' => LeavesChild(p[1], p[2])
    BY <1>7 DEF ReplaceGeneration, Doing, LeavesChild, IsLive, Without
  <2> QED BY <1>1, <2>1 DEF Closes
<1>8. ASSUME Terminate(c)
      PROVE  Pending(p)' => Pending(p)
  <2>1. PICK at : /\ Goto(c, at) /\ calls[c].at = "terminate" /\ calls[c].op = "close" /\ UNCHANGED strays
                  /\ LeavesChild(p[1], p[2])' => LeavesChild(p[1], p[2])
                  /\ at = "kill" => LeavesChild(calls[c].id, calls[c].generation)
    BY <1>8 DEF Terminate, Doing, LeavesChild, IsLive, Without
  <2>2. p = PtyOf(c) => p[1] = calls[c].id /\ p[2] = calls[c].generation
    BY DEF PtyOf
  <2> QED BY <1>1, <2>1, <2>2 DEF Closes
<1>9. ASSUME SpawnFailed(c) \/ Detach(c) \/ AttachOutput(c) \/ CloseFinish(c) \/ KillAllDone(c)
      PROVE  Pending(p)' => Pending(p)
  <2>1. Finish(c) /\ UNCHANGED <<live, strays>>
    BY <1>9 DEF SpawnFailed, Detach, AttachOutput, CloseFinish, KillAllDone
  <2> QED BY <1>2, <1>3, <2>1, Ends
<1>10. ASSUME FinishDrained(c)
       PROVE  Pending(p)' => Pending(p)
  <2>1. /\ Finish(c) \/ Goto(c, "next")
        /\ UNCHANGED <<live, strays>> /\ calls[c].op = "kill_all"
    BY <1>10 DEF FinishDrained, Doing
  <2>2. CASE Finish(c)
    BY <1>2, <1>3, <2>1, <2>2, Ends
  <2>3. CASE Goto(c, "next")
    BY <1>2, <1>3, <2>1, <2>3, GoesOn
  <2> QED BY <2>1, <2>2, <2>3
<1>11. ASSUME KillDrained(c)
       PROVE  Pending(p)' => Pending(p)
  <2>1. calls[c].op = "kill_all" /\ calls[c] \in KillAllCalls
    BY <1>11, OpNamesCall DEF KillDrained, Doing, CallsOK
  <2>2. /\ calls'[c].op = "kill_all" /\ (\A d \in Caller : d # c => calls'[d] = calls[d])
        /\ UNCHANGED <<live, strays>>
    BY <1>11, <2>1 DEF KillDrained, CallsOK, KillAllCalls
  <2> QED BY <1>2, <1>3, <2>2
<1>12. ASSUME CloseBegin(c) \/ KillAllBegin(c)
       PROVE  Pending(p)' => Pending(p)
  <2>1. /\ calls'[c].op \in {"close", "kill_all"} /\ calls'[c].at # "kill" /\ UNCHANGED strays
        /\ \A d \in Caller : d # c => calls'[d] = calls[d]
    BY <1>12 DEF CloseBegin, KillAllBegin, Begin, CloseCall, KillAllCall, CallsOK
  <2>2. LeavesChild(p[1], p[2])' => LeavesChild(p[1], p[2])
    BY <1>12 DEF CloseBegin, KillAllBegin, LeavesChild, IsLive
  <2> QED BY <1>2, <2>1, <2>2
<1> QED BY <1>5, <1>6, <1>7, <1>8, <1>9, <1>10, <1>11, <1>12 DEF CallGoesOn

\* Which steps add a holder: a reservation, and the restart of a tab that has none.
LEMMA HoldersStep ==
    ASSUME PtyInvariant, HoldersAreFew, [ManagerNext]_managerVars
    PROVE  HoldersAreFew'
<1> USE DEF PtyInvariant, ManagerInvariant
<1>1. ASSUME DOMAIN tabs' \subseteq DOMAIN tabs,
             \A id \in DOMAIN tabs' :
                 /\ tabs'[id].generation = tabs[id].generation
                 /\ \/ tabs'[id].status \in {tabs[id].status, "closing", "failed", "exited"}
                    \/ tabs[id].status = "creating",
             \A p \in Pty : Pending(p)' => Pending(p)
      PROVE  HoldersAreFew'
  <2>1. ASSUME NEW id \in Holders' PROVE id \in Holders
    <3>1. id \in DOMAIN tabs /\ tabs'[id].generation = tabs[id].generation
      BY <1>1 DEF Holders
    <3>2. CASE tabs'[id].status \in {"creating", "running"}
      BY <1>1, <3>1, <3>2 DEF Holders
    <3>3. ASSUME NEW p \in Pty, tabs'[id].status = "closing", p[1] = id, p[2] = tabs'[id].generation, Pending(p)'
          PROVE  id \in Holders
      <4>1. Pending(p) /\ Known(p[1], p[2])
        BY <1>1, <3>1, <3>3 DEF Known
      <4>2. tabs[id].status \in {"creating", "running", "closing"}
        BY <3>3, <4>1 DEF PtysAreKept, PtyIsKept, PendingIsReserved
      <4> QED BY <3>1, <3>3, <4>1, <4>2 DEF Holders
    <3> QED BY <3>2, <3>3 DEF Holders
  <2> QED BY <2>1, FewerHolders
<1>2. ASSUME NEW id \in DOMAIN tabs, NEW s \in {"running", "failed", "exited", "closing"},
             Become(id, s), s = "running" => tabs[id].status = "creating",
             \A p \in Pty : Pending(p)' => Pending(p)
      PROVE  HoldersAreFew'
  <2>1. /\ DOMAIN tabs' = DOMAIN tabs /\ tabs'[id].status = s
        /\ \A x \in DOMAIN tabs : /\ tabs'[x].generation = tabs[x].generation
                                  /\ x # id => tabs'[x] = tabs[x]
    BY <1>2, BecomeChanges DEF RegistryInvariant, TerminalStatus
  <2> QED BY <1>1, <1>2, <2>1
<1>3. ASSUME UNCHANGED tabs, \A p \in Pty : Pending(p)' => Pending(p) PROVE HoldersAreFew'
  BY <1>1, <1>3
<1>4. ASSUME NEW c \in Caller, NEW id, calls'[c].id = id, calls'[c].op # "close",
             \A d \in Caller : d # c => calls'[d] = calls[d], UNCHANGED <<live, strays>>,
             DOMAIN tabs' = DOMAIN tabs \cup {id}, \A x \in DOMAIN tabs \ {id} : tabs'[x] = tabs[x]
      PROVE  Holders' \subseteq Holders \cup {id}
  <2>1. SUFFICES ASSUME NEW x \in Holders', x # id PROVE x \in Holders
    OBVIOUS
  <2>2. x \in DOMAIN tabs /\ tabs'[x] = tabs[x]
    BY <1>4, <2>1 DEF Holders
  <2>3. ASSUME NEW p \in Pty, p[1] = x, Pending(p)' PROVE Pending(p)
    <3>1. p[1] # id
      BY <2>1, <2>3
    <3> QED BY <1>4, <2>3, <3>1, PendingBegins
  <2> QED BY <2>1, <2>2, <2>3 DEF Holders
<1>5. ASSUME NEW c \in Caller, CreateBegin(c) PROVE HoldersAreFew'
  <2>1. PICK k \in Partition, id \in TerminalId, g \in Generation :
            /\ Reserve(k, id, g) /\ Begin(c, "create", CreateCall(id, g))
            /\ UNCHANGED <<live, outputs, ptyVars, reader, strays>>
    BY <1>5 DEF CreateBegin
  <2>2. /\ DOMAIN tabs' = DOMAIN tabs \cup {id} /\ LiveReservations < GlobalQuota
        /\ \A x \in DOMAIN tabs \ {id} : tabs'[x] = tabs[x]
    BY <2>1 DEF Reserve, QuotaLeft
  <2>3. /\ calls'[c].id = id /\ calls'[c].op # "close"
        /\ \A d \in Caller : d # c => calls'[d] = calls[d]
    BY <2>1 DEF Begin, CallsOK, CreateCall
  <2>4. Holders' \subseteq Holders \cup {id}
    BY <1>4, <2>1, <2>2, <2>3
  <2> QED BY <2>2, <2>4, OneMoreHolder
<1>6. ASSUME NEW c \in Caller, RestartBegin(c) PROVE HoldersAreFew'
  <2>1. PICK id \in DOMAIN tabs, g \in Generation :
            /\ Restart(id, tabs[id].generation, g)
            /\ Begin(c, "restart", RestartCall(id, tabs[id].generation, g))
            /\ UNCHANGED <<live, outputs, ptyVars, reader, strays>>
    BY <1>6 DEF RestartBegin
  <2>2. DOMAIN tabs' = DOMAIN tabs \cup {id} /\ \A x \in DOMAIN tabs \ {id} : tabs'[x] = tabs[x]
    BY <2>1 DEF Restart
  <2>3. /\ calls'[c].id = id /\ calls'[c].op # "close"
        /\ \A d \in Caller : d # c => calls'[d] = calls[d]
    BY <2>1 DEF Begin, CallsOK, RestartCall
  <2>4. Holders' \subseteq Holders \cup {id}
    BY <1>4, <2>1, <2>2, <2>3
  <2>5. CASE tabs[id].status \in {"creating", "running"}
    <3>1. id \in Holders
      BY <2>5 DEF Holders
    <3> QED BY <2>4, <3>1, FewerHolders
  <2>6. CASE tabs[id].status \notin {"creating", "running"}
    BY <2>1, <2>4, <2>6, OneMoreHolder DEF Restart, Has
  <2> QED BY <2>5, <2>6
<1>7. ASSUME NEW c \in Caller, CloseBegin(c) \/ KillAllBegin(c) \/ CallGoesOn(c) PROVE HoldersAreFew'
  <2>1. \A p \in Pty : Pending(p)' => Pending(p)
    BY <1>7, PendingGoesOn
  <2>2. CASE CloseBegin(c)
    <3>1. \E id \in DOMAIN tabs : Become(id, "closing")
      BY <2>2 DEF CloseBegin, BeginClose
    <3> QED BY <1>2, <2>1, <3>1
  <2>3. CASE SpawnFailed(c) \/ CommitRefused(c)
    <3>1. UNCHANGED tabs \/ \E id \in DOMAIN tabs : Become(id, "failed")
      BY <2>3 DEF SpawnFailed, CommitRefused, MarkFailed, Known, registryVars
    <3> QED BY <1>2, <1>3, <2>1, <3>1
  <2>4. CASE Commit(c)
    <3>1. \/ UNCHANGED tabs
          \/ \E id \in DOMAIN tabs : Become(id, "running") /\ tabs[id].status = "creating"
      BY <2>4 DEF Commit, CommitRunning, Has, Known, registryVars
    <3> QED BY <1>2, <1>3, <2>1, <3>1
  <2>5. CASE CloseFinish(c) \/ FinishDrained(c)
    <3>1. UNCHANGED tabs \/ \E id, g : FinishClose(id, g)
      BY <2>5 DEF CloseFinish, FinishDrained, registryVars
    <3>2. /\ DOMAIN tabs' \subseteq DOMAIN tabs
          /\ \A id \in DOMAIN tabs' : tabs'[id] = tabs[id]
      BY <3>1 DEF FinishClose
    <3> QED BY <1>1, <2>1, <3>2
  <2>6. CASE \/ KillAllBegin(c) \/ Spawn(c) \/ Detach(c) \/ KillReplaced(c) \/ KillClosed(c) \/ KillDrained(c)
             \/ AttachLive(c) \/ AttachOutput(c) \/ ReplaceGeneration(c) \/ Terminate(c) \/ KillAllDone(c)
    <3>1. UNCHANGED tabs
      BY <2>6 DEF KillAllBegin, Spawn, Detach, KillReplaced, KillClosed, KillDrained, AttachLive, AttachOutput,
                  ReplaceGeneration, Terminate, KillAllDone, registryVars
    <3> QED BY <1>3, <2>1, <3>1
  <2> QED BY <1>7, <2>2, <2>3, <2>4, <2>5, <2>6 DEF CallGoesOn
<1>8. ASSUME UNCHANGED <<calls, strays>>,
             \A p \in Pty : LeavesChild(p[1], p[2])' => LeavesChild(p[1], p[2])
      PROVE  \A p \in Pty : Pending(p)' => Pending(p)
  BY <1>8 DEF Pending, Creates, Terminates, Closes, At, PtyOf
<1>9. ASSUME NEW q \in Pty, ReaderGoesOn(q) \/ PtyWrite(q) \/ PtyEnd(q) PROVE HoldersAreFew'
  <2>1. \A p \in Pty : LeavesChild(p[1], p[2])' => LeavesChild(p[1], p[2])
    BY <1>9 DEF ReaderGoesOn, ReaderAppend, ReaderTake, ReaderWait, ReaderRemove, ReaderMark, PtyWrite,
                PtyEnd, LeavesChild, IsLive, Without, LiveOK
  <2>2. UNCHANGED <<calls, strays>>
    BY <1>9 DEF ReaderGoesOn, ReaderAppend, ReaderTake, ReaderWait, ReaderRemove, ReaderMark, PtyWrite, PtyEnd
  <2>3. \A p \in Pty : Pending(p)' => Pending(p)
    BY <1>8, <2>1, <2>2
  <2>4. UNCHANGED tabs \/ \E id \in DOMAIN tabs : Become(id, "exited")
    BY <1>9 DEF ReaderGoesOn, ReaderAppend, ReaderTake, ReaderWait, ReaderRemove, ReaderMark, PtyWrite,
                PtyEnd, MarkExited, Has, Known, registryVars
  <2> QED BY <1>2, <1>3, <2>3, <2>4
<1>10. CASE UNCHANGED managerVars
  BY <1>3, <1>8, <1>10 DEF managerVars, registryVars, LeavesChild, IsLive
<1> QED BY <1>5, <1>6, <1>7, <1>9, <1>10 DEF ManagerNext, CallBegins

LEMMA HoldersInit == ManagerInit => HoldersAreFew
<1> SUFFICES ASSUME ManagerInit PROVE HoldersAreFew
  OBVIOUS
<1>1. Holders = {}
  BY DEF ManagerInit, Init, Holders
<1> QED BY <1>1, FS_EmptySet, QuotaAssumption DEF HoldersAreFew

\* A shell that counts has its tab in the quota.
LEMMA CountsIsHeld ==
    ASSUME PtyInvariant, NEW p \in Pty, Counts(p)
    PROVE  p[1] \in Holders /\ p[2] = tabs[p[1]].generation
<1>1. PtyIsKept(p) /\ Known(p[1], p[2])
  BY DEF PtyInvariant, PtysAreKept, Counts
<1>2. p = <<p[1], tabs[p[1]].generation>> /\ p[1] \in DOMAIN tabs
  BY <1>1, PtyIsPair DEF Known
<1>3. Pending(p)
  <2>1. CASE LeavesChild(p[1], p[2])
    BY <2>1 DEF Pending, Counts
  <2>2. ASSUME NEW c \in Caller, Holds(c, p) PROVE Pending(p)
    <3>1. calls[c].at \notin {"refused", "detach"} /\ ~Drains(c, p)
      BY <2>2 DEF Counts
    <3>2. CASE /\ calls[c].op \in {"create", "restart"} /\ p = PtyOf(c)
               /\ calls[c].at \in {"commit", "refused", "detach", "attach"}
      BY <3>1, <3>2 DEF Pending, Creates
    <3>3. CASE Doing(c, "restart", "kill") /\ p = <<calls[c].id, calls[c].old>>
      <4>1. p[1] = calls[c].id /\ p[2] = calls[c].old
        BY <3>3
      <4> QED BY <1>1, <3>3, <4>1, OldIsUnknown DEF Doing
    <3>4. CASE Doing(c, "close", "kill") /\ p = PtyOf(c)
      BY <3>4 DEF Pending, Terminates, Closes, Doing, At, Counts
    <3>5. CASE calls[c].op = "kill_all" /\ <<p[1], p[2], TRUE>> \in calls[c].drained
      BY <3>1, <3>5 DEF Drains
    <3> QED BY <2>2, <3>2, <3>3, <3>4, <3>5 DEF Holds
  <2> QED BY <1>1, <2>1, <2>2 DEF PtyIsKept, IsOwned, Counts
<1>4. tabs[p[1]].status \in {"creating", "running", "closing"}
  BY <1>1, <1>3 DEF PtyIsKept, PendingIsReserved
<1> QED BY <1>1, <1>2, <1>3, <1>4 DEF Holders, Known

\* The quota bounds the shells there are, not only the tabs that should have one:
\* each that counts has a tab of its own, and that tab has a place.
THEOREM QuotaCountsProcesses == ManagerSpec => []QuotaBoundsProcesses
<1>1. PtyInvariant /\ HoldersAreFew => QuotaBoundsProcesses
  <2> SUFFICES ASSUME PtyInvariant, HoldersAreFew PROVE QuotaBoundsProcesses
    OBVIOUS
  <2> DEFINE A == {p \in Pty : Counts(p)}
             own == [p \in A |-> p[1]]
  <2>1. \A p \in A : p = <<p[1], p[2]>> /\ p[1] \in Holders /\ p[2] = tabs[p[1]].generation
    BY CountsIsHeld, PtyIsPair
  <2>2. own \in Injection(A, Holders)
    <3>1. own \in [A -> Holders]
      BY <2>1
    <3>2. ASSUME NEW p \in A, NEW q \in A, own[p] = own[q] PROVE p = q
      BY <2>1, <3>2
    <3> QED BY <3>1, <3>2 DEF Injection, IsInjective
  <2>3. IsFiniteSet(Holders)
    BY HoldersAreReserved
  <2>4. IsFiniteSet(A) /\ Cardinality(A) <= Cardinality(Holders)
    BY <2>2, <2>3, FS_Injection
  <2>5. Cardinality(A) \in Nat /\ Cardinality(Holders) \in Nat
    BY <2>3, <2>4, FS_CardinalityType
  <2> QED BY <2>4, <2>5, QuotaAssumption DEF QuotaBoundsProcesses, HoldersAreFew
<1>2. ManagerSpec => []HoldersAreFew
  BY PtyInvariantHolds, HoldersInit, HoldersStep, PTL DEF ManagerSpec
<1> QED BY <1>1, <1>2, PtyInvariantHolds, PTL

-----------------------------------------------------------------------------
(* The output.                                                               *)

Increasing(s) == \A i, j \in DOMAIN s : i < j => s[i] < s[j]

\* A screen shows everything up to a sequence; with a gap, perhaps not all of it.
Shows(screen, last, gap) ==
    /\ Increasing(screen)
    /\ screen # <<>> => screen[Len(screen)] = last
    /\ gap \/ Len(screen) = last

Entries == [sequence : Nat, size : Nat]

\* The journal is the latest chunks.
Latest(journal, next) ==
    /\ Len(journal) < next
    /\ \A i \in DOMAIN journal : journal[i].sequence = next - Len(journal) + i - 1

StoreFields ==
    [next : Nat \ {0}, journal : Seq(Entries), checkpoint : Seq(Nat), watermark : Nat, ack : Nat, gap : BOOLEAN]

\* Nothing that the checkpoint does not show is missing from the journal.
Complete(s) == s.gap \/ s.next <= s.watermark + Len(s.journal) + 1

StoreOK(s) ==
    /\ s \in StoreFields
    /\ Latest(s.journal, s.next)
    /\ Complete(s)
    /\ Shows(s.checkpoint, s.watermark, s.gap)

\* A batch is a run of chunks.
Consecutive(b) ==
    /\ Len(b.chunks) > 0
    /\ b.last = b.first + Len(b.chunks) - 1
    /\ \A i \in DOMAIN b.chunks : b.chunks[i] = b.first + i - 1

Batches == {b \in [first : Nat, last : Nat, chunks : Seq(Nat)] : Consecutive(b)}

Outputs == [type : {"output"}, batch : Batches]

\* What a list may say, when the store has a gap or not.
Lists(gap) ==
    {f \in [type : {"listed"}, checkpoint : Seq(Nat), watermark : Nat, gap : BOOLEAN, journal : SUBSET Batches] :
        (f.gap => gap) /\ Shows(f.checkpoint, f.watermark, gap)}

Frames(gap) == Outputs \cup Lists(gap) \cup {Failed}

Requests(gap) ==
    {r \in [field : SnapshotFields, watermark : Nat, snapshot : Seq(Nat), link : Nat] :
        Shows(r.snapshot, r.watermark, gap)}

Tabs(gap) ==
    {t \in [present : BOOLEAN, last : Nat, paused : BOOLEAN, gap : BOOLEAN, screen : Seq(Nat)] :
        (t.gap => gap) /\ Shows(t.screen, t.last, gap)}

\* Every chunk is in the checkpoint of the store or in its journal, unless the
\* store has announced a gap (terminal_output.rs:56-62): a client that has lost
\* everything can be told everything.
NothingIsLost ==
    ~store.gap =>
        /\ Len(store.checkpoint) = store.watermark
        /\ \A n \in store.watermark + 1 .. store.next - 1 :
                \E i \in DOMAIN store.journal : store.journal[i].sequence = n

\* The inductive invariant.
StreamInvariant ==
    /\ StoreOK(store)
    /\ emitting \subseteq Outputs
    /\ receiver \in Seq(Outputs)
    /\ outgoing \in Seq(Frames(store.gap))
    /\ answers \in Seq(Frames(store.gap))
    /\ lists \in Nat /\ sent \in Nat
    /\ acks \subseteq Nat
    /\ checkpoints \subseteq Requests(store.gap)
    /\ tab \in Tabs(store.gap)
    /\ link \in [up : BOOLEAN, drops : Nat]

-----------------------------------------------------------------------------
(* The store.                                                                *)

\* A nonempty set of natural numbers has a least element.
LEMMA LeastNatural ==
    ASSUME NEW T \in SUBSET Nat, T # {}
    PROVE  \E m \in T : \A k \in T : m <= k
<1> DEFINE R == {ss \in Nat \X Nat : ss[1] < ss[2]}
<1>1. IsWellFoundedOn(R, Nat)
  <2>1. OpToRel(<, Nat) = R
    BY Zenon DEF OpToRel
  <2> QED
    BY <2>1, NatLessThanWellFounded, Zenon
<1>2. \E m \in T : \A k \in T : ~ (<<k, m>> \in R)
  <2> HIDE DEF R
  <2> QED
    BY <1>1, WFMin, Zenon
<1>3. PICK m \in T : \A k \in T : ~ (<<k, m>> \in R)
  BY <1>2
<1>4. \A k \in T : m <= k
  <2> TAKE k \in T
  <2>1. <<k, m>> \in Nat \X Nat /\ <<k, m>>[1] = k /\ <<k, m>>[2] = m
    OBVIOUS
  <2>2. ~ (k < m)
    BY <1>3, <2>1
  <2> QED
    BY <2>2
<1> QED
  BY <1>4

LEMMA NothingIsRetained == RetainedBytes(<<>>) = 0
<1> DEFINE Bytes == [n \in 0 .. 0 |-> 0]
           IsSum(f) == f = [n \in 0 .. Len(<<>>) |-> IF n = 0 THEN 0 ELSE f[n - 1] + <<>>[n].size]
<1>1. Len(<<>>) = 0
  OBVIOUS
<1>2. IsSum(Bytes)
  BY <1>1
<1>3. IsSum(CHOOSE f : IsSum(f))
  BY <1>2, Zenon
<1>4. (CHOOSE f : IsSum(f))[0] = 0
  BY <1>1, <1>3
<1> HIDE DEF Bytes
<1> QED
  BY <1>1, <1>4 DEF RetainedBytes

\* A journal without its first n entries.
LEMMA DropIsSequence ==
    ASSUME NEW journal \in Seq(Entries), NEW n \in 0 .. Len(journal)
    PROVE  /\ DropFirst(journal, n) \in Seq(Entries)
           /\ Len(DropFirst(journal, n)) = Len(journal) - n
           /\ \A i \in 1 .. Len(journal) - n : DropFirst(journal, n)[i] = journal[n + i]
  BY DEF DropFirst

LEMMA DropKeepsLatest ==
    ASSUME NEW journal \in Seq(Entries), NEW next \in Nat, Latest(journal, next),
           NEW n \in 0 .. Len(journal)
    PROVE  Latest(DropFirst(journal, n), next)
<1> DEFINE rest == DropFirst(journal, n)
<1>1. rest \in Seq(Entries) /\ Len(rest) = Len(journal) - n /\ \A i \in 1 .. Len(journal) - n : rest[i] = journal[n + i]
  BY DropIsSequence
<1>2. DOMAIN rest = 1 .. Len(journal) - n /\ DOMAIN journal = 1 .. Len(journal) /\ Len(journal) \in Nat
  BY <1>1
<1> HIDE DEF rest
<1>3. ASSUME NEW i \in DOMAIN rest PROVE rest[i].sequence = next - Len(rest) + i - 1
  <2>1. n + i \in DOMAIN journal /\ rest[i] = journal[n + i] /\ i \in Nat
    BY <1>1, <1>2
  <2>2. journal[n + i].sequence = next - Len(journal) + (n + i) - 1
    BY <2>1 DEF Latest
  <2> QED
    BY <1>1, <1>2, <2>1, <2>2
<1>4. Len(rest) < next
  BY <1>1, <1>2 DEF Latest
<1> QED
  BY <1>3, <1>4 DEF Latest, rest

\* What is dropped to keep the bound is a part of the journal, and keeps it.
LEMMA ExcessIsAPart ==
    ASSUME NEW journal \in Seq(Entries)
    PROVE  Excess(journal) \in 0 .. Len(journal) /\ Fits(DropFirst(journal, Excess(journal)))
<1> DEFINE T == {n \in 0 .. Len(journal) : Fits(DropFirst(journal, n))}
<1>1. Fits(DropFirst(journal, Len(journal)))
  <2>1. DropFirst(journal, Len(journal)) = <<>>
    BY DEF DropFirst
  <2> QED
    BY <2>1, NothingIsRetained, JournalBytesAssumption DEF Fits
<1>2. T # {} /\ T \in SUBSET Nat
  BY <1>1
<1>3. PICK m \in T : \A k \in T : m <= k
  BY <1>2, LeastNatural
<1>4. /\ m \in 0 .. Len(journal) /\ Fits(DropFirst(journal, m))
      /\ \A k \in 0 .. m - 1 : ~ Fits(DropFirst(journal, k))
  BY <1>3
<1> QED
  BY <1>4 DEF Excess

\* UpTo divides the journal.
LEMMA UpToIsAPart ==
    ASSUME NEW journal \in Seq(Entries), NEW next \in Nat, Latest(journal, next), NEW sequence \in Nat
    PROVE  /\ UpTo(journal, sequence) \in 0 .. Len(journal)
           /\ \A i \in 1 .. UpTo(journal, sequence) : journal[i].sequence <= sequence
<1> DEFINE off == next - Len(journal) - 1
           n == IF sequence <= off THEN 0 ELSE IF sequence - off >= Len(journal) THEN Len(journal) ELSE sequence - off
<1>1. Len(journal) \in Nat /\ off \in Nat /\ \A i \in 1 .. Len(journal) : journal[i].sequence = off + i
  BY DEF Latest
<1>2. n \in 0 .. Len(journal)
  BY <1>1
<1> HIDE DEF off
<1>3. \A i \in 1 .. n : journal[i].sequence <= sequence
  BY <1>1, <1>2
<1>4. n < Len(journal) => journal[n + 1].sequence > sequence
  BY <1>1, <1>2
<1> HIDE DEF n
<1> QED
  BY <1>2, <1>3, <1>4 DEF UpTo

LEMMA NewStoreIsOK == StoreOK(NewStore)
  BY DEF StoreOK, NewStore, NoCheckpoint, StoreFields, Latest, Complete, Shows, Increasing

\* Whoever shows something goes on to show it when a gap appears.
LEMMA ShowsForever ==
    ASSUME NEW screen, NEW last, NEW g \in BOOLEAN, NEW h \in BOOLEAN, g => h, Shows(screen, last, g)
    PROVE  Shows(screen, last, h)
  BY DEF Shows

LEMMA BoundKeepsStore ==
    ASSUME NEW s, StoreOK(s)
    PROVE  LET t == EnforceJournalBound(s)
           IN  StoreOK(t) /\ (s.gap => t.gap) /\ t.next = s.next
<1> DEFINE n == Excess(s.journal)
           t == EnforceJournalBound(s)
           lost == \E i \in 1 .. n : s.journal[i].sequence > s.watermark
<1>1. s \in StoreFields /\ s.journal \in Seq(Entries) /\ s.next \in Nat
  BY DEF StoreOK, StoreFields
<1>2. n \in 0 .. Len(s.journal)
  BY <1>1, ExcessIsAPart
<1>3. Latest(DropFirst(s.journal, n), s.next) /\ DropFirst(s.journal, n) \in Seq(Entries)
  BY <1>1, <1>2, DropKeepsLatest, DropIsSequence DEF StoreOK
<1>4. t = [s EXCEPT !.journal = DropFirst(s.journal, n), !.gap = s.gap \/ lost]
  BY DEF EnforceJournalBound
<1> HIDE DEF n, t, lost
<1> DEFINE gap == s.gap \/ lost
<1>5. gap \in BOOLEAN /\ s.gap \in BOOLEAN /\ (s.gap => gap)
  BY <1>1 DEF StoreFields
<1>6. /\ t \in StoreFields /\ t.journal = DropFirst(s.journal, n) /\ t.gap = gap
      /\ t.next = s.next /\ t.checkpoint = s.checkpoint /\ t.watermark = s.watermark
  BY <1>1, <1>3, <1>4, <1>5 DEF StoreFields
<1> HIDE DEF gap
<1>7. Shows(t.checkpoint, t.watermark, t.gap)
  BY <1>5, <1>6, ShowsForever DEF StoreOK
<1>9. Complete(t)
  <2> SUFFICES ASSUME ~ t.gap PROVE t.next <= t.watermark + Len(t.journal) + 1
    BY DEF Complete
  <2>1. ~ s.gap /\ ~ lost
    BY <1>6 DEF gap
  <2>2. Len(s.journal) \in Nat /\ s.watermark \in Nat /\ Len(t.journal) = Len(s.journal) - n
    BY <1>1, <1>2, <1>6, DropIsSequence DEF StoreFields
  <2>3. s.next <= s.watermark + Len(s.journal) + 1
    BY <2>1 DEF StoreOK, Complete
  <2>4. ASSUME n > 0 PROVE s.next <= s.watermark + (Len(s.journal) - n) + 1
    <3>1. n \in 1 .. n /\ n \in DOMAIN s.journal /\ s.journal[n] \in Entries
      BY <1>1, <1>2, <2>4
    <3>2. s.journal[n].sequence <= s.watermark
      BY <2>1, <2>2, <3>1 DEF lost, Entries
    <3>3. s.journal[n].sequence = s.next - Len(s.journal) + n - 1
      BY <3>1 DEF StoreOK, Latest
    <3> QED
      BY <1>1, <1>2, <2>2, <3>2, <3>3
  <2> QED
    BY <1>1, <1>2, <1>6, <2>2, <2>3, <2>4
<1>8. StoreOK(t) /\ (s.gap => t.gap) /\ t.next = s.next
  BY <1>3, <1>5, <1>6, <1>7, <1>9 DEF StoreOK
<1> QED
  BY <1>8 DEF t

LEMMA AppendKeepsStore ==
    ASSUME NEW s, StoreOK(s), NEW size \in Nat
    PROVE  StoreOK(AppendChunk(s, size)) /\ (s.gap => AppendChunk(s, size).gap)
<1> DEFINE chunk == [sequence |-> s.next, size |-> size]
           u == [s EXCEPT !.next = @ + 1, !.journal = Append(@, chunk)]
<1>1. /\ s \in StoreFields /\ s.journal \in Seq(Entries) /\ s.next \in Nat \ {0}
      /\ Latest(s.journal, s.next) /\ Shows(s.checkpoint, s.watermark, s.gap)
  BY DEF StoreOK, StoreFields
<1>2. chunk \in Entries /\ chunk.sequence = s.next
  BY <1>1 DEF Entries
<1> DEFINE j == Append(s.journal, chunk)
<1>3. j \in Seq(Entries) /\ s.next + 1 \in Nat \ {0}
  BY <1>1, <1>2
<1>4. Latest(j, s.next + 1)
  <2> HIDE DEF chunk
  <2>1. Len(j) = Len(s.journal) + 1 /\ DOMAIN j = 1 .. Len(s.journal) + 1 /\ Len(s.journal) \in Nat
    BY <1>1, <1>2
  <2>2. j[Len(s.journal) + 1] = chunk /\ \A i \in 1 .. Len(s.journal) : j[i] = s.journal[i]
    BY <1>1, <1>2
  <2>3. ASSUME NEW i \in DOMAIN j PROVE j[i].sequence = (s.next + 1) - Len(j) + i - 1
    <3>1. i \in 1 .. Len(s.journal) + 1
      BY <2>1, <2>3
    <3>2. CASE i = Len(s.journal) + 1
      <4>1. j[i].sequence = s.next
        BY <1>2, <2>2, <3>2
      <4> QED
        BY <1>1, <2>1, <3>2, <4>1
    <3>3. CASE i \in 1 .. Len(s.journal)
      <4>1. j[i] = s.journal[i] /\ i \in DOMAIN s.journal
        BY <1>1, <2>2, <3>3
      <4>2. s.journal[i].sequence = s.next - Len(s.journal) + i - 1
        BY <1>1, <4>1 DEF Latest
      <4> QED
        BY <1>1, <2>1, <3>3, <4>1, <4>2
    <3> QED
      BY <2>1, <3>1, <3>2, <3>3
  <2> QED
    BY <1>1, <2>1, <2>3 DEF Latest
<1> HIDE DEF chunk, j
<1>5. u = [s EXCEPT !.next = s.next + 1, !.journal = j]
  BY DEF j
<1> HIDE DEF u
<1>8. Complete(u)
  <2>1. Len(j) = Len(s.journal) + 1 /\ Len(s.journal) \in Nat /\ s.watermark \in Nat
    BY <1>1, <1>3, <1>2 DEF j, StoreFields
  <2>2. s.gap \/ s.next <= s.watermark + Len(s.journal) + 1
    BY DEF StoreOK, Complete
  <2>3. u.next = s.next + 1 /\ u.journal = j /\ u.gap = s.gap /\ u.watermark = s.watermark
    BY <1>1, <1>5 DEF StoreFields
  <2> QED
    BY <1>1, <2>1, <2>2, <2>3 DEF Complete
<1>6. StoreOK(u) /\ u.gap = s.gap
  BY <1>1, <1>3, <1>4, <1>5, <1>8 DEF StoreOK, StoreFields
<1>7. AppendChunk(s, size) = EnforceJournalBound(u)
  BY DEF AppendChunk, u, chunk
<1> QED
  BY <1>6, <1>7, BoundKeepsStore

LEMMA AckKeepsStore ==
    ASSUME NEW s, StoreOK(s), NEW sequence \in Nat
    PROVE  StoreOK(AckOutput(s, sequence)) /\ AckOutput(s, sequence).gap = s.gap
  BY DEF StoreOK, StoreFields, Complete, AckOutput

LEMMA CheckpointKeepsStore ==
    ASSUME NEW s, StoreOK(s), NEW watermark \in Nat, NEW snapshot \in Seq(Nat),
           Shows(snapshot, watermark, s.gap), AcceptsWatermark(s, watermark)
    PROVE  LET t == AcceptCheckpoint(s, watermark, snapshot)
           IN  StoreOK(t) /\ t.gap = s.gap
<1> DEFINE j == DropFirst(s.journal, UpTo(s.journal, watermark))
           t == AcceptCheckpoint(s, watermark, snapshot)
<1>1. /\ s \in StoreFields /\ s.journal \in Seq(Entries) /\ s.next \in Nat \ {0}
      /\ Latest(s.journal, s.next)
  BY DEF StoreOK, StoreFields
<1> DEFINE n == UpTo(s.journal, watermark)
<1>2. n \in 0 .. Len(s.journal) /\ \A i \in 1 .. n : s.journal[i].sequence <= watermark
  BY <1>1, UpToIsAPart
<1>3. Latest(j, s.next) /\ j \in Seq(Entries) /\ Len(j) = Len(s.journal) - n
  BY <1>1, <1>2, DropKeepsLatest, DropIsSequence
<1>4. t = [s EXCEPT !.watermark = watermark, !.checkpoint = snapshot, !.journal = j]
  BY DEF AcceptCheckpoint
<1> HIDE DEF j, t, n
<1>6. Complete(t)
  <2>1. t.next = s.next /\ t.watermark = watermark /\ t.journal = j /\ t.gap = s.gap
    BY <1>1, <1>4 DEF StoreFields
  <2>2. Len(s.journal) \in Nat /\ s.watermark \in Nat /\ s.watermark <= watermark
    BY <1>1 DEF StoreFields, AcceptsWatermark
  <2>3. s.gap \/ s.next <= s.watermark + Len(s.journal) + 1
    BY DEF StoreOK, Complete
  <2>4. ASSUME n > 0 PROVE s.next <= watermark + (Len(s.journal) - n) + 1
    <3>1. n \in 1 .. n /\ n \in DOMAIN s.journal
      BY <1>1, <1>2, <2>4
    <3>2. s.journal[n].sequence <= watermark
      BY <1>2, <3>1
    <3>3. s.journal[n].sequence = s.next - Len(s.journal) + n - 1
      BY <1>1, <3>1 DEF Latest
    <3> QED
      BY <1>1, <1>2, <2>2, <3>2, <3>3
  <2> QED
    BY <1>1, <1>2, <1>3, <2>1, <2>2, <2>3, <2>4 DEF Complete
<1>5. StoreOK(t) /\ t.gap = s.gap
  BY <1>1, <1>3, <1>4, <1>6 DEF StoreOK, StoreFields
<1> QED
  BY <1>5 DEF t

\* The merged batch of a list is a run of chunks.
LEMMA JournalIsConsecutive ==
    ASSUME NEW s, StoreOK(s), NEW after \in Nat
    PROVE  JournalFrom(s, after) \in SUBSET Batches
<1> DEFINE chunks == DropFirst(s.journal, UpTo(s.journal, after))
           batch == [first |-> chunks[1].sequence, last |-> chunks[Len(chunks)].sequence,
                     chunks |-> [i \in DOMAIN chunks |-> chunks[i].sequence]]
<1>1. s.journal \in Seq(Entries) /\ s.next \in Nat /\ Latest(s.journal, s.next)
  BY DEF StoreOK, StoreFields
<1>2. chunks \in Seq(Entries) /\ Latest(chunks, s.next)
  BY <1>1, UpToIsAPart, DropKeepsLatest, DropIsSequence
<1>3. JournalFrom(s, after) = IF chunks = <<>> THEN {} ELSE {batch}
  BY DEF JournalFrom
<1> HIDE DEF chunks
<1>4. ASSUME chunks # <<>> PROVE batch \in Batches
  <2>1. Len(chunks) \in Nat /\ Len(chunks) > 0 /\ DOMAIN chunks = 1 .. Len(chunks)
    BY <1>2, <1>4
  <2>2. \A i \in 1 .. Len(chunks) : chunks[i].sequence \in Nat /\ chunks[i].sequence = s.next - Len(chunks) + i - 1
    <3> TAKE i \in 1 .. Len(chunks)
    <3>1. chunks[i] \in Entries
      BY <1>2, <2>1
    <3>2. chunks[i].sequence \in Nat
      BY <3>1 DEF Entries
    <3>3. chunks[i].sequence = s.next - Len(chunks) + i - 1
      BY <1>2, <2>1 DEF Latest
    <3> QED
      BY <3>2, <3>3
  <2> DEFINE seqs == [i \in DOMAIN chunks |-> chunks[i].sequence]
  <2>3. seqs \in Seq(Nat) /\ Len(seqs) = Len(chunks) /\ DOMAIN seqs = 1 .. Len(chunks)
    BY <2>1, <2>2
  <2>4. \A i \in 1 .. Len(chunks) : seqs[i] = chunks[1].sequence + i - 1
    BY <1>1, <2>1, <2>2
  <2>5. chunks[Len(chunks)].sequence = chunks[1].sequence + Len(chunks) - 1
    BY <1>1, <2>1, <2>2
  <2>6. chunks[1].sequence \in Nat /\ chunks[Len(chunks)].sequence \in Nat
    BY <2>1, <2>2
  <2>7. batch = [first |-> chunks[1].sequence, last |-> chunks[Len(chunks)].sequence, chunks |-> seqs]
    OBVIOUS
  <2> HIDE DEF seqs, batch
  <2>8. batch \in [first : Nat, last : Nat, chunks : Seq(Nat)]
    BY <2>3, <2>6, <2>7
  <2>9. Consecutive(batch)
    BY <2>1, <2>3, <2>4, <2>5, <2>7 DEF Consecutive
  <2> QED
    BY <2>8, <2>9 DEF Batches
<1> HIDE DEF batch
<1> QED
  BY <1>3, <1>4

-----------------------------------------------------------------------------
(* The client's tab.                                                         *)

ResultOK(result, gap) ==
    result.tab \in Tabs(gap) /\ result.asks \in Nat /\ result.acks \subseteq Nat

LEMMA SameIsOK ==
    ASSUME NEW gap \in BOOLEAN, NEW t \in Tabs(gap)
    PROVE  ResultOK(Same(t), gap)
  BY DEF ResultOK, Same

LEMMA PauseIsOK ==
    ASSUME NEW gap \in BOOLEAN, NEW t \in Tabs(gap)
    PROVE  ResultOK(Pause(t), gap)
  BY DEF ResultOK, Pause, Tabs

\* A run of chunks past the end of an increasing screen.
LEMMA LongerScreen ==
    ASSUME NEW screen \in Seq(Nat), NEW last \in Nat, NEW gap \in BOOLEAN, Shows(screen, last, gap),
           NEW b \in Batches, b.first > last, gap \/ b.first = last + 1
    PROVE  screen \o b.chunks \in Seq(Nat) /\ Shows(screen \o b.chunks, b.last, gap)
<1> DEFINE long == screen \o b.chunks
<1>1. /\ b.chunks \in Seq(Nat) /\ b.first \in Nat /\ b.last \in Nat
      /\ Len(b.chunks) > 0 /\ b.last = b.first + Len(b.chunks) - 1
      /\ \A i \in DOMAIN b.chunks : b.chunks[i] = b.first + i - 1
  BY DEF Batches, Consecutive
<1> DEFINE n == Len(screen)
           m == Len(b.chunks)
<1>2. /\ n \in Nat /\ m \in Nat /\ m > 0
      /\ long \in Seq(Nat) /\ Len(long) = n + m /\ DOMAIN long = 1 .. n + m
      /\ \A i \in 1 .. n : long[i] = screen[i]
      /\ \A i \in 1 .. m : long[n + i] = b.chunks[i]
  BY <1>1
<1>3. \A i \in n + 1 .. n + m : long[i] = b.first + (i - n) - 1
  <2> TAKE i \in n + 1 .. n + m
  <2>1. i - n \in 1 .. m /\ i = n + (i - n)
    BY <1>2
  <2>2. long[n + (i - n)] = b.chunks[i - n]
    BY <1>2, <2>1
  <2>3. b.chunks[i - n] = b.first + (i - n) - 1
    BY <1>1, <2>1
  <2> QED
    BY <2>1, <2>2, <2>3
<1>4. \A i \in 1 .. n : screen[i] <= last /\ screen[i] \in Nat
  <2> TAKE i \in 1 .. n
  <2>1. screen # <<>> /\ screen[n] = last /\ screen[i] \in Nat /\ n \in DOMAIN screen /\ i \in DOMAIN screen
    BY <1>2 DEF Shows
  <2>2. i < n => screen[i] < screen[n]
    BY <2>1 DEF Shows, Increasing
  <2> QED
    BY <2>1, <2>2, <1>2
<1>5. \A i, j \in 1 .. n : i < j => screen[i] < screen[j]
  BY <1>2 DEF Shows, Increasing
<1>0. n \in Nat /\ m \in Nat /\ m > 0 /\ Len(long) = n + m /\ b.first \in Nat /\ b.last = b.first + m - 1
  BY <1>1, <1>2
<1> HIDE DEF long, n, m
<1>6. Increasing(long)
  <2> SUFFICES ASSUME NEW i \in 1 .. n + m, NEW j \in 1 .. n + m, i < j PROVE long[i] < long[j]
    BY <1>2 DEF Increasing
  <2>1. CASE j <= n
    BY <1>2, <1>5, <2>1
  <2>2. CASE i > n
    <3>1. i \in n + 1 .. n + m /\ j \in n + 1 .. n + m
      BY <1>0, <2>2
    <3>2. long[i] = b.first + (i - n) - 1 /\ long[j] = b.first + (j - n) - 1
      BY <1>3, <3>1
    <3> QED
      BY <1>0, <3>1, <3>2
  <2>3. CASE i <= n /\ j > n
    <3>1. long[i] <= last /\ long[i] \in Nat
      BY <1>2, <1>4, <2>3
    <3>2. long[j] >= b.first /\ long[j] \in Nat
      <4>1. j \in n + 1 .. n + m
        BY <1>0, <2>3
      <4>2. long[j] = b.first + (j - n) - 1
        BY <1>3, <4>1
      <4> QED
        BY <1>0, <4>1, <4>2
    <3> QED
      BY <1>1, <3>1, <3>2
  <2> QED
    BY <1>2, <2>1, <2>2, <2>3
<1>7. long[Len(long)] = b.last
  <2>1. n + m \in n + 1 .. n + m
    BY <1>0
  <2>2. long[n + m] = b.first + ((n + m) - n) - 1
    BY <1>3, <2>1
  <2> QED
    BY <1>0, <2>2
<1>8. gap \/ Len(long) = b.last
  <2>1. gap \/ n = last
    BY DEF Shows, n
  <2> QED
    BY <1>1, <1>2, <2>1 DEF m
<1>9. long \in Seq(Nat) /\ Shows(long, b.last, gap)
  BY <1>2, <1>6, <1>7, <1>8 DEF Shows
<1> QED
  BY <1>9 DEF long

LEMMA ApplyBatchIsOK ==
    ASSUME NEW gap \in BOOLEAN, NEW t \in Tabs(gap), NEW b \in Batches
    PROVE  ResultOK(ApplyBatch(t, b), gap)
<1>1. /\ t \in [present : BOOLEAN, last : Nat, paused : BOOLEAN, gap : BOOLEAN, screen : Seq(Nat)]
      /\ t.gap => gap
      /\ Shows(t.screen, t.last, gap)
  BY DEF Tabs
<1>2. b.first \in Nat /\ b.last \in Nat /\ t.last \in Nat /\ t.screen \in Seq(Nat)
  BY <1>1 DEF Batches
<1>3. CASE b.first <= t.last
  BY <1>3, SameIsOK DEF ApplyBatch
<1>4. CASE ~(b.first <= t.last) /\ (t.gap \/ b.first = t.last + 1)
  <2>1. b.first > t.last /\ (gap \/ b.first = t.last + 1)
    BY <1>1, <1>2, <1>4
  <2>2. t.screen \o b.chunks \in Seq(Nat) /\ Shows(t.screen \o b.chunks, b.last, gap)
    BY <1>1, <1>2, <2>1, LongerScreen
  <2> DEFINE u == [t EXCEPT !.screen = t.screen \o b.chunks, !.last = b.last]
  <2>3. u \in Tabs(gap)
    BY <1>1, <1>2, <2>2 DEF Tabs
  <2>4. Write(t, b) = [tab |-> u, asks |-> 0, acks |-> {b.last}]
    BY DEF Write
  <2> HIDE DEF u
  <2>5. ResultOK(Write(t, b), gap)
    BY <1>2, <2>3, <2>4 DEF ResultOK
  <2> QED
    BY <1>4, <2>5 DEF ApplyBatch
<1>5. CASE ~(b.first <= t.last) /\ ~(t.gap \/ b.first = t.last + 1)
  BY <1>5, PauseIsOK DEF ApplyBatch
<1> QED
  BY <1>3, <1>4, <1>5

LEMMA ApplyOutputIsOK ==
    ASSUME NEW gap \in BOOLEAN, NEW t \in Tabs(gap), NEW b \in Batches
    PROVE  ResultOK(ApplyOutput(t, b), gap)
  BY SameIsOK, ApplyBatchIsOK DEF ApplyOutput

LEMMA ApplySnapshotIsOK ==
    ASSUME NEW gap \in BOOLEAN, NEW t \in Tabs(gap), NEW f \in Lists(gap)
    PROVE  ResultOK(ApplySnapshot(t, f), gap)
<1> DEFINE restored ==
            IF f.checkpoint = NoCheckpoint
            THEN [t EXCEPT !.present = TRUE, !.paused = FALSE, !.gap = f.gap]
            ELSE [t EXCEPT !.present = TRUE, !.paused = FALSE, !.gap = f.gap,
                           !.screen = f.checkpoint, !.last = f.watermark]
<1>1. /\ f.checkpoint \in Seq(Nat) /\ f.watermark \in Nat /\ f.gap \in BOOLEAN /\ f.journal \in SUBSET Batches
      /\ f.gap => gap
      /\ Shows(f.checkpoint, f.watermark, gap)
  BY DEF Lists
<1>2. restored \in Tabs(gap)
  BY <1>1 DEF Tabs
<1>3. ApplySnapshot(t, f) = Replay(restored, f.journal)
  BY DEF ApplySnapshot
<1> HIDE DEF restored
<1>4. CASE f.journal = {}
  BY <1>2, <1>3, <1>4, SameIsOK DEF Replay
<1>5. CASE f.journal # {}
  <2>1. (CHOOSE batch \in f.journal : TRUE) \in Batches
    BY <1>1, <1>5
  <2> QED
    BY <1>2, <1>3, <1>5, <2>1, ApplyBatchIsOK DEF Replay
<1> QED
  BY <1>4, <1>5

-----------------------------------------------------------------------------
(* Steps.                                                                    *)

\* What is on its way stays right when a gap appears.
LEMMA FramesForever ==
    ASSUME NEW g \in BOOLEAN, NEW h \in BOOLEAN, g => h
    PROVE  /\ Frames(g) \subseteq Frames(h)
           /\ Requests(g) \subseteq Requests(h)
           /\ Tabs(g) \subseteq Tabs(h)
<1>1. Lists(g) \subseteq Lists(h)
  BY DEF Lists, Shows
<1>2. Requests(g) \subseteq Requests(h)
  BY DEF Requests, Shows
<1>3. Tabs(g) \subseteq Tabs(h)
  BY DEF Tabs, Shows
<1> QED
  BY <1>1, <1>2, <1>3 DEF Frames

LEMMA SequencesForever ==
    ASSUME NEW S, NEW T, S \subseteq T, NEW q \in Seq(S)
    PROVE  q \in Seq(T)
  OBVIOUS

LEMMA StreamInitOK == StreamInit => StreamInvariant
<1> SUFFICES ASSUME StreamInit PROVE StreamInvariant
  OBVIOUS
<1>1. StoreOK(store)
  BY NewStoreIsOK DEF StreamInit
<1>2. tab \in Tabs(store.gap)
  BY DEF StreamInit, NoTab, Tabs, Shows, Increasing
<1>3. link \in [up : BOOLEAN, drops : Nat] /\ lists \in Nat /\ sent \in Nat
  BY DEF StreamInit
<1> QED
  BY <1>1, <1>2, <1>3 DEF StreamInit, StreamInvariant

LEMMA OutputIsOK ==
    ASSUME NEW sequence \in Nat
    PROVE  Output(sequence) \in Outputs
<1> DEFINE b == [first |-> sequence, last |-> sequence, chunks |-> <<sequence>>]
<1>1. b \in [first : Nat, last : Nat, chunks : Seq(Nat)]
  OBVIOUS
<1>2. Consecutive(b)
  BY DEF Consecutive
<1>3. b \in Batches
  BY <1>1, <1>2 DEF Batches
<1> HIDE DEF b
<1>4. [type |-> "output", batch |-> b] \in Outputs
  BY <1>3 DEF Outputs
<1> QED
  BY <1>4 DEF Output, b

LEMMA HostSteps ==
    ASSUME StreamInvariant, AppendOutput \/ EmitOutput \/ ForwardEvent
    PROVE  StreamInvariant'
<1>1. StoreOK(store) /\ store \in StoreFields /\ store.gap \in BOOLEAN /\ store.next \in Nat
  BY DEF StreamInvariant, StoreOK, StoreFields
<1>2. CASE AppendOutput
  <2>1. PICK size \in Sizes : store' = AppendChunk(store, size) /\ emitting' = {Output(store.next)}
    BY <1>2 DEF AppendOutput
  <2>2. size \in Nat
    BY SizesAssumption, JournalBytesAssumption
  <2>3. StoreOK(store') /\ (store.gap => store'.gap)
    BY <1>1, <2>1, <2>2, AppendKeepsStore
  <2>4. store'.gap \in BOOLEAN
    BY <2>3 DEF StoreOK, StoreFields
  <2>5. emitting' \subseteq Outputs
    BY <1>1, <2>1, OutputIsOK
  <2>6. Frames(store.gap) \subseteq Frames(store'.gap) /\ checkpoints \subseteq Requests(store'.gap) /\ tab \in Tabs(store'.gap)
    BY <1>1, <2>3, <2>4, FramesForever DEF StreamInvariant
  <2>7. outgoing \in Seq(Frames(store'.gap)) /\ answers \in Seq(Frames(store'.gap))
    BY <2>6, SequencesForever DEF StreamInvariant
  <2> QED
    BY <1>2, <2>3, <2>5, <2>6, <2>7 DEF AppendOutput, StreamInvariant, commandVars
<1>3. CASE EmitOutput
  <2>1. PICK event \in emitting : receiver' = IF link.up THEN Publish(receiver, event) ELSE receiver
    BY <1>3 DEF EmitOutput
  <2>2. event \in Outputs /\ receiver \in Seq(Outputs)
    BY DEF StreamInvariant
  <2>3. Publish(receiver, event) \in Seq(Outputs)
    <3>1. CASE Len(receiver) < ReceiverCapacity
      BY <2>2, <3>1 DEF Publish
    <3>2. CASE ~(Len(receiver) < ReceiverCapacity)
      <4>1. receiver # <<>>
        BY <3>2, ReceiverCapacityAssumption
      <4>2. Tail(receiver) \in Seq(Outputs)
        BY <2>2, <4>1
      <4> QED
        BY <2>2, <3>2, <4>2 DEF Publish
    <3> QED
      BY <3>1, <3>2
  <2>4. receiver' \in Seq(Outputs)
    BY <2>1, <2>2, <2>3
  <2> QED
    BY <1>3, <2>4 DEF EmitOutput, StreamInvariant, commandVars
<1>4. CASE ForwardEvent
  <2>1. receiver \in Seq(Outputs) /\ receiver # <<>> /\ outgoing \in Seq(Frames(store.gap))
    BY <1>4 DEF ForwardEvent, StreamInvariant
  <2>2. Head(receiver) \in Outputs /\ Tail(receiver) \in Seq(Outputs)
    BY <2>1
  <2>3. Head(receiver) \in Frames(store.gap)
    BY <2>2 DEF Frames
  <2>4. receiver' \in Seq(Outputs) /\ outgoing' \in Seq(Frames(store.gap))
    BY <1>4, <2>1, <2>2, <2>3 DEF ForwardEvent
  <2> QED
    BY <1>4, <2>4 DEF ForwardEvent, StreamInvariant, hostVars, commandVars
<1> QED
  BY <1>2, <1>3, <1>4

LEMMA CommandSteps ==
    ASSUME StreamInvariant, RunList \/ QueueAnswer \/ RunAck \/ RunCheckpoint
    PROVE  StreamInvariant'
<1>1. StoreOK(store) /\ store \in StoreFields /\ store.gap \in BOOLEAN
  BY DEF StreamInvariant, StoreOK, StoreFields
<1>2. answers \in Seq(Frames(store.gap)) /\ outgoing \in Seq(Frames(store.gap)) /\ Failed \in Frames(store.gap)
  BY DEF StreamInvariant, Frames
<1>3. CASE RunList
  <2>1. JournalFrom(store, store.watermark) \in SUBSET Batches
    BY <1>1, JournalIsConsecutive DEF StoreFields
  <2>2. store.checkpoint \in Seq(Nat) /\ store.watermark \in Nat /\ Shows(store.checkpoint, store.watermark, store.gap)
    BY <1>1 DEF StoreOK, StoreFields
  <2>3. Listed \in Lists(store.gap)
    BY <1>1, <2>1, <2>2 DEF Listed, Lists
  <2>4. answers' \in Seq(Frames(store.gap))
    <3>1. Listed \in Frames(store.gap)
      BY <2>3 DEF Frames
    <3> QED
      BY <1>2, <1>3, <3>1 DEF RunList
  <2>5. lists' \in Nat
    BY <1>3 DEF RunList, StreamInvariant
  <2> QED
    BY <1>3, <2>4, <2>5 DEF RunList, StreamInvariant, hostVars
<1>4. CASE QueueAnswer
  <2>1. PICK i \in DOMAIN answers : outgoing' = Append(outgoing, answers[i]) /\ answers' = RemoveAt(answers, i)
    BY <1>4 DEF QueueAnswer
  <2>2. answers[i] \in Frames(store.gap) /\ i \in 1 .. Len(answers) /\ Len(answers) \in Nat
    BY <1>2, <2>1
  <2>3. outgoing' \in Seq(Frames(store.gap))
    BY <1>2, <2>1, <2>2
  <2>4. SubSeq(answers, 1, i - 1) \in Seq(Frames(store.gap)) /\ SubSeq(answers, i + 1, Len(answers)) \in Seq(Frames(store.gap))
    BY <1>2, <2>2
  <2>5. answers' \in Seq(Frames(store.gap))
    BY <2>1, <2>4 DEF RemoveAt
  <2> QED
    BY <1>4, <2>3, <2>5 DEF QueueAnswer, StreamInvariant, hostVars
<1>5. CASE RunAck
  <2>1. PICK sequence \in acks : store' = AckOutput(store, sequence) /\ acks' = acks \ {sequence}
    BY <1>5 DEF RunAck
  <2>2. StoreOK(store') /\ store'.gap = store.gap
    BY <1>1, <2>1, AckKeepsStore DEF StreamInvariant
  <2> QED
    BY <1>5, <2>1, <2>2 DEF RunAck, StreamInvariant
<1>6. CASE RunCheckpoint
  <2>1. PICK request \in checkpoints :
            /\ checkpoints' = checkpoints \ {request}
            /\ IF request.field = "dataBase64" /\ AcceptsWatermark(store, request.watermark)
               THEN /\ store' = AcceptCheckpoint(store, request.watermark, request.snapshot)
                    /\ UNCHANGED answers
               ELSE /\ answers' = IF link.up /\ request.link = link.drops
                                  THEN Append(answers, Failed) ELSE answers
                    /\ UNCHANGED store
    BY <1>6 DEF RunCheckpoint
  <2>2. /\ request.watermark \in Nat /\ request.snapshot \in Seq(Nat)
        /\ Shows(request.snapshot, request.watermark, store.gap)
    BY DEF StreamInvariant, Requests
  <2>3. StoreOK(store') /\ store'.gap = store.gap
    <3>1. CASE request.field = "dataBase64" /\ AcceptsWatermark(store, request.watermark)
      BY <1>1, <2>1, <2>2, <3>1, CheckpointKeepsStore
    <3>2. CASE ~ (request.field = "dataBase64" /\ AcceptsWatermark(store, request.watermark))
      BY <1>1, <2>1, <3>2
    <3> QED
      BY <3>1, <3>2
  <2>4. answers' \in Seq(Frames(store.gap))
    BY <1>2, <2>1
  <2> QED
    BY <1>6, <2>1, <2>3, <2>4 DEF RunCheckpoint, StreamInvariant
<1> QED
  BY <1>3, <1>4, <1>5, <1>6

LEMMA ClientSteps ==
    ASSUME StreamInvariant, ReceiveOutput \/ ReceiveListed \/ ReceiveError \/ SendCheckpoint
    PROVE  StreamInvariant'
<1>1. store.gap \in BOOLEAN /\ tab \in Tabs(store.gap) /\ lists \in Nat /\ acks \subseteq Nat
  BY DEF StreamInvariant, StoreOK, StoreFields
<1>2. ASSUME outgoing # <<>>
      PROVE  Head(outgoing) \in Frames(store.gap) /\ Tail(outgoing) \in Seq(Frames(store.gap))
  BY <1>2 DEF StreamInvariant
<1>3. CASE ReceiveOutput
  <2>1. Head(outgoing) \in Outputs
    BY <1>2, <1>3 DEF ReceiveOutput, Frames, Lists, Failed
  <2> DEFINE r == ApplyOutput(tab, Head(outgoing).batch)
  <2>2. ResultOK(r, store.gap)
    BY <1>1, <2>1, ApplyOutputIsOK DEF Outputs
  <2>3. tab' = r.tab /\ lists' = lists + r.asks /\ acks' = acks \cup r.acks
    BY <1>3 DEF ReceiveOutput, After
  <2> HIDE DEF r
  <2>4. r.tab \in Tabs(store.gap) /\ r.asks \in Nat /\ r.acks \subseteq Nat
    BY <2>2 DEF ResultOK
  <2>5. tab' \in Tabs(store.gap)
    BY <2>3, <2>4
  <2>6. lists' \in Nat
    BY <1>1, <2>3, <2>4
  <2>7. acks' \subseteq Nat
    BY <1>1, <2>3, <2>4
  <2> QED
    BY <1>2, <1>3, <2>5, <2>6, <2>7 DEF ReceiveOutput, StreamInvariant, hostVars
<1>4. CASE ReceiveListed
  <2>1. Head(outgoing) \in Lists(store.gap)
    BY <1>2, <1>4 DEF ReceiveListed, Frames, Outputs, Failed
  <2> DEFINE r == ApplySnapshot(tab, Head(outgoing))
  <2>2. ResultOK(r, store.gap)
    BY <1>1, <2>1, ApplySnapshotIsOK
  <2>3. tab' = r.tab /\ lists' = lists + r.asks /\ acks' = acks \cup r.acks
    BY <1>4 DEF ReceiveListed, After
  <2> HIDE DEF r
  <2>4. r.tab \in Tabs(store.gap) /\ r.asks \in Nat /\ r.acks \subseteq Nat
    BY <2>2 DEF ResultOK
  <2>5. tab' \in Tabs(store.gap)
    BY <2>3, <2>4
  <2>6. lists' \in Nat
    BY <1>1, <2>3, <2>4
  <2>7. acks' \subseteq Nat
    BY <1>1, <2>3, <2>4
  <2> QED
    BY <1>2, <1>4, <2>5, <2>6, <2>7 DEF ReceiveListed, StreamInvariant, hostVars
<1>5. CASE ReceiveError
  BY <1>1, <1>2, <1>5 DEF ReceiveError, StreamInvariant, hostVars
<1>6. CASE SendCheckpoint
  <2>0. PICK field \in SnapshotFields :
            checkpoints' = checkpoints \cup
                {[field |-> field, watermark |-> tab.last, snapshot |-> tab.screen, link |-> link.drops]}
    BY <1>6 DEF SendCheckpoint
  <2> DEFINE request == [field |-> field, watermark |-> tab.last, snapshot |-> tab.screen,
                         link |-> link.drops]
  <2>1. request \in Requests(store.gap)
    BY <1>1 DEF Tabs, Requests, StreamInvariant
  <2>2. checkpoints' = checkpoints \cup {request} /\ sent' = sent + 1
    BY <1>6, <2>0 DEF SendCheckpoint
  <2> HIDE DEF request
  <2>3. checkpoints' \subseteq Requests(store.gap) /\ sent' \in Nat
    BY <2>1, <2>2 DEF StreamInvariant
  <2> QED
    BY <1>6, <2>3 DEF SendCheckpoint, StreamInvariant, hostVars
<1> QED
  BY <1>3, <1>4, <1>5, <1>6

LEMMA LinkSteps ==
    ASSUME StreamInvariant, Disconnect \/ Reconnect
    PROVE  StreamInvariant'
<1>1. CASE Disconnect
  <2>1. acks' \subseteq Nat /\ checkpoints' \subseteq Requests(store.gap)
    BY <1>1 DEF Disconnect, StreamInvariant
  <2>2. link' \in [up : BOOLEAN, drops : Nat]
    BY <1>1 DEF Disconnect, StreamInvariant
  <2> QED
    BY <1>1, <2>1, <2>2 DEF Disconnect, StreamInvariant, hostVars
<1>2. CASE Reconnect
  <2>1. link' \in [up : BOOLEAN, drops : Nat]
    <3>1. link \in [up : BOOLEAN, drops : Nat] /\ link' = [link EXCEPT !.up = TRUE]
      BY <1>2 DEF Reconnect, StreamInvariant
    <3> QED
      BY <3>1
  <2>2. lists' \in Nat
    <3>1. lists \in Nat /\ lists' = lists + 1
      BY <1>2 DEF Reconnect, StreamInvariant
    <3> QED
      BY <3>1
  <2> QED
    BY <1>2, <2>1, <2>2 DEF Reconnect, StreamInvariant, hostVars
<1> QED
  BY <1>1, <1>2

LEMMA StreamStepOK == StreamInvariant /\ [StreamNext]_vars => StreamInvariant'
<1> SUFFICES ASSUME StreamInvariant, [StreamNext]_vars PROVE StreamInvariant'
  OBVIOUS
<1>1. CASE UNCHANGED vars
  BY <1>1 DEF vars, StreamInvariant
<1>2. CASE StreamNext
  BY <1>2, HostSteps, CommandSteps, ClientSteps, LinkSteps DEF StreamNext
<1> QED
  BY <1>1, <1>2

-----------------------------------------------------------------------------
(* The bound of the journal.                                                 *)

\* f adds up the sizes of the first n entries, for each n up to m.
AddsUp(f, journal, m) ==
    /\ f \in [0 .. m -> Nat] /\ f[0] = 0
    /\ \A n \in 1 .. m : f[n] = f[n - 1] + journal[n].size

\* The definition of bytes in RetainedBytes.
IsBytes(f, journal) ==
    f = [n \in 0 .. Len(journal) |-> IF n = 0 THEN 0 ELSE f[n - 1] + journal[n].size]

LEMMA SumsExist ==
    ASSUME NEW journal \in Seq(Entries)
    PROVE  \E f : AddsUp(f, journal, Len(journal))
<1> DEFINE T == {m \in 0 .. Len(journal) : ~ \E f : AddsUp(f, journal, m)}
<1>1. SUFFICES ASSUME T # {} PROVE FALSE
  BY <1>1
<1>2. PICK m \in T : \A k \in T : m <= k
  <2>1. T \in SUBSET Nat
    OBVIOUS
  <2> QED
    BY <1>1, <2>1, LeastNatural
<1>3. m \in 0 .. Len(journal) /\ ~ \E f : AddsUp(f, journal, m)
  BY <1>2
<1>4. CASE m = 0
  <2>1. AddsUp([n \in 0 .. 0 |-> 0], journal, 0)
    BY DEF AddsUp
  <2> QED
    BY <1>3, <1>4, <2>1
<1>5. CASE m # 0
  <2>1. m - 1 \in 0 .. Len(journal) /\ m \in 1 .. Len(journal) /\ ~ (m <= m - 1)
    BY <1>3, <1>5
  <2>2. PICK f : AddsUp(f, journal, m - 1)
    BY <1>2, <2>1
  <2> DEFINE g == [n \in 0 .. m |-> IF n = m THEN f[m - 1] + journal[m].size ELSE f[n]]
  <2>3. f \in [0 .. m - 1 -> Nat] /\ f[0] = 0 /\ \A n \in 1 .. m - 1 : f[n] = f[n - 1] + journal[n].size
    BY <2>2 DEF AddsUp
  <2>4. journal[m].size \in Nat /\ f[m - 1] \in Nat
    <3>1. journal[m] \in Entries
      BY <2>1
    <3>2. m - 1 \in 0 .. m - 1
      BY <2>1
    <3> QED
      BY <2>3, <3>1, <3>2 DEF Entries
  <2>5. g \in [0 .. m -> Nat] /\ g[0] = 0
    BY <1>5, <2>1, <2>3, <2>4
  <2>6. ASSUME NEW n \in 1 .. m PROVE g[n] = g[n - 1] + journal[n].size
    BY <2>1, <2>3
  <2>7. AddsUp(g, journal, m)
    <3> HIDE DEF g
    <3> QED
      BY <2>5, <2>6 DEF AddsUp
  <2> QED
    BY <1>3, <2>7
<1> QED
  BY <1>4, <1>5

LEMMA BytesAddUp ==
    ASSUME NEW journal \in Seq(Entries), NEW f, AddsUp(f, journal, Len(journal))
    PROVE  IsBytes(f, journal)
<1>1. f = [n \in 0 .. Len(journal) |-> f[n]]
  BY DEF AddsUp
<1>2. \A n \in 0 .. Len(journal) : f[n] = IF n = 0 THEN 0 ELSE f[n - 1] + journal[n].size
  BY DEF AddsUp
<1> QED
  BY <1>1, <1>2 DEF IsBytes

\* Sums over a journal and over a part of it differ by what was dropped.
LEMMA SumsOfParts ==
    ASSUME NEW journal \in Seq(Entries), NEW f, AddsUp(f, journal, Len(journal)),
           NEW n \in 0 .. Len(journal), NEW g, IsBytes(g, DropFirst(journal, n))
    PROVE  \A k \in 0 .. Len(journal) - n : g[k] = f[n + k] - f[n]
<1>1. /\ Len(DropFirst(journal, n)) = Len(journal) - n /\ Len(journal) \in Nat
      /\ \A i \in 1 .. Len(journal) - n : DropFirst(journal, n)[i] = journal[n + i]
  BY DropIsSequence
<1>2. /\ g[0] = 0
      /\ \A k \in 1 .. Len(journal) - n : g[k] = g[k - 1] + journal[n + k].size
  BY <1>1 DEF IsBytes
<1>3. /\ f \in [0 .. Len(journal) -> Nat]
      /\ \A k \in 1 .. Len(journal) : f[k] = f[k - 1] + journal[k].size
  BY DEF AddsUp
<1> DEFINE T == {k \in 0 .. Len(journal) - n : g[k] # f[n + k] - f[n]}
<1>4. SUFFICES ASSUME T # {} PROVE FALSE
  BY <1>4
<1>5. PICK m \in T : \A k \in T : m <= k
  <2>1. T \in SUBSET Nat
    OBVIOUS
  <2> QED
    BY <1>4, <2>1, LeastNatural
<1>6. m \in 0 .. Len(journal) - n /\ g[m] # f[n + m] - f[n]
  BY <1>5
<1>7. CASE m = 0
  <2>1. f[n + 0] = f[n] /\ f[n] \in Nat
    BY <1>3
  <2> QED
    BY <1>2, <1>6, <1>7, <2>1
<1>8. CASE m # 0
  <2>1. m - 1 \in 0 .. Len(journal) - n /\ m \in 1 .. Len(journal) - n /\ ~ (m <= m - 1)
    BY <1>1, <1>6, <1>8
  <2>2. g[m - 1] = f[n + (m - 1)] - f[n]
    BY <1>5, <2>1
  <2>3. g[m] = g[m - 1] + journal[n + m].size
    BY <1>2, <2>1
  <2>4. n + m \in 1 .. Len(journal) /\ n + (m - 1) = (n + m) - 1
    BY <1>1, <2>1
  <2>5. f[n + m] = f[(n + m) - 1] + journal[n + m].size
    BY <1>3, <2>4
  <2>6. f[n] \in Nat /\ f[n + m] \in Nat /\ f[(n + m) - 1] \in Nat /\ journal[n + m].size \in Nat
    <3>1. n \in 0 .. Len(journal) /\ n + m \in 0 .. Len(journal) /\ (n + m) - 1 \in 0 .. Len(journal)
      BY <1>1, <2>4
    <3>2. journal[n + m] \in Entries
      BY <2>4
    <3> QED
      BY <1>3, <3>1, <3>2 DEF Entries
  <2>7. g[m - 1] = f[(n + m) - 1] - f[n]
    BY <2>2, <2>4
  <2> QED
    BY <1>6, <2>3, <2>5, <2>6, <2>7
<1> QED
  BY <1>7, <1>8

LEMMA RetainedOfPart ==
    ASSUME NEW journal \in Seq(Entries), NEW f, AddsUp(f, journal, Len(journal)), NEW n \in 0 .. Len(journal)
    PROVE  RetainedBytes(DropFirst(journal, n)) = f[Len(journal)] - f[n]
<1>1. PICK rest : rest = DropFirst(journal, n)
  OBVIOUS
<1>2. rest \in Seq(Entries) /\ Len(rest) = Len(journal) - n /\ Len(journal) \in Nat
  BY <1>1, DropIsSequence
<1>3. PICK h : AddsUp(h, rest, Len(rest))
  BY <1>2, SumsExist
<1>4. IsBytes(h, rest)
  BY <1>2, <1>3, BytesAddUp
<1>5. IsBytes(CHOOSE b : IsBytes(b, rest), rest)
  BY <1>4, Zenon
<1>6. PICK g : g = CHOOSE b : IsBytes(b, rest)
  OBVIOUS
<1>7. RetainedBytes(rest) = g[Len(rest)]
  BY <1>6 DEF RetainedBytes, IsBytes
<1>8. IsBytes(g, DropFirst(journal, n))
  BY <1>1, <1>5, <1>6
<1>9. \A k \in 0 .. Len(journal) - n : g[k] = f[n + k] - f[n]
  BY <1>8, SumsOfParts
<1>10. Len(rest) \in 0 .. Len(journal) - n /\ n + Len(rest) = Len(journal)
  BY <1>2
<1>11. g[Len(rest)] = f[n + Len(rest)] - f[n]
  BY <1>9, <1>10
<1> QED
  BY <1>1, <1>7, <1>10, <1>11

\* A journal that loses its first entries retains no more than it did.
LEMMA PartsFit ==
    ASSUME NEW journal \in Seq(Entries), Fits(journal), NEW n \in 0 .. Len(journal)
    PROVE  Fits(DropFirst(journal, n))
<1>1. PICK f : AddsUp(f, journal, Len(journal))
  BY SumsExist
<1>2. 0 \in 0 .. Len(journal) /\ Len(journal) \in 0 .. Len(journal) /\ DropFirst(journal, 0) = journal
  BY DEF DropFirst
<1>3. f \in [0 .. Len(journal) -> Nat] /\ f[0] = 0
  BY <1>1 DEF AddsUp
<1>4. f[n] \in Nat /\ f[Len(journal)] \in Nat
  BY <1>2, <1>3
<1>5. RetainedBytes(journal) = f[Len(journal)] - f[0]
  BY <1>1, <1>2, RetainedOfPart
<1>6. RetainedBytes(DropFirst(journal, n)) = f[Len(journal)] - f[n]
  BY <1>1, RetainedOfPart
<1> QED
  BY <1>3, <1>4, <1>5, <1>6, JournalBytesAssumption DEF Fits

LEMMA JournalStaysWithin ==
    ASSUME StreamInvariant, Fits(store.journal), [StreamNext]_vars
    PROVE  Fits(store'.journal)
<1>1. StoreOK(store) /\ store \in StoreFields /\ store.journal \in Seq(Entries) /\ store.next \in Nat
  BY DEF StreamInvariant, StoreOK, StoreFields
<1>2. CASE UNCHANGED store
  BY <1>2
<1>3. CASE AppendOutput
  <2>1. PICK size \in Sizes : store' = AppendChunk(store, size)
    BY <1>3 DEF AppendOutput
  <2> DEFINE j == Append(store.journal, [sequence |-> store.next, size |-> size])
  <2>2. size \in Nat
    BY SizesAssumption, JournalBytesAssumption
  <2>3. j \in Seq(Entries)
    BY <1>1, <2>2 DEF Entries
  <2>4. store'.journal = DropFirst(j, Excess(j))
    BY <1>1, <2>1 DEF AppendChunk, EnforceJournalBound, StoreFields
  <2> QED
    BY <2>3, <2>4, ExcessIsAPart
<1>4. CASE RunAck
  <2>1. store'.journal = store.journal
    BY <1>1, <1>4 DEF RunAck, AckOutput, StoreFields
  <2> QED
    BY <2>1
<1>5. CASE RunCheckpoint
  <2>1. PICK request \in checkpoints :
            store' = AcceptCheckpoint(store, request.watermark, request.snapshot) \/ store' = store
    BY <1>5 DEF RunCheckpoint
  <2>2. request.watermark \in Nat
    BY DEF StreamInvariant, Requests
  <2>3. CASE store' = AcceptCheckpoint(store, request.watermark, request.snapshot)
    <3>1. store'.journal = DropFirst(store.journal, UpTo(store.journal, request.watermark))
      BY <1>1, <2>3 DEF AcceptCheckpoint, StoreFields
    <3>2. UpTo(store.journal, request.watermark) \in 0 .. Len(store.journal)
      BY <1>1, <2>2, UpToIsAPart DEF StoreOK
    <3> QED
      BY <1>1, <3>1, <3>2, PartsFit
  <2> QED
    BY <2>1, <2>3
<1> QED
  BY <1>2, <1>3, <1>4, <1>5
     DEF StreamNext, vars, hostVars, EmitOutput, ForwardEvent, RunList, QueueAnswer, ReceiveOutput,
         ReceiveListed, ReceiveError, SendCheckpoint, Disconnect, Reconnect

-----------------------------------------------------------------------------
(* The theorems about the output.                                            *)

\* The screen shows every chunk once, in order and without holes, unless the
\* store announced a gap; whatever is dropped, delayed, repeated or replayed.
THEOREM ScreensHaveNoHoles == StreamSpec => []ScreenHasNoHoles
<1>1. StreamInvariant => ScreenHasNoHoles
  BY DEF StreamInvariant, Tabs, Shows, Increasing, ScreenHasNoHoles
<1> QED
  BY <1>1, StreamInitOK, StreamStepOK, PTL DEF StreamSpec

\* The host has every chunk, in the checkpoint or in the journal, unless the
\* store announced a gap; whatever was bounded away, checkpointed or refused.
THEOREM StoresAreComplete == StreamSpec => []NothingIsLost
<1>1. StreamInvariant => NothingIsLost
  <2> SUFFICES ASSUME StreamInvariant, ~ store.gap,
                      NEW n \in store.watermark + 1 .. store.next - 1
               PROVE  \E i \in DOMAIN store.journal : store.journal[i].sequence = n
    BY DEF NothingIsLost, StreamInvariant, StoreOK, Shows
  <2>1. /\ store.journal \in Seq(Entries) /\ store.next \in Nat /\ store.watermark \in Nat
        /\ Latest(store.journal, store.next)
        /\ store.next <= store.watermark + Len(store.journal) + 1
    BY DEF StreamInvariant, StoreOK, StoreFields, Complete
  <2> DEFINE i == n - store.next + Len(store.journal) + 1
  <2>2. i \in DOMAIN store.journal
    BY <2>1 DEF Latest
  <2>3. store.journal[i].sequence = store.next - Len(store.journal) + i - 1
    BY <2>1, <2>2 DEF Latest
  <2>4. store.next - Len(store.journal) + i - 1 = n
    BY <2>1
  <2> QED
    BY <2>2, <2>3, <2>4
<1> QED
  BY <1>1, StreamInitOK, StreamStepOK, PTL DEF StreamSpec

\* The journal of a store never retains more than limits.journal_bytes, for any
\* sizes of chunks: appending drops the excess (enforce_journal_bound), and a
\* checkpoint only takes away.
THEOREM JournalIsBounded == StreamSpec => [](RetainedBytes(store.journal) <= JournalBytes)
<1>1. StreamInit => Fits(store.journal)
  BY NothingIsRetained, JournalBytesAssumption DEF StreamInit, NewStore, Fits
<1>2. StreamInvariant /\ Fits(store.journal) /\ [StreamNext]_vars => Fits(store.journal)'
  BY JournalStaysWithin
<1>3. Fits(store.journal) => RetainedBytes(store.journal) <= JournalBytes
  BY DEF Fits
<1> QED
  BY <1>1, <1>2, <1>3, StreamInitOK, StreamStepOK, PTL DEF StreamSpec

=================================================================================
