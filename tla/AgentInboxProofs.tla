--------------------------- MODULE AgentInboxProofs ---------------------------
(***************************************************************************)
(* What holds of the Agent Inbox for every set of tasks, however many      *)
(* buttons are pressed, calls fail and lists overtake each other.          *)
(*                                                                         *)
(* The file is written whole from copies read before, so a list that was   *)
(* wrong once could come back.  The invariant is about every list there    *)
(* is, in a file, a panel, an answer or a save on its way: each of its     *)
(* tasks is Sound, and what is sound stays so, because the log of          *)
(* dispatches only grows.                                                  *)
(***************************************************************************)
EXTENDS AgentInbox, FiniteSetTheorems, WellFoundedInduction, TLAPS

Statuses == {"pending", "running", "failed", "done"}
Task == [id : Tasks, status : Statuses, routed : BOOLEAN, session : Nat, bound : BOOLEAN]
Operations == {"approve", "dismiss", "cancel", "approve all", "clear"}
Click(S) ==
    [op : Operations, place : Nat, ids : SUBSET Tasks, list : Seq(S),
     at : {"sent", "written", "rejected", "done"}]
Dispatch(S) ==
    [task : S, at : {"recording", "prompting", "binding", "failing", "done"},
     list : Seq(Seq(S)), event : {"none", "read", "done"}, seen : Seq(S)]

\* The types of the variables, where every task of every list is in S.
Typed(S) ==
    /\ file \in Seq(S)
    /\ panel \in [tasks : Seq(S), lastJson : Seq(Seq(S)), shown : Seq(S)]
    /\ reads \in [1 .. MaxReads -> Seq(Seq(S))]
    /\ clicks \in Seq(Click(S))
    /\ dispatches \in Seq(Dispatch(S))

\* A task that points at no session, or at the one of a dispatch of that task.
Sound ==
    {task \in Task : task.session # 0 =>
        /\ task.session \in DOMAIN dispatches
        /\ dispatches[task.session].task.id = task.id}

\* What is done to a task keeps it in S.
Closed(S) ==
    /\ S \subseteq Task
    /\ \A t \in Tasks : NewTask(t) \in S
    /\ \A task \in S, s \in Statuses : [task EXCEPT !.status = s] \in S
    /\ \A task \in S : [task EXCEPT !.routed = TRUE] \in S
    /\ \A task \in S, d \in DOMAIN dispatches :
          dispatches[d].task.id = task.id =>
             \A b \in BOOLEAN : [task EXCEPT !.session = d, !.bound = b] \in S

\* An agent that was prompted, or can be, has its target recorded.
RecordedFirst ==
    /\ \A d \in DOMAIN dispatches : dispatches[d].at \in {"prompting", "binding"} => d \in recorded
    /\ prompted \subseteq recorded

-----------------------------------------------------------------------------
(* Lists                                                                     *)

\* A nonempty set of natural numbers has a least element.
LEMMA LeastNatural ==
    ASSUME NEW T \in SUBSET Nat, T # {}
    PROVE  \E m \in T : \A k \in T : m <= k
<1> DEFINE R == {ss \in Nat \X Nat : ss[1] < ss[2]}
<1>1. IsWellFoundedOn(R, Nat)
  <2>1. OpToRel(<, Nat) = R
    BY Zenon DEF OpToRel
  <2> QED
    BY <2>1, NatLessThanWellFounded, Zenon
<1>2. \E m \in T : \A k \in T : ~ (<<k, m>> \in R)
  <2> HIDE DEF R
  <2> QED
    BY <1>1, WFMin, Zenon
<1>3. PICK m \in T : \A k \in T : ~ (<<k, m>> \in R)
  BY <1>2
<1>4. \A k \in T : m <= k
  <2> TAKE k \in T
  <2>1. <<k, m>> \in Nat \X Nat /\ <<k, m>>[1] = k /\ <<k, m>>[2] = m
    OBVIOUS
  <2>2. ~ (k < m)
    BY <1>3, <2>1
  <2> QED
    BY <2>2
<1> QED
  BY <1>4

\* A place more at most with every step through the list.
LEMMA OneMoreUpTo ==
    ASSUME NEW m \in Nat, NEW places \in SUBSET (1 .. m)
    PROVE  /\ IsFiniteSet(places) /\ Cardinality(places) \in Nat
           /\ UpTo(places, m) = places
           /\ Cardinality(UpTo(places, 0)) = 0
           /\ \A i \in Nat : Cardinality(UpTo(places, i)) \in Nat
           /\ \A i \in Nat \ {0} :
                 Cardinality(UpTo(places, i)) =
                    Cardinality(UpTo(places, i - 1)) + (IF i \in places THEN 1 ELSE 0)
<1>0. \A j \in places : j \in Nat /\ 1 <= j /\ j <= m
  OBVIOUS
<1>1. IsFiniteSet(places)
  <2>1. IsFiniteSet(1 .. m)
    BY FS_Interval
  <2>2. places \subseteq 1 .. m
    OBVIOUS
  <2> QED
    BY <2>1, <2>2, FS_Subset
<1>2. \A i \in Nat : IsFiniteSet(UpTo(places, i))
  <2>1. \A i \in Nat : UpTo(places, i) \subseteq places
    BY DEF UpTo
  <2> QED
    BY <1>1, <2>1, FS_Subset
<1>3. \A i \in Nat : Cardinality(UpTo(places, i)) \in Nat
  BY <1>2, FS_CardinalityType
<1>a. \A i, j : j \in UpTo(places, i) <=> j \in places /\ j <= i
  BY DEF UpTo
<1>4. UpTo(places, m) = places /\ UpTo(places, 0) = {}
  <2>1. \A j : j \in UpTo(places, m) <=> j \in places
    BY <1>0, <1>a
  <2>2. \A j \in places : ~ (j <= 0)
    BY <1>0
  <2>3. \A j : j \notin UpTo(places, 0)
    BY <1>a, <2>2, Zenon
  <2> QED
    BY <2>1, <2>3, Zenon
<1>5. ASSUME NEW i \in Nat \ {0}
      PROVE  Cardinality(UpTo(places, i)) =
                Cardinality(UpTo(places, i - 1)) + (IF i \in places THEN 1 ELSE 0)
  <2>1. CASE i \in places
    <3>1. UpTo(places, i) = UpTo(places, i - 1) \cup {i} /\ i \notin UpTo(places, i - 1)
      <4>1. \A j : j \in UpTo(places, i) <=> j \in UpTo(places, i - 1) \/ j = i
        <5>1. \A j \in places : j <= i <=> j <= i - 1 \/ j = i
          BY <1>0
        <5>2. i <= i
          OBVIOUS
        <5> QED
          BY <1>a, <2>1, <5>1, <5>2, Zenon
      <4>2. i \notin UpTo(places, i - 1)
        BY <1>a
      <4> QED
        BY <4>1, <4>2, Zenon
    <3>2. IsFiniteSet(UpTo(places, i - 1))
      BY <1>2
    <3> QED
      BY <2>1, <3>1, <3>2, FS_AddElement
  <2>2. CASE i \notin places
    <3>1. UpTo(places, i) = UpTo(places, i - 1)
      <4>1. \A j : j \in UpTo(places, i) <=> j \in UpTo(places, i - 1)
        <5>1. \A j \in places : j <= i <=> j <= i - 1
          BY <1>0, <2>2
        <5> QED
          BY <1>a, <5>1, Zenon
      <4> QED
        BY <4>1, Zenon
    <3>2. Cardinality(UpTo(places, i - 1)) \in Nat
      BY <1>3
    <3> QED
      BY <2>2, <3>1, <3>2
  <2> QED
    BY <2>1, <2>2
<1>6. Cardinality(places) \in Nat /\ Cardinality(UpTo(places, 0)) = 0
  BY <1>1, <1>4, FS_CardinalityType, FS_EmptySet
<1> QED
  BY <1>1, <1>3, <1>4, <1>5, <1>6

\* Some place of a list has as many places up to it as one asks for.
LEMMA PlaceOfRank ==
    ASSUME NEW m \in Nat, NEW places \in SUBSET (1 .. m), NEW n \in 1 .. Cardinality(places)
    PROVE  \E i \in places : Cardinality(UpTo(places, i)) = n
<1> DEFINE count(i) == Cardinality(UpTo(places, i))
<1> DEFINE Enough == {i \in Nat : count(i) >= n}
<1>1. /\ Cardinality(places) \in Nat /\ count(m) = Cardinality(places) /\ count(0) = 0
      /\ \A i \in Nat : count(i) \in Nat
      /\ \A i \in Nat \ {0} : count(i) = count(i - 1) + (IF i \in places THEN 1 ELSE 0)
  BY OneMoreUpTo
<1> HIDE DEF count
<1>2. m \in Enough
  BY <1>1
<1>3. PICK i \in Enough : \A k \in Enough : i <= k
  <2>1. Enough \in SUBSET Nat /\ Enough # {}
    BY <1>2
  <2> HIDE DEF Enough
  <2> QED
    BY <2>1, LeastNatural
<1>4. i \in Nat /\ count(i) >= n /\ i # 0
  BY <1>1, <1>3
<1>5. i - 1 \in Nat /\ count(i - 1) < n
  <2>1. i - 1 \in Nat /\ i - 1 \notin Enough
    BY <1>3, <1>4
  <2> QED
    BY <2>1, <1>1
<1>6. i \in places /\ count(i) = n
  BY <1>1, <1>4, <1>5
<1> QED
  BY <1>6 DEF count

\* What is kept of a list was in it.
LEMMA KeptIsTyped ==
    ASSUME NEW S, NEW list \in Seq(S), NEW places \in SUBSET DOMAIN list
    PROVE  Kept(list, places) \in Seq(S)
<1> DEFINE place(n) == CHOOSE i \in places : Cardinality(UpTo(places, i)) = n
<1>1. Len(list) \in Nat /\ DOMAIN list = 1 .. Len(list) /\ places \in SUBSET (1 .. Len(list))
  OBVIOUS
<1>2. Cardinality(places) \in Nat
  BY <1>1, OneMoreUpTo
<1>3. \A n \in 1 .. Cardinality(places) : place(n) \in places
  <2> TAKE n \in 1 .. Cardinality(places)
  <2>1. \E i \in places : Cardinality(UpTo(places, i)) = n
    BY <1>1, PlaceOfRank
  <2> QED
    BY <2>1
<1>4. \A n \in 1 .. Cardinality(places) : list[place(n)] \in S
  BY <1>1, <1>3
<1>5. Kept(list, places) = [n \in 1 .. Cardinality(places) |-> list[place(n)]]
  BY DEF Kept
<1> HIDE DEF place
<1> QED
  BY <1>2, <1>4, <1>5

\* The place of a task of the list.
LEMMA PlaceIsInList ==
    ASSUME NEW list, NEW t \in Ids(list)
    PROVE  Place(list, t) \in DOMAIN list /\ TaskOf(list, t).id = t
BY DEF Ids, Place, TaskOf

\* A task with the id of one of the list takes its place.
LEMMA WithIsTyped ==
    ASSUME NEW S, NEW list \in Seq(S), NEW task \in S
    PROVE  With(list, task) \in Seq(S)
<1>1. With(list, task) = [list EXCEPT ![Place(list, task.id)] = task]
  BY DEF With
<1> HIDE DEF With
<1> DEFINE i == Place(list, task.id)
<1>2. With(list, task) = [j \in DOMAIN list |-> IF j = i THEN task ELSE list[j]]
  BY <1>1
<1> HIDE DEF i
<1>3. Len(list) \in Nat /\ DOMAIN list = 1 .. Len(list) /\ \A j \in 1 .. Len(list) : list[j] \in S
  OBVIOUS
<1> QED
  BY <1>2, <1>3

-----------------------------------------------------------------------------
(* Every task of every list is sound                                         *)

\* The log of dispatches only grows, and a dispatch stays about its task.
LogGrows ==
    /\ DOMAIN dispatches \subseteq DOMAIN dispatches'
    /\ \A d \in DOMAIN dispatches : dispatches'[d].task = dispatches[d].task

\* What is done to a sound task leaves it sound.
LEMMA SoundIsClosed ==
    ASSUME NEW S, S = Sound, Typed(S)
    PROVE  Closed(S)
<1>1. \A d \in DOMAIN dispatches : d \in Nat
  BY DEF Typed
<1>2. \A t \in Tasks : NewTask(t) \in S
  BY DEF Sound, NewTask, Task, Statuses
<1>3. \A task \in S, s \in Statuses : [task EXCEPT !.status = s] \in S
  BY DEF Sound, Task
<1>4. \A task \in S : [task EXCEPT !.routed = TRUE] \in S
  BY DEF Sound, Task
<1>5. ASSUME NEW task \in S, NEW d \in DOMAIN dispatches, dispatches[d].task.id = task.id,
             NEW b \in BOOLEAN
      PROVE  [task EXCEPT !.session = d, !.bound = b] \in S
  BY <1>1, <1>5 DEF Sound, Task
<1>6. S \subseteq Task
  BY DEF Sound
<1> QED
  BY <1>2, <1>3, <1>4, <1>5, <1>6 DEF Closed

\* What was sound stays sound while the log grows.
LEMMA SoundGrows == LogGrows => Sound \subseteq Sound'
BY DEF LogGrows, Sound

\* The types of one click and of one dispatch.
LEMMA EntryTypes ==
    ASSUME NEW S, Typed(S)
    PROVE  /\ \A k \in DOMAIN clicks : clicks[k] \in Click(S)
           /\ \A d \in DOMAIN dispatches : dispatches[d] \in Dispatch(S)
           /\ \A r \in 1 .. MaxReads : reads[r] \in Seq(Seq(S))
<1>1. clicks \in Seq(Click(S)) /\ dispatches \in Seq(Dispatch(S)) /\ reads \in [1 .. MaxReads -> Seq(Seq(S))]
  BY DEF Typed
<1>2. \A k \in DOMAIN clicks : clicks[k] \in Click(S)
  BY <1>1
<1>3. \A d \in DOMAIN dispatches : dispatches[d] \in Dispatch(S)
  BY <1>1
<1> QED
  BY <1>1, <1>2, <1>3

LEMMA EmptyLists == \A S : <<>> \in Seq(S)
OBVIOUS

\* One click, or one dispatch, changes.
LEMMA ClickChanges ==
    ASSUME NEW S, Typed(S), NEW k \in DOMAIN clicks, NEW click \in Click(S)
    PROVE  [clicks EXCEPT ![k] = click] \in Seq(Click(S))
BY DEF Typed

LEMMA DispatchChanges ==
    ASSUME NEW S, Typed(S), NEW d \in DOMAIN dispatches, NEW dispatch \in Dispatch(S),
           dispatch.task = dispatches[d].task,
           dispatches' = [dispatches EXCEPT ![d] = dispatch]
    PROVE  dispatches' \in Seq(Dispatch(S)) /\ LogGrows
BY DEF Typed, LogGrows

\* Nothing but the variables of the panel and of its polls.
LEMMA PollStays ==
    ASSUME NEW S, Typed(S), NEW r \in 1 .. MaxReads,
           PollRead(r) \/ PollAnswered(r) \/ PollFails(r)
    PROVE  Typed(S)' /\ LogGrows
<1>1. LogGrows /\ dispatches' \in Seq(Dispatch(S)) /\ clicks' \in Seq(Click(S)) /\ file' \in Seq(S)
  BY DEF PollRead, PollAnswered, PollFails, LogGrows, Typed
<1>2. reads[r] \in Seq(Seq(S))
  BY EntryTypes
<1>3. <<>> \in Seq(Seq(S)) /\ <<file>> \in Seq(Seq(S))
  BY DEF Typed
<1>4. reads' \in [1 .. MaxReads -> Seq(Seq(S))]
  BY <1>3 DEF PollRead, PollAnswered, PollFails, Typed
<1>5. panel' \in [tasks : Seq(S), lastJson : Seq(Seq(S)), shown : Seq(S)]
  <2>1. CASE PollAnswered(r)
    <3>1. reads[r][1] \in Seq(S)
      BY <1>2, <2>1 DEF PollAnswered
    <3> QED
      BY <1>2, <2>1, <3>1 DEF PollAnswered, Typed
  <2>2. CASE PollRead(r) \/ PollFails(r)
    BY <2>2 DEF PollRead, PollFails, Typed
  <2> QED
    BY <2>1, <2>2
<1> QED
  BY <1>1, <1>4, <1>5 DEF Typed

\* A button saves a list of tasks.
LEMMA PressStays ==
    ASSUME NEW S, Typed(S), NEW list \in Seq(S), NEW op \in Operations, NEW place \in Nat,
           NEW ids \in SUBSET Tasks, Press(list, op, place, ids)
    PROVE  Typed(S)' /\ LogGrows
<1>1. [op |-> op, place |-> place, ids |-> ids, list |-> list, at |-> "sent"] \in Click(S)
  BY DEF Click
<1>2. clicks' \in Seq(Click(S))
  BY <1>1 DEF Press, Typed
<1>3. panel' \in [tasks : Seq(S), lastJson : Seq(Seq(S)), shown : Seq(S)]
  BY DEF Press, Typed
<1> QED
  BY <1>2, <1>3 DEF Press, Typed, LogGrows

\* The tasks of a list of the panel.
LEMMA PanelTasks ==
    ASSUME NEW S, Typed(S), Closed(S)
    PROVE  /\ panel.tasks \in Seq(S) /\ panel.shown \in Seq(S)
           /\ \A t \in Ids(panel.tasks) :
                 /\ Place(panel.tasks, t) \in Nat
                 /\ TaskOf(panel.tasks, t) \in S /\ TaskOf(panel.tasks, t).id = t
           /\ \A i \in DOMAIN panel.tasks : panel.tasks[i] \in S /\ panel.tasks[i].id \in Tasks
<1>1. panel.tasks \in Seq(S) /\ panel.shown \in Seq(S)
  BY DEF Typed
<1>2. ASSUME NEW t \in Ids(panel.tasks)
      PROVE  /\ Place(panel.tasks, t) \in Nat
             /\ TaskOf(panel.tasks, t) \in S /\ TaskOf(panel.tasks, t).id = t
  <2>1. Place(panel.tasks, t) \in DOMAIN panel.tasks /\ TaskOf(panel.tasks, t).id = t
    BY PlaceIsInList
  <2> QED
    BY <1>1, <2>1 DEF TaskOf
<1>3. \A i \in DOMAIN panel.tasks : panel.tasks[i] \in S /\ panel.tasks[i].id \in Tasks
  <2>1. \A i \in DOMAIN panel.tasks : panel.tasks[i] \in S
    BY <1>1
  <2>2. \A task \in S : task.id \in Tasks
    BY DEF Closed, Task
  <2> QED
    BY <2>1, <2>2
<1> QED
  BY <1>1, <1>2, <1>3

LEMMA ButtonStays ==
    ASSUME NEW S, Typed(S), Closed(S), NEW t \in Tasks,
           Approve(t) \/ Dismiss(t) \/ ForceCancel(t) \/ SelectProject(t) \/ ApproveAll \/ ClearDone
    PROVE  Typed(S)' /\ LogGrows
<1>1. /\ panel.tasks \in Seq(S) /\ panel.shown \in Seq(S)
      /\ \A u \in Ids(panel.tasks) :
            /\ Place(panel.tasks, u) \in Nat
            /\ TaskOf(panel.tasks, u) \in S /\ TaskOf(panel.tasks, u).id = u
      /\ \A i \in DOMAIN panel.tasks : panel.tasks[i] \in S /\ panel.tasks[i].id \in Tasks
  BY PanelTasks
<1>2. CASE Approve(t)
  <2>1. ForDispatch(TaskOf(panel.tasks, t)) \in S
    BY <1>1, <1>2 DEF Approve, ForDispatch, Closed, Statuses
  <2>2. With(panel.tasks, ForDispatch(TaskOf(panel.tasks, t))) \in Seq(S)
    BY <1>1, <2>1, WithIsTyped
  <2>3. Press(With(panel.tasks, ForDispatch(TaskOf(panel.tasks, t))), "approve", Place(panel.tasks, t), {t})
    BY <1>2 DEF Approve
  <2>4. Place(panel.tasks, t) \in Nat
    BY <1>1, <1>2 DEF Approve
  <2>5. "approve" \in Operations /\ {t} \in SUBSET Tasks
    BY DEF Operations
  <2> QED
    BY <2>2, <2>3, <2>4, <2>5, PressStays
<1>3. CASE Dismiss(t)
  <2> DEFINE list == Kept(panel.tasks, {i \in DOMAIN panel.tasks : panel.tasks[i].id # t})
  <2>1. list \in Seq(S)
    <3>1. {i \in DOMAIN panel.tasks : panel.tasks[i].id # t} \in SUBSET DOMAIN panel.tasks
      OBVIOUS
    <3> QED
      BY <1>1, <3>1, KeptIsTyped
  <2>2. Press(list, "dismiss", 0, {t})
    BY <1>3 DEF Dismiss
  <2>3. "dismiss" \in Operations /\ {t} \in SUBSET Tasks /\ 0 \in Nat
    BY DEF Operations
  <2> HIDE DEF list
  <2> QED
    BY <2>1, <2>2, <2>3, PressStays
<1>4. CASE ForceCancel(t)
  <2>1. Finished(TaskOf(panel.tasks, t), "failed") \in S
    BY <1>1, <1>4 DEF ForceCancel, Finished, Closed, Statuses
  <2>2. With(panel.tasks, Finished(TaskOf(panel.tasks, t), "failed")) \in Seq(S)
    BY <1>1, <2>1, WithIsTyped
  <2>3. Press(With(panel.tasks, Finished(TaskOf(panel.tasks, t), "failed")), "cancel", 0, {t})
    BY <1>4 DEF ForceCancel
  <2>4. "cancel" \in Operations /\ {t} \in SUBSET Tasks /\ 0 \in Nat
    BY DEF Operations
  <2> QED
    BY <2>2, <2>3, <2>4, PressStays
<1>5. CASE SelectProject(t)
  <2> DEFINE task == [TaskOf(panel.tasks, t) EXCEPT !.routed = TRUE]
  <2>1. task \in S
    BY <1>1, <1>5 DEF SelectProject, Closed
  <2>2. With(panel.tasks, task) \in Seq(S)
    <3> HIDE DEF task
    <3> QED
      BY <1>1, <2>1, WithIsTyped
  <2>3. panel' = [panel EXCEPT !.tasks = With(panel.tasks, task), !.shown = With(panel.tasks, task)]
    BY <1>5 DEF SelectProject
  <2> HIDE DEF task
  <2>4. panel' \in [tasks : Seq(S), lastJson : Seq(Seq(S)), shown : Seq(S)]
    BY <2>2, <2>3 DEF Typed
  <2> QED
    BY <1>5, <2>4 DEF SelectProject, Typed, LogGrows
<1>6. CASE ApproveAll
  <2> DEFINE ready == {panel.tasks[i].id : i \in {j \in DOMAIN panel.tasks : IsReady(panel.tasks[j])}}
  <2> DEFINE list == [i \in DOMAIN panel.tasks |->
                         IF panel.tasks[i].id \in ready THEN ForDispatch(panel.tasks[i])
                         ELSE panel.tasks[i]]
  <2>1. ready \in SUBSET Tasks
    BY <1>1
  <2>2. \A i \in DOMAIN panel.tasks : ForDispatch(panel.tasks[i]) \in S
    BY <1>1 DEF ForDispatch, Closed, Statuses
  <2>3. list \in Seq(S)
    <3> HIDE DEF ready
    <3>1. Len(panel.tasks) \in Nat /\ DOMAIN panel.tasks = 1 .. Len(panel.tasks)
      BY <1>1
    <3> QED
      BY <1>1, <2>2, <3>1
  <2>4. Press(list, "approve all", 0, ready)
    BY <1>6 DEF ApproveAll
  <2>5. "approve all" \in Operations /\ 0 \in Nat
    BY DEF Operations
  <2> HIDE DEF list, ready
  <2> QED
    BY <2>1, <2>3, <2>4, <2>5, PressStays
<1>7. CASE ClearDone
  <2> DEFINE list == Kept(panel.tasks, {i \in DOMAIN panel.tasks : panel.tasks[i].status # "done"})
  <2>1. list \in Seq(S)
    <3>1. {i \in DOMAIN panel.tasks : panel.tasks[i].status # "done"} \in SUBSET DOMAIN panel.tasks
      OBVIOUS
    <3> QED
      BY <1>1, <3>1, KeptIsTyped
  <2>2. Press(list, "clear", 0, {})
    BY <1>7 DEF ClearDone
  <2>3. "clear" \in Operations /\ {} \in SUBSET Tasks /\ 0 \in Nat
    BY DEF Operations
  <2> HIDE DEF list
  <2> QED
    BY <2>1, <2>2, <2>3, PressStays
<1> QED
  BY <1>2, <1>3, <1>4, <1>5, <1>6, <1>7

\* A save is written, refused or fails.
LEMMA SaveStays ==
    ASSUME NEW S, Typed(S), NEW k \in DOMAIN clicks,
           SaveWrites(k) \/ SaveRefused(k) \/ SaveRejected(k)
    PROVE  Typed(S)' /\ LogGrows
<1>1. clicks[k] \in Click(S)
  BY EntryTypes
<1>2. /\ [clicks[k] EXCEPT !.at = "written"] \in Click(S)
      /\ [clicks[k] EXCEPT !.at = "rejected", !.list = <<>>] \in Click(S)
  BY <1>1, EmptyLists DEF Click
<1>3. clicks' \in Seq(Click(S))
  <2>1. CASE SaveWrites(k) \/ SaveRefused(k)
    <3>1. clicks' = [clicks EXCEPT ![k] = [clicks[k] EXCEPT !.at = "written"]]
      BY <2>1 DEF SaveWrites, SaveRefused
    <3> QED
      BY <1>2, <3>1, ClickChanges
  <2>2. CASE SaveRejected(k)
    <3>1. clicks' = [clicks EXCEPT ![k] = [clicks[k] EXCEPT !.at = "rejected", !.list = <<>>]]
      BY <1>1, <2>2 DEF SaveRejected, Click
    <3> QED
      BY <1>2, <3>1, ClickChanges
  <2> QED
    BY <2>1, <2>2
<1>4. file' \in Seq(S)
  BY <1>1 DEF SaveWrites, SaveRefused, SaveRejected, Typed, Click
<1> QED
  BY <1>3, <1>4 DEF SaveWrites, SaveRefused, SaveRejected, Typed, LogGrows

\* The tasks handed to the dispatch are tasks of the panel.
LEMMA DispatchedIsTyped ==
    ASSUME NEW S, Typed(S), NEW k \in DOMAIN clicks
    PROVE  Dispatched(clicks[k]) \in Seq(S)
<1>1. panel.tasks \in Seq(S) /\ clicks[k] \in Click(S)
  BY EntryTypes DEF Typed
<1>2. CASE clicks[k].op = "approve"
  BY <1>1, <1>2 DEF Dispatched
<1>3. CASE clicks[k].op = "approve all"
  <2>1. {i \in DOMAIN panel.tasks : panel.tasks[i].id \in clicks[k].ids} \in SUBSET DOMAIN panel.tasks
    OBVIOUS
  <2>2. Kept(panel.tasks, {i \in DOMAIN panel.tasks : panel.tasks[i].id \in clicks[k].ids}) \in Seq(S)
    BY <1>1, <2>1, KeptIsTyped
  <2> QED
    BY <1>3, <2>2 DEF Dispatched
<1>4. CASE clicks[k].op \notin {"approve", "approve all"}
  BY <1>4, EmptyLists DEF Dispatched
<1> QED
  BY <1>2, <1>3, <1>4

\* The dispatches of a save are new entries of the log.
NewDispatches(tasks) == [i \in DOMAIN tasks |-> NewDispatch(tasks[i])]

LEMMA NewDispatchesAreTyped ==
    ASSUME NEW S, NEW tasks \in Seq(S)
    PROVE  /\ NewDispatches(tasks) \in Seq(Dispatch(S))
           /\ Len(NewDispatches(tasks)) = Len(tasks)
           /\ \A i \in 1 .. Len(tasks) : NewDispatches(tasks)[i].at = "recording"
<1>1. Len(tasks) \in Nat /\ DOMAIN tasks = 1 .. Len(tasks)
  OBVIOUS
<1>2. \A i \in 1 .. Len(tasks) : NewDispatch(tasks[i]) \in Dispatch(S)
  <2>1. \A task \in S : NewDispatch(task) \in Dispatch(S)
    BY DEF NewDispatch, Dispatch
  <2> QED
    BY <1>1, <2>1
<1>3. \A i \in 1 .. Len(tasks) : NewDispatches(tasks)[i].at = "recording"
  BY <1>1 DEF NewDispatches, NewDispatch
<1> QED
  BY <1>1, <1>2, <1>3 DEF NewDispatches

LEMMA SaveAnsweredStays ==
    ASSUME NEW S, Typed(S), NEW k \in DOMAIN clicks, SaveAnswered(k)
    PROVE  /\ Typed(S)' /\ LogGrows
           /\ \A d \in DOMAIN dispatches : dispatches'[d] = dispatches[d]
           /\ \A d \in DOMAIN dispatches' \ DOMAIN dispatches : dispatches'[d].at = "recording"
<1> DEFINE tasks == Dispatched(clicks[k])
<1>1. tasks \in Seq(S)
  BY DispatchedIsTyped
<1>2. dispatches' = dispatches \o NewDispatches(tasks)
  BY DEF SaveAnswered, NewDispatches
<1> HIDE DEF tasks
<1>3. /\ NewDispatches(tasks) \in Seq(Dispatch(S)) /\ Len(NewDispatches(tasks)) = Len(tasks)
      /\ Len(tasks) \in Nat
      /\ \A i \in 1 .. Len(tasks) : NewDispatches(tasks)[i].at = "recording"
  <2>1. Len(tasks) \in Nat
    BY <1>1
  <2> QED
    BY <1>1, <2>1, NewDispatchesAreTyped
<1>4. dispatches \in Seq(Dispatch(S)) /\ Len(dispatches) \in Nat /\ DOMAIN dispatches = 1 .. Len(dispatches)
  BY DEF Typed
<1>5. dispatches' \in Seq(Dispatch(S))
  <2>1. \A s, t \in Seq(Dispatch(S)) : s \o t \in Seq(Dispatch(S))
    OBVIOUS
  <2> QED
    BY <1>2, <1>3, <1>4, <2>1
<1>6. DOMAIN dispatches' = 1 .. (Len(dispatches) + Len(tasks))
  <2>1. \A s, t \in Seq(Dispatch(S)) : Len(s \o t) = Len(s) + Len(t)
    OBVIOUS
  <2>2. DOMAIN dispatches' = 1 .. Len(dispatches')
    BY <1>5
  <2> QED
    BY <1>2, <1>3, <1>4, <2>1, <2>2
<1>7. \A d \in DOMAIN dispatches : dispatches'[d] = dispatches[d]
  BY <1>2, <1>3, <1>4
<1>8. ASSUME NEW d \in DOMAIN dispatches' \ DOMAIN dispatches PROVE dispatches'[d].at = "recording"
  <2>1. d - Len(dispatches) \in 1 .. Len(tasks) /\ dispatches'[d] = NewDispatches(tasks)[d - Len(dispatches)]
    BY <1>2, <1>3, <1>4, <1>6
  <2> QED
    BY <1>3, <2>1
<1>9. clicks[k] \in Click(S)
  BY EntryTypes
<1>10. clicks' \in Seq(Click(S))
  <2>1. [clicks[k] EXCEPT !.at = "done", !.list = <<>>] \in Click(S)
    BY <1>9, EmptyLists DEF Click
  <2>2. clicks' = [clicks EXCEPT ![k] = [clicks[k] EXCEPT !.at = "done", !.list = <<>>]]
    BY <1>9 DEF SaveAnswered, Click
  <2> QED
    BY <2>1, <2>2, ClickChanges
<1>11. panel' \in [tasks : Seq(S), lastJson : Seq(Seq(S)), shown : Seq(S)]
  BY EmptyLists DEF SaveAnswered, ForgetJson, Typed
<1>12. LogGrows
  BY <1>4, <1>6, <1>7, <1>3 DEF LogGrows
<1> QED
  BY <1>5, <1>7, <1>8, <1>10, <1>11, <1>12 DEF SaveAnswered, Typed

\* What an update makes of the task it finds, and the list it writes back.
LEMMA UpdatedIsTyped ==
    ASSUME NEW S, Typed(S), Closed(S), NEW d \in DOMAIN dispatches, NEW i \in PlaceNow(file, d)
    PROVE  /\ i \in DOMAIN file
           /\ ChildBound(file[i], d) \in S
           /\ dispatches[d].at \in Updates => Updated(d, file[i]) \in S
<1>1. i \in DOMAIN file /\ file[i] \in S /\ file[i].id = dispatches[d].task.id
  BY DEF PlaceNow, Typed
<1>2. dispatches[d] \in Dispatch(S)
  BY EntryTypes
<1>3. dispatches[d].task \in S
  BY <1>2 DEF Dispatch
<1>4. ChildBound(file[i], d) \in S
  BY <1>1 DEF ChildBound, Closed
<1>5. CASE dispatches[d].at = "recording"
  <2> DEFINE task == dispatches[d].task
  <2> DEFINE started == [task EXCEPT !.status = IF @ = "pending" THEN "running" ELSE @]
  <2>1. task.status \in Statuses /\ task \in Task
    BY <1>3 DEF Closed, Task
  <2>2. started \in S
    BY <1>3, <2>1 DEF Closed, Statuses
  <2>3. started.id = task.id
    BY <2>1 DEF Task
  <2>4. [started EXCEPT !.session = d, !.bound = FALSE] \in S
    <3> HIDE DEF started
    <3> QED
      BY <2>2, <2>3 DEF Closed
  <2>5. Routed(task, d) = [started EXCEPT !.session = d, !.bound = FALSE]
    BY <2>1 DEF Routed, Task
  <2> QED
    BY <1>1, <1>4, <1>5, <2>4, <2>5 DEF Updated
<1>6. CASE dispatches[d].at = "binding"
  BY <1>1, <1>4, <1>6 DEF Updated
<1>7. CASE dispatches[d].at = "failing"
  BY <1>1, <1>4, <1>7 DEF Updated, Finished, Closed, Statuses
<1> QED
  BY <1>1, <1>4, <1>5, <1>6, <1>7 DEF Updates

LEMMA DispatchStays ==
    ASSUME NEW S, Typed(S), Closed(S), NEW d \in DOMAIN dispatches,
           DispatchStep(d) \/ DispatchFails(d)
    PROVE  Typed(S)' /\ LogGrows
<1>1. dispatches[d] \in Dispatch(S) /\ file \in Seq(S)
  BY EntryTypes DEF Typed
<1>2. \A dispatch \in Dispatch(S) :
         dispatch.task = dispatches[d].task /\ dispatches' = [dispatches EXCEPT ![d] = dispatch]
         => dispatches' \in Seq(Dispatch(S)) /\ LogGrows
  BY DispatchChanges
<1>3. CASE Prompted(d)
  <2>1. PICK next \in {"binding", "done"} : dispatches' = [dispatches EXCEPT ![d].at = next]
    BY <1>3 DEF Prompted, At
  <2>2. [dispatches[d] EXCEPT !.at = next] \in Dispatch(S)
    BY <1>1 DEF Dispatch
  <2>3. [dispatches[d] EXCEPT !.at = next].task = dispatches[d].task
    BY <1>1 DEF Dispatch
  <2>4. dispatches' = [dispatches EXCEPT ![d] = [dispatches[d] EXCEPT !.at = next]]
    BY <2>1
  <2>5. dispatches' \in Seq(Dispatch(S)) /\ LogGrows
    BY <1>2, <2>2, <2>3, <2>4
  <2> QED
    BY <1>3, <2>5 DEF Prompted, Typed
<1>4. CASE DispatchFails(d)
  <2> DEFINE new == [dispatches[d] EXCEPT !.at = "failing", !.list = <<>>]
  <2>1. new \in Dispatch(S) /\ new.task = dispatches[d].task
    BY <1>1, EmptyLists DEF Dispatch
  <2>2. dispatches' = [dispatches EXCEPT ![d] = new]
    BY <1>1, <1>4 DEF DispatchFails, Dispatch
  <2> HIDE DEF new
  <2>3. dispatches' \in Seq(Dispatch(S)) /\ LogGrows
    BY <1>2, <2>1, <2>2
  <2> QED
    BY <1>4, <2>3 DEF DispatchFails, Typed
<1>5. CASE UpdateRead(d)
  <2>1. CASE PlaceNow(file, d) = {}
    <3> DEFINE new == [dispatches[d] EXCEPT !.at = After(dispatches[d].at)]
    <3>1. new \in Dispatch(S) /\ new.task = dispatches[d].task
      BY <1>1 DEF Dispatch, After
    <3>2. dispatches' = [dispatches EXCEPT ![d] = new]
      BY <1>5, <2>1 DEF UpdateRead, At
    <3> HIDE DEF new
    <3>3. dispatches' \in Seq(Dispatch(S)) /\ LogGrows
      BY <1>2, <3>1, <3>2
    <3> QED
      BY <1>5, <3>3 DEF UpdateRead, Typed
  <2>2. CASE PlaceNow(file, d) # {}
    <3>1. PICK i \in PlaceNow(file, d) :
             dispatches' = [dispatches EXCEPT ![d].list = <<[file EXCEPT ![i] = Updated(d, file[i])]>>]
      BY <1>5, <2>2 DEF UpdateRead
    <3>2. i \in DOMAIN file /\ Updated(d, file[i]) \in S
      BY <1>5, UpdatedIsTyped DEF UpdateRead
    <3>3. [file EXCEPT ![i] = Updated(d, file[i])] \in Seq(S)
      BY <1>1, <3>2
    <3> DEFINE list == <<[file EXCEPT ![i] = Updated(d, file[i])]>>
    <3>4. list \in Seq(Seq(S))
      BY <3>3
    <3> DEFINE new == [dispatches[d] EXCEPT !.list = list]
    <3>5. dispatches' = [dispatches EXCEPT ![d] = new]
      BY <3>1
    <3> HIDE DEF list
    <3>6. new \in Dispatch(S) /\ new.task = dispatches[d].task
      BY <1>1, <3>4 DEF Dispatch
    <3> HIDE DEF new
    <3>7. dispatches' \in Seq(Dispatch(S)) /\ LogGrows
      BY <1>2, <3>5, <3>6
    <3> QED
      BY <1>5, <3>7 DEF UpdateRead, Typed
  <2> QED
    BY <2>1, <2>2
<1>6. CASE UpdateWrite(d)
  <2> DEFINE new == [dispatches[d] EXCEPT !.at = After(dispatches[d].at), !.list = <<>>]
  <2>1. new \in Dispatch(S) /\ new.task = dispatches[d].task
    BY <1>1, EmptyLists DEF Dispatch, After
  <2>2. dispatches' = [dispatches EXCEPT ![d] = new]
    BY <1>1, <1>6 DEF UpdateWrite, Dispatch
  <2> HIDE DEF new
  <2>3. dispatches' \in Seq(Dispatch(S)) /\ LogGrows
    BY <1>2, <2>1, <2>2
  <2>4. dispatches[d].list \in Seq(Seq(S)) /\ dispatches[d].list # <<>>
    BY <1>1, <1>6 DEF UpdateWrite, Dispatch
  <2>5. file' \in Seq(S)
    BY <1>6, <2>4 DEF UpdateWrite
  <2> QED
    BY <1>6, <2>3, <2>5 DEF UpdateWrite, Typed
<1>7. CASE BoundEventRead(d)
  <2>1. CASE PlaceNow(file, d) = {}
    <3> DEFINE new == [dispatches[d] EXCEPT !.event = "done"]
    <3>1. new \in Dispatch(S) /\ new.task = dispatches[d].task
      BY <1>1 DEF Dispatch
    <3>2. dispatches' = [dispatches EXCEPT ![d] = new]
      BY <1>7, <2>1 DEF BoundEventRead
    <3> HIDE DEF new
    <3>3. dispatches' \in Seq(Dispatch(S)) /\ LogGrows
      BY <1>2, <3>1, <3>2
    <3> QED
      BY <1>7, <3>3 DEF BoundEventRead, Typed
  <2>2. CASE PlaceNow(file, d) # {}
    <3> DEFINE seen == [i \in DOMAIN file |-> IF i \in PlaceNow(file, d) THEN ChildBound(file[i], d) ELSE file[i]]
    <3>1. \A i \in PlaceNow(file, d) : ChildBound(file[i], d) \in S
      BY UpdatedIsTyped
    <3>2. Len(file) \in Nat /\ DOMAIN file = 1 .. Len(file)
      BY <1>1
    <3>3. seen \in Seq(S)
      BY <1>1, <3>1, <3>2
    <3> DEFINE new == [dispatches[d] EXCEPT !.event = "read", !.seen = seen]
    <3>4. dispatches' = [dispatches EXCEPT ![d].event = "read", ![d].seen = seen]
      BY <1>7, <2>2 DEF BoundEventRead
    <3> HIDE DEF seen
    <3>5. new \in Dispatch(S) /\ new.task = dispatches[d].task
      BY <1>1, <3>3 DEF Dispatch
    <3>6. dispatches' = [dispatches EXCEPT ![d] = new]
      BY <1>1, <3>4 DEF Dispatch
    <3> HIDE DEF new
    <3>7. dispatches' \in Seq(Dispatch(S)) /\ LogGrows
      BY <1>2, <3>5, <3>6
    <3> QED
      BY <1>7, <3>7 DEF BoundEventRead, Typed
  <2> QED
    BY <2>1, <2>2
<1>8. CASE BoundEventWrite(d)
  <2> DEFINE new == [dispatches[d] EXCEPT !.event = "done", !.seen = <<>>]
  <2>1. new \in Dispatch(S) /\ new.task = dispatches[d].task
    BY <1>1, EmptyLists DEF Dispatch
  <2>2. dispatches' = [dispatches EXCEPT ![d] = new]
    BY <1>1, <1>8 DEF BoundEventWrite, Dispatch
  <2> HIDE DEF new
  <2>3. dispatches' \in Seq(Dispatch(S)) /\ LogGrows
    BY <1>2, <2>1, <2>2
  <2>4. file' \in Seq(S)
    BY <1>1, <1>8 DEF BoundEventWrite, Dispatch
  <2> QED
    BY <1>8, <2>3, <2>4 DEF BoundEventWrite, Typed
<1> QED
  BY <1>3, <1>4, <1>5, <1>6, <1>7, <1>8 DEF DispatchStep

\* The Super Agent edits the file.
LEMMA EditStays ==
    ASSUME NEW S, Typed(S), Closed(S), NEW t \in Tasks, NEW status \in {"done", "failed"},
           AddTask(t) \/ Report(t, status)
    PROVE  Typed(S)' /\ LogGrows
<1>1. file \in Seq(S)
  BY DEF Typed
<1>2. CASE AddTask(t)
  <2>1. NewTask(t) \in S
    BY DEF Closed
  <2>2. file' \in Seq(S)
    BY <1>1, <1>2, <2>1 DEF AddTask
  <2> QED
    BY <1>2, <2>2 DEF AddTask, Typed, LogGrows
<1>3. CASE Report(t, status)
  <2>1. t \in Ids(file)
    BY <1>3 DEF Report, Has, Ids
  <2>2. Place(file, t) \in DOMAIN file /\ TaskOf(file, t).id = t
    BY <2>1, PlaceIsInList
  <2>3. TaskOf(file, t) \in S
    BY <1>1, <2>2 DEF TaskOf
  <2>4. Finished(TaskOf(file, t), status) \in S
    BY <2>3 DEF Finished, Closed, Statuses
  <2>5. file' \in Seq(S)
    BY <1>1, <1>3, <2>4, WithIsTyped DEF Report
  <2> QED
    BY <1>3, <2>5 DEF Report, Typed, LogGrows
<1> QED
  BY <1>2, <1>3

LEMMA NextStays ==
    ASSUME NEW S, Typed(S), Closed(S), [Next]_vars
    PROVE  Typed(S)' /\ LogGrows
<1>1. ASSUME NEW r \in 1 .. MaxReads, PollRead(r) \/ PollAnswered(r) \/ PollFails(r)
      PROVE  Typed(S)' /\ LogGrows
  BY <1>1, PollStays
<1>2. ASSUME NEW t \in Tasks,
             Approve(t) \/ Dismiss(t) \/ ForceCancel(t) \/ SelectProject(t) \/ AddTask(t)
      PROVE  Typed(S)' /\ LogGrows
  <2>1. CASE AddTask(t)
    <3>1. "done" \in {"done", "failed"}
      OBVIOUS
    <3> QED
      BY <2>1, <3>1, EditStays
  <2> QED
    BY <1>2, <2>1, ButtonStays
<1>3. CASE ApproveAll \/ ClearDone
  <2>1. panel.tasks \in Seq(S) /\ \A i \in DOMAIN panel.tasks : panel.tasks[i].id \in Tasks
    BY PanelTasks
  <2>2. PICK i \in DOMAIN panel.tasks : TRUE
    BY <1>3 DEF ApproveAll, ClearDone
  <2>3. panel.tasks[i].id \in Tasks
    BY <2>1, <2>2
  <2> QED
    BY <1>3, <2>3, ButtonStays
<1>4. ASSUME NEW k \in DOMAIN clicks,
             SaveWrites(k) \/ SaveRefused(k) \/ SaveRejected(k) \/ SaveAnswered(k)
      PROVE  Typed(S)' /\ LogGrows
  BY <1>4, SaveStays, SaveAnsweredStays
<1>5. ASSUME NEW d \in DOMAIN dispatches, DispatchStep(d) \/ DispatchFails(d)
      PROVE  Typed(S)' /\ LogGrows
  BY <1>5, DispatchStays
<1>6. ASSUME NEW t \in Tasks, NEW status \in {"done", "failed"}, Report(t, status)
      PROVE  Typed(S)' /\ LogGrows
  BY <1>6, EditStays
<1>7. CASE UNCHANGED vars
  BY <1>7 DEF vars, Typed, LogGrows
<1> QED
  BY <1>1, <1>2, <1>3, <1>4, <1>5, <1>6, <1>7 DEF Next

\* Lists of a larger set of tasks.
LEMMA TypedOverNext ==
    ASSUME NEW S, NEW T, S \subseteq T, Typed(S)'
    PROVE  Typed(T)'
<1>1. Seq(S) \subseteq Seq(T)
  OBVIOUS
<1>2. Seq(Seq(S)) \subseteq Seq(Seq(T))
  BY <1>1
<1>3. Click(S) \subseteq Click(T)
  BY <1>1 DEF Click
<1>4. Dispatch(S) \subseteq Dispatch(T)
  BY <1>1, <1>2 DEF Dispatch
<1>5. clicks' \in Seq(Click(T))
  BY <1>3 DEF Typed
<1>6. dispatches' \in Seq(Dispatch(T))
  BY <1>4 DEF Typed
<1>7. panel' \in [tasks : Seq(T), lastJson : Seq(Seq(T)), shown : Seq(T)]
  BY <1>1, <1>2 DEF Typed
<1> QED
  BY <1>1, <1>2, <1>5, <1>6, <1>7 DEF Typed

LEMMA TypedAtFirst == Init => Typed(Sound)
<1> SUFFICES ASSUME Init PROVE Typed(Sound)
  OBVIOUS
<1>1. Early \in Seq(Tasks)
  BY TasksAssumption
<1>2. PICK statuses \in [DOMAIN Early -> {"pending", "done"}] :
         file = [i \in DOMAIN Early |-> [NewTask(Early[i]) EXCEPT !.status = statuses[i]]]
  BY DEF Init
<1>3. \A t \in Tasks, s \in Statuses : [NewTask(t) EXCEPT !.status = s] \in Sound
  BY DEF Sound, NewTask, Task, Statuses
<1>4. \A i \in DOMAIN Early : Early[i] \in Tasks /\ statuses[i] \in Statuses
  BY <1>1 DEF Statuses
<1>5. file \in Seq(Sound)
  <2>1. Len(Early) \in Nat /\ DOMAIN Early = 1 .. Len(Early)
    BY <1>1
  <2> QED
    BY <1>2, <1>3, <1>4, <2>1
<1> QED
  BY <1>5, EmptyLists DEF Init, Typed

\* The types of the variables, with the soundness of every task of every list.
THEOREM InboxTypes == FairSpec => []Typed(Sound)
<1>1. Init => Typed(Sound)
  BY TypedAtFirst
<1>2. Typed(Sound) /\ [Next]_vars => Typed(Sound)'
  <2> SUFFICES ASSUME Typed(Sound), [Next]_vars PROVE Typed(Sound)'
    OBVIOUS
  <2>1. PICK S : S = Sound
    OBVIOUS
  <2>2. Typed(S) /\ Closed(S)
    BY <2>1, SoundIsClosed
  <2>3. Typed(S)' /\ LogGrows
    BY <2>2, NextStays
  <2>4. S \subseteq Sound'
    BY <2>1, <2>3, SoundGrows
  <2> QED
    BY <2>3, <2>4, TypedOverNext
<1> QED
  BY <1>1, <1>2, PTL DEF FairSpec, Spec

\* The session a task points at was started for that task, in every list that
\* is, was or will be written (updateSuperAgentTask, whatever it overtakes).
THEOREM SessionsOfTheirTasks == FairSpec => []SessionsAreTheirTasks
<1>1. Typed(Sound) => SessionsAreTheirTasks
  <2> SUFFICES ASSUME Typed(Sound) PROVE SessionsAreTheirTasks
    OBVIOUS
  <2>1. \A list \in Seq(Sound) : \A i \in DOMAIN list :
           list[i].session # 0 => dispatches[list[i].session].task.id = list[i].id
    <3>1. \A task \in Sound : task.session # 0 => dispatches[task.session].task.id = task.id
      BY DEF Sound
    <3>2. \A list \in Seq(Sound) : \A i \in DOMAIN list : list[i] \in Sound
      OBVIOUS
    <3> QED
      BY <3>1, <3>2
  <2>2. file \in Seq(Sound) /\ panel.tasks \in Seq(Sound)
    BY DEF Typed
  <2>3. \A k \in DOMAIN clicks : clicks[k].list \in Seq(Sound)
    BY EntryTypes DEF Click
  <2>4. ASSUME NEW d \in DOMAIN dispatches, dispatches[d].list # <<>>
        PROVE  dispatches[d].list[1] \in Seq(Sound)
    <3>1. dispatches[d].list \in Seq(Seq(Sound))
      BY EntryTypes DEF Dispatch
    <3> QED
      BY <2>4, <3>1
  <2> QED
    BY <2>1, <2>2, <2>3, <2>4 DEF SessionsAreTheirTasks
<1> QED
  BY <1>1, InboxTypes, PTL

-----------------------------------------------------------------------------
(* The target of a session is recorded before its agent is prompted          *)

LEMMA RecordedFirstStays ==
    ASSUME Typed(Sound), RecordedFirst, [Next]_vars
    PROVE  RecordedFirst'
<1>1. \A d \in DOMAIN dispatches : dispatches[d] \in Dispatch(Sound)
  BY EntryTypes
<1>2. dispatches \in Seq(Dispatch(Sound)) /\ DOMAIN dispatches = 1 .. Len(dispatches)
  BY DEF Typed
<1>3. CASE UNCHANGED <<dispatches, recorded, prompted>>
  BY <1>3 DEF RecordedFirst
<1>4. ASSUME NEW k \in DOMAIN clicks, SaveAnswered(k) PROVE RecordedFirst'
  <2>1. /\ \A d \in DOMAIN dispatches : dispatches'[d] = dispatches[d]
        /\ \A d \in DOMAIN dispatches' \ DOMAIN dispatches : dispatches'[d].at = "recording"
    BY <1>4, SaveAnsweredStays
  <2>2. UNCHANGED <<recorded, prompted>>
    BY <1>4 DEF SaveAnswered
  <2> QED
    BY <2>1, <2>2 DEF RecordedFirst
<1>5. ASSUME NEW d \in DOMAIN dispatches, DispatchStep(d) \/ DispatchFails(d)
      PROVE  RecordedFirst'
  <2>1. /\ DOMAIN dispatches' = DOMAIN dispatches
        /\ \A e \in DOMAIN dispatches : e # d => dispatches'[e].at = dispatches[e].at
        /\ recorded \subseteq recorded'
    BY <1>5, <1>2 DEF DispatchStep, DispatchFails, Prompted, UpdateRead, UpdateWrite, BoundEventRead,
                      BoundEventWrite, At, Recorded
  <2>2. CASE Prompted(d)
    <3>1. dispatches[d].at = "prompting" /\ prompted' = prompted \cup {d}
      BY <2>2 DEF Prompted
    <3> QED
      BY <2>1, <2>2, <3>1 DEF RecordedFirst, Prompted
  <2>3. CASE DispatchFails(d)
    <3>1. dispatches'[d].at = "failing" /\ prompted' = prompted
      BY <1>1, <2>3 DEF DispatchFails, Dispatch
    <3> QED
      BY <2>1, <3>1 DEF RecordedFirst
  <2>4. CASE UpdateRead(d)
    <3>1. prompted' = prompted
      BY <2>4 DEF UpdateRead
    <3>2. CASE PlaceNow(file, d) = {}
      <4>1. dispatches'[d].at = After(dispatches[d].at)
        BY <1>1, <2>4, <3>2 DEF UpdateRead, At, Dispatch
      <4>2. dispatches'[d].at = "prompting" => d \in recorded'
        BY <4>1, <2>4, <3>2 DEF UpdateRead, Recorded, After
      <4>3. dispatches'[d].at # "binding"
        BY <4>1 DEF After
      <4> QED
        BY <2>1, <3>1, <4>2, <4>3 DEF RecordedFirst
    <3>3. CASE PlaceNow(file, d) # {}
      <4>1. dispatches'[d].at = dispatches[d].at
        BY <1>1, <2>4, <3>3 DEF UpdateRead, Dispatch
      <4> QED
        BY <2>1, <3>1, <4>1 DEF RecordedFirst
    <3> QED
      BY <3>2, <3>3
  <2>5. CASE UpdateWrite(d)
    <3>1. dispatches'[d].at = After(dispatches[d].at) /\ prompted' = prompted
      BY <1>1, <2>5 DEF UpdateWrite, Dispatch
    <3>2. dispatches'[d].at = "prompting" => d \in recorded'
      BY <3>1, <2>5 DEF UpdateWrite, Recorded, After
    <3>3. dispatches'[d].at # "binding"
      BY <3>1 DEF After
    <3> QED
      BY <2>1, <3>1, <3>2, <3>3 DEF RecordedFirst
  <2>6. CASE BoundEventRead(d) \/ BoundEventWrite(d)
    <3>1. dispatches'[d].at = dispatches[d].at /\ prompted' = prompted
      BY <1>1, <2>6 DEF BoundEventRead, BoundEventWrite, Dispatch
    <3> QED
      BY <2>1, <3>1 DEF RecordedFirst
  <2> QED
    BY <1>5, <2>2, <2>3, <2>4, <2>5, <2>6 DEF DispatchStep
<1>6. ASSUME NEW r \in 1 .. MaxReads, PollRead(r) \/ PollAnswered(r) \/ PollFails(r)
      PROVE  UNCHANGED <<dispatches, recorded, prompted>>
  BY <1>6 DEF PollRead, PollAnswered, PollFails
<1>7. ASSUME NEW t \in Tasks,
             Approve(t) \/ Dismiss(t) \/ ForceCancel(t) \/ SelectProject(t) \/ AddTask(t)
      PROVE  UNCHANGED <<dispatches, recorded, prompted>>
  BY <1>7 DEF Approve, Dismiss, ForceCancel, SelectProject, AddTask, Press
<1>8. ASSUME ApproveAll \/ ClearDone PROVE UNCHANGED <<dispatches, recorded, prompted>>
  BY <1>8 DEF ApproveAll, ClearDone, Press
<1>9. ASSUME NEW k \in DOMAIN clicks, SaveWrites(k) \/ SaveRefused(k) \/ SaveRejected(k)
      PROVE  UNCHANGED <<dispatches, recorded, prompted>>
  BY <1>9 DEF SaveWrites, SaveRefused, SaveRejected
<1>10. ASSUME NEW t \in Tasks, NEW status \in {"done", "failed"}, Report(t, status)
       PROVE  UNCHANGED <<dispatches, recorded, prompted>>
  BY <1>10 DEF Report
<1>11. CASE UNCHANGED vars
  BY <1>3, <1>11 DEF vars
<1> QED
  BY <1>3, <1>4, <1>5, <1>6, <1>7, <1>8, <1>9, <1>10, <1>11 DEF Next

\* An agent is prompted only when the file was told before which session that
\* is, or there was no such task any more (dispatchSuperAgentTaskNative).
THEOREM TargetsAreRecordedFirst == FairSpec => []BreadcrumbBeforePrompt
<1>1. Init => RecordedFirst
  BY DEF Init, RecordedFirst
<1>2. Typed(Sound) /\ RecordedFirst /\ [Next]_vars => RecordedFirst'
  BY RecordedFirstStays
<1>3. RecordedFirst => BreadcrumbBeforePrompt
  BY DEF RecordedFirst, BreadcrumbBeforePrompt
<1> QED
  BY <1>1, <1>2, <1>3, InboxTypes, PTL DEF FairSpec, Spec

=============================================================================
