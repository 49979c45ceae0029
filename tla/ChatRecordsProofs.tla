--------------------------- MODULE ChatRecordsProofs ---------------------------
(***************************************************************************)
(* Proofs about the record ids of ChatChannel: a finished job passes over  *)
(* no message. Every connection counts ids for itself, from the log it     *)
(* read, and takes one before the fence lets its record pass.              *)
(*                                                                         *)
(* RecordsOf says of one connection that each task adds only records of    *)
(* its kinds, with ids that go up, that what its jobs refer to is in the   *)
(* log, and that it heard what it logged.                                  *)
(*                                                                         *)
(* PassedOverInvariant relates the connections. Who has the channel gives  *)
(* ids above every finished job and every turn that waits (LeadersGoUp),   *)
(* and hears of what others logged before it asks for turns                *)
(* (HearsTheRest); so a turn that waits in a connection comes before       *)
(* whatever that one never heard of (AsksForTheHeard), and a job that is   *)
(* finished, or may be, has nothing below it but what was prompted,        *)
(* excused, or has an id given twice (FinishedAreClosed).                  *)
(*                                                                         *)
(* A step is described by what it does of the log, the lock, the poll      *)
(* loops and the jobs of each connection (Motion). The invariant survives  *)
(* any motion (PassedOverGoesOn), and every action is one (MotionNext).    *)
(***************************************************************************)
EXTENDS ChatChannelProofs

-----------------------------------------------------------------------------
(* The records of one connection.                                            *)

\* The append a task of a connection is in.
Busy(c, t) == writes[c][t] # <<>>
Rec(c, t) == writes[c][t][1].rec
Past(c, t) == Busy(c, t) /\ writes[c][t][1].fenced

\* It reaches the log unless the connection loses the channel first.
Passes(c, t) == Busy(c, t) /\ (writes[c][t][1].fenced \/ ~runtimes[c].lost)

Finishes(rec) == rec.kind \in {"job_completed", "job_failed"}
HasLogged(c, x) == \E i \in DOMAIN log : log[i].by = c /\ log[i].id = x
TaskLogged(c, t, x) ==
    \E i \in DOMAIN log : log[i].by = c /\ log[i].task = t /\ log[i].kind = "inbound" /\ log[i].id = x
Heard(c, x, u) == [id |-> x, update |-> u] \in runtimes[c].heard
Pends(c, y) == \E i \in DOMAIN runtimes[c].pending : runtimes[c].pending[i] = y
Runs(c, y) == runtimes[c].active # <<>> /\ runtimes[c].active[1] = y
Unread(c) == polls[c].at \in {"off", "claiming", "reading"}
CatchingUp(c) == polls[c].at \in {"initial", "catching up"}

\* The connection that has the session's runtime and the channel.
Leader(c) == Holds(c) /\ lock.owner = Owner(c)

TasksKeepToTheirs(c) ==
    \A t \in Tasks : Busy(c, t) =>
        /\ t = "turn" => Rec(c, t).kind \in {"outbound", "job_completed", "job_failed"}
        /\ t # "turn" => Rec(c, t).kind \in {"inbound", "checkpoint", "job_queued", "error"}

\* Before it reads the log a connection has done nothing.
StartsEmpty(c) ==
    Unread(c) =>
        /\ \A t \in Tasks : ~Busy(c, t)
        /\ \A i \in DOMAIN log : log[i].by # c
        /\ runtimes[c].pending = <<>> /\ runtimes[c].active = <<>>
        /\ ~Holds(c)

\* An id is given twice only to records of two tasks, between the moment one
\* is built and the moment the other passes the fence.
IdsGoUp(c) ==
    /\ \A i \in DOMAIN log : log[i].by = c => log[i].id < runtimes[c].next
    /\ \A t \in Tasks : Busy(c, t) =>
          /\ Rec(c, t).id <= runtimes[c].next
          /\ Past(c, t) => Rec(c, t).id < runtimes[c].next
          /\ \A i \in DOMAIN log : log[i].by = c /\ log[i].task = t => log[i].id < Rec(c, t).id
          /\ ~Past(c, t) /\ Rec(c, t).id < runtimes[c].next =>
                \/ HasLogged(c, Rec(c, t).id)
                \/ \E r \in Tasks \ {t} : Past(c, r) /\ Rec(c, r).id = Rec(c, t).id

\* Ids count from one.
IdsArePositive(c) ==
    /\ 0 < runtimes[c].next
    /\ \A i \in DOMAIN log : log[i].by = c => 0 < log[i].id
    /\ \A t \in Tasks : Busy(c, t) => 0 < Rec(c, t).id

HearsItself(c) ==
    /\ \A i \in DOMAIN log : log[i].by = c /\ log[i].kind = "inbound" => Heard(c, log[i].id, log[i].update)
    /\ \A t \in Tasks : Past(c, t) /\ Rec(c, t).kind = "inbound" => Heard(c, Rec(c, t).id, Rec(c, t).update)

\* What jobs refer to is in the log.
RefsAreLogged(c) ==
    /\ Busy(c, "turn") => runtimes[c].active # <<>>
    /\ Passes(c, "turn") => \E i \in DOMAIN log : log[i].id = Rec(c, "turn").ref
    /\ ~runtimes[c].lost => \A y : Runs(c, y) => \E i \in DOMAIN log : log[i].id = y
    /\ ~runtimes[c].lost => \A y : Pends(c, y) =>
          /\ TaskLogged(c, "poll", y) \/ TaskLogged(c, "flush", y)
          /\ runtimes[c].armed # NotArmed /\ runtimes[c].armed < y
    /\ \A t \in Tasks : Passes(c, t) /\ Rec(c, t).kind \in {"checkpoint", "job_queued"} =>
          /\ TaskLogged(c, t, Rec(c, t).ref)
          /\ Rec(c, t).kind = "job_queued" => runtimes[c].armed # NotArmed /\ runtimes[c].armed < Rec(c, t).ref

BoundaryIsFinished(c) ==
    Holds(c) =>
        \/ runtimes[c].boundary = 0
        \/ \E j \in DOMAIN log : Finishes(log[j]) /\ log[j].ref = runtimes[c].boundary
        \/ Past(c, "turn") /\ Finishes(Rec(c, "turn")) /\ Rec(c, "turn").ref = runtimes[c].boundary

IsLogged(h) == \E i \in DOMAIN log : log[i].kind = "inbound" /\ log[i].id = h.id /\ log[i].update = h.update
OnTheWay(c, h) ==
    /\ Past(c, "poll") /\ Rec(c, "poll").kind = "inbound"
    /\ Rec(c, "poll").id = h.id /\ Rec(c, "poll").update = h.update

\* While it catches up, only its poll loop writes.
CatchesUpAlone(c) ==
    CatchingUp(c) =>
        /\ ~Busy(c, "flush") /\ ~Busy(c, "turn")
        /\ runtimes[c].next = runtimes[c].tail + 1
        /\ Busy(c, "poll") /\ ~Past(c, "poll") => Rec(c, "poll").id = runtimes[c].next
        /\ \A h \in runtimes[c].heard : h.id <= runtimes[c].tail
        /\ \A h \in runtimes[c].heard : IsLogged(h) \/ OnTheWay(c, h)

RecordsOf(c) ==
    /\ TasksKeepToTheirs(c) /\ StartsEmpty(c) /\ IdsGoUp(c) /\ HearsItself(c)
    /\ RefsAreLogged(c) /\ BoundaryIsFinished(c) /\ CatchesUpAlone(c)

\* What a step leaves of the log, of a runtime but for its jobs, and what it
\* does of the jobs: nothing, or it starts the first that waits.
LogKept == \A i \in DOMAIN log : i \in DOMAIN log' /\ log'[i] = log[i]
LoggedBefore(d) == \A i \in DOMAIN log' : log'[i].by = d => i \in DOMAIN log

Keeps(k, m) ==
    /\ m.owner = k.owner /\ m.next = k.next /\ m.boundary = k.boundary /\ m.tail = k.tail /\ m.heard = k.heard
    /\ k.armed # NotArmed => m.armed = k.armed
    /\ k.lost => m.lost

Begins(k, m) ==
    /\ k.active = <<>> /\ k.pending # <<>>
    /\ m.active = <<Head(k.pending)>> /\ m.pending = Tail(k.pending)

JobsGoOn(k, m) == (m.pending = k.pending /\ m.active = k.active) \/ Begins(k, m)

LEMMA JobsComeFrom ==
    ASSUME NEW k \in RuntimeType, NEW m, JobsGoOn(k, m)
    PROVE  /\ \A y : (\E i \in DOMAIN m.pending : m.pending[i] = y) => \E i \in DOMAIN k.pending : k.pending[i] = y
           /\ \A y : m.active # <<>> /\ m.active[1] = y =>
                 (k.active # <<>> /\ k.active[1] = y) \/ \E i \in DOMAIN k.pending : k.pending[i] = y
           /\ k.active # <<>> => m.active # <<>>
<1>1. CASE m.pending = k.pending /\ m.active = k.active
  BY <1>1
<1>2. CASE Begins(k, m)
  <2>1. k.pending \in Seq(Int) /\ k.pending # <<>>
    BY <1>2 DEF RuntimeType, Begins
  <2>2. ASSUME NEW i \in DOMAIN Tail(k.pending)
        PROVE  i + 1 \in DOMAIN k.pending /\ Tail(k.pending)[i] = k.pending[i + 1]
    BY <2>1
  <2>3. 1 \in DOMAIN k.pending /\ Head(k.pending) = k.pending[1]
    BY <2>1
  <2> QED
    BY <1>2, <2>2, <2>3 DEF Begins
<1> QED
  BY <1>1, <1>2 DEF JobsGoOn

LEMMA LogOnlyGrows ==
    ASSUME LogKept, NEW c
    PROVE  /\ \A x : HasLogged(c, x) => HasLogged(c, x)'
           /\ \A t, x : TaskLogged(c, t, x) => TaskLogged(c, t, x)'
           /\ \A y : (\E i \in DOMAIN log : log[i].id = y) => \E i \in DOMAIN log' : log'[i].id = y
BY DEF LogKept, HasLogged, TaskLogged

\* A connection that neither writes nor reads.
LEMMA RecordsStay ==
    ASSUME TypeOK, NEW d \in Connections, RecordsOf(d), LogKept, LoggedBefore(d),
           writes'[d] = writes[d] \/ \A t \in Tasks : writes'[d][t] = <<>>,
           Keeps(runtimes[d], runtimes'[d]), JobsGoOn(runtimes[d], runtimes'[d]),
           Unread(d)' => Unread(d), CatchingUp(d)' => CatchingUp(d),
           Holds(d)' => Holds(d), Holds(d)' \/ CatchingUp(d)' => writes'[d] = writes[d]
    PROVE  RecordsOf(d)'
<1>1. /\ \A x : HasLogged(d, x) => HasLogged(d, x)'
      /\ \A t, x : TaskLogged(d, t, x) => TaskLogged(d, t, x)'
      /\ \A y : (\E i \in DOMAIN log : log[i].id = y) => \E i \in DOMAIN log' : log'[i].id = y
  BY LogOnlyGrows
<1>2. /\ \A y : Pends(d, y)' => Pends(d, y)
      /\ \A y : Runs(d, y)' => Runs(d, y) \/ Pends(d, y)
      /\ runtimes[d].active # <<>> => runtimes'[d].active # <<>>
  <2>1. runtimes[d] \in RuntimeType
    BY DEF TypeOK
  <2> QED
    BY <2>1, JobsComeFrom DEF Pends, Runs
<1>3. \A t \in Tasks : Busy(d, t)' =>
         Busy(d, t) /\ writes'[d] = writes[d] /\ Rec(d, t)' = Rec(d, t) /\ Past(d, t)' = Past(d, t)
         /\ (Passes(d, t)' => Passes(d, t))
  BY DEF Busy, Rec, Past, Passes, Keeps
<1>4. TasksKeepToTheirs(d)'
  BY <1>3 DEF RecordsOf, TasksKeepToTheirs
<1>5. StartsEmpty(d)'
  <2>1. Unread(d) => ~Begins(runtimes[d], runtimes'[d])
    BY DEF RecordsOf, StartsEmpty, Begins
  <2> QED
    BY <1>3, <2>1 DEF RecordsOf, StartsEmpty, LogKept, LoggedBefore, JobsGoOn
<1>6. IdsGoUp(d)'
  BY <1>1, <1>3 DEF RecordsOf, IdsGoUp, LogKept, LoggedBefore, Keeps, Past, Busy
<1>7. HearsItself(d)'
  BY <1>3 DEF RecordsOf, HearsItself, LogKept, LoggedBefore, Keeps, Past, Heard
<1>8. RefsAreLogged(d)'
  <2>1. "turn" \in Tasks
    BY DEF Tasks
  <2>2. Passes(d, "turn")' => \E i \in DOMAIN log' : log'[i].id = (Rec(d, "turn").ref)'
    <3>1. Passes(d, "turn")' => Passes(d, "turn") /\ (Rec(d, "turn").ref)' = Rec(d, "turn").ref
      BY <1>3, <2>1 DEF Passes, Rec
    <3> QED
      BY <1>1, <3>1 DEF RecordsOf, RefsAreLogged
  <2>3. ~runtimes'[d].lost => \A y : Pends(d, y)' =>
          /\ TaskLogged(d, "poll", y)' \/ TaskLogged(d, "flush", y)'
          /\ runtimes'[d].armed # NotArmed /\ runtimes'[d].armed < y
    BY <1>1, <1>2 DEF RecordsOf, RefsAreLogged, Keeps
  <2>4. ~runtimes'[d].lost => \A y : Runs(d, y)' => \E i \in DOMAIN log' : log'[i].id = y
    BY <1>1, <1>2 DEF RecordsOf, RefsAreLogged, Keeps, TaskLogged
  <2>5. ASSUME NEW t \in Tasks, Passes(d, t)', (Rec(d, t).kind)' \in {"checkpoint", "job_queued"}
        PROVE  /\ TaskLogged(d, t, Rec(d, t).ref)'
               /\ (Rec(d, t).kind)' = "job_queued" =>
                    runtimes'[d].armed # NotArmed /\ runtimes'[d].armed < (Rec(d, t).ref)'
    BY <1>1, <1>3, <2>5 DEF RecordsOf, RefsAreLogged, Keeps, Passes, Busy
  <2> QED
    BY <1>2, <1>3, <2>1, <2>2, <2>3, <2>4, <2>5 DEF RecordsOf, RefsAreLogged
<1>9. BoundaryIsFinished(d)'
  <2>1. "turn" \in Tasks
    BY DEF Tasks
  <2> QED
    BY <1>3, <2>1 DEF RecordsOf, BoundaryIsFinished, Keeps, LogKept, Past, Busy, Rec
<1>10. CatchesUpAlone(d)'
  <2>1. "flush" \in Tasks /\ "turn" \in Tasks /\ "poll" \in Tasks
    BY DEF Tasks
  <2> SUFFICES ASSUME CatchingUp(d)'
               PROVE  CatchesUpAlone(d)'
    BY DEF CatchesUpAlone
  <2>2. CatchingUp(d) /\ \A t \in Tasks : Busy(d, t)' = Busy(d, t) /\ Past(d, t)' = Past(d, t)
    BY DEF Busy, Past
  <2>3. /\ ~Busy(d, "flush")' /\ ~Busy(d, "turn")'
        /\ runtimes'[d].next = runtimes'[d].tail + 1
        /\ \A h \in runtimes'[d].heard : h.id <= runtimes'[d].tail
        /\ Busy(d, "poll")' /\ ~Past(d, "poll")' => (Rec(d, "poll").id)' = runtimes'[d].next
    BY <2>1, <2>2 DEF RecordsOf, CatchesUpAlone, Keeps, Rec
  <2>4. ASSUME NEW h \in runtimes'[d].heard
        PROVE  IsLogged(h)' \/ OnTheWay(d, h)'
    <3>1. IsLogged(h) \/ OnTheWay(d, h)
      BY <2>2 DEF RecordsOf, CatchesUpAlone, Keeps
    <3>2. OnTheWay(d, h) => OnTheWay(d, h)'
      BY <2>1, <2>2 DEF OnTheWay, Rec, Past
    <3> QED
      BY <3>1, <3>2 DEF LogKept, IsLogged
  <2> QED
    BY <2>3, <2>4 DEF CatchesUpAlone
<1> QED
  BY <1>4, <1>5, <1>6, <1>7, <1>8, <1>9, <1>10 DEF RecordsOf

\* The record a task had past the fence, in the log.
Appended(c, t, i) ==
    /\ log'[i].by = c /\ log'[i].task = t /\ log'[i].id = Rec(c, t).id /\ log'[i].kind = Rec(c, t).kind
    /\ log'[i].update = Rec(c, t).update /\ log'[i].ref = Rec(c, t).ref

\* Task t of connection c is done with what it wrote, and may write anew.
MovesOn(c, t) ==
    /\ LogKept
    /\ \A i \in DOMAIN log' : log'[i].by = c => i \in DOMAIN log \/ (Past(c, t) /\ Appended(c, t, i))
    /\ Past(c, t) => \E i \in DOMAIN log' : Appended(c, t, i)
    /\ \A r \in Tasks \ {t} : writes'[c][r] = writes[c][r]
    /\ Busy(c, t)' => ~Past(c, t)' /\ (Rec(c, t).id)' = runtimes[c].next
    /\ Keeps(runtimes[c], runtimes'[c])

LEMMA IdsMoveOn ==
    ASSUME TypeOK, NEW c \in Connections, NEW t \in Tasks, RecordsOf(c), MovesOn(c, t)
    PROVE  IdsGoUp(c)' /\ HearsItself(c)'
<1>1. \A r \in Tasks \ {t} : Busy(c, r)' = Busy(c, r) /\ Past(c, r)' = Past(c, r) /\ Rec(c, r)' = Rec(c, r)
  BY DEF MovesOn, Busy, Past, Rec
<1>2. runtimes'[c].next = runtimes[c].next /\ runtimes'[c].heard = runtimes[c].heard
  BY DEF MovesOn, Keeps
<1>3. \A x : HasLogged(c, x) => HasLogged(c, x)'
  BY LogOnlyGrows DEF MovesOn
<1>4. \A i \in DOMAIN log' : log'[i].by = c =>
         \/ i \in DOMAIN log /\ log'[i] = log[i]
         \/ Past(c, t) /\ Appended(c, t, i)
  BY DEF MovesOn, LogKept
<1>5. ASSUME NEW x, Past(c, t), Rec(c, t).id = x
      PROVE  HasLogged(c, x)'
  BY <1>5 DEF MovesOn, Appended, HasLogged
<1>6. \A i \in DOMAIN log' : log'[i].by = c => log'[i].id < runtimes[c].next
  BY <1>4 DEF RecordsOf, IdsGoUp, Appended, Past
<1>7. ASSUME NEW r \in Tasks \ {t}, Busy(c, r)'
      PROVE  /\ Rec(c, r).id <= runtimes[c].next
             /\ Past(c, r) => Rec(c, r).id < runtimes[c].next
             /\ \A i \in DOMAIN log' : log'[i].by = c /\ log'[i].task = r => log'[i].id < Rec(c, r).id
             /\ ~Past(c, r) /\ Rec(c, r).id < runtimes[c].next => \A x : x = Rec(c, r).id =>
                   HasLogged(c, x)' \/ \E q \in Tasks \ {r} : Past(c, q)' /\ (Rec(c, q).id)' = x
  <2>1. Busy(c, r)
    BY <1>1, <1>7
  <2>2. \A i \in DOMAIN log' : log'[i].by = c /\ log'[i].task = r => log'[i].id < Rec(c, r).id
    <3>1. \A i \in DOMAIN log' : log'[i].by = c /\ log'[i].task = r => i \in DOMAIN log /\ log'[i] = log[i]
      BY <1>4 DEF Appended
    <3> QED
      BY <2>1, <3>1 DEF RecordsOf, IdsGoUp
  <2>3. ASSUME ~Past(c, r), Rec(c, r).id < runtimes[c].next, NEW x, x = Rec(c, r).id
        PROVE  HasLogged(c, x)' \/ \E q \in Tasks \ {r} : Past(c, q)' /\ (Rec(c, q).id)' = x
    <3>1. CASE HasLogged(c, x)
      BY <1>3, <3>1
    <3>2. CASE \E q \in Tasks \ {r} : Past(c, q) /\ Rec(c, q).id = x
      <4>1. PICK q \in Tasks \ {r} : Past(c, q) /\ Rec(c, q).id = x
        BY <3>2
      <4> QED
        BY <1>1, <1>5, <4>1
    <3> QED
      BY <2>1, <2>3, <3>1, <3>2 DEF RecordsOf, IdsGoUp
  <2> QED
    BY <2>1, <2>2, <2>3 DEF RecordsOf, IdsGoUp
<1>8. ASSUME Busy(c, t)'
      PROVE  /\ ~Past(c, t)' /\ (Rec(c, t).id)' = runtimes[c].next
             /\ runtimes[c].next <= runtimes[c].next /\ ~(runtimes[c].next < runtimes[c].next)
  <2> PICK n : n = runtimes[c].next
    OBVIOUS
  <2>1. n \in Int
    BY DEF TypeOK, RuntimeType
  <2>2. n <= n /\ ~(n < n)
    BY <2>1
  <2> QED
    BY <1>8, <2>2 DEF MovesOn
<1>9. IdsGoUp(c)'
  <2> SUFFICES ASSUME NEW r \in Tasks, Busy(c, r)'
               PROVE  (/\ Rec(c, r).id <= runtimes[c].next
                       /\ Past(c, r) => Rec(c, r).id < runtimes[c].next
                       /\ \A i \in DOMAIN log : log[i].by = c /\ log[i].task = r => log[i].id < Rec(c, r).id
                       /\ ~Past(c, r) /\ Rec(c, r).id < runtimes[c].next =>
                             \/ HasLogged(c, Rec(c, r).id)
                             \/ \E q \in Tasks \ {r} : Past(c, q) /\ Rec(c, q).id = Rec(c, r).id)'
    BY <1>2, <1>6 DEF IdsGoUp
  <2>1. CASE r = t
    BY <1>2, <1>6, <1>8, <2>1
  <2>2. CASE r # t
    BY <1>1, <1>2, <1>7, <2>2
  <2> QED
    BY <2>1, <2>2
<1>10. HearsItself(c)'
  <2>1. \A i \in DOMAIN log' : log'[i].by = c /\ log'[i].kind = "inbound" => Heard(c, log'[i].id, log'[i].update)
    BY <1>4 DEF RecordsOf, HearsItself, Appended
  <2>2. ASSUME NEW r \in Tasks, Past(c, r)'
        PROVE  r # t /\ Past(c, r) /\ Rec(c, r)' = Rec(c, r)
    <3>1. r # t
      BY <1>8, <2>2 DEF Past, Busy
    <3> QED
      BY <1>1, <2>2, <3>1
  <2> QED
    BY <1>2, <2>1, <2>2 DEF RecordsOf, HearsItself, Heard
<1> QED
  BY <1>9, <1>10

\* What a task that moves on makes of the jobs: a turn that was asked for waits,
\* and what it writes next refers to what it logged, or to the job that runs.
JobsMoveOn(c, t) ==
    /\ Busy(c, "turn")' => runtimes'[c].active # <<>>
    /\ ~runtimes'[c].lost => \A y :
          /\ Pends(c, y)' => Pends(c, y) \/ (Past(c, t) /\ Rec(c, t).kind = "job_queued" /\ Rec(c, t).ref = y)
          /\ Runs(c, y)' => \/ Runs(c, y) \/ Pends(c, y)
                            \/ (Past(c, t) /\ Rec(c, t).kind = "job_queued" /\ Rec(c, t).ref = y)
    /\ Busy(c, t)' /\ ~runtimes'[c].lost =>
          /\ t = "turn" => \E i \in DOMAIN log' : log'[i].id = (Rec(c, t).ref)'
          /\ (Rec(c, t).kind)' \in {"checkpoint", "job_queued"} => TaskLogged(c, t, Rec(c, t).ref)'
          /\ (Rec(c, t).kind)' = "job_queued" =>
                runtimes'[c].armed # NotArmed /\ runtimes'[c].armed < (Rec(c, t).ref)'

LEMMA RefsMoveOn ==
    ASSUME TypeOK, NEW c \in Connections, NEW t \in Tasks, RecordsOf(c), MovesOn(c, t), JobsMoveOn(c, t)
    PROVE  RefsAreLogged(c)'
<1>1. \A r \in Tasks \ {t} : Rec(c, r)' = Rec(c, r) /\ (Passes(c, r)' => Passes(c, r))
  BY DEF MovesOn, Busy, Passes, Rec, Keeps
<1>2. Passes(c, t)' => Busy(c, t)' /\ ~runtimes'[c].lost
  BY DEF MovesOn, Passes, Past
<1>3. ~runtimes'[c].lost => ~runtimes[c].lost
      /\ (runtimes[c].armed # NotArmed => runtimes'[c].armed = runtimes[c].armed)
  BY DEF MovesOn, Keeps
<1>4. /\ \A r, x : TaskLogged(c, r, x) => TaskLogged(c, r, x)'
      /\ \A y : (\E i \in DOMAIN log : log[i].id = y) => \E i \in DOMAIN log' : log'[i].id = y
  BY LogOnlyGrows DEF MovesOn
<1>5. ASSUME NEW y, Past(c, t), Rec(c, t).kind = "job_queued", Rec(c, t).ref = y
      PROVE  /\ t # "turn" /\ TaskLogged(c, t, y)
             /\ runtimes[c].armed # NotArmed /\ runtimes[c].armed < y
  <2>1. Busy(c, t) /\ Passes(c, t)
    BY <1>5 DEF Past, Passes
  <2> QED
    BY <1>5, <2>1 DEF RecordsOf, RefsAreLogged, TasksKeepToTheirs
<1>6. \A r \in Tasks : r # "turn" => r \in {"poll", "flush"}
  BY DEF Tasks
<1>7. "turn" \in Tasks
  BY DEF Tasks
<1>8. Passes(c, "turn")' => \E i \in DOMAIN log' : log'[i].id = (Rec(c, "turn").ref)'
  <2>1. CASE t = "turn"
    BY <1>2, <2>1 DEF JobsMoveOn
  <2>2. CASE t # "turn"
    BY <1>1, <1>4, <1>7, <2>2 DEF RecordsOf, RefsAreLogged
  <2> QED
    BY <2>1, <2>2
<1>9. ASSUME ~runtimes'[c].lost, NEW y, Pends(c, y)'
      PROVE  /\ TaskLogged(c, "poll", y)' \/ TaskLogged(c, "flush", y)'
             /\ runtimes'[c].armed # NotArmed /\ runtimes'[c].armed < y
  <2>1. CASE Pends(c, y)
    BY <1>3, <1>4, <1>9, <2>1 DEF RecordsOf, RefsAreLogged
  <2>2. CASE Past(c, t) /\ Rec(c, t).kind = "job_queued" /\ Rec(c, t).ref = y
    BY <1>3, <1>4, <1>5, <1>6, <1>9, <2>2
  <2> QED
    BY <1>9, <2>1, <2>2 DEF JobsMoveOn
<1>10. ASSUME ~runtimes'[c].lost, NEW y, Runs(c, y)'
       PROVE  \E i \in DOMAIN log' : log'[i].id = y
  <2>1. CASE Runs(c, y)
    BY <1>3, <1>4, <1>10, <2>1 DEF RecordsOf, RefsAreLogged
  <2>2. CASE Pends(c, y)
    BY <1>3, <1>4, <1>10, <2>2 DEF RecordsOf, RefsAreLogged, TaskLogged
  <2>3. CASE Past(c, t) /\ Rec(c, t).kind = "job_queued" /\ Rec(c, t).ref = y
    BY <1>4, <1>5, <2>3 DEF TaskLogged
  <2> QED
    BY <1>10, <2>1, <2>2, <2>3 DEF JobsMoveOn
<1>11. ASSUME NEW r \in Tasks, Passes(c, r)', (Rec(c, r).kind)' \in {"checkpoint", "job_queued"}
       PROVE  /\ TaskLogged(c, r, Rec(c, r).ref)'
              /\ (Rec(c, r).kind)' = "job_queued" =>
                   runtimes'[c].armed # NotArmed /\ runtimes'[c].armed < (Rec(c, r).ref)'
  <2>1. CASE r = t
    BY <1>2, <1>11, <2>1 DEF JobsMoveOn
  <2>2. CASE r # t
    <3>1. Rec(c, r)' = Rec(c, r) /\ Passes(c, r)
      BY <1>1, <1>11, <2>2
    <3>2. PICK x : x = Rec(c, r).ref
      OBVIOUS
    <3>3. TaskLogged(c, r, x) /\ (Rec(c, r).ref)' = x
      BY <1>11, <3>1, <3>2 DEF RecordsOf, RefsAreLogged
    <3>4. TaskLogged(c, r, x)'
      BY <1>4, <3>3
    <3>5. TaskLogged(c, r, Rec(c, r).ref)'
      BY <3>3, <3>4
    <3>6. (Rec(c, r).kind)' = "job_queued" => runtimes[c].armed # NotArmed /\ runtimes[c].armed < Rec(c, r).ref
      BY <1>11, <3>1 DEF RecordsOf, RefsAreLogged
    <3> QED
      BY <3>1, <3>5, <3>6 DEF MovesOn, Keeps
  <2> QED
    BY <2>1, <2>2
<1>12. Busy(c, "turn")' => runtimes'[c].active # <<>>
  BY DEF JobsMoveOn
<1> QED
  BY <1>8, <1>9, <1>10, <1>11, <1>12 DEF RefsAreLogged

LEMMA RecordsMoveOn ==
    ASSUME TypeOK, NEW c \in Connections, NEW t \in Tasks, RecordsOf(c), MovesOn(c, t), JobsMoveOn(c, t),
           ~Unread(c)', Holds(c)' => Holds(c), CatchingUp(c)' => CatchingUp(c) /\ t = "poll",
           Busy(c, t)' => /\ t = "turn" => (Rec(c, t).kind)' \in {"outbound", "job_completed", "job_failed"}
                          /\ t # "turn" => (Rec(c, t).kind)' \in {"inbound", "checkpoint", "job_queued", "error"}
    PROVE  RecordsOf(c)'
<1>1. \A r \in Tasks \ {t} : Busy(c, r)' = Busy(c, r) /\ Past(c, r)' = Past(c, r) /\ Rec(c, r)' = Rec(c, r)
  BY DEF MovesOn, Busy, Past, Rec
<1>2. TasksKeepToTheirs(c)'
  BY <1>1 DEF RecordsOf, TasksKeepToTheirs
<1>3. StartsEmpty(c)'
  BY DEF StartsEmpty
<1>4. "turn" \in Tasks /\ "poll" \in Tasks /\ "flush" \in Tasks
  BY DEF Tasks
<1>5. BoundaryIsFinished(c)'
  <2> SUFFICES ASSUME Holds(c)'
               PROVE  \/ runtimes'[c].boundary = 0
                      \/ \E j \in DOMAIN log' : Finishes(log'[j]) /\ log'[j].ref = runtimes'[c].boundary
                      \/ /\ Past(c, "turn")' /\ Finishes(Rec(c, "turn"))'
                         /\ (Rec(c, "turn").ref)' = runtimes'[c].boundary
    BY DEF BoundaryIsFinished
  <2>1. PICK n : n = runtimes[c].boundary /\ n = runtimes'[c].boundary
    BY DEF MovesOn, Keeps
  <2>2. CASE n = 0 \/ \E j \in DOMAIN log : Finishes(log[j]) /\ log[j].ref = n
    BY <2>1, <2>2 DEF MovesOn, LogKept
  <2>3. CASE Past(c, "turn") /\ Finishes(Rec(c, "turn")) /\ Rec(c, "turn").ref = n
    <3>1. CASE t = "turn"
      BY <2>1, <2>3, <3>1 DEF MovesOn, Appended, Finishes
    <3>2. CASE t # "turn"
      BY <1>1, <1>4, <2>1, <2>3, <3>2 DEF Finishes
    <3> QED
      BY <3>1, <3>2
  <2> QED
    BY <2>1, <2>2, <2>3 DEF RecordsOf, BoundaryIsFinished
<1>6. CatchesUpAlone(c)'
  <2> SUFFICES ASSUME CatchingUp(c)'
               PROVE  CatchesUpAlone(c)'
    BY DEF CatchesUpAlone
  <2>1. CatchingUp(c) /\ t = "poll"
    OBVIOUS
  <2>2. /\ ~Busy(c, "flush")' /\ ~Busy(c, "turn")'
        /\ runtimes'[c].next = runtimes'[c].tail + 1
        /\ \A h \in runtimes'[c].heard : h.id <= runtimes'[c].tail
        /\ Busy(c, "poll")' /\ ~Past(c, "poll")' => (Rec(c, "poll").id)' = runtimes'[c].next
    BY <1>1, <1>4, <2>1 DEF RecordsOf, CatchesUpAlone, MovesOn, Keeps
  <2>3. ASSUME NEW h \in runtimes'[c].heard
        PROVE  IsLogged(h)'
    <3>1. IsLogged(h) \/ OnTheWay(c, h)
      BY <2>1 DEF RecordsOf, CatchesUpAlone, MovesOn, Keeps
    <3>2. IsLogged(h) => IsLogged(h)'
      BY DEF MovesOn, LogKept, IsLogged
    <3>3. OnTheWay(c, h) => IsLogged(h)'
      BY <2>1 DEF OnTheWay, MovesOn, Appended, IsLogged
    <3> QED
      BY <3>1, <3>2, <3>3
  <2> QED
    BY <2>2, <2>3 DEF CatchesUpAlone
<1> QED
  BY <1>2, <1>3, <1>5, <1>6, IdsMoveOn, RefsMoveOn DEF RecordsOf

LEMMA WhatIsPushed ==
    ASSUME NEW k \in RuntimeType, NEW rec \in RecordType
    PROVE  LET m == Pushed(k, rec)
           IN  /\ k.next \in Int /\ rec.id \in Int /\ m.next \in Int 
               /\ m.next = (IF rec.id + 1 > k.next THEN rec.id + 1 ELSE k.next)
               /\ m.tail = rec.id
               /\ m.boundary = (IF Finishes(rec) /\ rec.ref > k.boundary THEN rec.ref ELSE k.boundary)
               /\ \A h : h \in m.heard <=> h \in k.heard \/ (rec.kind = "inbound" /\ h = [id |-> rec.id, update |-> rec.update])
               /\ m.owner = k.owner /\ m.pending = k.pending /\ m.active = k.active
               /\ m.armed = k.armed /\ m.lost = k.lost
BY DEF Pushed, Finishes, RuntimeType, RecordType

\* The record of task t passes the fence.
PassesNow(c, t) ==
    /\ log' = log /\ Busy(c, t) /\ ~Past(c, t) /\ ~runtimes[c].lost
    /\ \A r \in Tasks \ {t} : writes'[c][r] = writes[c][r]
    /\ Past(c, t)' /\ Rec(c, t)' = Rec(c, t)
    /\ runtimes'[c] = Pushed(runtimes[c], Rec(c, t))

LEMMA IdsPass ==
    ASSUME TypeOK, NEW c \in Connections, NEW t \in Tasks, RecordsOf(c), PassesNow(c, t)
    PROVE  IdsGoUp(c)' /\ runtimes[c].next <= runtimes'[c].next
<1>0. runtimes[c] \in RuntimeType /\ Rec(c, t) \in RecordType /\ Busy(c, t)
  BY WriteIsTyped DEF PassesNow, TypeOK, Busy, Rec
<1>1. PICK n, m, x : /\ n = runtimes[c].next /\ m = runtimes'[c].next /\ x = Rec(c, t).id
  OBVIOUS
<1>2. /\ m = (IF x + 1 > n THEN x + 1 ELSE n)
      /\ n \in Int /\ x \in Int /\ m \in Int
  <2>1. PICK k, rec, p : k = runtimes[c] /\ rec = Rec(c, t) /\ p = Pushed(k, rec)
    OBVIOUS
  <2>2. /\ k.next \in Int /\ rec.id \in Int /\ p.next \in Int
        /\ p.next = (IF rec.id + 1 > k.next THEN rec.id + 1 ELSE k.next)
    BY <1>0, <2>1, WhatIsPushed
  <2>3. runtimes'[c] = p
    BY <2>1 DEF PassesNow
  <2> QED
    BY <1>1, <2>1, <2>2, <2>3
<1>3. x <= n
  BY <1>0, <1>1 DEF RecordsOf, IdsGoUp
<1>4. n <= m /\ x < m
  BY <1>2, <1>3
<1>5. \A r \in Tasks \ {t} : Busy(c, r)' = Busy(c, r) /\ Past(c, r)' = Past(c, r) /\ Rec(c, r)' = Rec(c, r)
  BY DEF PassesNow, Busy, Past, Rec
<1>6. \A r \in Tasks : Busy(c, r) => Rec(c, r).id \in Int
  <2>1. \A r \in Tasks : Busy(c, r) => Rec(c, r) \in RecordType
    BY WriteIsTyped DEF Busy, Rec
  <2> QED
    BY <2>1 DEF RecordType
<1>7. \A i \in DOMAIN log : log[i].id \in Int
  BY LogIsTyped DEF LogRecordType
<1>8. \A i \in DOMAIN log' : log'[i].by = c => log'[i].id < m
  <2>1. \A i \in DOMAIN log : log[i].by = c => log[i].id < n
    BY <1>1 DEF RecordsOf, IdsGoUp
  <2> QED
    BY <1>2, <1>4, <1>7, <2>1 DEF PassesNow
<1>9. ASSUME NEW r \in Tasks, Busy(c, r)'
      PROVE  (/\ Rec(c, r).id <= runtimes[c].next
              /\ Past(c, r) => Rec(c, r).id < runtimes[c].next
              /\ \A i \in DOMAIN log : log[i].by = c /\ log[i].task = r => log[i].id < Rec(c, r).id
              /\ ~Past(c, r) /\ Rec(c, r).id < runtimes[c].next =>
                    \/ HasLogged(c, Rec(c, r).id)
                    \/ \E q \in Tasks \ {r} : Past(c, q) /\ Rec(c, q).id = Rec(c, r).id)'
  <2>1. CASE r = t
    <3>1. (Rec(c, r).id)' = x /\ Past(c, r)'
      BY <1>1, <2>1 DEF PassesNow
    <3>2. \A i \in DOMAIN log : log[i].by = c /\ log[i].task = r => log[i].id < x
      BY <1>0, <1>1, <2>1 DEF RecordsOf, IdsGoUp
    <3>3. x <= m
      BY <1>2, <1>4
    <3> QED
      BY <1>1, <1>4, <3>1, <3>2, <3>3 DEF PassesNow
  <2>2. CASE r # t
    <3>1. Busy(c, r) /\ Busy(c, r)' /\ Past(c, r)' = Past(c, r) /\ Rec(c, r)' = Rec(c, r)
      BY <1>5, <1>9, <2>2
    <3>2. PICK y : y = Rec(c, r).id
      OBVIOUS
    <3>3. y \in Int /\ (Rec(c, r).id)' = y
      BY <1>6, <3>1, <3>2
    <3>4. /\ y <= n /\ (Past(c, r) => y < n)
          /\ \A i \in DOMAIN log : log[i].by = c /\ log[i].task = r => log[i].id < y
          /\ ~Past(c, r) /\ y < n =>
                \/ HasLogged(c, y)
                \/ \E q \in Tasks \ {r} : Past(c, q) /\ Rec(c, q).id = y
      BY <1>1, <3>1, <3>2 DEF RecordsOf, IdsGoUp
    <3>5. y <= m /\ (Past(c, r)' => y < m)
      BY <1>2, <1>4, <3>1, <3>3, <3>4
    <3>6. ASSUME ~Past(c, r)', y < m
          PROVE  HasLogged(c, y)' \/ \E q \in Tasks \ {r} : Past(c, q)' /\ (Rec(c, q).id)' = y
      <4>1. CASE y < n
        <5>1. CASE HasLogged(c, y)
          BY <5>1 DEF HasLogged, PassesNow
        <5>2. CASE \E q \in Tasks \ {r} : Past(c, q) /\ Rec(c, q).id = y
          <6>1. PICK q \in Tasks \ {r} : Past(c, q) /\ Rec(c, q).id = y
            BY <5>2
          <6>2. q # t
            BY <6>1 DEF PassesNow
          <6> QED
            BY <1>5, <6>1, <6>2
        <5> QED
          BY <3>1, <3>4, <3>6, <4>1, <5>1, <5>2
      <4>2. CASE ~(y < n)
        <5>1. y = x
          BY <1>2, <1>3, <3>3, <3>4, <3>6, <4>2
        <5>2. Past(c, t)' /\ (Rec(c, t).id)' = y
          BY <1>1, <5>1 DEF PassesNow
        <5> QED
          BY <2>2, <5>2
      <4> QED
        BY <4>1, <4>2
    <3> QED
      BY <1>1, <3>3, <3>4, <3>5, <3>6 DEF PassesNow
  <2> QED
    BY <2>1, <2>2
<1> QED
  BY <1>1, <1>4, <1>8, <1>9 DEF IdsGoUp

LEMMA RecordsPass ==
    ASSUME TypeOK, NEW c \in Connections, NEW t \in Tasks, RecordsOf(c), PassesNow(c, t),
           ~Unread(c)', Holds(c)' => Holds(c), CatchingUp(c)' => CatchingUp(c)
    PROVE  RecordsOf(c)'
<1>0. runtimes[c] \in RuntimeType /\ Rec(c, t) \in RecordType /\ Busy(c, t)
  BY WriteIsTyped DEF PassesNow, TypeOK, Busy, Rec
<1>1. \A r \in Tasks \ {t} : Busy(c, r)' = Busy(c, r) /\ Past(c, r)' = Past(c, r) /\ Rec(c, r)' = Rec(c, r)
  BY DEF PassesNow, Busy, Past, Rec
<1>2. Busy(c, t)' /\ Past(c, t)' /\ Rec(c, t)' = Rec(c, t) /\ ~Past(c, t)
  BY DEF PassesNow, Past
<1>3. PICK k, rec, p : k = runtimes[c] /\ rec = Rec(c, t) /\ p = Pushed(k, rec) /\ runtimes'[c] = p
  BY DEF PassesNow
<1>4. /\ p.next = (IF rec.id + 1 > k.next THEN rec.id + 1 ELSE k.next)
      /\ p.tail = rec.id
      /\ p.boundary = (IF Finishes(rec) /\ rec.ref > k.boundary THEN rec.ref ELSE k.boundary)
      /\ \A h : h \in p.heard <=> h \in k.heard \/ (rec.kind = "inbound" /\ h = [id |-> rec.id, update |-> rec.update])
      /\ p.owner = k.owner /\ p.pending = k.pending /\ p.active = k.active
      /\ p.armed = k.armed /\ p.lost = k.lost
      /\ k.next \in Int /\ rec.id \in Int
  BY <1>0, <1>3, WhatIsPushed
<1>5. TasksKeepToTheirs(c)'
  <2>1. \A r \in Tasks : Busy(c, r)' => Busy(c, r) /\ Rec(c, r)' = Rec(c, r)
    BY <1>0, <1>1, <1>2
  <2> QED
    BY <2>1 DEF RecordsOf, TasksKeepToTheirs
<1>6. StartsEmpty(c)'
  BY DEF StartsEmpty
<1>7. HearsItself(c)'
  <2>1. \A x, u : Heard(c, x, u) => Heard(c, x, u)'
    BY <1>3, <1>4 DEF Heard
  <2>2. Rec(c, t).kind = "inbound" => [id |-> Rec(c, t).id, update |-> Rec(c, t).update] \in p.heard
    BY <1>3, <1>4
  <2>3. \A i \in DOMAIN log' : log'[i].by = c /\ log'[i].kind = "inbound" =>
               [id |-> log'[i].id, update |-> log'[i].update] \in runtimes'[c].heard
    BY <1>3, <1>4 DEF RecordsOf, HearsItself, PassesNow, Heard
  <2>4. ASSUME NEW r \in Tasks, Past(c, r)', (Rec(c, r).kind)' = "inbound"
        PROVE  [id |-> (Rec(c, r).id)', update |-> (Rec(c, r).update)'] \in runtimes'[c].heard
    <3>1. CASE r = t
      BY <1>2, <1>3, <2>2, <2>4, <3>1
    <3>2. CASE r # t
      BY <1>1, <1>3, <1>4, <2>4, <3>2 DEF RecordsOf, HearsItself, Heard
    <3> QED
      BY <3>1, <3>2
  <2> QED
    BY <2>3, <2>4 DEF HearsItself, Heard
<1>8. RefsAreLogged(c)'
  <2>2. \A r \in Tasks : Busy(c, r)' => Passes(c, r) /\ Rec(c, r)' = Rec(c, r)
    BY <1>0, <1>1, <1>2 DEF Passes, PassesNow
  <2>3. \A r, x : TaskLogged(c, r, x) <=> TaskLogged(c, r, x)'
    BY DEF TaskLogged, PassesNow
  <2>4. Busy(c, "turn")' => Busy(c, "turn")
    BY <1>0, <1>1, <1>2 DEF Tasks
  <2>5. \A y : (Pends(c, y)' <=> Pends(c, y)) /\ (Runs(c, y)' <=> Runs(c, y))
    BY <1>3, <1>4 DEF Pends, Runs
  <2>6. runtimes'[c].armed = runtimes[c].armed /\ runtimes'[c].active = runtimes[c].active
    BY <1>3, <1>4
  <2>7. \A r \in Tasks : Passes(c, r)' => Passes(c, r) /\ Rec(c, r)' = Rec(c, r)
    BY <2>2 DEF Passes
  <2>8. "turn" \in Tasks
    BY DEF Tasks
  <2>9. Passes(c, "turn")' => \E i \in DOMAIN log' : log'[i].id = (Rec(c, "turn").ref)'
    <3>1. Passes(c, "turn")' => Passes(c, "turn") /\ Rec(c, "turn")' = Rec(c, "turn")
      BY <2>7, <2>8
    <3> QED
      BY <3>1 DEF RecordsOf, RefsAreLogged, PassesNow
  <2>10. /\ \A y : Runs(c, y)' => \E i \in DOMAIN log' : log'[i].id = y
         /\ \A y : Pends(c, y)' =>
               /\ TaskLogged(c, "poll", y)' \/ TaskLogged(c, "flush", y)'
               /\ runtimes'[c].armed # NotArmed /\ runtimes'[c].armed < y
    BY <2>3, <2>5, <2>6 DEF RecordsOf, RefsAreLogged, PassesNow
  <2>11. ASSUME NEW r \in Tasks, Passes(c, r)', (Rec(c, r).kind)' \in {"checkpoint", "job_queued"}
         PROVE  /\ TaskLogged(c, r, Rec(c, r).ref)'
                /\ (Rec(c, r).kind)' = "job_queued" =>
                     runtimes'[c].armed # NotArmed /\ runtimes'[c].armed < (Rec(c, r).ref)'
    <3>1. PICK x : x = Rec(c, r).ref
      OBVIOUS
    <3>2. Passes(c, r) /\ Rec(c, r)' = Rec(c, r)
      BY <2>7, <2>11
    <3>3. TaskLogged(c, r, x) /\ (Rec(c, r).ref)' = x
      BY <2>11, <3>1, <3>2 DEF RecordsOf, RefsAreLogged
    <3>4. TaskLogged(c, r, Rec(c, r).ref)'
      BY <2>3, <3>3
    <3> QED
      BY <2>6, <2>11, <3>2, <3>4 DEF RecordsOf, RefsAreLogged
  <2> QED
    BY <2>4, <2>6, <2>9, <2>10, <2>11 DEF RecordsOf, RefsAreLogged
<1>9. BoundaryIsFinished(c)'
  <2> SUFFICES ASSUME Holds(c)'
               PROVE  \/ p.boundary = 0
                      \/ \E j \in DOMAIN log : Finishes(log[j]) /\ log[j].ref = p.boundary
                      \/ /\ Past(c, "turn")' /\ Finishes(Rec(c, "turn"))'
                         /\ (Rec(c, "turn").ref)' = p.boundary
    BY <1>3 DEF BoundaryIsFinished, PassesNow
  <2>1. CASE p.boundary = k.boundary
    <3>1. Past(c, "turn") => Past(c, "turn")' /\ Rec(c, "turn")' = Rec(c, "turn")
      BY <1>1, <1>2 DEF Tasks
    <3> QED
      BY <1>3, <2>1, <3>1 DEF RecordsOf, BoundaryIsFinished, Finishes
  <2>2. CASE p.boundary # k.boundary
    <3>1. Finishes(rec) /\ p.boundary = rec.ref
      BY <1>4, <2>2
    <3>2. t = "turn"
      BY <1>0, <1>3, <3>1 DEF RecordsOf, TasksKeepToTheirs, Finishes
    <3> QED
      BY <1>2, <1>3, <3>1, <3>2 DEF Finishes
  <2> QED
    BY <2>1, <2>2
<1>10. CatchesUpAlone(c)'
  <2> SUFFICES ASSUME CatchingUp(c)'
               PROVE  CatchesUpAlone(c)'
    BY DEF CatchesUpAlone
  <2>1. /\ t = "poll" /\ ~Busy(c, "flush")' /\ ~Busy(c, "turn")'
    <3>1. ~Busy(c, "flush") /\ ~Busy(c, "turn")
      BY DEF RecordsOf, CatchesUpAlone
    <3>2. t = "poll"
      BY <1>0, <3>1 DEF Tasks
    <3> QED
      BY <1>1, <3>1, <3>2 DEF Tasks
  <2>2. k.next = k.tail + 1 /\ rec.id = k.next
    BY <1>0, <1>2, <1>3, <2>1 DEF RecordsOf, CatchesUpAlone
  <2>3. p.next = p.tail + 1 /\ p.tail = k.next
    BY <1>4, <2>2
  <2>4. k.tail \in Int /\ k.heard \in SUBSET [id : Int, update : Nat]
    BY <1>0, <1>3 DEF RuntimeType
  <2>5. \A h \in k.heard : h.id <= k.tail /\ h.id \in Int
    BY <1>3, <2>4 DEF RecordsOf, CatchesUpAlone
  <2>6. ASSUME NEW h \in p.heard
        PROVE  h.id <= p.tail
    <3>1. CASE h \in k.heard
      <4>1. PICK x, y : x = h.id /\ y = k.tail
        OBVIOUS
      <4>2. x \in Int /\ y \in Int /\ x <= y
        BY <2>4, <2>5, <3>1, <4>1
      <4>3. x <= y + 1
        BY <4>2
      <4> QED
        BY <2>2, <2>3, <4>1, <4>3
    <3>2. CASE h.id = rec.id
      BY <1>4, <3>2
    <3> QED
      BY <1>4, <3>1, <3>2
  <2>7. ASSUME NEW h \in p.heard
        PROVE  IsLogged(h)' \/ OnTheWay(c, h)'
    <3>1. CASE h \in k.heard
      <4>1. IsLogged(h) \/ OnTheWay(c, h)
        BY <1>3, <3>1 DEF RecordsOf, CatchesUpAlone
      <4>2. ~OnTheWay(c, h)
        BY <1>2, <2>1 DEF OnTheWay
      <4> QED
        BY <4>1, <4>2 DEF IsLogged, PassesNow
    <3>2. CASE rec.kind = "inbound" /\ h = [id |-> rec.id, update |-> rec.update]
      BY <1>2, <1>3, <2>1, <3>2 DEF OnTheWay
    <3> QED
      BY <1>4, <3>1, <3>2
  <2> QED
    BY <1>2, <1>3, <2>1, <2>3, <2>6, <2>7 DEF CatchesUpAlone
<1> QED
  BY <1>5, <1>6, <1>7, <1>8, <1>9, <1>10, IdsPass DEF RecordsOf

\* Connection d neither writes nor reads.
StaysPut(d) ==
    /\ LoggedBefore(d) /\ (writes'[d] = writes[d] \/ \A t \in Tasks : writes'[d][t] = <<>>)
    /\ Keeps(runtimes[d], runtimes'[d]) /\ JobsGoOn(runtimes[d], runtimes'[d])
    /\ Unread(d)' => Unread(d)
    /\ CatchingUp(d)' => CatchingUp(d)
    /\ Holds(d)' => Holds(d)
    /\ Holds(d)' \/ CatchingUp(d)' => writes'[d] = writes[d]

\* A record built anew: a message is taken by the connection that has the
\* session's runtime, a checkpoint follows the message the task has written, and
\* what ends a turn is about the job that runs.
StartsRecord(d, t) ==
    Busy(d, t)' =>
        /\ t = "turn" =>
              /\ (Rec(d, t).kind)' \in {"outbound", "job_completed", "job_failed"}
              /\ \/ Busy(d, t) /\ (Rec(d, t).ref)' = Rec(d, t).ref
                 \/ HasRuntime(d) /\ Owner(d) \in Sessions /\ \A y : y = (Rec(d, t).ref)' => Runs(d, y)
        /\ t # "turn" => (Rec(d, t).kind)' \in {"inbound", "checkpoint", "job_queued", "error"}
        /\ (Rec(d, t).kind)' = "inbound" =>
              /\ HasRuntime(d) /\ Owner(d) \in Sessions /\ lock' = lock /\ (Rec(d, t).update)' \in Updates
              /\ t = "flush" => ~CatchingUp(d)
        /\ (Rec(d, t).kind)' = "checkpoint" =>
              Busy(d, t) /\ Rec(d, t).kind = "inbound" /\ (Rec(d, t).update)' = Rec(d, t).update

Moves(d, t) ==
    /\ MovesOn(d, t) /\ JobsMoveOn(d, t) /\ StartsRecord(d, t)
    /\ Busy(d, t) /\ ~Past(d, t) => runtimes'[d].lost
    /\ ~Unread(d)'
    /\ Holds(d)' => Holds(d)
    /\ CatchingUp(d)' => CatchingUp(d) /\ t = "poll"

Passing(d, t) ==
    /\ PassesNow(d, t) /\ lock.owner = Owner(d) /\ Owner(d) \in Sessions /\ lock' = lock
    /\ ~Unread(d)'
    /\ Holds(d)' => Holds(d)
    /\ CatchingUp(d)' => CatchingUp(d)

\* It is made, or has read the log.
Starts(d) ==
    /\ Unread(d) /\ log' = log
    /\ \A t \in Tasks : ~Busy(d, t) /\ ~Busy(d, t)'
    /\ runtimes'[d].pending = <<>> /\ runtimes'[d].active = <<>>
    /\ Holds(d)' =>
          /\ polls'[d].at = "initial"
          /\ \A i \in DOMAIN log : log[i].id < runtimes'[d].next
          /\ \A i \in DOMAIN log : log[i].kind = "inbound" => Heard(d, log[i].id, log[i].update)'
    /\ RecordsOf(d)' /\ IdsArePositive(d)'

Goes(d) == StaysPut(d) \/ Starts(d) \/ \E t \in Tasks : Moves(d, t) \/ Passing(d, t)

\* The log stays, or gets the record of a task that had it past the fence.
LogGoesOn ==
    \/ log' = log
    \/ \E c \in Connections, t \in Tasks, e \in LogRecordType :
          /\ Past(c, t) /\ log' = Append(log, e)
          /\ e.by = c /\ e.task = t /\ e.id = Rec(c, t).id /\ e.kind = Rec(c, t).kind
          /\ e.update = Rec(c, t).update /\ e.ref = Rec(c, t).ref

LargestIsLogged == log # <<>> => \E i \in DOMAIN log : \A j \in DOMAIN log : log[j].id <= log[i].id
FinishedAreLogged == \A j \in DOMAIN log : Finishes(log[j]) => \E i \in DOMAIN log : log[i].id = log[j].ref

RecordsInvariant ==
    /\ TurnsInvariant /\ LargestIsLogged /\ FinishedAreLogged
    /\ \A c \in Connections : RecordsOf(c) /\ IdsArePositive(c)

LEMMA WhatIsAppended ==
    ASSUME TypeOK, LogGoesOn
    PROVE  /\ LogKept
           /\ \A i \in DOMAIN log' : i \notin DOMAIN log =>
                 \E c \in Connections, t \in Tasks :
                    Past(c, t) /\ Appended(c, t, i) /\ \A j \in DOMAIN log' : j = i \/ j \in DOMAIN log
<1>1. CASE log' = log
  BY <1>1 DEF LogKept
<1>2. CASE log' # log
  <2>1. PICK c \in Connections, t \in Tasks, e \in LogRecordType :
          /\ Past(c, t) /\ log' = Append(log, e)
          /\ e.by = c /\ e.task = t /\ e.id = Rec(c, t).id /\ e.kind = Rec(c, t).kind
          /\ e.update = Rec(c, t).update /\ e.ref = Rec(c, t).ref
    BY <1>2 DEF LogGoesOn
  <2>2. log \in Seq(LogRecordType)
    BY DEF TypeOK
  <2>3. /\ \A i \in DOMAIN log : i \in DOMAIN log' /\ log'[i] = log[i]
        /\ \A i \in DOMAIN log' : i \notin DOMAIN log => i = Len(log) + 1 /\ log'[i] = e
    BY <2>1, <2>2
  <2>4. \A i \in DOMAIN log' : i \notin DOMAIN log =>
           Appended(c, t, i) /\ \A j \in DOMAIN log' : j = i \/ j \in DOMAIN log
    BY <2>1, <2>3 DEF Appended
  <2> QED
    BY <2>1, <2>3, <2>4 DEF LogKept
<1> QED
  BY <1>1, <1>2

LEMMA LargestStays ==
    ASSUME TypeOK, LargestIsLogged, LogGoesOn
    PROVE  LargestIsLogged'
<1>1. CASE log' = log
  BY <1>1 DEF LargestIsLogged
<1>2. CASE log' # log
  <2>1. PICK e \in LogRecordType : log' = Append(log, e)
    BY <1>2 DEF LogGoesOn
  <2>2. log \in Seq(LogRecordType)
    BY DEF TypeOK
  <2>3. /\ \A i \in DOMAIN log : i \in DOMAIN log' /\ log'[i] = log[i]
        /\ Len(log) + 1 \in DOMAIN log' /\ log'[Len(log) + 1] = e
        /\ \A i \in DOMAIN log' : (i \in DOMAIN log /\ log'[i] = log[i]) \/ log'[i] = e
    BY <2>1, <2>2
  <2>4. e.id \in Int /\ \A i \in DOMAIN log : log[i].id \in Int
    BY LogIsTyped DEF LogRecordType
  <2>5. PICK n : n = e.id
    OBVIOUS
  <2>6. n \in Int /\ n <= n
    BY <2>4, <2>5
  <2>7. CASE log = <<>>
    BY <2>3, <2>5, <2>6, <2>7 DEF LargestIsLogged
  <2>8. CASE log # <<>>
    <3>1. PICK i \in DOMAIN log : \A j \in DOMAIN log : log[j].id <= log[i].id
      BY <2>8 DEF LargestIsLogged
    <3>2. PICK m : m = log[i].id
      OBVIOUS
    <3>3. m \in Int /\ \A j \in DOMAIN log : log[j].id <= m
      BY <2>4, <3>1, <3>2
    <3>4. CASE n <= m
      BY <2>3, <2>5, <3>1, <3>2, <3>3, <3>4 DEF LargestIsLogged
    <3>5. CASE ~(n <= m)
      <4>1. \A x \in Int : x <= m => x <= n
        BY <2>6, <3>3, <3>5
      <4>2. \A j \in DOMAIN log : log[j].id <= n
        BY <2>4, <3>3, <4>1
      <4>3. \A j \in DOMAIN log' : log'[j].id <= log'[Len(log) + 1].id
        BY <2>3, <2>5, <2>6, <4>2
      <4> QED
        BY <2>3, <4>3 DEF LargestIsLogged
    <3> QED
      BY <3>4, <3>5
  <2> QED
    BY <2>7, <2>8
<1> QED
  BY <1>1, <1>2

LEMMA PositiveStays ==
    ASSUME TypeOK, TypeOK', NEW c \in Connections, IdsArePositive(c), runtimes[c].next <= runtimes'[c].next,
           \A i \in DOMAIN log' : log'[i].by = c =>
              \/ i \in DOMAIN log /\ log'[i] = log[i]
              \/ \E t \in Tasks : Busy(c, t) /\ log'[i].id = Rec(c, t).id,
           \A t \in Tasks : Busy(c, t)' =>
              (Busy(c, t) /\ (Rec(c, t).id)' = Rec(c, t).id) \/ (Rec(c, t).id)' = runtimes[c].next
    PROVE  IdsArePositive(c)'
<1> PICK n, m : n = runtimes[c].next /\ m = runtimes'[c].next
  OBVIOUS
<1>1. n \in Int /\ m \in Int /\ n <= m /\ 0 < n
  BY DEF TypeOK, RuntimeType, IdsArePositive
<1>2. 0 < m
  BY <1>1
<1> QED
  BY <1>1, <1>2 DEF IdsArePositive

LEMMA PositiveGoes ==
    ASSUME RecordsInvariant, TypeOK', LogGoesOn, NEW c \in Connections, Goes(c)
    PROVE  IdsArePositive(c)'
<1>0. TypeOK /\ RecordsOf(c) /\ IdsArePositive(c)
  BY DEF RecordsInvariant, TurnsInvariant, HandoverInvariant
<1>1. LogKept
  BY <1>0, WhatIsAppended
<1>2. runtimes[c].next <= runtimes[c].next
  <2> PICK n : n = runtimes[c].next
    OBVIOUS
  <2>1. n \in Int
    BY <1>0 DEF TypeOK, RuntimeType
  <2> QED
    BY <2>1
<1>3. CASE StaysPut(c)
  <2>1. runtimes'[c].next = runtimes[c].next
    BY <1>3 DEF StaysPut, Keeps
  <2>2. \A i \in DOMAIN log' : log'[i].by = c => i \in DOMAIN log /\ log'[i] = log[i]
    BY <1>1, <1>3 DEF StaysPut, LoggedBefore, LogKept
  <2>3. \A t \in Tasks : Busy(c, t)' => Busy(c, t) /\ (Rec(c, t).id)' = Rec(c, t).id
    BY <1>3 DEF StaysPut, Busy, Rec
  <2> QED
    BY <1>0, <1>2, <2>1, <2>2, <2>3, PositiveStays
<1>4. CASE Starts(c)
  BY <1>4 DEF Starts
<1>5. ASSUME NEW t \in Tasks, Moves(c, t)
      PROVE  IdsArePositive(c)'
  <2>1. runtimes'[c].next = runtimes[c].next
    BY <1>5 DEF Moves, MovesOn, Keeps
  <2>2. \A i \in DOMAIN log' : log'[i].by = c =>
           \/ i \in DOMAIN log /\ log'[i] = log[i]
           \/ Busy(c, t) /\ log'[i].id = Rec(c, t).id
    BY <1>5 DEF Moves, MovesOn, LogKept, Appended, Past
  <2>3. \A r \in Tasks : Busy(c, r)' =>
           (Busy(c, r) /\ (Rec(c, r).id)' = Rec(c, r).id) \/ (Rec(c, r).id)' = runtimes[c].next
    BY <1>5 DEF Moves, MovesOn, Busy, Rec
  <2> QED
    BY <1>0, <1>2, <2>1, <2>2, <2>3, PositiveStays
<1>6. ASSUME NEW t \in Tasks, Passing(c, t)
      PROVE  IdsArePositive(c)'
  <2>1. PassesNow(c, t) /\ log' = log
    BY <1>6 DEF Passing, PassesNow
  <2>2. runtimes[c].next <= runtimes'[c].next
    BY <1>0, <2>1, IdsPass
  <2>3. \A r \in Tasks : Busy(c, r)' => Busy(c, r) /\ (Rec(c, r).id)' = Rec(c, r).id
    BY <2>1 DEF PassesNow, Busy, Rec
  <2> QED
    BY <1>0, <2>1, <2>2, <2>3, PositiveStays
<1> QED
  BY <1>3, <1>4, <1>5, <1>6 DEF Goes

LEMMA RecordsGo ==
    ASSUME RecordsInvariant, TurnsInvariant', LogGoesOn, \A c \in Connections : Goes(c)
    PROVE  RecordsInvariant'
<1>0. TypeOK /\ TypeOK'
  BY DEF RecordsInvariant, TurnsInvariant, HandoverInvariant
<1>1. /\ LogKept
      /\ \A i \in DOMAIN log' : i \notin DOMAIN log =>
            \E c \in Connections, t \in Tasks : Past(c, t) /\ Appended(c, t, i)
  BY <1>0, WhatIsAppended
<1>2. LargestIsLogged'
  BY <1>0, LargestStays DEF RecordsInvariant
<1>3. FinishedAreLogged'
  <2> SUFFICES ASSUME NEW i \in DOMAIN log', Finishes(log'[i])
               PROVE  \E j \in DOMAIN log' : log'[j].id = log'[i].ref
    BY DEF FinishedAreLogged, Finishes
  <2>1. CASE i \in DOMAIN log
    BY <1>1, <2>1 DEF RecordsInvariant, FinishedAreLogged, LogKept
  <2>2. CASE i \notin DOMAIN log
    <3>1. PICK c \in Connections, t \in Tasks : Past(c, t) /\ Appended(c, t, i)
      BY <1>1, <2>2
    <3>2. Busy(c, t) /\ Passes(c, t) /\ Finishes(Rec(c, t)) /\ log'[i].ref = Rec(c, t).ref
      BY <3>1 DEF Appended, Past, Passes, Busy, Finishes
    <3>3. t = "turn"
      BY <3>2 DEF RecordsInvariant, RecordsOf, TasksKeepToTheirs, Finishes
    <3>4. \E j \in DOMAIN log : log[j].id = log'[i].ref
      BY <3>2, <3>3 DEF RecordsInvariant, RecordsOf, RefsAreLogged
    <3> QED
      BY <1>1, <3>4 DEF LogKept
  <2> QED
    BY <2>1, <2>2
<1>4. ASSUME NEW c \in Connections PROVE RecordsOf(c)'
  <2>0. RecordsOf(c) /\ Goes(c)
    BY DEF RecordsInvariant
  <2>1. CASE StaysPut(c)
    BY <1>0, <1>1, <2>0, <2>1, RecordsStay DEF StaysPut
  <2>2. CASE Starts(c)
    BY <2>2 DEF Starts
  <2>3. ASSUME NEW t \in Tasks, Moves(c, t) PROVE RecordsOf(c)'
    BY <1>0, <2>0, <2>3, RecordsMoveOn DEF Moves, StartsRecord
  <2>4. ASSUME NEW t \in Tasks, Passing(c, t) PROVE RecordsOf(c)'
    BY <1>0, <2>0, <2>4, RecordsPass DEF Passing
  <2> QED
    BY <2>0, <2>1, <2>2, <2>3, <2>4 DEF Goes
<1>5. \A c \in Connections : IdsArePositive(c)'
  BY <1>0, PositiveGoes
<1> QED
  BY <1>2, <1>3, <1>4, <1>5 DEF RecordsInvariant

\* No harm is done if the boundary passes the update.
Fine(u) == u \in prompted \/ u \in excused \/ Collided(u)

\* Record x of update u is in the log, or the poll loop of e is about to add it.
InTheLog(e, x, u) ==
    \E i \in DOMAIN log : log[i].kind = "inbound" /\ log[i].by = e /\ log[i].id = x /\ log[i].update = u
Coming(e, x, u) ==
    /\ Busy(e, "poll") /\ Rec(e, "poll").kind = "inbound" /\ Rec(e, "poll").id = x /\ Rec(e, "poll").update = u
    /\ Past(e, "poll") \/ (Owner(e) \in Sessions /\ Owns(e))
Arrives(e, x, u) == InTheLog(e, x, u) \/ Coming(e, x, u)
Missed(c, e, x, u) == e # c /\ Arrives(e, x, u) /\ ~Heard(c, x, u) /\ ~Fine(u)

\* A turn for trigger y waits in c.
Asked(c, y) ==
    Pends(c, y) \/ \E t \in Tasks : Past(c, t) /\ Rec(c, t).kind = "job_queued" /\ Rec(c, t).ref = y

\* The job of trigger y is finished, or may be by the connection that runs it.
Finishing(y) ==
    \/ \E j \in DOMAIN log : Finishes(log[j]) /\ log[j].ref = y
    \/ \E c \in Connections : (Passes(c, "turn") /\ Rec(c, "turn").ref = y) \/ (Holds(c) /\ Runs(c, y))

HearsOf(c, u) == \E h \in runtimes[c].heard : h.update = u

\* Connection c caught up with the update before it asked for any turn.
Caught(c, u) ==
    \E i \in DOMAIN log :
        /\ log[i].kind = "inbound" /\ log[i].update = u
        /\ Heard(c, log[i].id, u) /\ log[i].id <= runtimes[c].armed

\* Telegram has the update still, and nobody is to make it forget it.
NotBehind(u) ==
    /\ telegram.confirmed < u /\ u <= telegram.sent
    /\ \A e \in Connections : polls[e].at \in {"initial", "fetching"} => polls[e].offset <= u
    /\ \A i \in DOMAIN log : log[i].kind = "checkpoint" => log[i].update < u
    /\ \A e \in Connections, t \in Tasks : Past(e, t) /\ Rec(e, t).kind = "checkpoint" => Rec(e, t).update < u
    /\ \A e \in Connections :
          /\ Owner(e) \in Sessions /\ Owns(e) /\ Busy(e, "flush")
          /\ Rec(e, "flush").kind \in {"inbound", "checkpoint"}
          => Rec(e, "flush").update < u

ArrivalsAreUpdates ==
    \A e \in Connections, x \in Int, u \in Messages : Arrives(e, x, u) => u \in Updates

\* Who has the channel gives ids above every finished job and every turn that waits.
LeadersGoUp ==
    \A d \in Connections : Leader(d) => \A y \in Int :
        /\ Finishing(y) => y < runtimes[d].next
        /\ \A c \in Connections : Holds(c) /\ Asked(c, y) => y < runtimes[d].next

\* Who has the channel hears of the messages others log, before it asks for turns.
HearsTheRest(c) ==
    Leader(c) => \A e \in Connections, x \in Int, u \in Messages : Missed(c, e, x, u) =>
        /\ polls[c].at = "initial" => HearsOf(c, u) \/ NotBehind(u)
        /\ polls[c].at = "catching up" => HearsOf(c, u) \/ u \in polls[c].batch \/ BeingWritten(c, u)
        /\ ~CatchingUp(c) => Caught(c, u)

\* What a connection never heard of comes after every turn that waits in it.
AsksForTheHeard(c) ==
    Holds(c) => \A e \in Connections, x \in Int, u \in Messages : Missed(c, e, x, u) =>
        Caught(c, u) \/ \A y \in Int : Asked(c, y) => y < x

\* A boundary at y passes over nothing.
Closed(y) ==
    \A e \in Connections, x \in Int, u \in Messages : x <= y =>
        /\ InTheLog(e, x, u) => Fine(u)
        /\ Coming(e, x, u) => Fine(u) \/ HasLogged(e, x)

FinishedAreClosed == \A y \in Int : Finishing(y) => Closed(y)

PassedOverInvariant ==
    /\ RecordsInvariant /\ ArrivalsAreUpdates /\ LeadersGoUp /\ FinishedAreClosed
    /\ \A c \in Connections : HearsTheRest(c) /\ AsksForTheHeard(c)

\* What a step does of the lock, Telegram, the poll loops and the jobs.
LockGoesOn ==
    \/ lock'.owner = lock.owner \/ lock'.owner = NoOwner
    \/ \E c \in Connections : polls[c].at = "claiming" /\ Owner(c) \in Sessions /\ lock'.owner = Owner(c)

ForgetsWhatIsAskedFor ==
    /\ telegram.sent <= telegram'.sent
    /\ \A u \in Nat :
          /\ telegram.confirmed < u
          /\ \A e \in Connections : polls[e].at \in {"initial", "fetching"} => polls[e].offset <= u
          => telegram'.confirmed < u

AsksGoOn(e) ==
    polls'[e].at \in {"initial", "fetching"} =>
        \/ polls[e].at \in {"initial", "fetching"} /\ polls'[e].offset = polls[e].offset
        \/ polls[e].at = "polling" /\ HasRuntime(e) /\ Owns(e)
        \/ polls[e].at = "reading" /\ polls'[e].offset = LoadedCursor + 1

CatchUpGoesOn(c) ==
    Holds(c) /\ Holds(c)' =>
        /\ polls'[c].at = "initial" => polls[c].at = "initial"
        /\ polls'[c].at = "catching up" =>
              /\ CatchingUp(c)
              /\ \A u \in Messages :
                    /\ polls[c].at = "catching up" /\ u \in polls[c].batch => u \in polls'[c].batch \/ BeingWritten(c, u)'
                    /\ polls[c].at = "initial" /\ telegram.confirmed < u /\ polls[c].offset <= u /\ u <= telegram.sent =>
                          u \in polls'[c].batch
        /\ CatchingUp(c) /\ ~CatchingUp(c)' =>
              /\ polls[c].at = "catching up" /\ polls[c].batch = {} /\ ~Busy(c, "poll")
              /\ runtimes'[c].armed = runtimes[c].tail
        /\ runtimes'[c].armed = runtimes[c].armed \/ (CatchingUp(c) /\ ~CatchingUp(c)')

\* A job is started with a prompt up to its trigger, and after the last is done.
StartsJob(c, y) ==
    /\ Prompt(runtimes[c], y) \subseteq prompted'
    /\ Busy(c, "turn") => \A x : x = Rec(c, "turn").id => HasLogged(c, x)'

StartsJobs(c) == \A y \in Int : Holds(c)' /\ Runs(c, y)' => Runs(c, y) \/ StartsJob(c, y)

Steps ==
    /\ RecordsInvariant' /\ LogGoesOn /\ prompted \subseteq prompted' /\ excused \subseteq excused'
    /\ LockGoesOn /\ ForgetsWhatIsAskedFor
    /\ \A c \in Connections : Goes(c) /\ AsksGoOn(c) /\ CatchUpGoesOn(c) /\ StartsJobs(c)

LEMMA FineStays ==
    ASSUME TypeOK, Steps
    PROVE  \A u : Fine(u) => Fine(u)'
<1>1. LogKept
  BY WhatIsAppended DEF Steps
<1>2. ASSUME NEW u, Collided(u) PROVE Collided(u)'
  BY <1>1, <1>2 DEF Collided, LogKept
<1> QED
  BY <1>2 DEF Fine, Steps

LEMMA LeaderIsAlone ==
    ASSUME RecordsInvariant, NEW c \in Connections, Leader(c), NEW e \in Connections \ {c}, Owner(e) = Owner(c)
    PROVE  polls[e].at \in {"off", "ended"} /\ ~Busy(e, "poll") /\ ~HasRuntime(e)
<1>1. sessions[Owner(c)].connection = c /\ Owner(c) \in Sessions
  BY DEF Leader, Holds, HasRuntime
<1>2. ConnectedIsLast(e) /\ ArmedWhenCaughtUp(e)
  BY DEF RecordsInvariant, TurnsInvariant, HandoverInvariant, InOrder, TurnsOf, TurnsOfMessages
<1>3. polls[e].at \in {"off", "ended"}
  BY <1>1, <1>2 DEF ConnectedIsLast
<1> QED
  BY <1>1, <1>2, <1>3 DEF ArmedWhenCaughtUp, Busy, HasRuntime

LEMMA WhoHolds ==
    ASSUME RecordsInvariant, Steps, NEW c \in Connections
    PROVE  /\ Holds(c)' => Holds(c) \/ Starts(c)
           /\ Starts(c) => ~Holds(c)
           /\ ~Starts(c) => Owner(c)' = Owner(c) /\ (runtimes[c].lost => runtimes'[c].lost)
<1>0. StartsEmpty(c) /\ TypeOK
  BY DEF RecordsInvariant, RecordsOf, TurnsInvariant, HandoverInvariant
<1>1. Starts(c) => ~Holds(c)
  BY <1>0 DEF Starts, StartsEmpty
<1>2. Goes(c)
  BY DEF Steps
<1>3. CASE StaysPut(c)
  BY <1>1, <1>3 DEF StaysPut, Keeps, Owner
<1>4. ASSUME NEW t \in Tasks, Moves(c, t)
      PROVE  (Holds(c)' => Holds(c)) /\ Owner(c)' = Owner(c) /\ (runtimes[c].lost => runtimes'[c].lost)
  BY <1>4 DEF Moves, MovesOn, Keeps, Owner
<1>5. ASSUME NEW t \in Tasks, Passing(c, t)
      PROVE  (Holds(c)' => Holds(c)) /\ Owner(c)' = Owner(c) /\ (runtimes[c].lost => runtimes'[c].lost)
  <2>1. runtimes[c] \in RuntimeType /\ Rec(c, t) \in RecordType
    BY <1>0, <1>5, WriteIsTyped DEF Passing, PassesNow, TypeOK, Busy, Rec
  <2> QED
    BY <1>5, <2>1, WhatIsPushed DEF Passing, PassesNow, Owner
<1> QED
  BY <1>1, <1>2, <1>3, <1>4, <1>5 DEF Goes

LEMMA WhoLeads ==
    ASSUME RecordsInvariant, Steps, NEW c \in Connections, Leader(c)', ~Starts(c)
    PROVE  Leader(c)
<1>1. Holds(c) /\ Owner(c)' = Owner(c) /\ lock'.owner = Owner(c) /\ Owner(c) \in Sessions
  BY WhoHolds DEF Leader, Holds
<1>2. ASSUME NEW d \in Connections, polls[d].at = "claiming", Owner(d) = Owner(c)
      PROVE  FALSE
  <2>1. ConnectedIsLast(d) /\ StartsEmpty(d)
    BY DEF RecordsInvariant, RecordsOf, TurnsInvariant, HandoverInvariant, InOrder
  <2>2. sessions[Owner(c)].connection = d /\ ~Holds(d)
    BY <1>2, <2>1 DEF ConnectedIsLast, StartsEmpty, Unread
  <2>3. sessions[Owner(c)].connection = c
    BY <1>1 DEF Holds, HasRuntime
  <2> QED
    BY <1>1, <2>2, <2>3
<1> QED
  BY <1>1, <1>2, NoOwnerAssumption DEF Steps, LockGoesOn, Leader

\* Only messages of the poll loop arrive; a timer's are albums.
LEMMA WhatComes ==
    ASSUME RecordsInvariant, NEW e \in Connections, NEW t \in Tasks, Past(e, t), Rec(e, t).kind = "inbound",
           Rec(e, t).update \in Messages
    PROVE  t = "poll"
<1>1. TasksKeepToTheirs(e) /\ OthersAreAlbums(e) /\ Busy(e, t)
  BY DEF RecordsInvariant, RecordsOf, TurnsInvariant, TurnsOf, TurnsOfMessages, Past
<1> QED
  BY <1>1 DEF TasksKeepToTheirs, OthersAreAlbums, Busy, Rec, Leads, Messages

LEMMA WhatIsLogged ==
    ASSUME RecordsInvariant, Steps, NEW e \in Connections, NEW x, NEW u \in Messages, InTheLog(e, x, u)'
    PROVE  \/ InTheLog(e, x, u)
           \/ Coming(e, x, u) /\ Past(e, "poll") /\ (HasLogged(e, x) => Collided(u)')
<1>0. TypeOK
  BY DEF RecordsInvariant, TurnsInvariant, HandoverInvariant
<1>1. PICK i \in DOMAIN log' : log'[i].kind = "inbound" /\ log'[i].by = e /\ log'[i].id = x /\ log'[i].update = u
  BY DEF InTheLog
<1>2. LogKept
  BY <1>0, WhatIsAppended DEF Steps
<1>3. CASE i \in DOMAIN log
  BY <1>1, <1>2, <1>3 DEF LogKept, InTheLog
<1>4. CASE i \notin DOMAIN log
  <2>1. PICK c \in Connections, t \in Tasks : Past(c, t) /\ Appended(c, t, i)
    BY <1>0, <1>4, WhatIsAppended DEF Steps
  <2>2. /\ c = e /\ Rec(e, t).kind = "inbound" /\ Rec(e, t).id = x /\ Rec(e, t).update = u
    BY <1>1, <2>1 DEF Appended
  <2>3. Coming(e, x, u) /\ Past(e, "poll")
    BY <2>1, <2>2, WhatComes DEF Coming, Past
  <2>4. ASSUME HasLogged(e, x) PROVE Collided(u)'
    <3>1. PICK m \in DOMAIN log : log[m].by = e /\ log[m].id = x
      BY <2>4 DEF HasLogged
    <3>2. m # i /\ m \in DOMAIN log' /\ log'[m].id = log'[i].id /\ log'[m].by = log'[i].by
      BY <1>1, <1>2, <1>4, <3>1 DEF LogKept
    <3> QED
      BY <1>1, <3>2 DEF Collided
  <2> QED
    BY <2>3, <2>4
<1> QED
  BY <1>3, <1>4

\* New messages come from the connection that has the channel, with its next id.
LEMMA WhoTakes ==
    ASSUME RecordsInvariant, Steps, NEW e \in Connections, NEW x, NEW u \in Messages, Coming(e, x, u)'
    PROVE  Coming(e, x, u) \/ (Leader(e) /\ x = runtimes[e].next /\ u \in Updates)
<1>0. Goes(e) /\ "poll" \in Tasks
  BY DEF Steps, Tasks
<1>1. ASSUME ~Starts(e), writes'[e]["poll"] = writes[e]["poll"]
      PROVE  Coming(e, x, u)
  <2>1. Busy(e, "poll") /\ Past(e, "poll")' = Past(e, "poll") /\ Rec(e, "poll")' = Rec(e, "poll")
    BY <1>1 DEF Coming, Busy, Past, Rec
  <2>2. Owner(e)' = Owner(e) /\ (runtimes[e].lost => runtimes'[e].lost)
    BY <1>1, WhoHolds
  <2>3. ASSUME NEW c \in Connections, polls[c].at = "claiming", Owner(c) = Owner(e)
        PROVE  FALSE
    <3>1. ConnectedIsLast(c) /\ ConnectedIsLast(e) /\ ArmedWhenCaughtUp(e)
      BY DEF RecordsInvariant, TurnsInvariant, HandoverInvariant, InOrder, TurnsOf, TurnsOfMessages
    <3>2. polls[e].at \in {"catching up", "polling"}
      BY <2>1, <3>1 DEF ArmedWhenCaughtUp, Busy
    <3>3. sessions[Owner(e)].connection = e /\ sessions[Owner(e)].connection = c
      BY <2>3, <3>1, <3>2 DEF ConnectedIsLast
    <3> QED
      BY <2>3, <3>2, <3>3
  <2>4. Owner(e)' \in Sessions /\ Owns(e)' => Owner(e) \in Sessions /\ Owns(e)
    BY <2>2, <2>3, NoOwnerAssumption DEF Steps, LockGoesOn, Owns
  <2> QED
    BY <2>1, <2>4 DEF Coming
<1>2. CASE StaysPut(e)
  <2>1. writes'[e]["poll"] = writes[e]["poll"]
    BY <1>0, <1>2 DEF StaysPut, Coming, Busy
  <2>2. CASE Starts(e)
    BY <1>0, <2>2 DEF Starts, Coming
  <2> QED
    BY <1>1, <2>1, <2>2
<1>3. CASE Starts(e)
  BY <1>0, <1>3 DEF Starts, Coming
<1>4. ASSUME NEW t \in Tasks, Moves(e, t), ~Starts(e)
      PROVE  Coming(e, x, u) \/ (Leader(e) /\ x = runtimes[e].next /\ u \in Updates)
  <2>1. CASE t # "poll"
    BY <1>0, <1>1, <1>4, <2>1 DEF Moves, MovesOn
  <2>2. CASE t = "poll"
    <3>1. Busy(e, "poll")' /\ ~Past(e, "poll")' /\ (Rec(e, "poll").kind)' = "inbound"
          /\ (Rec(e, "poll").id)' = runtimes[e].next
      BY <1>4, <2>2 DEF Coming, Moves, MovesOn
    <3>2. HasRuntime(e) /\ Owner(e) \in Sessions /\ lock' = lock /\ u \in Updates /\ x = runtimes[e].next
      BY <1>4, <2>2, <3>1 DEF Moves, StartsRecord, Coming
    <3>3. Owner(e)' = Owner(e) /\ (runtimes[e].lost => runtimes'[e].lost)
      BY <1>4, WhoHolds
    <3>4. ~runtimes[e].lost /\ lock.owner = Owner(e)
      BY <3>1, <3>2, <3>3 DEF Coming, Owns
    <3> QED
      BY <3>2, <3>4 DEF Leader, Holds
  <2> QED
    BY <2>1, <2>2
<1>5. ASSUME NEW t \in Tasks, Passing(e, t), ~Starts(e)
      PROVE  Coming(e, x, u)
  <2>1. CASE t # "poll"
    BY <1>0, <1>1, <1>5, <2>1 DEF Passing, PassesNow
  <2>2. CASE t = "poll"
    BY <1>5, <2>2 DEF Passing, PassesNow, Coming, Owns
  <2> QED
    BY <2>1, <2>2
<1> QED
  BY <1>0, <1>2, <1>3, <1>4, <1>5 DEF Goes

\* A connection that keeps its runtime forgets nothing.
LEMMA WhatIsKept ==
    ASSUME RecordsInvariant, Steps, NEW c \in Connections, Holds(c), Holds(c)'
    PROVE  /\ runtimes[c].next <= runtimes'[c].next
           /\ \A x, u : Heard(c, x, u) => Heard(c, x, u)'
<1>0. TypeOK /\ RecordsOf(c) /\ Goes(c) /\ ~Starts(c)
  BY WhoHolds DEF Steps, RecordsInvariant, TurnsInvariant, HandoverInvariant
<1>1. ASSUME Keeps(runtimes[c], runtimes'[c])
      PROVE  /\ runtimes[c].next <= runtimes'[c].next
             /\ \A x, u : Heard(c, x, u) => Heard(c, x, u)'
  <2> PICK n : n = runtimes[c].next
    OBVIOUS
  <2>1. n \in Int
    BY <1>0 DEF TypeOK, RuntimeType
  <2>2. n <= n
    BY <2>1
  <2> QED
    BY <1>1, <2>2 DEF Keeps, Heard
<1>2. ASSUME NEW t \in Tasks, Passing(c, t)
      PROVE  /\ runtimes[c].next <= runtimes'[c].next
             /\ \A x, u : Heard(c, x, u) => Heard(c, x, u)'
  <2>1. PassesNow(c, t)
    BY <1>2 DEF Passing
  <2>2. runtimes[c] \in RuntimeType /\ Rec(c, t) \in RecordType
    BY <1>0, <2>1, WriteIsTyped DEF PassesNow, TypeOK, Busy, Rec
  <2> QED
    BY <1>0, <2>1, <2>2, IdsPass, WhatIsPushed DEF PassesNow, Heard
<1> QED
  BY <1>0, <1>1, <1>2 DEF Goes, StaysPut, Moves, MovesOn

LEMMA WhoAsks ==
    ASSUME RecordsInvariant, Steps, NEW c \in Connections, Holds(c)', NEW y, Asked(c, y)'
    PROVE  /\ Holds(c)
           /\ \/ Asked(c, y)
              \/ /\ Leader(c) /\ polls[c].at \in {"polling", "fetching", "ended"}
                 /\ runtimes[c].armed < y /\ HasLogged(c, y)
<1>0. TypeOK /\ RecordsOf(c) /\ Goes(c) /\ ArmedWhenCaughtUp(c)
  BY DEF Steps, RecordsInvariant, TurnsInvariant, HandoverInvariant, TurnsOf, TurnsOfMessages
<1>1. ~Starts(c)
  BY DEF Starts, Asked, Pends, Past, Busy
<1>2. Holds(c)
  BY <1>1, WhoHolds
<1>3. CASE StaysPut(c)
  <2>1. runtimes[c] \in RuntimeType /\ JobsGoOn(runtimes[c], runtimes'[c])
    BY <1>0, <1>3 DEF TypeOK, StaysPut
  <2>2. Pends(c, y)' => Pends(c, y)
    <3>1. \A z : (\E i \in DOMAIN runtimes'[c].pending : runtimes'[c].pending[i] = z)
                 => \E i \in DOMAIN runtimes[c].pending : runtimes[c].pending[i] = z
      <4> PICK k, m : k = runtimes[c] /\ m = runtimes'[c]
        OBVIOUS
      <4>1. k \in RuntimeType /\ JobsGoOn(k, m)
        BY <2>1
      <4>2. \A z : (\E i \in DOMAIN m.pending : m.pending[i] = z) => \E i \in DOMAIN k.pending : k.pending[i] = z
        BY ONLY <4>1, JobsComeFrom
      <4> QED
        BY <4>2
    <3> QED
      BY <3>1 DEF Pends
  <2>3. \A t \in Tasks : Past(c, t)' => Past(c, t) /\ Rec(c, t)' = Rec(c, t)
    BY <1>3 DEF StaysPut, Past, Busy, Rec
  <2> QED
    BY <1>2, <2>2, <2>3 DEF Asked
<1>4. ASSUME NEW t \in Tasks, Moves(c, t) PROVE Asked(c, y)
  <2>1. ~runtimes'[c].lost
    BY DEF Holds
  <2>2. Pends(c, y)' => Asked(c, y)
    BY <1>4, <2>1 DEF Moves, JobsMoveOn, Asked
  <2>3. \A r \in Tasks : Past(c, r)' => Past(c, r) /\ Rec(c, r)' = Rec(c, r)
    BY <1>4 DEF Moves, MovesOn, Past, Busy, Rec
  <2> QED
    BY <2>2, <2>3 DEF Asked
<1>5. ASSUME NEW t \in Tasks, Passing(c, t)
      PROVE  \/ Asked(c, y)
             \/ /\ Leader(c) /\ polls[c].at \in {"polling", "fetching", "ended"}
                /\ runtimes[c].armed < y /\ HasLogged(c, y)
  <2>1. PassesNow(c, t) /\ Leader(c)
    BY <1>2, <1>5 DEF Passing, Leader
  <2>2. runtimes[c] \in RuntimeType /\ Rec(c, t) \in RecordType
    BY <1>0, <2>1, WriteIsTyped DEF PassesNow, TypeOK, Busy, Rec
  <2>3. Pends(c, y)' => Pends(c, y)
    BY <2>1, <2>2, WhatIsPushed DEF PassesNow, Pends
  <2>4. \A r \in Tasks \ {t} : Past(c, r)' => Past(c, r) /\ Rec(c, r)' = Rec(c, r)
    BY <2>1 DEF PassesNow, Past, Busy, Rec
  <2>5. ASSUME Rec(c, t).kind = "job_queued", Rec(c, t).ref = y
        PROVE  /\ polls[c].at \in {"polling", "fetching", "ended"}
               /\ runtimes[c].armed < y /\ HasLogged(c, y)
    <3>1. Passes(c, t)
      BY <2>1 DEF PassesNow, Passes
    <3>2. TaskLogged(c, t, y) /\ runtimes[c].armed # NotArmed /\ runtimes[c].armed < y
      BY <1>0, <2>5, <3>1 DEF RecordsOf, RefsAreLogged
    <3> QED
      BY <1>0, <3>2 DEF ArmedWhenCaughtUp, TaskLogged, HasLogged
  <2>6. Rec(c, t)' = Rec(c, t)
    BY <2>1 DEF PassesNow
  <2> QED
    BY <2>1, <2>3, <2>4, <2>5, <2>6 DEF Asked
<1> QED
  BY <1>0, <1>1, <1>2, <1>3, <1>4, <1>5 DEF Goes

LEMMA WhoFinishes ==
    ASSUME RecordsInvariant, Steps, NEW y \in Int, Finishing(y)'
    PROVE  Finishing(y) \/ \E c \in Connections : Holds(c) /\ Asked(c, y) /\ StartsJob(c, y)
<1>0. TypeOK /\ "turn" \in Tasks
  BY DEF RecordsInvariant, TurnsInvariant, HandoverInvariant, Tasks
<1>1. ASSUME NEW j \in DOMAIN log', Finishes(log'[j]), log'[j].ref = y
      PROVE  Finishing(y)
  <2>1. CASE j \in DOMAIN log
    <3>1. log'[j] = log[j]
      BY <1>0, <2>1, WhatIsAppended DEF Steps, LogKept
    <3> QED
      BY <1>1, <2>1, <3>1 DEF Finishing
  <2>2. CASE j \notin DOMAIN log
    <3>1. PICK c \in Connections, t \in Tasks : Past(c, t) /\ Appended(c, t, j)
      BY <1>0, <2>2, WhatIsAppended DEF Steps
    <3>2. Finishes(Rec(c, t)) /\ Rec(c, t).ref = y /\ Passes(c, t) /\ Busy(c, t)
      BY <1>1, <3>1 DEF Appended, Finishes, Passes, Past
    <3>3. t = "turn"
      BY <3>2 DEF RecordsInvariant, RecordsOf, TasksKeepToTheirs, Finishes
    <3> QED
      BY <3>2, <3>3 DEF Finishing
  <2> QED
    BY <2>1, <2>2
<1>2. ASSUME NEW c \in Connections, Passes(c, "turn")', (Rec(c, "turn").ref)' = y
      PROVE  Finishing(y)
  <2>1. Goes(c) /\ Busy(c, "turn")'
    BY <1>2 DEF Steps, Passes
  <2>2. ASSUME writes'[c]["turn"] = writes[c]["turn"], runtimes[c].lost => runtimes'[c].lost
        PROVE  Finishing(y)
    <3>1. Passes(c, "turn") /\ Rec(c, "turn").ref = y
      BY <1>2, <2>2 DEF Passes, Busy, Rec
    <3> QED
      BY <3>1 DEF Finishing
  <2>3. CASE StaysPut(c)
    BY <1>0, <2>1, <2>2, <2>3 DEF StaysPut, Keeps, Busy
  <2>4. CASE Starts(c)
    BY <1>0, <2>1, <2>4 DEF Starts
  <2>5. ASSUME NEW t \in Tasks, Moves(c, t) PROVE Finishing(y)
    <3>1. runtimes[c].lost => runtimes'[c].lost
      BY <2>5 DEF Moves, MovesOn, Keeps
    <3>2. CASE t # "turn"
      BY <1>0, <2>2, <2>5, <3>1, <3>2 DEF Moves, MovesOn
    <3>3. CASE t = "turn"
      <4>1. ~runtimes'[c].lost /\ ~runtimes[c].lost
        BY <1>2, <2>1, <2>5, <3>1, <3>3 DEF Moves, MovesOn, Passes, Past
      <4>2. CASE Busy(c, t) /\ (Rec(c, t).ref)' = Rec(c, t).ref
        BY <1>2, <3>3, <4>1, <4>2 DEF Finishing, Passes
      <4>3. CASE HasRuntime(c) /\ Owner(c) \in Sessions /\ \A z : z = (Rec(c, t).ref)' => Runs(c, z)
        BY <1>2, <3>3, <4>1, <4>3 DEF Finishing, Holds
      <4> QED
        BY <2>1, <2>5, <3>3, <4>2, <4>3 DEF Moves, StartsRecord
    <3> QED
      BY <3>2, <3>3
  <2>6. ASSUME NEW t \in Tasks, Passing(c, t) PROVE Finishing(y)
    <3>1. PassesNow(c, t)
      BY <2>6 DEF Passing
    <3>2. CASE t # "turn"
      <4>1. ~runtimes[c].lost
        BY <3>1 DEF PassesNow
      <4> QED
        BY <1>0, <2>2, <3>1, <3>2, <4>1 DEF PassesNow
    <3>3. CASE t = "turn"
      BY <1>2, <3>1, <3>3 DEF Finishing, PassesNow, Passes
    <3> QED
      BY <3>2, <3>3
  <2> QED
    BY <2>1, <2>3, <2>4, <2>5, <2>6 DEF Goes
<1>3. ASSUME NEW c \in Connections, Holds(c)', Runs(c, y)'
      PROVE  Finishing(y) \/ (Holds(c) /\ Asked(c, y) /\ StartsJob(c, y))
  <2>1. Goes(c) /\ (Runs(c, y) \/ StartsJob(c, y))
    BY <1>3 DEF Steps, StartsJobs
  <2>2. ~Starts(c)
    BY <1>3 DEF Starts, Runs
  <2>3. Holds(c)
    BY <1>3, <2>2, WhoHolds
  <2>4. Runs(c, y) \/ Asked(c, y)
    <3>1. CASE StaysPut(c)
      <4>1. runtimes[c] \in RuntimeType /\ JobsGoOn(runtimes[c], runtimes'[c])
        BY <1>0, <3>1 DEF TypeOK, StaysPut
      <4> QED
        BY <1>3, <4>1, JobsComeFrom DEF Runs, Pends, Asked
    <3>2. ASSUME NEW t \in Tasks, Moves(c, t) PROVE Runs(c, y) \/ Asked(c, y)
      BY <1>3, <3>2 DEF Moves, JobsMoveOn, Asked, Holds
    <3>3. ASSUME NEW t \in Tasks, Passing(c, t) PROVE Runs(c, y)
      <4>1. runtimes[c] \in RuntimeType /\ Rec(c, t) \in RecordType
        BY <1>0, <3>3, WriteIsTyped DEF Passing, PassesNow, TypeOK, Busy, Rec
      <4> QED
        BY <1>3, <3>3, <4>1, WhatIsPushed DEF Passing, PassesNow, Runs
    <3> QED
      BY <2>1, <2>2, <3>1, <3>2, <3>3 DEF Goes
  <2> QED
    BY <2>1, <2>3, <2>4 DEF Finishing
<1> QED
  BY <1>1, <1>2, <1>3 DEF Finishing

LEMMA WhatArrives ==
    ASSUME RecordsInvariant, Steps, NEW e \in Connections, NEW x, NEW u \in Messages, Arrives(e, x, u)'
    PROVE  Arrives(e, x, u) \/ (Leader(e) /\ x = runtimes[e].next /\ u \in Updates)
BY WhatIsLogged, WhoTakes DEF Arrives

\* What is asked for is logged, and after the catch-up.
LEMMA AskedAreLogged ==
    ASSUME RecordsInvariant, NEW c \in Connections, Holds(c), NEW y, Asked(c, y)
    PROVE  (TaskLogged(c, "poll", y) \/ TaskLogged(c, "flush", y)) /\ runtimes[c].armed < y
<1>1. RefsAreLogged(c) /\ TasksKeepToTheirs(c) /\ ~runtimes[c].lost
  BY DEF RecordsInvariant, RecordsOf, Holds
<1>2. CASE Pends(c, y)
  BY <1>1, <1>2 DEF RefsAreLogged
<1>3. CASE \E t \in Tasks : Past(c, t) /\ Rec(c, t).kind = "job_queued" /\ Rec(c, t).ref = y
  <2>1. PICK t \in Tasks : Past(c, t) /\ Rec(c, t).kind = "job_queued" /\ Rec(c, t).ref = y
    BY <1>3
  <2>2. Busy(c, t) /\ Passes(c, t)
    BY <2>1 DEF Past, Passes
  <2>3. t \in {"poll", "flush"}
    BY <1>1, <2>1, <2>2 DEF TasksKeepToTheirs, Tasks
  <2> QED
    BY <1>1, <2>1, <2>2, <2>3 DEF RefsAreLogged
<1> QED
  BY <1>2, <1>3 DEF Asked

LEMMA FinishingAreLogged ==
    ASSUME RecordsInvariant, NEW y, Finishing(y)
    PROVE  \E i \in DOMAIN log : log[i].id = y
<1>1. \A c \in Connections : RefsAreLogged(c)
  BY DEF RecordsInvariant, RecordsOf
<1>2. ASSUME NEW c \in Connections, Passes(c, "turn"), Rec(c, "turn").ref = y
      PROVE  \E i \in DOMAIN log : log[i].id = y
  BY <1>1, <1>2 DEF RefsAreLogged
<1>3. ASSUME NEW c \in Connections, Holds(c), Runs(c, y)
      PROVE  \E i \in DOMAIN log : log[i].id = y
  BY <1>1, <1>3 DEF RefsAreLogged, Holds
<1> QED
  BY <1>2, <1>3 DEF Finishing, RecordsInvariant, FinishedAreLogged

LEMMA LeadersGoOn ==
    ASSUME RecordsInvariant, LeadersGoUp, Steps
    PROVE  LeadersGoUp'
<1> SUFFICES ASSUME NEW d \in Connections, Leader(d)', NEW y \in Int
             PROVE  /\ Finishing(y)' => y < runtimes'[d].next
                    /\ \A c \in Connections : Holds(c)' /\ Asked(c, y)' => y < runtimes'[d].next
  BY DEF LeadersGoUp
<1>0. TypeOK /\ TypeOK' /\ Holds(d)'
  BY DEF RecordsInvariant, TurnsInvariant, HandoverInvariant, Steps, Leader
<1>1. CASE Starts(d)
  <2>1. \A i \in DOMAIN log : log[i].id < runtimes'[d].next
    BY <1>0, <1>1 DEF Starts
  <2>2. Finishing(y)' => \E i \in DOMAIN log : log[i].id = y
    BY WhoFinishes, FinishingAreLogged, AskedAreLogged DEF TaskLogged
  <2>3. ASSUME NEW c \in Connections, Holds(c)', Asked(c, y)'
        PROVE  \E i \in DOMAIN log : log[i].id = y
    BY <2>3, WhoAsks, AskedAreLogged DEF TaskLogged, HasLogged
  <2> QED
    BY <2>1, <2>2, <2>3
<1>2. CASE ~Starts(d)
  <2>1. Leader(d) /\ Holds(d)
    BY <1>2, WhoLeads DEF Leader
  <2>2. PICK n, m : n = runtimes[d].next /\ m = runtimes'[d].next
    OBVIOUS
  <2>3. n \in Int /\ m \in Int /\ n <= m
    BY <1>0, <2>1, <2>2, WhatIsKept DEF TypeOK, RuntimeType
  <2>4. y < n => y < m
    BY <2>3
  <2>5. Finishing(y)' => y < n
    BY <2>1, <2>2, WhoFinishes DEF LeadersGoUp
  <2>6. ASSUME NEW c \in Connections, Holds(c)', Asked(c, y)'
        PROVE  y < n
    <3>1. CASE Holds(c) /\ Asked(c, y)
      BY <2>1, <2>2, <3>1 DEF LeadersGoUp
    <3>2. CASE Leader(c) /\ HasLogged(c, y)
      <4>1. Owner(c) = Owner(d) /\ HasRuntime(c)
        BY <2>1, <3>2 DEF Leader, Holds
      <4>2. c = d
        BY <2>1, <4>1, LeaderIsAlone
      <4> QED
        BY <2>2, <3>2, <4>2 DEF HasLogged, RecordsInvariant, RecordsOf, IdsGoUp
    <3> QED
      BY <2>6, <3>1, <3>2, WhoAsks
  <2> QED
    BY <2>2, <2>4, <2>5, <2>6
<1> QED
  BY <1>1, <1>2

LEMMA ArrivalsGoOn ==
    ASSUME RecordsInvariant, ArrivalsAreUpdates, Steps
    PROVE  ArrivalsAreUpdates'
BY WhatArrives DEF ArrivalsAreUpdates

\* Caught up with, the update stays so.
LEMMA CaughtGoesOn ==
    ASSUME RecordsInvariant, Steps, NEW c \in Connections, Holds(c), Holds(c)', NEW u, Caught(c, u)
    PROVE  Caught(c, u)'
<1>0. TypeOK /\ LogKept /\ CatchesUpAlone(c)
  BY WhatIsAppended DEF RecordsInvariant, RecordsOf, TurnsInvariant, HandoverInvariant, Steps
<1>1. PICK i \in DOMAIN log : /\ log[i].kind = "inbound" /\ log[i].update = u
                              /\ Heard(c, log[i].id, u) /\ log[i].id <= runtimes[c].armed
  BY DEF Caught
<1>2. PICK x : x = log[i].id
  OBVIOUS
<1>3. Heard(c, x, u) /\ Heard(c, x, u)'
  BY <1>1, <1>2, WhatIsKept
<1>4. i \in DOMAIN log' /\ log'[i] = log[i]
  BY <1>0, <1>1 DEF LogKept
<1>5. x <= runtimes'[c].armed
  <2>1. CASE runtimes'[c].armed = runtimes[c].armed
    BY <1>1, <1>2, <2>1
  <2>2. CASE CatchingUp(c) /\ ~CatchingUp(c)'
    <3>1. runtimes'[c].armed = runtimes[c].tail
      BY <2>2 DEF Steps, CatchUpGoesOn
    <3>2. \A h \in runtimes[c].heard : h.id <= runtimes[c].tail
      BY <1>0, <2>2 DEF CatchesUpAlone
    <3>3. x <= runtimes[c].tail
      <4> PICK h : h = [id |-> x, update |-> u]
        OBVIOUS
      <4>1. h.id = x /\ h \in runtimes[c].heard
        BY <1>3 DEF Heard
      <4> QED
        BY <3>2, <4>1
    <3> QED
      BY <3>1, <3>3
  <2> QED
    BY <2>1, <2>2 DEF Steps, CatchUpGoesOn
<1> QED
  BY <1>1, <1>2, <1>3, <1>4, <1>5 DEF Caught

LEMMA AsksGoOnForTheHeard ==
    ASSUME PassedOverInvariant, Steps, NEW c \in Connections
    PROVE  AsksForTheHeard(c)'
<1> SUFFICES ASSUME Holds(c)', NEW e \in Connections, NEW x \in Int, NEW u \in Messages, Missed(c, e, x, u)'
             PROVE  Caught(c, u)' \/ \A y \in Int : Asked(c, y)' => y < x
  BY DEF AsksForTheHeard
<1>0. RecordsInvariant /\ TypeOK
  BY DEF PassedOverInvariant, RecordsInvariant, TurnsInvariant, HandoverInvariant
<1>1. CASE Starts(c)
  <2>1. \A y : ~Asked(c, y)'
    BY <1>1 DEF Starts, Asked, Pends, Past, Busy
  <2> QED
    BY <2>1
<1>2. CASE ~Starts(c)
  <2>1. Holds(c)
    BY <1>0, <1>2, WhoHolds
  <2>2. e # c /\ ~Heard(c, x, u) /\ ~Fine(u)
    BY <1>0, <2>1, FineStays, WhatIsKept DEF Missed
  <2>3. CASE Caught(c, u)
    BY <1>0, <2>1, <2>3, CaughtGoesOn
  <2>4. CASE ~Caught(c, u)
    <3> SUFFICES ASSUME NEW y \in Int, Asked(c, y)'
                 PROVE  y < x
      OBVIOUS
    <3>1. CASE Arrives(e, x, u)
      <4>1. Missed(c, e, x, u)
        BY <2>2, <3>1 DEF Missed
      <4>2. CASE Asked(c, y)
        BY <2>1, <2>4, <4>1, <4>2 DEF PassedOverInvariant, AsksForTheHeard
      <4>3. CASE Leader(c) /\ polls[c].at \in {"polling", "fetching", "ended"}
        <5>1. ~CatchingUp(c)
          BY <4>3 DEF CatchingUp
        <5> QED
          BY <2>4, <4>1, <4>3, <5>1 DEF PassedOverInvariant, HearsTheRest
      <4> QED
        BY <1>0, <4>2, <4>3, WhoAsks
    <3>2. CASE Leader(e) /\ x = runtimes[e].next
      <4>1. CASE Asked(c, y)
        BY <2>1, <3>2, <4>1 DEF PassedOverInvariant, LeadersGoUp
      <4>2. CASE Leader(c)
        <5>1. Owner(c) = Owner(e) /\ HasRuntime(c)
          BY <3>2, <4>2 DEF Leader, Holds
        <5> QED
          BY <1>0, <2>2, <3>2, <5>1, LeaderIsAlone
      <4> QED
        BY <1>0, <4>1, <4>2, WhoAsks
    <3> QED
      BY <1>0, <3>1, <3>2, WhatArrives DEF Missed
  <2> QED
    BY <2>3, <2>4
<1> QED
  BY <1>1, <1>2

LEMMA PromptsTheHeard ==
    ASSUME PassedOverInvariant, Steps, NEW c \in Connections, Holds(c), NEW y \in Int, StartsJob(c, y),
           NEW e \in Connections, NEW x \in Int, NEW u \in Messages, x <= y, Heard(c, x, u)
    PROVE  /\ InTheLog(e, x, u) => Fine(u)'
           /\ Coming(e, x, u) => Fine(u)' \/ HasLogged(e, x)
<1>0. RecordsInvariant /\ TypeOK
  BY DEF PassedOverInvariant, RecordsInvariant, TurnsInvariant, HandoverInvariant
<1>1. PICK b : b = runtimes[c].boundary
  OBVIOUS
<1>2. b \in Int
  BY <1>0, <1>1 DEF TypeOK, RuntimeType
<1>3. CASE b < x
  <2>1. PICK h : h = [id |-> x, update |-> u]
    OBVIOUS
  <2>2. h \in runtimes[c].heard /\ h.id = x /\ h.update = u
    BY <2>1 DEF Heard
  <2>3. u \in Prompt(runtimes[c], y)
    BY <1>1, <1>3, <2>2 DEF Prompt
  <2> QED
    BY <2>3 DEF StartsJob, Fine
<1>4. CASE ~(b < x)
  <2>1. x <= b
    BY <1>2, <1>4
  <2>2. Arrives(e, x, u) => b # 0
    <3>1. IdsArePositive(e) /\ "poll" \in Tasks
      BY <1>0 DEF RecordsInvariant, Tasks
    <3>2. Arrives(e, x, u) => 0 < x
      BY <3>1 DEF Arrives, InTheLog, Coming, IdsArePositive
    <3> QED
      BY <1>2, <2>1, <3>2
  <2>3. b # 0 => Finishing(b)
    <3>1. BoundaryIsFinished(c)
      BY <1>0 DEF RecordsInvariant, RecordsOf
    <3> QED
      BY <1>1, <3>1 DEF BoundaryIsFinished, Finishing, Passes, Past
  <2>4. Finishing(b) => Closed(b)
    BY <1>2 DEF PassedOverInvariant, FinishedAreClosed
  <2>5. Fine(u) => Fine(u)'
    BY <1>0, FineStays
  <2> QED
    BY <2>1, <2>2, <2>3, <2>4, <2>5 DEF Closed, Arrives
<1> QED
  BY <1>3, <1>4

\* A message of c that has the id of a logged one: another task logs it.
LEMMA TakenIdsAreLogged ==
    ASSUME RecordsInvariant, NEW c \in Connections, Holds(c), NEW y \in Int, Asked(c, y), StartsJob(c, y),
           NEW x \in Int, NEW u, x <= y, Coming(c, x, u), ~Past(c, "poll"),
           \A z : HasLogged(c, z) => HasLogged(c, z)'
    PROVE  HasLogged(c, x)'
<1>1. IdsGoUp(c) /\ Busy(c, "poll") /\ Rec(c, "poll").id = x /\ "poll" \in Tasks /\ TypeOK
  BY DEF RecordsInvariant, RecordsOf, Coming, Tasks, TurnsInvariant, HandoverInvariant
<1>2. TaskLogged(c, "poll", y) \/ TaskLogged(c, "flush", y)
  BY AskedAreLogged
<1>3. ~(y < x)
  OBVIOUS
<1>4. ~TaskLogged(c, "poll", y)
  BY <1>1, <1>3 DEF IdsGoUp, TaskLogged
<1>5. TaskLogged(c, "flush", y)
  BY <1>2, <1>4
<1>6. x < runtimes[c].next
  <2> PICK n : n = runtimes[c].next
    OBVIOUS
  <2>1. n \in Int /\ y < n
    BY <1>1, <1>5 DEF IdsGoUp, TaskLogged, TypeOK, RuntimeType
  <2> QED
    BY <2>1
<1>7. HasLogged(c, x) \/ \E r \in Tasks \ {"poll"} : Past(c, r) /\ Rec(c, r).id = x
  BY <1>1, <1>6 DEF IdsGoUp
<1>8. ASSUME NEW r \in Tasks \ {"poll"}, Past(c, r), Rec(c, r).id = x
      PROVE  HasLogged(c, x)'
  <2>1. Busy(c, r)
    BY <1>8 DEF Past
  <2>2. r # "flush"
    BY <1>1, <1>3, <1>5, <1>8, <2>1 DEF IdsGoUp, TaskLogged
  <2>3. r = "turn"
    BY <1>8, <2>2 DEF Tasks
  <2> QED
    BY <1>8, <2>1, <2>3 DEF StartsJob
<1> QED
  BY <1>7, <1>8

LEMMA ClosedGoesOn ==
    ASSUME PassedOverInvariant, Steps, NEW y \in Int, Finishing(y)',
           NEW e \in Connections, NEW x \in Int, NEW u \in Messages, x <= y
    PROVE  /\ InTheLog(e, x, u) => Fine(u)'
           /\ Coming(e, x, u) => /\ Past(e, "poll") => Fine(u)' \/ HasLogged(e, x)
                                 /\ Fine(u)' \/ HasLogged(e, x)'
<1>0. RecordsInvariant /\ TypeOK
  BY DEF PassedOverInvariant, RecordsInvariant, TurnsInvariant, HandoverInvariant
<1>1. (Fine(u) => Fine(u)') /\ \A d, z : HasLogged(d, z) => HasLogged(d, z)'
  BY <1>0, FineStays, WhatIsAppended, LogOnlyGrows DEF Steps
<1>2. CASE Finishing(y)
  BY <1>1, <1>2 DEF PassedOverInvariant, FinishedAreClosed, Closed
<1>3. ASSUME NEW c \in Connections, Holds(c), Asked(c, y), StartsJob(c, y)
      PROVE  /\ InTheLog(e, x, u) => Fine(u)'
             /\ Coming(e, x, u) => /\ Past(e, "poll") => Fine(u)' \/ HasLogged(e, x)
                                   /\ Fine(u)' \/ HasLogged(e, x)'
  <2>1. CASE Heard(c, x, u)
    BY <1>1, <1>3, <2>1, PromptsTheHeard
  <2>2. CASE ~Heard(c, x, u) /\ e = c
    <3>1. HearsItself(c) /\ "poll" \in Tasks
      BY <1>0 DEF RecordsInvariant, RecordsOf, Tasks
    <3>2. ~InTheLog(c, x, u)
      BY <2>2, <3>1 DEF HearsItself, InTheLog
    <3>3. Coming(c, x, u) => ~Past(c, "poll")
      BY <2>2, <3>1 DEF HearsItself, Coming
    <3> QED
      BY <1>0, <1>1, <1>3, <2>2, <3>2, <3>3, TakenIdsAreLogged
  <2>3. CASE ~Heard(c, x, u) /\ e # c
    <3> SUFFICES ASSUME Arrives(e, x, u), ~Fine(u)
                 PROVE  Fine(u)'
      BY <1>1 DEF Arrives
    <3>1. Missed(c, e, x, u)
      BY <2>3 DEF Missed
    <3>2. Caught(c, u)
      <4>1. ~(y < x)
        OBVIOUS
      <4> QED
        BY <1>3, <3>1, <4>1 DEF PassedOverInvariant, AsksForTheHeard
    <3>3. PICK i \in DOMAIN log : /\ log[i].kind = "inbound" /\ log[i].update = u
                                  /\ Heard(c, log[i].id, u) /\ log[i].id <= runtimes[c].armed
      BY <3>2 DEF Caught
    <3>4. PICK z, d, a : z = log[i].id /\ d = log[i].by /\ a = runtimes[c].armed
      OBVIOUS
    <3>5. z \in Int /\ d \in Connections /\ a \in Int
      BY <1>0, <3>4, LogIsTyped DEF TypeOK, RuntimeType, LogRecordType
    <3>6. z <= a /\ a < y
      BY <1>0, <1>3, <3>3, <3>4, AskedAreLogged
    <3>7. z <= y
      BY <3>5, <3>6
    <3>8. InTheLog(d, z, u) /\ Heard(c, z, u)
      BY <3>3, <3>4 DEF InTheLog
    <3> QED
      BY <1>3, <3>5, <3>7, <3>8, PromptsTheHeard
  <2> QED
    BY <2>1, <2>2, <2>3
<1> QED
  BY <1>0, <1>2, <1>3, WhoFinishes

LEMMA FinishedStayClosed ==
    ASSUME PassedOverInvariant, Steps
    PROVE  FinishedAreClosed'
<1> SUFFICES ASSUME NEW y \in Int, Finishing(y)', NEW e \in Connections, NEW x \in Int, NEW u \in Messages, x <= y
             PROVE  /\ InTheLog(e, x, u)' => Fine(u)'
                    /\ Coming(e, x, u)' => Fine(u)' \/ HasLogged(e, x)'
  BY DEF FinishedAreClosed, Closed
<1>0. RecordsInvariant /\ TypeOK
  BY DEF PassedOverInvariant, RecordsInvariant, TurnsInvariant, HandoverInvariant
<1>1. /\ InTheLog(e, x, u) => Fine(u)'
      /\ Coming(e, x, u) => /\ Past(e, "poll") => Fine(u)' \/ HasLogged(e, x)
                            /\ Fine(u)' \/ HasLogged(e, x)'
  BY ClosedGoesOn
<1>2. InTheLog(e, x, u)' => Fine(u)'
  BY <1>0, <1>1, WhatIsLogged DEF Fine
<1>3. ~(Leader(e) /\ x = runtimes[e].next)
  <2>1. Leader(e) => y < runtimes[e].next
    BY <1>0, WhoFinishes DEF PassedOverInvariant, LeadersGoUp
  <2> QED
    BY <2>1
<1> QED
  BY <1>0, <1>1, <1>2, <1>3, WhoTakes

\* What Telegram has still, it keeps until the connection that reads it has it.
LEMMA NotBehindStays ==
    ASSUME RecordsInvariant, Steps, NEW c \in Connections, Leader(c), Leader(c)', ~Starts(c),
           polls[c].at = "initial", NEW u \in Messages, NotBehind(u)
    PROVE  NotBehind(u)'
<1>0. TypeOK /\ TypeOK' /\ lock'.owner = lock.owner /\ "flush" \in Tasks /\ "poll" \in Tasks
  <2>1. Owner(c)' = Owner(c)
    BY WhoHolds
  <2> QED
    BY <2>1 DEF RecordsInvariant, TurnsInvariant, HandoverInvariant, Steps, Leader, Tasks
<1>1. ASSUME NEW e \in Connections, Owner(e) = Owner(c)
      PROVE  /\ HasRuntime(e) => e = c
             /\ ~Busy(e, "poll")
             /\ polls[e].at # "polling"
  <2>1. e # c => polls[e].at \in {"off", "ended"} /\ ~Busy(e, "poll") /\ ~HasRuntime(e)
    BY <1>1, LeaderIsAlone
  <2>2. ArmedWhenCaughtUp(c)
    BY DEF RecordsInvariant, TurnsInvariant, TurnsOf, TurnsOfMessages
  <2> QED
    BY <2>1, <2>2 DEF ArmedWhenCaughtUp, Busy
<1>2. telegram'.confirmed < u /\ u <= telegram'.sent
  <2>1. PICK m, n : m = telegram.sent /\ n = telegram'.sent
    OBVIOUS
  <2>2. u \in Nat /\ m \in Nat /\ n \in Nat
    BY <1>0, <2>1 DEF TypeOK, Messages
  <2>3. u <= m /\ m <= n
    BY <2>1 DEF NotBehind, Steps, ForgetsWhatIsAskedFor
  <2>4. u <= n
    BY <2>2, <2>3
  <2> QED
    BY <2>1, <2>2, <2>4 DEF NotBehind, Steps, ForgetsWhatIsAskedFor
<1>3. ASSUME NEW e \in Connections, polls'[e].at \in {"initial", "fetching"}
      PROVE  polls'[e].offset <= u
  <2>1. CASE polls[e].at \in {"initial", "fetching"} /\ polls'[e].offset = polls[e].offset
    BY <2>1 DEF NotBehind
  <2>2. CASE polls[e].at = "polling" /\ HasRuntime(e) /\ Owns(e)
    BY <1>1, <2>2 DEF Owns, Leader
  <2>3. CASE polls[e].at = "reading" /\ polls'[e].offset = LoadedCursor + 1
    <3>1. PICK z : z = LoadedCursor
      OBVIOUS
    <3>2. z = 0 \/ \E i \in DOMAIN log : log[i].kind = "checkpoint" /\ z = log[i].update
      BY <3>1, LargestIsOne DEF LoadedCursor, LastById
    <3>3. z \in Nat /\ u \in Nat
      BY <1>0, <3>2, LogIsTyped DEF LogRecordType, Messages
    <3>4. z < u
      <4>1. CASE z = 0
        <5>1. PICK n : n = telegram.confirmed
          OBVIOUS
        <5>2. n \in Nat /\ n < u
          BY <1>0, <5>1 DEF TypeOK, NotBehind
        <5> QED
          BY <3>3, <4>1, <5>2
      <4>2. CASE z # 0
        BY <3>2, <4>2 DEF NotBehind
      <4> QED
        BY <4>1, <4>2
    <3>5. z + 1 <= u
      BY <3>3, <3>4
    <3> QED
      BY <2>3, <3>1, <3>5
  <2> QED
    BY <1>3, <2>1, <2>2, <2>3 DEF Steps, AsksGoOn
<1>4. ASSUME NEW i \in DOMAIN log', log'[i].kind = "checkpoint"
      PROVE  log'[i].update < u
  <2>1. CASE i \in DOMAIN log
    BY <1>0, <1>4, <2>1, WhatIsAppended DEF Steps, LogKept, NotBehind
  <2>2. CASE i \notin DOMAIN log
    <3>1. PICK e \in Connections, t \in Tasks : Past(e, t) /\ Appended(e, t, i)
      BY <1>0, <2>2, WhatIsAppended DEF Steps
    <3> QED
      BY <1>4, <3>1 DEF Appended, NotBehind
  <2> QED
    BY <2>1, <2>2
<1>5. ASSUME NEW e \in Connections, NEW t \in Tasks, Past(e, t)', (Rec(e, t).kind)' = "checkpoint"
      PROVE  (Rec(e, t).update)' < u
  <2>1. Goes(e)
    BY DEF Steps
  <2>2. ASSUME writes'[e][t] = writes[e][t] PROVE (Rec(e, t).update)' < u
    BY <1>5, <2>2 DEF Past, Busy, Rec, NotBehind
  <2>3. CASE StaysPut(e)
    BY <1>5, <2>2, <2>3 DEF StaysPut, Past, Busy
  <2>4. CASE Starts(e)
    BY <1>5, <2>4 DEF Starts, Past
  <2>5. ASSUME NEW r \in Tasks, Moves(e, r) PROVE (Rec(e, t).update)' < u
    BY <1>5, <2>2, <2>5 DEF Moves, MovesOn, Past
  <2>6. ASSUME NEW r \in Tasks, Passing(e, r) PROVE (Rec(e, t).update)' < u
    <3>1. CASE t # r
      BY <2>2, <2>6, <3>1 DEF Passing, PassesNow
    <3>2. CASE t = r
      <4>1. Owner(e) = Owner(c) /\ Owner(e) \in Sessions /\ Owns(e) /\ Busy(e, t) /\ Rec(e, t)' = Rec(e, t)
        BY <2>6, <3>2 DEF Passing, PassesNow, Leader, Owns
      <4>2. t # "poll"
        BY <1>1, <4>1
      <4>3. t # "turn"
        BY <1>5, <4>1 DEF RecordsInvariant, RecordsOf, TasksKeepToTheirs
      <4>4. t = "flush"
        BY <4>2, <4>3 DEF Tasks
      <4> QED
        BY <1>5, <4>1, <4>4 DEF NotBehind
    <3> QED
      BY <3>1, <3>2
  <2> QED
    BY <2>1, <2>3, <2>4, <2>5, <2>6 DEF Goes
<1>6. ASSUME NEW e \in Connections, Owner(e)' \in Sessions, Owns(e)', Busy(e, "flush")',
             (Rec(e, "flush").kind)' \in {"inbound", "checkpoint"}
      PROVE  (Rec(e, "flush").update)' < u
  <2>1. Goes(e) /\ ~Starts(e)
    BY <1>0, <1>6 DEF Steps, Starts
  <2>2. Owner(e)' = Owner(e) /\ Owns(e) /\ Owner(e) \in Sessions /\ Owner(e) = Owner(c)
    BY <1>0, <1>6, <2>1, WhoHolds DEF Owns, Leader
  <2>3. ASSUME Busy(e, "flush"), Rec(e, "flush").kind \in {"inbound", "checkpoint"},
               (Rec(e, "flush").update)' = Rec(e, "flush").update
        PROVE  (Rec(e, "flush").update)' < u
    BY <2>2, <2>3 DEF NotBehind
  <2>4. ASSUME writes'[e]["flush"] = writes[e]["flush"] PROVE (Rec(e, "flush").update)' < u
    <3>1. Busy(e, "flush") /\ Rec(e, "flush")' = Rec(e, "flush")
      BY <1>6, <2>4 DEF Busy, Rec
    <3> QED
      BY <1>6, <2>3, <3>1
  <2>5. CASE StaysPut(e)
    BY <1>0, <1>6, <2>4, <2>5 DEF StaysPut, Busy
  <2>6. ASSUME NEW t \in Tasks, Moves(e, t) PROVE (Rec(e, "flush").update)' < u
    <3>1. CASE t # "flush"
      BY <1>0, <2>4, <2>6, <3>1 DEF Moves, MovesOn
    <3>2. CASE t = "flush"
      <4>1. (Rec(e, t).kind)' # "inbound"
        BY <1>1, <1>6, <2>2, <2>6, <3>2 DEF Moves, StartsRecord, CatchingUp
      <4> QED
        BY <1>6, <2>3, <2>6, <3>2, <4>1 DEF Moves, StartsRecord
    <3> QED
      BY <3>1, <3>2
  <2>7. ASSUME NEW t \in Tasks, Passing(e, t) PROVE (Rec(e, "flush").update)' < u
    <3>1. CASE t # "flush"
      BY <1>0, <2>4, <2>7, <3>1 DEF Passing, PassesNow
    <3>2. CASE t = "flush"
      BY <1>6, <2>3, <2>7, <3>2 DEF Passing, PassesNow
    <3> QED
      BY <3>1, <3>2
  <2> QED
    BY <2>1, <2>5, <2>6, <2>7 DEF Goes
<1> QED
  BY <1>2, <1>3, <1>4, <1>5, <1>6 DEF NotBehind

\* What is neither in the log nor harmless, Telegram has when the log is read.
LEMMA NotBehindAtFirst ==
    ASSUME RecordsInvariant', NEW e \in Connections, NEW x \in Int, NEW u \in Messages, (u \in Updates)',
           Arrives(e, x, u)', ~Logged(u)', ~Fine(u)'
    PROVE  NotBehind(u)'
<1>1. TurnsInvariant' /\ HandoverInvariant' /\ TypeOK'
  BY DEF RecordsInvariant, TurnsInvariant, HandoverInvariant
<1>2. ~Accounted(u)' /\ u \in Nat /\ 1 <= u
  BY DEF Fine, Accounted, Messages, Updates
<1>3. ASSUME NEW n \in Int, AllBelow(n)'
      PROVE  n <= u
  <2>1. ~(u \in 1 .. n - 1)
    BY <1>2, <1>3 DEF AllBelow
  <2> QED
    BY <1>2, <2>1
<1>4. u <= telegram'.sent
  <2>1. Coming(e, x, u)'
    BY DEF Arrives, InTheLog, Logged
  <2>2. Handling(e, u)'
    BY <2>1 DEF Coming, Handling, Leads, Busy, Rec
  <2> QED
    BY <1>1, <2>2 DEF TurnsInvariant, TurnsOf, TurnsOfMessages, WereSent
<1>5. telegram'.confirmed < u
  <2>1. PICK n : n = telegram'.confirmed
    OBVIOUS
  <2>2. n \in Nat /\ AllBelow(n + 1)'
    BY <1>1, <2>1 DEF TypeOK, HandoverInvariant, ForgottenAreAccounted, AllBelow
  <2>3. n + 1 <= u
    BY <1>3, <2>2
  <2> QED
    BY <1>2, <2>1, <2>2, <2>3
<1>6. ASSUME NEW d \in Connections, polls'[d].at \in {"initial", "fetching"}
      PROVE  polls'[d].offset <= u
  <2>1. PICK n : n = polls'[d].offset
    OBVIOUS
  <2>2. n \in Nat /\ AllBelow(n)'
    BY <1>1, <1>6, <2>1 DEF TypeOK, PollType, HandoverInvariant, InOrder, AsksForTheRest, AllBelow
  <2> QED
    BY <1>3, <2>1, <2>2
<1>7. ASSUME NEW n \in Nat, AllBelow(n + 1)'
      PROVE  n < u
  <2>1. n + 1 <= u
    BY <1>3, <1>7
  <2> QED
    BY <1>2, <2>1
<1>8. ASSUME NEW i \in DOMAIN log', log'[i].kind = "checkpoint"
      PROVE  log'[i].update < u
  <2>1. PICK n : n = log'[i].update
    OBVIOUS
  <2>2. n \in Nat
    <3>1. log' \in Seq(LogRecordType)
      BY <1>1 DEF TypeOK
    <3>2. log'[i] \in LogRecordType
      BY <3>1
    <3> QED
      BY <2>1, <3>2 DEF LogRecordType
  <2>3. AllBelow(n + 1)'
    BY <1>1, <1>8, <2>1 DEF HandoverInvariant, CheckpointsAreSafe, AllBelow
  <2> QED
    BY <1>7, <2>1, <2>2, <2>3
<1>9. ASSUME NEW d \in Connections, NEW t \in Tasks, Busy(d, t)'
      PROVE  /\ (Rec(d, t).update)' \in Nat
             /\ Past(d, t)' \/ ~runtimes'[d].lost => Safe(Rec(d, t))'
  <2>1. WritesInOrder(d)'
    BY <1>1 DEF HandoverInvariant, InOrder
  <2>2. (Rec(d, t) \in RecordType)'
    <3>1. writes'[d][t] \in Seq(WriteType) /\ writes'[d][t] # <<>>
      BY <1>1, <1>9 DEF TypeOK, Busy
    <3>2. writes'[d][t][1] \in WriteType
      BY <3>1
    <3> QED
      BY <3>2 DEF WriteType, Rec
  <2> QED
    BY <1>9, <2>1, <2>2 DEF WritesInOrder, Past, Busy, Rec, RecordType
<1>10. ASSUME NEW d \in Connections, NEW t \in Tasks, Past(d, t)', (Rec(d, t).kind)' = "checkpoint"
       PROVE  (Rec(d, t).update)' < u
  <2>1. PICK n : n = (Rec(d, t).update)'
    OBVIOUS
  <2>2. n \in Nat /\ AllBelow(n + 1)'
    BY <1>9, <1>10, <2>1 DEF Past, Safe, AllBelow
  <2> QED
    BY <1>7, <2>1, <2>2
<1>11. ASSUME NEW d \in Connections, Owns(d)', Busy(d, "flush")', (Rec(d, "flush").kind)' \in {"inbound", "checkpoint"}
       PROVE  (Rec(d, "flush").update)' < u
  <2>1. PICK n : n = (Rec(d, "flush").update)'
    OBVIOUS
  <2>2. n \in Nat /\ Safe(Rec(d, "flush"))'
    BY <1>9, <1>11, <2>1 DEF Owns, Tasks
  <2>3. n \in Albums
    <3>1. OthersAreAlbums(d)' /\ "flush" \in Tasks \ {"poll"}
      BY <1>1 DEF TurnsInvariant, TurnsOf, TurnsOfMessages, Tasks
    <3> QED
      BY <1>11, <2>1, <3>1 DEF OthersAreAlbums, Busy, Rec, Leads
  <2>4. AllBelow(n)' \/ AllBelow(n + 1)'
    <3>1. CASE (Rec(d, "flush").kind)' = "inbound"
      BY <2>1, <2>2, <3>1 DEF Safe, AllBelow
    <3>2. CASE (Rec(d, "flush").kind)' = "checkpoint"
      BY <2>1, <2>2, <3>2 DEF Safe, AllBelow
    <3> QED
      BY <1>11, <3>1, <3>2
  <2>5. n <= u
    <3>1. n \in Int /\ (n < u => n <= u)
      BY <1>2, <2>2
    <3>2. AllBelow(n)' => n <= u
      BY <1>3, <3>1
    <3>3. AllBelow(n + 1)' => n < u
      BY <1>7, <2>2
    <3> QED
      BY <2>4, <3>1, <3>2, <3>3
  <2>6. n # u
    BY <2>3 DEF Messages
  <2> QED
    BY <1>2, <2>1, <2>2, <2>5, <2>6
<1> QED
  BY <1>4, <1>5, <1>6, <1>8, <1>10, <1>11 DEF NotBehind

\* What is being written while it catches up, is heard of when it is written.
LEMMA WrittenIsHeard ==
    ASSUME RecordsInvariant, Steps, NEW c \in Connections, Holds(c), Holds(c)', NEW u, BeingWritten(c, u)
    PROVE  BeingWritten(c, u)' \/ HearsOf(c, u)'
<1>0. Goes(c) /\ ~Starts(c) /\ "poll" \in Tasks
  BY WhoHolds DEF Steps, Tasks
<1>1. Busy(c, "poll") /\ Rec(c, "poll").kind = "inbound" /\ Rec(c, "poll").update = u
  BY DEF BeingWritten, Busy, Rec
<1>2. CASE writes'[c]["poll"] = writes[c]["poll"]
  BY <1>2 DEF BeingWritten
<1>3. CASE StaysPut(c)
  BY <1>2, <1>3 DEF StaysPut
<1>4. ASSUME NEW t \in Tasks, Moves(c, t) PROVE BeingWritten(c, u)' \/ HearsOf(c, u)'
  <2>1. CASE t # "poll"
    BY <1>0, <1>2, <1>4, <2>1 DEF Moves, MovesOn
  <2>2. CASE t = "poll"
    <3>1. Past(c, "poll")
      BY <1>1, <1>4, <2>2 DEF Moves, Holds
    <3>2. Heard(c, Rec(c, "poll").id, u)
      BY <1>0, <1>1, <3>1 DEF RecordsInvariant, RecordsOf, HearsItself
    <3>3. runtimes'[c].heard = runtimes[c].heard
      BY <1>4 DEF Moves, MovesOn, Keeps
    <3>4. PICK h : h = [id |-> Rec(c, "poll").id, update |-> u]
      OBVIOUS
    <3>5. h \in runtimes'[c].heard /\ h.update = u
      BY <3>2, <3>3, <3>4 DEF Heard
    <3> QED
      BY <3>5 DEF HearsOf
  <2> QED
    BY <2>1, <2>2
<1>5. ASSUME NEW t \in Tasks, Passing(c, t) PROVE BeingWritten(c, u)' \/ HearsOf(c, u)'
  <2>1. CASE t # "poll"
    BY <1>0, <1>2, <1>5, <2>1 DEF Passing, PassesNow
  <2>2. CASE t = "poll"
    BY <1>1, <1>5, <2>2 DEF Passing, PassesNow, Past, Busy, Rec, BeingWritten
  <2> QED
    BY <2>1, <2>2
<1> QED
  BY <1>0, <1>3, <1>4, <1>5 DEF Goes

LEMMA HearsGoOnOfTheRest ==
    ASSUME PassedOverInvariant, Steps, NEW c \in Connections
    PROVE  HearsTheRest(c)'
<1> SUFFICES ASSUME Leader(c)', NEW e \in Connections, NEW x \in Int, NEW u \in Messages, Missed(c, e, x, u)'
             PROVE  /\ polls'[c].at = "initial" => HearsOf(c, u)' \/ NotBehind(u)'
                    /\ polls'[c].at = "catching up" => HearsOf(c, u)' \/ u \in polls'[c].batch \/ BeingWritten(c, u)'
                    /\ ~CatchingUp(c)' => Caught(c, u)'
  BY DEF HearsTheRest
<1>0. RecordsInvariant /\ RecordsInvariant' /\ TypeOK /\ Holds(c)' /\ "poll" \in Tasks
  BY DEF PassedOverInvariant, RecordsInvariant, TurnsInvariant, HandoverInvariant, Steps, Leader, Tasks
<1>1. CASE Starts(c)
  <2>1. polls'[c].at = "initial" /\ log' = log
    BY <1>0, <1>1 DEF Starts
  <2>2. ASSUME Logged(u)' PROVE HearsOf(c, u)'
    <3>1. PICK i \in DOMAIN log : log[i].kind = "inbound" /\ log[i].update = u
      BY <2>1, <2>2 DEF Logged
    <3>2. Heard(c, log[i].id, log[i].update)'
      BY <1>0, <1>1, <3>1 DEF Starts
    <3>3. PICK h : h = [id |-> log[i].id, update |-> u]
      OBVIOUS
    <3>4. h \in runtimes'[c].heard /\ h.update = u
      BY <2>1, <3>1, <3>2, <3>3 DEF Heard
    <3> QED
      BY <3>4 DEF HearsOf
  <2>3. ASSUME ~Logged(u)' PROVE NotBehind(u)'
    <3>1. ArrivalsAreUpdates'
      BY ArrivalsGoOn DEF PassedOverInvariant
    <3>2. Arrives(e, x, u)' /\ ~Fine(u)'
      BY DEF Missed
    <3>3. (u \in Updates)'
      BY <3>1, <3>2 DEF ArrivalsAreUpdates
    <3> QED
      BY <1>0, <2>3, <3>2, <3>3, NotBehindAtFirst
  <2> QED
    BY <2>1, <2>2, <2>3 DEF CatchingUp
<1>2. CASE ~Starts(c)
  <2>1. Leader(c) /\ Holds(c)
    BY <1>0, <1>2, WhoLeads DEF Leader
  <2>2. Missed(c, e, x, u)
    <3>1. e # c /\ ~Heard(c, x, u) /\ ~Fine(u)
      BY <1>0, <2>1, FineStays, WhatIsKept DEF Missed
    <3>2. ~Leader(e)
      <4>1. Leader(e) => Owner(e) = Owner(c) /\ HasRuntime(e)
        BY <2>1 DEF Leader, Holds
      <4> QED
        BY <1>0, <2>1, <3>1, <4>1, LeaderIsAlone
    <3> QED
      BY <1>0, <3>1, <3>2, WhatArrives DEF Missed
  <2>3. HearsTheRest(c) /\ CatchUpGoesOn(c)
    BY DEF PassedOverInvariant, Steps
  <2>4. HearsOf(c, u) => HearsOf(c, u)'
    <3> SUFFICES ASSUME NEW h \in runtimes[c].heard, h.update = u
                 PROVE  HearsOf(c, u)'
      BY DEF HearsOf
    <3>1. h = [id |-> h.id, update |-> u]
      <4>1. h \in [id : Int, update : Nat]
        BY <1>0 DEF TypeOK, RuntimeType
      <4> QED
        BY <4>1
    <3>2. Heard(c, h.id, u)
      BY <3>1 DEF Heard
    <3>3. PICK z : z = h.id
      OBVIOUS
    <3>4. Heard(c, z, u)'
      BY <1>0, <2>1, <3>2, <3>3, WhatIsKept
    <3>5. h \in runtimes'[c].heard
      BY <3>1, <3>3, <3>4 DEF Heard
    <3> QED
      BY <3>5 DEF HearsOf
  <2>5. ASSUME polls'[c].at = "initial"
        PROVE  HearsOf(c, u)' \/ NotBehind(u)'
    <3>1. polls[c].at = "initial"
      BY <1>0, <2>1, <2>3, <2>5 DEF CatchUpGoesOn
    <3>2. HearsOf(c, u) \/ NotBehind(u)
      BY <2>1, <2>2, <2>3, <3>1 DEF HearsTheRest
    <3> QED
      BY <1>0, <1>2, <2>1, <2>4, <3>1, <3>2, NotBehindStays
  <2>6. ASSUME polls'[c].at = "catching up"
        PROVE  HearsOf(c, u)' \/ u \in polls'[c].batch \/ BeingWritten(c, u)'
    <3>1. CatchingUp(c)
      BY <1>0, <2>1, <2>3, <2>6 DEF CatchUpGoesOn
    <3>2. CASE polls[c].at = "initial"
      BY <1>0, <2>1, <2>2, <2>3, <2>4, <2>6, <3>2 DEF HearsTheRest, NotBehind, CatchUpGoesOn
    <3>3. CASE polls[c].at = "catching up"
      <4>1. HearsOf(c, u) \/ u \in polls[c].batch \/ BeingWritten(c, u)
        BY <2>1, <2>2, <2>3, <3>3 DEF HearsTheRest
      <4>2. u \in polls[c].batch => u \in polls'[c].batch \/ BeingWritten(c, u)'
        BY <1>0, <2>1, <2>3, <2>6, <3>3 DEF CatchUpGoesOn
      <4> QED
        BY <1>0, <2>1, <2>4, <4>1, <4>2, WrittenIsHeard
    <3> QED
      BY <3>1, <3>2, <3>3 DEF CatchingUp
  <2>7. ASSUME ~CatchingUp(c)'
        PROVE  Caught(c, u)'
    <3>1. CASE ~CatchingUp(c)
      BY <1>0, <2>1, <2>2, <2>3, <3>1, CaughtGoesOn DEF HearsTheRest
    <3>2. CASE CatchingUp(c)
      <4>1. /\ polls[c].at = "catching up" /\ polls[c].batch = {} /\ ~Busy(c, "poll")
            /\ runtimes'[c].armed = runtimes[c].tail
        BY <1>0, <2>1, <2>3, <2>7, <3>2 DEF CatchUpGoesOn
      <4>2. HearsOf(c, u)
        BY <2>1, <2>2, <2>3, <4>1 DEF HearsTheRest, BeingWritten, Busy
      <4>3. PICK h \in runtimes[c].heard : h.update = u
        BY <4>2 DEF HearsOf
      <4>4. h.id <= runtimes[c].tail /\ IsLogged(h)
        BY <1>0, <3>2, <4>1, <4>3 DEF RecordsInvariant, RecordsOf, CatchesUpAlone, OnTheWay, Past
      <4>5. PICK i \in DOMAIN log : log[i].kind = "inbound" /\ log[i].id = h.id /\ log[i].update = u
        BY <4>3, <4>4 DEF IsLogged
      <4>6. h = [id |-> h.id, update |-> u]
        <5>1. h \in [id : Int, update : Nat]
          BY <1>0 DEF TypeOK, RuntimeType
        <5> QED
          BY <4>3, <5>1
      <4>7. PICK z : z = h.id
        OBVIOUS
      <4>8. Heard(c, z, u)
        BY <4>6, <4>7 DEF Heard
      <4>9. Heard(c, z, u)'
        BY <1>0, <2>1, <4>8, WhatIsKept
      <4>10. i \in DOMAIN log' /\ log'[i] = log[i]
        BY <1>0, <4>5, WhatIsAppended DEF Steps, LogKept
      <4>11. log'[i].id = z /\ z <= runtimes'[c].armed
        BY <4>1, <4>4, <4>5, <4>7, <4>10
      <4> QED
        BY <4>5, <4>9, <4>10, <4>11 DEF Caught
    <3> QED
      BY <3>1, <3>2
  <2> QED
    BY <2>5, <2>6, <2>7
<1> QED
  BY <1>1, <1>2

LEMMA PassedOverGoesOn ==
    ASSUME PassedOverInvariant, Steps
    PROVE  PassedOverInvariant'
<1>1. RecordsInvariant /\ RecordsInvariant'
  BY DEF PassedOverInvariant, Steps
<1>2. ArrivalsAreUpdates' /\ LeadersGoUp'
  BY <1>1, ArrivalsGoOn, LeadersGoOn DEF PassedOverInvariant
<1>3. \A c \in Connections : HearsTheRest(c)' /\ AsksForTheHeard(c)'
  BY HearsGoOnOfTheRest, AsksGoOnForTheHeard
<1> QED
  BY <1>1, <1>2, <1>3, FinishedStayClosed DEF PassedOverInvariant

\* Jobs are only asked for after the catch-up.
JobsAreArmed(c) ==
    /\ runtimes[c].pending # <<>> \/ runtimes[c].active # <<>> => runtimes[c].armed # NotArmed
    /\ \A t \in Tasks : Busy(c, t) /\ Rec(c, t).kind = "job_queued" => runtimes[c].armed # NotArmed

\* What every action does, but for what follows from it.
MovesOf(c) == Goes(c) /\ AsksGoOn(c) /\ CatchUpGoesOn(c) /\ StartsJobs(c) /\ JobsAreArmed(c)'

Motion ==
    /\ LogGoesOn /\ prompted \subseteq prompted' /\ excused \subseteq excused'
    /\ LockGoesOn /\ ForgetsWhatIsAskedFor
    /\ \A c \in Connections : MovesOf(c)

\* Where the poll loop of a connection is left.
PollStays(d) ==
    /\ polls'[d].at = polls[d].at /\ polls'[d].offset = polls[d].offset /\ polls'[d].batch = polls[d].batch

SameTelegram == telegram' = telegram

LEMMA QuietTelegram ==
    ASSUME TypeOK, SameTelegram
    PROVE  ForgetsWhatIsAskedFor
<1> PICK n : n = telegram.sent
  OBVIOUS
<1>1. n \in Nat /\ n <= n
  BY DEF TypeOK
<1> QED
  BY <1>1 DEF SameTelegram, ForgetsWhatIsAskedFor

\* What a step that may start a turn does of a runtime.
Dispatches(k, m) ==
    \/ m = k
    \/ /\ Begins(k, m) /\ Prompt(k, Head(k.pending)) \subseteq prompted'
       /\ m.owner = k.owner /\ m.next = k.next /\ m.boundary = k.boundary /\ m.tail = k.tail
       /\ m.heard = k.heard /\ m.armed = k.armed /\ m.lost = k.lost

LEMMA WhatIsDispatched ==
    ASSUME TypeOK, CurrentIsConnected, NEW rts \in [Connections -> RuntimeType],
           NEW s \in Sessions, NEW v, StaysAs(s, v), TryDispatch(rts, s, v)
    PROVE  prompted \subseteq prompted' /\ \A d \in Connections : Dispatches(rts[d], runtimes'[d])
<1> DEFINE c == v.connection
           k == rts[c]
           new == [k EXCEPT !.active = <<Head(k.pending)>>, !.pending = Tail(@)]
           Now == v.current /\ ~v.inFlight /\ v.agent = "idle" /\ k.active = <<>> /\ k.pending # <<>>
<1>1. CASE Now
  <2>1. c \in Connections
    BY <1>1 DEF StaysAs, CurrentIsConnected, SessionType
  <2>2. runtimes' = [rts EXCEPT ![c] = new] /\ prompted' = prompted \cup Prompt(k, Head(k.pending))
    BY <1>1 DEF TryDispatch
  <2>3. k \in RuntimeType
    BY <2>1
  <2>4. Dispatches(k, new)
    <3> HIDE DEF k
    <3> QED
      BY <1>1, <2>2, <2>3 DEF Dispatches, Begins, RuntimeType
  <2>5. runtimes'[c] = new /\ \A d \in Connections \ {c} : runtimes'[d] = rts[d]
    <3> HIDE DEF new, c
    <3> QED
      BY <2>1, <2>2
  <2>6. ASSUME NEW d \in Connections PROVE Dispatches(rts[d], runtimes'[d])
    <3> HIDE DEF new
    <3> QED
      BY <2>4, <2>5 DEF Dispatches
  <2> QED
    BY <2>2, <2>6
<1>2. CASE ~Now
  <2>1. runtimes' = rts /\ prompted' = prompted
    BY <1>2 DEF TryDispatch
  <2> QED
    BY <2>1 DEF Dispatches
<1> QED
  BY <1>1, <1>2

LEMMA JobsOfDispatch ==
    ASSUME NEW k, NEW m, Dispatches(k, m)
    PROVE  /\ Keeps(k, m) /\ JobsGoOn(k, m) /\ m.armed = k.armed /\ m.lost = k.lost
           /\ \A y : m.active # <<>> /\ m.active[1] = y =>
                 \/ k.active # <<>> /\ k.active[1] = y
                 \/ Begins(k, m) /\ Prompt(k, y) \subseteq prompted'
           /\ m.pending # <<>> \/ m.active # <<>> => k.pending # <<>> \/ k.active # <<>>
BY DEF Dispatches, Keeps, JobsGoOn, Begins

\* A connection that another moves past, but for a turn that starts.
LEMMA BystanderMoves ==
    ASSUME RecordsInvariant, NEW d \in Connections, JobsAreArmed(d), LoggedBefore(d), writes'[d] = writes[d],
           Dispatches(runtimes[d], runtimes'[d]), PollStays(d), Holds(d)' => Holds(d)
    PROVE  MovesOf(d)
<1>0. RefsAreLogged(d) /\ "turn" \in Tasks
  BY DEF RecordsInvariant, RecordsOf, Tasks
<1>1. /\ Keeps(runtimes[d], runtimes'[d]) /\ JobsGoOn(runtimes[d], runtimes'[d])
      /\ runtimes'[d].armed = runtimes[d].armed
      /\ \A y : Runs(d, y)' => \/ Runs(d, y)
                               \/ Begins(runtimes[d], runtimes'[d]) /\ Prompt(runtimes[d], y) \subseteq prompted'
      /\ runtimes'[d].pending # <<>> \/ runtimes'[d].active # <<>> =>
            runtimes[d].pending # <<>> \/ runtimes[d].active # <<>>
  <2> PICK k, m : k = runtimes[d] /\ m = runtimes'[d]
    OBVIOUS
  <2>1. Dispatches(k, m)
    OBVIOUS
  <2>2. /\ Keeps(k, m) /\ JobsGoOn(k, m) /\ m.armed = k.armed /\ m.lost = k.lost
        /\ \A y : m.active # <<>> /\ m.active[1] = y =>
              \/ k.active # <<>> /\ k.active[1] = y
              \/ Begins(k, m) /\ Prompt(k, y) \subseteq prompted'
        /\ m.pending # <<>> \/ m.active # <<>> => k.pending # <<>> \/ k.active # <<>>
    BY <2>1, JobsOfDispatch
  <2> QED
    BY <2>2 DEF Runs
<1>2. StaysPut(d)
  BY <1>1 DEF StaysPut, PollStays, Unread, CatchingUp
<1>3. AsksGoOn(d)
  BY DEF AsksGoOn, PollStays
<1>4. CatchUpGoesOn(d)
  BY <1>1 DEF CatchUpGoesOn, PollStays, CatchingUp
<1>5. StartsJobs(d)
  BY <1>0, <1>1 DEF StartsJobs, StartsJob, RefsAreLogged, Begins
<1>6. JobsAreArmed(d)'
  BY <1>1 DEF JobsAreArmed, Busy, Rec
<1> QED
  BY <1>2, <1>3, <1>4, <1>5, <1>6 DEF MovesOf, Goes

LEMMA OthersMove ==
    ASSUME RecordsInvariant, NEW d \in Connections, JobsAreArmed(d), log' = log, writes'[d] = writes[d],
           runtimes'[d] = runtimes[d], PollStays(d), Holds(d)' => Holds(d)
    PROVE  MovesOf(d)
<1>1. LoggedBefore(d) /\ Dispatches(runtimes[d], runtimes'[d])
  BY DEF LoggedBefore, Dispatches
<1> QED
  BY <1>1, BystanderMoves

\* The connection of a step that starts no turn and writes nothing.
LEMMA LoopMoves ==
    ASSUME RecordsInvariant, NEW c \in Connections, JobsAreArmed(c), log' = log, writes'[c] = writes[c],
           Keeps(runtimes[c], runtimes'[c]),
           runtimes'[c].pending = runtimes[c].pending, runtimes'[c].active = runtimes[c].active,
           Unread(c)' => Unread(c), CatchingUp(c)' => CatchingUp(c), Holds(c)' => Holds(c),
           AsksGoOn(c), CatchUpGoesOn(c)
    PROVE  MovesOf(c)
<1>1. StaysPut(c)
  BY DEF StaysPut, LoggedBefore, JobsGoOn
<1>2. StartsJobs(c)
  BY DEF StartsJobs, Runs
<1>3. JobsAreArmed(c)'
  BY DEF JobsAreArmed, Keeps, Busy, Rec
<1> QED
  BY <1>1, <1>2, <1>3 DEF MovesOf, Goes

\* A job is finished: what ends the turn is written, or the next turn starts.
LEMMA FinishMoves ==
    ASSUME RecordsInvariant, \A d \in Connections : JobsAreArmed(d), NEW s \in Sessions, NEW v, StaysAs(s, v),
           NEW kind \in {"outbound", "job_failed"}, FinishJob(s, v, kind), log' = log, PollsLetGo,
           OwnersStay(runtimes'), SessionsStay
    PROVE  prompted \subseteq prompted' /\ \A d \in Connections : MovesOf(d)
<1> DEFINE c == v.connection
           job == runtimes[c].active
<1>0. /\ TypeOK /\ CurrentIsConnected /\ RuntimesAreOwned /\ runtimes \in [Connections -> RuntimeType]
      /\ "turn" \in Tasks
  BY DEF RecordsInvariant, TurnsInvariant, HandoverInvariant, TypeOK, Tasks
<1>1. \A d \in Connections : PollStays(d) /\ (Holds(d)' => Holds(d)) /\ LoggedBefore(d)
  BY <1>0, StayingHolds DEF PollsLetGo, PollStays, LoggedBefore
<1>2. CASE ~v.current \/ job = <<>>
  <2>1. writes' = writes /\ prompted \subseteq prompted' /\ \A d \in Connections : Dispatches(runtimes[d], runtimes'[d])
    <3>1. CASE ~v.current
      BY <3>1 DEF FinishJob, Dispatches
    <3>2. CASE v.current /\ job = <<>>
      <4>1. TryDispatch(runtimes, s, v) /\ writes' = writes
        BY <3>2 DEF FinishJob
      <4> QED
        BY <1>0, <4>1, WhatIsDispatched
    <3> QED
      BY <1>2, <3>1, <3>2
  <2>2. ASSUME NEW d \in Connections PROVE MovesOf(d)
    BY <1>1, <2>1, BystanderMoves
  <2> QED
    BY <2>1, <2>2
<1>3. CASE v.current /\ job # <<>>
  <2> DEFINE rec == Record(c, runtimes[c], kind, 0, job[1])
             new == Writing(rec)
  <2>1. c \in Connections /\ Owner(c) = s /\ HasRuntime(c)
    BY <1>0, <1>3 DEF StaysAs, CurrentIsConnected, RuntimesAreOwned, SessionType, HasRuntime
  <2>2. /\ writes[c]["turn"] = <<>> /\ writes' = [writes EXCEPT ![c]["turn"] = new]
        /\ UNCHANGED <<runtimes, prompted>>
    BY <1>3 DEF FinishJob
  <2>3. /\ new # <<>> /\ ~new[1].fenced
        /\ new[1].rec.kind = kind /\ new[1].rec.id = runtimes[c].next /\ new[1].rec.ref = job[1]
    BY DEF Writing, Record
  <2> HIDE DEF new
  <2>4. /\ \A d \in Connections \ {c} : writes'[d] = writes[d]
        /\ \A r \in Tasks \ {"turn"} : writes'[c][r] = writes[c][r]
        /\ writes'[c]["turn"] = new
    <3> HIDE DEF c
    <3> QED
      BY <1>0, <2>1, <2>2 DEF TypeOK, Tasks
  <2>5. ASSUME NEW d \in Connections, d # c PROVE MovesOf(d)
    <3>1. JobsAreArmed(d) /\ writes'[d] = writes[d] /\ runtimes'[d] = runtimes[d]
      BY <2>2, <2>4, <2>5
    <3> QED
      BY <1>1, <3>1, OthersMove
  <2>6. MovesOf(c)
    <3>0. /\ RecordsOf(c) /\ StartsEmpty(c) /\ RefsAreLogged(c) /\ ArmedWhenCaughtUp(c) /\ JobsAreArmed(c)
          /\ runtimes'[c] = runtimes[c] /\ Keeps(runtimes[c], runtimes[c])
      BY <2>1, <2>2 DEF RecordsInvariant, RecordsOf, TurnsInvariant, TurnsOf, TurnsOfMessages, Keeps
    <3>1. polls[c].at \in {"polling", "fetching", "ended"}
      BY <1>3, <3>0 DEF JobsAreArmed, ArmedWhenCaughtUp
    <3>2. ~Busy(c, "turn") /\ ~Past(c, "turn") /\ Busy(c, "turn")' /\ ~Past(c, "turn")'
          /\ (Rec(c, "turn").id)' = runtimes[c].next /\ (Rec(c, "turn").kind)' = kind
          /\ (Rec(c, "turn").ref)' = job[1]
      BY <2>2, <2>3, <2>4 DEF Busy, Past, Rec
    <3>3. Runs(c, job[1])
      BY <1>3 DEF Runs
    <3>4. MovesOn(c, "turn")
      BY <2>4, <3>0, <3>2 DEF MovesOn, LogKept
    <3>5. JobsMoveOn(c, "turn")
      <4>1. ~runtimes[c].lost => \E i \in DOMAIN log : log[i].id = job[1]
        BY <3>0, <3>3 DEF RefsAreLogged
      <4>2. \A y : (Pends(c, y)' => Pends(c, y)) /\ (Runs(c, y)' => Runs(c, y))
        BY <3>0 DEF Pends, Runs
      <4> QED
        BY <1>3, <3>0, <3>2, <4>1, <4>2 DEF JobsMoveOn
    <3>6. StartsRecord(c, "turn")
      BY <2>1, <3>2, <3>3 DEF StartsRecord
    <3>7. ~Unread(c)' /\ ~CatchingUp(c)'
      BY <1>1, <2>1, <3>1 DEF Unread, CatchingUp, PollStays
    <3>8. Moves(c, "turn")
      BY <1>1, <2>1, <3>2, <3>4, <3>5, <3>6, <3>7 DEF Moves
    <3>9. AsksGoOn(c)
      BY <1>1, <2>1 DEF AsksGoOn, PollStays
    <3>10. CatchUpGoesOn(c)
      BY <1>1, <2>1, <3>0, <3>1 DEF CatchUpGoesOn, PollStays, CatchingUp
    <3>11. StartsJobs(c)
      BY <3>0 DEF StartsJobs, Runs
    <3>12. JobsAreArmed(c)'
      BY <1>3, <3>0 DEF JobsAreArmed
    <3> QED
      BY <1>0, <3>8, <3>9, <3>10, <3>11, <3>12 DEF MovesOf, Goes
  <2> QED
    BY <2>2, <2>5, <2>6
<1> QED
  BY <1>2, <1>3

LEMMA SideStepMoves ==
    ASSUME RecordsInvariant, \A d \in Connections : JobsAreArmed(d), NEW s \in Sessions, SideStep(s)
    PROVE  Motion
<1>1. TypeOK /\ CurrentIsConnected /\ RuntimesAreOwned
  BY DEF RecordsInvariant, TurnsInvariant, HandoverInvariant
<1>2. /\ SessionsStay /\ OwnersStay(runtimes') /\ PollsLetGo
      /\ UNCHANGED <<log, telegram, excused>>
  BY <1>1, SideStepStays
<1>3. LogGoesOn /\ ForgetsWhatIsAskedFor
  BY <1>1, <1>2, QuietTelegram DEF LogGoesOn, SameTelegram
<1>4. \A d \in Connections : PollStays(d) /\ (Holds(d)' => Holds(d))
  BY <1>1, <1>2, StayingHolds DEF PollsLetGo, PollStays
<1>5. LockGoesOn
  <2>1. lock' = lock \/ lock' = [lock EXCEPT !.owner = NoOwner]
    BY DEF SideStep, SessionOnly, LoopAwaited, ReleaseCheck, Unlink, TurnIsLocal, TurnEnds, LocalTurn,
           LocalTurnEnds, Disconnect, EvictionGoesOn, TurnFails, ReplySent
  <2> QED
    BY <1>1, <2>1 DEF LockGoesOn, TypeOK
<1>6. prompted \subseteq prompted' /\ \A d \in Connections : MovesOf(d)
  <2>1. CASE SessionOnly(s) \/ Disconnect(s) \/ EvictionGoesOn(s)
    <3>1. UNCHANGED <<runtimes, writes, prompted>>
      BY <2>1 DEF SessionOnly, LoopAwaited, ReleaseCheck, Unlink, TurnIsLocal, TurnEnds, LocalTurn,
                  LocalTurnEnds, Disconnect, EvictionGoesOn
    <3> QED
      BY <1>2, <1>4, <3>1, OthersMove
  <2>2. CASE TurnFails(s) \/ \E kind \in {"outbound", "job_failed"} : ReplySent(s, kind)
    <3>1. PICK kind \in {"outbound", "job_failed"} : \E v : StaysAs(s, v) /\ FinishJob(s, v, kind)
      <4> DEFINE x == sessions[s]
                 v == [x EXCEPT !.agent = "idle", !.inFlight = FALSE]
                 n == x.sending - 1
                 w == [x EXCEPT !.sending = n, !.inFlight = FALSE]
      <4>1. x \in SessionType
        BY <1>1 DEF TypeOK
      <4>2. StaysAs(s, v)
        BY <4>1 DEF StaysAs, SessionType
      <4>3. StaysAs(s, w)
        <5>1. n \in Int
          BY <4>1 DEF SessionType
        <5> HIDE DEF n
        <5> QED
          BY <4>1, <5>1 DEF StaysAs, SessionType
      <4>4. FinishJob(s, v, "job_failed") \/ \E kind \in {"outbound", "job_failed"} : FinishJob(s, w, kind)
        BY <2>2 DEF TurnFails, ReplySent
      <4> HIDE DEF v, w
      <4> QED
        BY <4>2, <4>3, <4>4
    <3>2. PICK v : StaysAs(s, v) /\ FinishJob(s, v, kind)
      BY <3>1
    <3> QED
      BY <1>2, <3>2, FinishMoves
  <2> QED
    BY <2>1, <2>2 DEF SideStep
<1> QED
  BY <1>2, <1>3, <1>5, <1>6 DEF Motion

LEMMA SendMoves ==
    ASSUME RecordsInvariant, \A d \in Connections : JobsAreArmed(d), Send \/ UNCHANGED vars
    PROVE  Motion
<1>1. TypeOK
  BY DEF RecordsInvariant, TurnsInvariant, HandoverInvariant
<1>2. UNCHANGED <<log, lock, runtimes, polls, writes, sessions, excused, prompted>>
  BY DEF Send, vars
<1>3. ForgetsWhatIsAskedFor
  <2>1. CASE Send
    <3> PICK n, m : n = telegram.sent /\ m = telegram.confirmed
      OBVIOUS
    <3>1. n \in Nat /\ telegram'.sent = n + 1 /\ telegram'.confirmed = m
      BY <1>1, <2>1 DEF Send, TypeOK
    <3>2. n <= n + 1
      BY <3>1
    <3> QED
      BY <3>1, <3>2 DEF ForgetsWhatIsAskedFor
  <2>2. CASE UNCHANGED vars
    BY <1>1, <2>2, QuietTelegram DEF vars, SameTelegram
  <2> QED
    BY <2>1, <2>2
<1>4. ASSUME NEW d \in Connections PROVE MovesOf(d)
  <2>1. PollStays(d) /\ (Holds(d)' => Holds(d))
    BY <1>2 DEF PollStays, Holds, HasRuntime, Owner
  <2> QED
    BY <1>2, <2>1, OthersMove
<1> QED
  BY <1>2, <1>3, <1>4 DEF Motion, LogGoesOn, LockGoesOn

LEMMA CrashMoves ==
    ASSUME RecordsInvariant, \A d \in Connections : JobsAreArmed(d), NEW s \in Sessions, Crash(s)
    PROVE  Motion
<1>1. UNCHANGED <<log, lock, telegram, runtimes, excused, prompted>> /\ TypeOK
  BY DEF Crash, RecordsInvariant, TurnsInvariant, HandoverInvariant
<1>2. /\ ~sessions'[s].current
      /\ \A z \in Sessions \ {s} : sessions'[z] = sessions[z]
      /\ \A d \in Connections :
            IF Owner(d) = s
            THEN polls'[d].at = "ended" /\ \A t \in Tasks : writes'[d][t] = <<>>
            ELSE polls'[d] = polls[d] /\ writes'[d] = writes[d]
  BY <1>1, CrashTypes
<1>3. ASSUME NEW d \in Connections PROVE MovesOf(d)
  <2>0. Owner(d)' = Owner(d) /\ JobsAreArmed(d)
    BY <1>1 DEF Owner
  <2>1. CASE Owner(d) = s
    <3>1. ~Holds(d)' /\ polls'[d].at = "ended" /\ \A t \in Tasks : writes'[d][t] = <<>>
      BY <1>2, <2>0, <2>1 DEF Holds, HasRuntime
    <3>2. StaysPut(d)
      BY <1>1, <3>1 DEF StaysPut, LoggedBefore, Keeps, JobsGoOn, Unread, CatchingUp
    <3>3. AsksGoOn(d) /\ CatchUpGoesOn(d) /\ StartsJobs(d)
      BY <3>1 DEF AsksGoOn, CatchUpGoesOn, StartsJobs
    <3>4. JobsAreArmed(d)'
      BY <1>1, <2>0, <3>1 DEF JobsAreArmed, Busy
    <3> QED
      BY <3>2, <3>3, <3>4 DEF MovesOf, Goes
  <2>2. CASE Owner(d) # s
    <3>1. PollStays(d) /\ (Holds(d)' => Holds(d))
      BY <1>1, <1>2, <2>0, <2>2 DEF PollStays, Holds, HasRuntime
    <3> QED
      BY <1>1, <1>2, <2>0, <2>2, <3>1, OthersMove
  <2> QED
    BY <2>1, <2>2
<1> QED
  BY <1>1, <1>3, QuietTelegram DEF Motion, LogGoesOn, LockGoesOn, SameTelegram

\* What it takes of a connection that has not asked for anything yet.
LEMMA FreshMoves ==
    ASSUME NEW c \in Connections, Starts(c), JobsAreArmed(c), StartsEmpty(c), AsksGoOn(c)
    PROVE  MovesOf(c)
<1>1. CatchUpGoesOn(c)
  BY DEF CatchUpGoesOn, StartsEmpty, Starts
<1>2. StartsJobs(c)
  BY DEF StartsJobs, Starts, Runs
<1>3. JobsAreArmed(c)'
  BY DEF JobsAreArmed, Starts
<1> QED
  BY <1>1, <1>2, <1>3 DEF MovesOf, Goes

LEMMA ConnectMoves ==
    ASSUME RecordsInvariant, \A d \in Connections : JobsAreArmed(d),
           NEW s \in Sessions, NEW c \in Connections, ConnectBegin(s, c)
    PROVE  Motion
<1>0. /\ TypeOK /\ RuntimesAreOwned /\ UnusedAreIdle(c) /\ RecordsOf(c) /\ JobsAreArmed(c)
      /\ "turn" \in Tasks /\ "poll" \in Tasks /\ "flush" \in Tasks
  BY DEF RecordsInvariant, TurnsInvariant, HandoverInvariant, InOrder, Tasks
<1>1. /\ UNCHANGED <<log, lock, telegram, writes, excused, prompted>>
      /\ Owner(c) = NoOwner /\ ~sessions[s].current
      /\ runtimes' = [runtimes EXCEPT ![c] = NewRuntime(s)]
  BY DEF ConnectBegin
<1>2. PICK at \in {"reading", "claiming"} : polls' = [polls EXCEPT ![c].at = at]
  BY DEF ConnectBegin
<1>3. polls'[c].at = at /\ \A d \in Connections \ {c} : polls'[d] = polls[d]
  BY <1>0, <1>2, AtIsTyped
<1>4. runtimes'[c] = NewRuntime(s) /\ \A d \in Connections \ {c} : runtimes'[d] = runtimes[d]
  BY <1>0, <1>1 DEF TypeOK
<1>5. ~sessions'[s].current /\ \A z \in Sessions \ {s} : sessions'[z] = sessions[z]
  <2> DEFINE v == [sessions[s] EXCEPT !.connection = c, !.live = FALSE, !.noticed = FALSE]
  <2>1. sessions' = [sessions EXCEPT ![s] = v]
    BY DEF ConnectBegin
  <2>2. ~v.current
    <3>1. sessions[s] \in SessionType
      BY <1>0 DEF TypeOK
    <3> QED
      BY <1>1, <3>1 DEF SessionType
  <2> HIDE DEF v
  <2> QED
    BY <1>0, <2>1, <2>2 DEF TypeOK
<1>6. MovesOf(c)
  <2>1. Unread(c) /\ StartsEmpty(c)
    BY <1>0, <1>1 DEF UnusedAreIdle, Unread, RecordsOf
  <2>2. /\ \A t \in Tasks : ~Busy(c, t) /\ ~Busy(c, t)'
        /\ \A i \in DOMAIN log' : log'[i].by # c
    BY <1>1, <2>1 DEF StartsEmpty, Busy
  <2>3. /\ runtimes'[c].pending = <<>> /\ runtimes'[c].active = <<>> /\ runtimes'[c].next = 1
        /\ Owner(c)' = s
    BY <1>4 DEF NewRuntime, Owner
  <2>4. ~Holds(c)' /\ Unread(c)' /\ ~CatchingUp(c)'
    BY <1>3, <1>5, <2>3 DEF Holds, HasRuntime, Unread, CatchingUp
  <2>5. RecordsOf(c)' /\ IdsArePositive(c)'
    <3>1. TasksKeepToTheirs(c)' /\ StartsEmpty(c)' /\ IdsGoUp(c)' /\ IdsArePositive(c)'
      BY <2>2, <2>3, <2>4 DEF TasksKeepToTheirs, StartsEmpty, IdsGoUp, IdsArePositive
    <3>2. HearsItself(c)' /\ BoundaryIsFinished(c)' /\ CatchesUpAlone(c)'
      BY <2>2, <2>4 DEF HearsItself, BoundaryIsFinished, CatchesUpAlone, Past
    <3>3. RefsAreLogged(c)'
      <4>1. \A y : ~Pends(c, y)' /\ ~Runs(c, y)'
        BY <2>3 DEF Pends, Runs
      <4>2. \A t \in Tasks : ~Passes(c, t)'
        BY <2>2 DEF Passes
      <4> QED
        BY <1>0, <2>2, <4>1, <4>2 DEF RefsAreLogged
    <3> QED
      BY <3>1, <3>2, <3>3 DEF RecordsOf
  <2>6. Starts(c)
    BY <1>1, <2>1, <2>2, <2>3, <2>4, <2>5 DEF Starts
  <2>7. AsksGoOn(c)
    BY <1>3 DEF AsksGoOn
  <2> QED
    BY <1>0, <2>1, <2>6, <2>7, FreshMoves
<1>7. ASSUME NEW d \in Connections, d # c PROVE MovesOf(d)
  <2>1. Holds(d)' => Holds(d)
    BY <1>4, <1>5, <1>7 DEF Holds, HasRuntime, Owner
  <2> QED
    BY <1>1, <1>3, <1>4, <1>7, <2>1, OthersMove DEF PollStays
<1> QED
  BY <1>0, <1>1, <1>6, <1>7, QuietTelegram DEF Motion, LogGoesOn, LockGoesOn, SameTelegram

LEMMA ClaimMoves ==
    ASSUME RecordsInvariant, \A d \in Connections : JobsAreArmed(d), NEW c \in Connections, Claim(c)
    PROVE  Motion
<1>0. TypeOK /\ JobsAreArmed(c)
  BY DEF RecordsInvariant, TurnsInvariant, HandoverInvariant
<1>1. /\ UNCHANGED <<log, telegram, runtimes, writes, sessions, excused, prompted>>
      /\ polls[c].at = "claiming" /\ Owner(c) \in Sessions /\ polls' = [polls EXCEPT ![c].at = "reading"]
      /\ lock'.owner = Owner(c)
  BY AliveIsOwned DEF Claim
<1>2. polls'[c].at = "reading" /\ \A d \in Connections \ {c} : polls'[d] = polls[d]
  BY <1>0, <1>1, AtIsTyped
<1>3. \A d \in Connections : Holds(d)' => Holds(d)
  BY <1>1 DEF Holds, HasRuntime, Owner
<1>4. MovesOf(c)
  <2>1. AsksGoOn(c) /\ CatchUpGoesOn(c)
    BY <1>1, <1>2 DEF AsksGoOn, CatchUpGoesOn, CatchingUp
  <2>2. (Unread(c)' => Unread(c)) /\ ~CatchingUp(c)'
    BY <1>1, <1>2 DEF Unread, CatchingUp
  <2> QED
    BY <1>0, <1>1, <1>3, <2>1, <2>2, LoopMoves DEF Keeps
<1>5. ASSUME NEW d \in Connections, d # c PROVE MovesOf(d)
  BY <1>1, <1>2, <1>3, <1>5, OthersMove DEF PollStays
<1> QED
  BY <1>0, <1>1, <1>4, <1>5, QuietTelegram DEF Motion, LogGoesOn, LockGoesOn, SameTelegram

\* The largest id of the log is that of a record, and no id is above it.
LEMMA LargestIdIsLargest ==
    ASSUME TypeOK, LargestIsLogged, NEW last, last = Largest({log[i].id : i \in DOMAIN log})
    PROVE  /\ last \in Int
           /\ last = 0 \/ \E i \in DOMAIN log : last = log[i].id
           /\ \A i \in DOMAIN log : log[i].id <= last
<1> DEFINE S == {log[i].id : i \in DOMAIN log}
<1>1. last = 0 \/ \E i \in DOMAIN log : last = log[i].id
  BY LargestIsOne
<1>2. last \in Int
  BY <1>1, LogIsTyped DEF LogRecordType
<1>3. ASSUME NEW j \in DOMAIN log
      PROVE  \A i \in DOMAIN log : log[i].id <= last
  <2>1. log \in Seq(LogRecordType) /\ log # <<>>
    BY <1>3 DEF TypeOK
  <2>2. \E x \in S : \A y \in S : y <= x
    BY <2>1 DEF LargestIsLogged
  <2>3. last = CHOOSE x \in S : \A y \in S : y <= x
    BY <2>2 DEF Largest
  <2>4. \A y \in S : y <= last
    BY <2>2, <2>3
  <2> QED
    BY <2>4
<1> QED
  BY <1>1, <1>2, <1>3

LEMMA LoadMoves ==
    ASSUME RecordsInvariant, \A d \in Connections : JobsAreArmed(d), NEW c \in Connections, Load(c)
    PROVE  Motion
<1>0. /\ TypeOK /\ ConnectedIsLast(c) /\ RecordsOf(c) /\ JobsAreArmed(c) /\ LargestIsLogged
      /\ "turn" \in Tasks /\ "poll" \in Tasks /\ "flush" \in Tasks
  BY DEF RecordsInvariant, TurnsInvariant, HandoverInvariant, InOrder, Tasks
<1>1. /\ UNCHANGED <<log, lock, telegram, writes, excused, prompted>>
      /\ polls[c].at = "reading" /\ Owner(c) \in Sessions
      /\ runtimes' = [runtimes EXCEPT ![c] = Loaded(runtimes[c])]
      /\ sessions' = [sessions EXCEPT ![Owner(c)].current = TRUE]
      /\ polls' = [polls EXCEPT ![c].at = "initial", ![c].offset = LoadedCursor + 1]
  BY AliveIsOwned DEF Load
<1>2. /\ polls'[c].at = "initial" /\ polls'[c].offset = LoadedCursor + 1
      /\ \A d \in Connections \ {c} : polls'[d] = polls[d]
  <2>1. polls[c] \in PollType
    BY <1>0, PollIsTyped
  <2>2. PICK o : o = LoadedCursor + 1
    OBVIOUS
  <2> DEFINE p == [polls[c] EXCEPT !.at = "initial", !.offset = o]
  <2>3. p.at = "initial" /\ p.offset = o
    BY <2>1 DEF PollType
  <2>4. polls' = [polls EXCEPT ![c] = p]
    BY <1>1, <2>2
  <2> HIDE DEF p
  <2> QED
    BY <1>0, <2>2, <2>3, <2>4 DEF TypeOK
<1>3. runtimes'[c] = Loaded(runtimes[c]) /\ \A d \in Connections \ {c} : runtimes'[d] = runtimes[d]
  BY <1>0, <1>1 DEF TypeOK
<1>4. ASSUME NEW d \in Connections, d # c PROVE MovesOf(d)
  <2>1. Holds(d)' => Holds(d)
    <3>1. sessions[Owner(c)].connection = c
      BY <1>0, <1>1 DEF ConnectedIsLast
    <3>2. \A z \in Sessions : /\ sessions'[z].connection = sessions[z].connection
                              /\ z # Owner(c) => sessions'[z] = sessions[z]
      <4>1. \A z \in Sessions : sessions[z] \in SessionType
        BY <1>0 DEF TypeOK
      <4> DEFINE v == [sessions[Owner(c)] EXCEPT !.current = TRUE]
      <4>2. sessions' = [sessions EXCEPT ![Owner(c)] = v] /\ v.connection = sessions[Owner(c)].connection
        BY <1>1, <4>1 DEF SessionType
      <4> HIDE DEF v
      <4> QED
        BY <1>0, <1>1, <4>2 DEF TypeOK
    <3> QED
      BY <1>3, <1>4, <3>1, <3>2 DEF Holds, HasRuntime, Owner
  <2> QED
    BY <1>1, <1>2, <1>3, <1>4, <2>1, OthersMove DEF PollStays
<1>5. PICK last : last = Largest({log[i].id : i \in DOMAIN log})
  OBVIOUS
<1>6. /\ last \in Int
      /\ last = 0 \/ \E i \in DOMAIN log : last = log[i].id
      /\ \A i \in DOMAIN log : log[i].id <= last
  BY <1>0, <1>5, LargestIdIsLargest
<1>7. /\ runtimes'[c].next = last + 1 /\ runtimes'[c].tail = last
      /\ runtimes'[c].boundary = Largest(Ids("job_completed") \cup Ids("job_failed"))
      /\ runtimes'[c].heard = {[id |-> log[i].id, update |-> log[i].update] :
                                 i \in {j \in DOMAIN log : log[j].kind = "inbound"}}
      /\ runtimes'[c].pending = runtimes[c].pending /\ runtimes'[c].active = runtimes[c].active
  <2> PICK k : k = runtimes[c]
    OBVIOUS
  <2>1. k \in RuntimeType
    BY <1>0 DEF TypeOK
  <2>2. /\ Loaded(k).next = last + 1 /\ Loaded(k).tail = last
        /\ Loaded(k).boundary = Largest(Ids("job_completed") \cup Ids("job_failed"))
        /\ Loaded(k).heard = {[id |-> log[i].id, update |-> log[i].update] :
                                 i \in {j \in DOMAIN log : log[j].kind = "inbound"}}
        /\ Loaded(k).pending = k.pending /\ Loaded(k).active = k.active
    BY <1>5, <2>1 DEF Loaded, RuntimeType
  <2> QED
    BY <1>3, <2>2
<1>8. Unread(c) /\ StartsEmpty(c)
  BY <1>0, <1>1 DEF Unread, RecordsOf
<1>9. /\ \A t \in Tasks : ~Busy(c, t) /\ ~Busy(c, t)'
      /\ \A i \in DOMAIN log' : log'[i].by # c
      /\ runtimes'[c].pending = <<>> /\ runtimes'[c].active = <<>>
  BY <1>1, <1>7, <1>8 DEF StartsEmpty, Busy
<1>10. \A i \in DOMAIN log : log[i].kind = "inbound" => Heard(c, log[i].id, log[i].update)'
  <2> SUFFICES ASSUME NEW i \in DOMAIN log, log[i].kind = "inbound",
                      NEW x, NEW u, x = log[i].id, u = log[i].update
               PROVE  Heard(c, x, u)'
    BY <1>1 DEF Heard
  <2>1. [id |-> x, update |-> u] \in runtimes'[c].heard
    BY <1>7
  <2> QED
    BY <2>1 DEF Heard
<1>11. \A i \in DOMAIN log : log[i].id < last + 1
  <2>1. \A i \in DOMAIN log : log[i].id \in Int
    BY <1>0, LogIsTyped DEF LogRecordType
  <2>2. \A x \in Int : x <= last => x < last + 1
    BY <1>6
  <2> QED
    BY <1>6, <2>1, <2>2
<1>12. RecordsOf(c)' /\ IdsArePositive(c)'
  <2>1. TasksKeepToTheirs(c)' /\ StartsEmpty(c)' /\ IdsGoUp(c)'
    BY <1>2, <1>9 DEF TasksKeepToTheirs, StartsEmpty, IdsGoUp, Unread
  <2>2. HearsItself(c)'
    BY <1>9 DEF HearsItself, Past
  <2>3. RefsAreLogged(c)'
    <3>1. \A y : ~Pends(c, y)' /\ ~Runs(c, y)'
      BY <1>9 DEF Pends, Runs
    <3>2. \A t \in Tasks : ~Passes(c, t)'
      BY <1>9 DEF Passes
    <3> QED
      BY <1>0, <1>9, <3>1, <3>2 DEF RefsAreLogged
  <2>4. BoundaryIsFinished(c)'
    <3>1. PICK b : b = runtimes'[c].boundary
      OBVIOUS
    <3>2. b = 0 \/ b \in Ids("job_completed") \cup Ids("job_failed")
      BY <1>7, <3>1, LargestIsOne
    <3>3. b = 0 \/ \E j \in DOMAIN log : Finishes(log[j]) /\ log[j].ref = b
      BY <3>2 DEF Ids, Finishes
    <3> QED
      BY <1>1, <3>1, <3>3 DEF BoundaryIsFinished
  <2>5. CatchesUpAlone(c)'
    <3>1. \A h \in runtimes'[c].heard : h.id <= runtimes'[c].tail
      BY <1>6, <1>7
    <3>2. \A h \in runtimes'[c].heard : IsLogged(h)'
      BY <1>1, <1>7 DEF IsLogged
    <3> QED
      BY <1>0, <1>7, <1>9, <3>1, <3>2 DEF CatchesUpAlone
  <2>6. 0 < last + 1
    <3>1. \A i \in DOMAIN log : log[i].id \in Int /\ 0 < log[i].id
      <4>1. \A i \in DOMAIN log : log[i].by \in Connections /\ log[i].id \in Int
        BY <1>0, LogIsTyped DEF LogRecordType
      <4> QED
        BY <4>1 DEF RecordsInvariant, IdsArePositive
    <3>2. last = 0 \/ 0 < last
      BY <1>6, <3>1
    <3> QED
      BY <1>6, <3>2
  <2>7. IdsArePositive(c)'
    BY <1>7, <1>9, <2>6 DEF IdsArePositive
  <2> QED
    BY <2>1, <2>2, <2>3, <2>4, <2>5, <2>7 DEF RecordsOf
<1>13. Starts(c)
  BY <1>1, <1>2, <1>7, <1>8, <1>9, <1>10, <1>11, <1>12 DEF Starts
<1>14. AsksGoOn(c)
  BY <1>1, <1>2 DEF AsksGoOn
<1>15. MovesOf(c)
  BY <1>0, <1>8, <1>13, <1>14, FreshMoves
<1> QED
  BY <1>0, <1>1, <1>4, <1>15, QuietTelegram DEF Motion, LogGoesOn, LockGoesOn, SameTelegram

LEMMA FetchMoves ==
    ASSUME RecordsInvariant, \A d \in Connections : JobsAreArmed(d), NEW c \in Connections,
           FetchInitial(c) \/ Fetch(c)
    PROVE  Motion
<1>0. TypeOK /\ JobsAreArmed(c)
  BY DEF RecordsInvariant, TurnsInvariant, HandoverInvariant
<1>1. UNCHANGED <<log, lock, runtimes, writes, sessions, excused, prompted>>
  BY DEF FetchInitial, Fetch
<1>2. /\ FetchedAt(c) /\ \A d \in Connections \ {c} : polls'[d] = polls[d]
      /\ \A u \in Nat : u <= telegram.sent => Behind(c, u)' \/ u \in polls'[c].batch
  BY <1>0, WhatIsFetched
<1>3. PICK o, n, forgotten, sent : /\ o = polls[c].offset /\ n = telegram'.confirmed
                                   /\ forgotten = telegram.confirmed /\ sent = telegram.sent
  OBVIOUS
<1>4. /\ o \in Nat /\ n \in Nat /\ forgotten \in Nat /\ sent \in Nat
      /\ n = forgotten \/ n = o - 1
      /\ telegram'.sent = sent /\ polls'[c].offset = o
  <2>1. polls[c] \in PollType /\ o \in Nat /\ forgotten \in Nat /\ sent \in Nat
    BY <1>0, <1>3, PollIsTyped DEF TypeOK
  <2>2. Before(o) \in Nat /\ (Before(o) = forgotten \/ Before(o) = o - 1)
    BY <1>3, <2>1, WhatWaits
  <2>3. Confirm(o)
    BY <1>3 DEF FetchInitial, Fetch
  <2>4. telegram'.confirmed = Before(o) /\ telegram'.sent = sent
    BY <1>0, <1>3, <2>3 DEF Confirm, TypeOK
  <2>5. PICK at, b : polls' = [polls EXCEPT ![c].at = at, ![c].batch = b]
    BY DEF FetchInitial, Fetch
  <2>6. polls'[c].offset = o
    <3> DEFINE p == [polls[c] EXCEPT !.at = at, !.batch = b]
    <3>1. p.offset = o
      BY <1>3, <2>1 DEF PollType
    <3>2. polls' = [polls EXCEPT ![c] = p]
      BY <2>5
    <3> HIDE DEF p
    <3> QED
      BY <1>0, <3>1, <3>2 DEF TypeOK
  <2> QED
    BY <1>3, <2>1, <2>2, <2>4, <2>6
<1>5. polls[c].at \in {"initial", "fetching"}
  BY <1>2 DEF FetchedAt
<1>6. ASSUME NEW u \in Nat, forgotten < u, o <= u PROVE n < u /\ ~(u < o)
  BY <1>4, <1>6
<1>7. ForgetsWhatIsAskedFor
  <2>1. sent <= sent
    BY <1>4
  <2> QED
    BY <1>3, <1>4, <1>5, <1>6, <2>1 DEF ForgetsWhatIsAskedFor
<1>8. \A d \in Connections : Holds(d)' = Holds(d)
  BY <1>1 DEF Holds, HasRuntime, Owner
<1>9. CatchUpGoesOn(c)
  <2>1. ASSUME NEW u \in Messages, forgotten < u, o <= u, u <= sent PROVE u \in polls'[c].batch
    <3>1. u \in Nat
      BY DEF Messages
    <3>2. n < u /\ ~(u < o)
      BY <1>6, <2>1, <3>1
    <3>3. ~(u <= n)
      BY <1>4, <3>1, <3>2
    <3>4. ~Behind(c, u)'
      BY <1>3, <1>4, <3>2, <3>3 DEF Behind
    <3> QED
      BY <1>2, <1>3, <2>1, <3>1, <3>4
  <2> QED
    BY <1>1, <1>2, <1>3, <2>1 DEF FetchedAt, CatchUpGoesOn, CatchingUp
<1>10. MovesOf(c)
  <2>1. AsksGoOn(c) /\ (Unread(c)' => Unread(c)) /\ (CatchingUp(c)' => CatchingUp(c))
    BY <1>2 DEF FetchedAt, AsksGoOn, Unread, CatchingUp
  <2> QED
    BY <1>0, <1>1, <1>8, <1>9, <2>1, LoopMoves DEF Keeps
<1>11. ASSUME NEW d \in Connections, d # c PROVE MovesOf(d)
  BY <1>1, <1>2, <1>8, <1>11, OthersMove DEF PollStays
<1> QED
  BY <1>1, <1>7, <1>10, <1>11 DEF Motion, LogGoesOn, LockGoesOn

LEMMA CaughtUpMoves ==
    ASSUME RecordsInvariant, \A d \in Connections : JobsAreArmed(d), NEW c \in Connections, CaughtUp(c)
    PROVE  Motion
<1> DEFINE k == [runtimes[c] EXCEPT !.armed = runtimes[c].tail]
           v == [sessions[Owner(c)] EXCEPT !.live = TRUE]
<1>0. /\ TypeOK /\ JobsAreArmed(c) /\ ArmedWhenCaughtUp(c) /\ runtimes[c] \in RuntimeType
      /\ CurrentIsConnected /\ RuntimesAreOwned
  BY DEF RecordsInvariant, TurnsInvariant, TurnsOf, TurnsOfMessages, HandoverInvariant, TypeOK
<1>1. /\ UNCHANGED <<log, lock, telegram, writes, excused, prompted>>
      /\ polls[c].at = "catching up" /\ polls[c].batch = {} /\ writes[c]["poll"] = <<>>
      /\ polls' = [polls EXCEPT ![c].at = "polling"] /\ Owner(c) \in Sessions
      /\ runtimes' = IF HasRuntime(c) THEN [runtimes EXCEPT ![c] = k] ELSE runtimes
      /\ sessions' = [sessions EXCEPT ![Owner(c)] = v]
  BY AliveIsOwned DEF CaughtUp
<1>2. polls'[c].at = "polling" /\ \A d \in Connections \ {c} : polls'[d] = polls[d]
  BY <1>0, <1>1, AtIsTyped
<1>3. /\ k.owner = runtimes[c].owner /\ k.next = runtimes[c].next /\ k.boundary = runtimes[c].boundary
      /\ k.tail = runtimes[c].tail /\ k.heard = runtimes[c].heard /\ k.lost = runtimes[c].lost
      /\ k.pending = runtimes[c].pending /\ k.active = runtimes[c].active /\ k.armed = runtimes[c].tail
  BY <1>0 DEF RuntimeType
<1>4. \A z \in Sessions : /\ sessions'[z].current = sessions[z].current
                          /\ sessions'[z].connection = sessions[z].connection
  <2>1. v.current = sessions[Owner(c)].current /\ v.connection = sessions[Owner(c)].connection
    <3>1. sessions[Owner(c)] \in SessionType
      BY <1>0, <1>1 DEF TypeOK
    <3> QED
      BY <3>1 DEF SessionType
  <2> HIDE DEF v
  <2> QED
    BY <1>0, <1>1, <2>1 DEF TypeOK
<1> HIDE DEF k, v
<1>5. /\ runtimes'[c] = IF HasRuntime(c) THEN k ELSE runtimes[c]
      /\ \A d \in Connections \ {c} : runtimes'[d] = runtimes[d]
  BY <1>0, <1>1 DEF TypeOK
<1>6. \A d \in Connections : Holds(d)' => Holds(d)
  <2>1. \A d \in Connections : Owner(d)' = Owner(d) /\ (runtimes[d].lost => runtimes'[d].lost)
    BY <1>3, <1>5 DEF Owner
  <2> QED
    BY <1>4, <2>1 DEF Holds, HasRuntime
<1>7. MovesOf(c)
  <2>1. runtimes[c].armed = NotArmed
    BY <1>0, <1>1 DEF ArmedWhenCaughtUp
  <2>2. Keeps(runtimes[c], runtimes'[c])
    BY <1>3, <1>5, <2>1 DEF Keeps
  <2>3. AsksGoOn(c) /\ ~Unread(c)' /\ ~CatchingUp(c)'
    BY <1>2 DEF AsksGoOn, Unread, CatchingUp
  <2>4. CatchUpGoesOn(c)
    <3>1. Holds(c) => runtimes'[c].armed = runtimes[c].tail
      BY <1>3, <1>5 DEF Holds
    <3> QED
      BY <1>1, <1>2, <2>3, <3>1 DEF CatchUpGoesOn, CatchingUp, Busy
  <2> QED
    BY <1>0, <1>1, <1>3, <1>5, <1>6, <2>2, <2>3, <2>4, LoopMoves
<1>8. ASSUME NEW d \in Connections, d # c PROVE MovesOf(d)
  BY <1>1, <1>2, <1>5, <1>6, <1>8, OthersMove DEF PollStays
<1> QED
  BY <1>0, <1>1, <1>7, <1>8, QuietTelegram DEF Motion, LogGoesOn, LockGoesOn, SameTelegram

LEMMA CheckPassesMoves ==
    ASSUME RecordsInvariant, \A d \in Connections : JobsAreArmed(d), NEW c \in Connections, CheckPasses(c)
    PROVE  Motion
<1>0. TypeOK /\ JobsAreArmed(c)
  BY DEF RecordsInvariant, TurnsInvariant, HandoverInvariant
<1>1. /\ UNCHANGED <<log, lock, telegram, runtimes, writes, sessions, excused, prompted>>
      /\ polls[c].at = "polling" /\ HasRuntime(c) /\ Owns(c)
      /\ polls' = [polls EXCEPT ![c].at = "fetching"]
  BY DEF CheckPasses, BetweenPolls
<1>2. polls'[c].at = "fetching" /\ \A d \in Connections \ {c} : polls'[d] = polls[d]
  BY <1>0, <1>1, AtIsTyped
<1>3. \A d \in Connections : Holds(d)' => Holds(d)
  BY <1>1 DEF Holds, HasRuntime, Owner
<1>4. MovesOf(c)
  <2>1. AsksGoOn(c) /\ CatchUpGoesOn(c) /\ ~Unread(c)' /\ ~CatchingUp(c)'
    BY <1>1, <1>2 DEF AsksGoOn, CatchUpGoesOn, CatchingUp, Unread
  <2> QED
    BY <1>0, <1>1, <1>3, <2>1, LoopMoves DEF Keeps
<1>5. ASSUME NEW d \in Connections, d # c PROVE MovesOf(d)
  BY <1>1, <1>2, <1>3, <1>5, OthersMove DEF PollStays
<1> QED
  BY <1>0, <1>1, <1>4, <1>5, QuietTelegram DEF Motion, LogGoesOn, LockGoesOn, SameTelegram

\* The poll loop ends, with the runtime lost or given up, or past the catch-up.
LEMMA EndedMoves ==
    ASSUME RecordsInvariant, \A d \in Connections : JobsAreArmed(d), NEW c \in Connections,
           polls' = [polls EXCEPT ![c] = Ended(@)], UNCHANGED <<log, lock, telegram, writes, excused, prompted>>,
           OwnersStay(runtimes'), SessionsStay, \A d \in Connections \ {c} : runtimes'[d] = runtimes[d],
           Keeps(runtimes[c], runtimes'[c]), runtimes'[c].armed = runtimes[c].armed,
           runtimes'[c].pending = runtimes[c].pending, runtimes'[c].active = runtimes[c].active,
           ~CatchingUp(c) \/ ~Holds(c)'
    PROVE  Motion
<1>0. TypeOK /\ JobsAreArmed(c)
  BY DEF RecordsInvariant, TurnsInvariant, HandoverInvariant
<1>1. polls'[c].at = "ended" /\ \A d \in Connections \ {c} : polls'[d] = polls[d]
  <2>1. polls[c] \in PollType
    BY <1>0, PollIsTyped
  <2>2. Ended(polls[c]).at = "ended"
    BY <2>1, EndedIsTyped
  <2> QED
    BY <1>0, <2>2 DEF TypeOK
<1>2. \A d \in Connections : Holds(d)' => Holds(d)
  BY <1>0, StayingHolds
<1>3. MovesOf(c)
  <2>1. AsksGoOn(c) /\ CatchUpGoesOn(c) /\ ~Unread(c)' /\ ~CatchingUp(c)'
    BY <1>1 DEF AsksGoOn, CatchUpGoesOn, CatchingUp, Unread
  <2> QED
    BY <1>0, <1>2, <2>1, LoopMoves
<1>4. ASSUME NEW d \in Connections, d # c PROVE MovesOf(d)
  BY <1>1, <1>2, <1>4, OthersMove DEF PollStays
<1> QED
  BY <1>0, <1>3, <1>4, QuietTelegram DEF Motion, LogGoesOn, LockGoesOn, SameTelegram

LEMMA StandDownMoves ==
    ASSUME RecordsInvariant, \A d \in Connections : JobsAreArmed(d), NEW c \in Connections,
           CheckFails(c) \/ FetchConflict(c)
    PROVE  Motion
<1> DEFINE k == [runtimes[c] EXCEPT !.lost = TRUE]
<1>0. TypeOK /\ runtimes[c] \in RuntimeType
  BY DEF RecordsInvariant, TurnsInvariant, HandoverInvariant, TypeOK
<1>1. Alive(c) /\ StandDown(c) /\ ~CatchingUp(c)
  BY DEF CheckFails, BetweenPolls, FetchConflict, Fetching, CatchingUp
<1>2. /\ OwnersStay(runtimes') /\ SessionsStay /\ \A d \in Connections \ {c} : runtimes'[d] = runtimes[d]
  BY <1>0, <1>1, StandDownStays
<1>3. /\ k.owner = runtimes[c].owner /\ k.next = runtimes[c].next /\ k.boundary = runtimes[c].boundary
      /\ k.tail = runtimes[c].tail /\ k.heard = runtimes[c].heard /\ k.lost
      /\ k.pending = runtimes[c].pending /\ k.active = runtimes[c].active /\ k.armed = runtimes[c].armed
  BY <1>0 DEF RuntimeType
<1> HIDE DEF k
<1>4. runtimes'[c] = runtimes[c] \/ runtimes'[c] = k
  BY <1>0, <1>1 DEF StandDown, TypeOK, k
<1>5. /\ Keeps(runtimes[c], runtimes'[c]) /\ runtimes'[c].armed = runtimes[c].armed
      /\ runtimes'[c].pending = runtimes[c].pending /\ runtimes'[c].active = runtimes[c].active
  BY <1>3, <1>4 DEF Keeps
<1>6. polls' = [polls EXCEPT ![c] = Ended(@)] /\ UNCHANGED <<log, lock, telegram, writes, excused, prompted>>
  BY <1>1 DEF StandDown
<1> QED
  BY <1>1, <1>2, <1>5, <1>6, EndedMoves

LEMMA LoopEndsMoves ==
    ASSUME RecordsInvariant, \A d \in Connections : JobsAreArmed(d), NEW c \in Connections, LoopEnds(c)
    PROVE  Motion
<1>1. /\ ~CatchingUp(c) /\ polls' = [polls EXCEPT ![c] = Ended(@)]
      /\ UNCHANGED <<log, lock, telegram, runtimes, writes, sessions, excused, prompted>>
  BY DEF LoopEnds, BetweenPolls, CatchingUp
<1>2. OwnersStay(runtimes') /\ SessionsStay /\ Keeps(runtimes[c], runtimes'[c])
  BY <1>1 DEF OwnersStay, SessionsStay, Keeps
<1> QED
  BY <1>1, <1>2, EndedMoves

LEMMA ConnectFailsMoves ==
    ASSUME RecordsInvariant, \A d \in Connections : JobsAreArmed(d), NEW c \in Connections, ConnectFails(c)
    PROVE  Motion
<1> DEFINE s == Owner(c)
           v == [sessions[s] EXCEPT !.current = FALSE,
                                    !.teardown = IF HasRuntime(c) /\ @ = "none" THEN "releasing" ELSE @]
<1>1. /\ Alive(c) /\ polls' = [polls EXCEPT ![c] = Ended(@)] /\ sessions' = [sessions EXCEPT ![s] = v]
      /\ UNCHANGED <<log, lock, telegram, runtimes, writes, excused, prompted>>
  BY DEF ConnectFails
<1>2. TypeOK /\ s \in Sessions
  BY <1>1, AliveIsOwned DEF RecordsInvariant, TurnsInvariant, HandoverInvariant
<1>3. StaysAs(s, v) /\ ~v.current
  <2>1. sessions[s] \in SessionType
    BY <1>2 DEF TypeOK
  <2> QED
    BY <2>1 DEF StaysAs, SessionType
<1>4. SessionsStay /\ ~sessions'[s].current
  <2> HIDE DEF v
  <2>1. SessionsStay
    BY <1>1, <1>2, <1>3, SessionReplaced
  <2>2. sessions'[s] = v
    BY <1>1, <1>2 DEF TypeOK
  <2> QED
    BY <1>3, <2>1, <2>2
<1>5. OwnersStay(runtimes') /\ Keeps(runtimes[c], runtimes'[c]) /\ ~Holds(c)'
  BY <1>1, <1>4 DEF OwnersStay, Keeps, Holds, HasRuntime, Owner
<1> QED
  BY <1>1, <1>4, <1>5, EndedMoves

\* A task that wrote nothing builds a record of a message, or of an error.
LEMMA NewRecordMoves ==
    ASSUME RecordsInvariant, NEW c \in Connections, JobsAreArmed(c), NEW t \in Tasks, t # "turn", ~Busy(c, t),
           log' = log, lock' = lock, runtimes'[c] = runtimes[c],
           \A r \in Tasks \ {t} : writes'[c][r] = writes[c][r],
           Busy(c, t)', ~Past(c, t)', (Rec(c, t).id)' = runtimes[c].next, (Rec(c, t).kind)' \in {"inbound", "error"},
           (Rec(c, t).kind)' = "inbound" =>
              HasRuntime(c) /\ Owner(c) \in Sessions /\ (Rec(c, t).update)' \in Updates,
           ~Unread(c)', Holds(c)' => Holds(c), CatchingUp(c)' => CatchingUp(c) /\ t = "poll",
           t = "flush" => ~CatchingUp(c), AsksGoOn(c), CatchUpGoesOn(c)
    PROVE  MovesOf(c)
<1>0. /\ RecordsOf(c) /\ "turn" \in Tasks /\ Keeps(runtimes[c], runtimes'[c]) /\ ~Past(c, t)
      /\ \A r \in Tasks \ {t} : Busy(c, r)' = Busy(c, r) /\ Rec(c, r)' = Rec(c, r)
  BY DEF RecordsInvariant, Tasks, Keeps, Past, Busy, Rec
<1>1. MovesOn(c, t)
  BY <1>0 DEF MovesOn, LogKept
<1>2. JobsMoveOn(c, t)
  <2>1. Busy(c, "turn")' => runtimes'[c].active # <<>>
    BY <1>0 DEF RecordsOf, RefsAreLogged
  <2>2. \A y : (Pends(c, y)' => Pends(c, y)) /\ (Runs(c, y)' => Runs(c, y))
    BY DEF Pends, Runs
  <2> QED
    BY <2>1, <2>2 DEF JobsMoveOn
<1>3. StartsRecord(c, t)
  BY DEF StartsRecord
<1>4. Moves(c, t)
  BY <1>1, <1>2, <1>3 DEF Moves
<1>5. StartsJobs(c)
  BY DEF StartsJobs, Runs
<1>6. JobsAreArmed(c)'
  BY <1>0 DEF JobsAreArmed
<1> QED
  BY <1>4, <1>5, <1>6 DEF MovesOf, Goes

\* What a record of a connection's poll loop or timer starts as.
LEMMA NewRecordIs ==
    ASSUME NEW c, NEW k, NEW kind, NEW u, NEW w, w = Writing(Record(c, k, kind, u, 0))
    PROVE  w # <<>> /\ ~w[1].fenced /\ w[1].rec.kind = kind /\ w[1].rec.update = u /\ w[1].rec.id = k.next
BY DEF Writing, Record

LEMMA NoteErrorMoves ==
    ASSUME RecordsInvariant, \A d \in Connections : JobsAreArmed(d), NEW c \in Connections, NoteError(c),
           polls[c].at \in {"polling", "fetching"}, writes[c]["poll"] = <<>>, polls'[c].at = "polling",
           \A d \in Connections \ {c} : polls'[d] = polls[d], excused \subseteq excused',
           UNCHANGED <<log, lock, telegram, runtimes, sessions, prompted>>
    PROVE  Motion
<1>0. TypeOK /\ JobsAreArmed(c) /\ "poll" \in Tasks
  BY DEF RecordsInvariant, TurnsInvariant, HandoverInvariant, Tasks
<1>1. \A d \in Connections : Holds(d)' => Holds(d)
  BY DEF Holds, HasRuntime, Owner
<1>2. /\ AsksGoOn(c) /\ CatchUpGoesOn(c) /\ ~Unread(c)' /\ ~CatchingUp(c)'
      /\ ~CatchingUp(c)
  BY DEF AsksGoOn, CatchUpGoesOn, CatchingUp, Unread
<1>3. \A d \in Connections \ {c} : writes'[d] = writes[d]
  BY <1>0, NoteErrorWrites
<1>4. MovesOf(c)
  <2>1. CASE HasRuntime(c)
    <3> PICK w : w = Writing(Record(c, runtimes[c], "error", 0, 0))
      OBVIOUS
    <3>1. w # <<>> /\ ~w[1].fenced /\ w[1].rec.kind = "error" /\ w[1].rec.id = runtimes[c].next
      BY NewRecordIs
    <3>2. writes' = [writes EXCEPT ![c]["poll"] = w]
      BY <2>1 DEF NoteError
    <3>3. writes'[c]["poll"] = w /\ \A r \in Tasks \ {"poll"} : writes'[c][r] = writes[c][r]
      BY <1>0, <3>2 DEF TypeOK
    <3>4. /\ ~Busy(c, "poll") /\ Busy(c, "poll")' /\ ~Past(c, "poll")'
          /\ (Rec(c, "poll").id)' = runtimes[c].next /\ (Rec(c, "poll").kind)' = "error"
      BY <3>1, <3>3 DEF Busy, Past, Rec
    <3> QED
      BY <1>0, <1>1, <1>2, <3>3, <3>4, NewRecordMoves
  <2>2. CASE ~HasRuntime(c)
    <3>1. writes'[c] = writes[c]
      BY <2>2 DEF NoteError
    <3> QED
      BY <1>0, <1>1, <1>2, <3>1, LoopMoves DEF Keeps
  <2> QED
    BY <2>1, <2>2
<1>5. ASSUME NEW d \in Connections, d # c PROVE MovesOf(d)
  BY <1>1, <1>3, <1>5, OthersMove DEF PollStays
<1> QED
  BY <1>0, <1>4, <1>5, QuietTelegram DEF Motion, LogGoesOn, LockGoesOn, SameTelegram

LEMMA FailsMoves ==
    ASSUME RecordsInvariant, \A d \in Connections : JobsAreArmed(d), NEW c \in Connections,
           FetchFails(c) \/ \E u \in Updates : TakeFails(c, u)
    PROVE  Motion
<1>0. TypeOK /\ ArmedWhenCaughtUp(c)
  BY DEF RecordsInvariant, TurnsInvariant, TurnsOf, TurnsOfMessages, HandoverInvariant
<1>1. NoteError(c) /\ excused \subseteq excused' /\ UNCHANGED <<log, lock, telegram, runtimes, sessions, prompted>>
  BY DEF FetchFails, TakeFails
<1>2. polls[c].at \in {"polling", "fetching"} /\ writes[c]["poll"] = <<>>
  BY <1>0 DEF FetchFails, TakeFails, NextUpdate, Fetching, ArmedWhenCaughtUp
<1>3. polls'[c].at = "polling" /\ \A d \in Connections \ {c} : polls'[d] = polls[d]
  <2>1. CASE FetchFails(c)
    BY <1>0, <2>1, AtIsTyped DEF FetchFails
  <2>2. ASSUME NEW u \in Updates, TakeFails(c, u)
        PROVE  polls'[c].at = "polling" /\ \A d \in Connections \ {c} : polls'[d] = polls[d]
    <3> DEFINE q == [Passed(polls[c], u) EXCEPT !.batch = {}]
    <3>1. q.at = "polling"
      <4>1. Passed(polls[c], u) \in PollType /\ Passed(polls[c], u).at = "polling"
        BY <1>0, <2>2, PassedIsTyped DEF TakeFails
      <4> QED
        BY <4>1 DEF PollType
    <3>2. polls' = [polls EXCEPT ![c] = q]
      BY <2>2 DEF TakeFails
    <3> HIDE DEF q
    <3> QED
      BY <1>0, <3>1, <3>2 DEF TypeOK
  <2> QED
    BY <2>1, <2>2
<1> QED
  BY <1>1, <1>2, <1>3, NoteErrorMoves

LEMMA TakeMessageMoves ==
    ASSUME RecordsInvariant, \A d \in Connections : JobsAreArmed(d), NEW c \in Connections, NEW u \in Updates,
           TakeMessage(c, u)
    PROVE  Motion
<1>0. TypeOK /\ JobsAreArmed(c) /\ "poll" \in Tasks
  BY DEF RecordsInvariant, TurnsInvariant, HandoverInvariant, Tasks
<1>1. /\ UNCHANGED <<log, lock, telegram, runtimes, sessions, excused, prompted>>
      /\ polls[c].at \in {"catching up", "polling"} /\ writes[c]["poll"] = <<>>
      /\ HasRuntime(c) /\ Owner(c) \in Sessions
      /\ polls' = [polls EXCEPT ![c] = Passed(@, u)]
  BY AliveIsOwned DEF TakeMessage, NextUpdate
<1> PICK w : w = Writing(Record(c, runtimes[c], "inbound", u, 0))
  OBVIOUS
<1>2. /\ w # <<>> /\ ~w[1].fenced
      /\ w[1].rec.kind = "inbound" /\ w[1].rec.update = u /\ w[1].rec.id = runtimes[c].next
  BY NewRecordIs
<1>3. writes' = [writes EXCEPT ![c]["poll"] = w]
  BY DEF TakeMessage
<1>4. /\ writes'[c]["poll"] = w /\ \A r \in Tasks \ {"poll"} : writes'[c][r] = writes[c][r]
      /\ \A d \in Connections \ {c} : writes'[d] = writes[d]
  BY <1>0, <1>3 DEF TypeOK
<1>5. /\ polls'[c].at = polls[c].at /\ polls'[c].batch = polls[c].batch \ {u}
      /\ \A d \in Connections \ {c} : polls'[d] = polls[d]
  <2> DEFINE q == Passed(polls[c], u)
  <2>1. q.at = polls[c].at /\ q.batch = polls[c].batch \ {u}
    <3>1. polls[c] \in PollType
      BY <1>0, PollIsTyped
    <3> QED
      BY <1>0, <3>1, PassedIsTyped DEF Passed, PollType
  <2>2. polls' = [polls EXCEPT ![c] = q]
    BY <1>1
  <2> HIDE DEF q
  <2> QED
    BY <1>0, <2>1, <2>2 DEF TypeOK
<1>6. \A d \in Connections : Holds(d)' => Holds(d)
  BY <1>1 DEF Holds, HasRuntime, Owner
<1>7. MovesOf(c)
  <2>1. /\ ~Busy(c, "poll") /\ Busy(c, "poll")' /\ ~Past(c, "poll")'
        /\ (Rec(c, "poll").id)' = runtimes[c].next /\ (Rec(c, "poll").kind)' = "inbound"
        /\ (Rec(c, "poll").update)' = u
    BY <1>1, <1>2, <1>4 DEF Busy, Past, Rec
  <2>2. AsksGoOn(c) /\ ~Unread(c)' /\ (CatchingUp(c)' = CatchingUp(c))
    BY <1>1, <1>5 DEF AsksGoOn, Unread, CatchingUp
  <2>3. BeingWritten(c, u)'
    BY <1>2, <1>4 DEF BeingWritten
  <2>4. CatchUpGoesOn(c)
    BY <1>1, <1>5, <2>2, <2>3 DEF CatchUpGoesOn, CatchingUp
  <2> QED
    BY <1>0, <1>1, <1>4, <1>6, <2>1, <2>2, <2>4, NewRecordMoves
<1>8. ASSUME NEW d \in Connections, d # c PROVE MovesOf(d)
  BY <1>1, <1>4, <1>5, <1>6, <1>8, OthersMove DEF PollStays
<1> QED
  BY <1>0, <1>1, <1>7, <1>8, QuietTelegram DEF Motion, LogGoesOn, LockGoesOn, SameTelegram

\* A command, an album the loop holds, and a message nobody has a runtime for.
LEMMA TakeMoves ==
    ASSUME RecordsInvariant, \A d \in Connections : JobsAreArmed(d), NEW c \in Connections, NEW u \in Updates,
           TakeCommand(c, u) \/ TakeNothing(c, u) \/ TakeAlbum(c, u)
    PROVE  Motion
<1>0. TypeOK /\ JobsAreArmed(c) /\ ArmedWhenCaughtUp(c)
  BY DEF RecordsInvariant, TurnsInvariant, TurnsOf, TurnsOfMessages, HandoverInvariant
<1>1. /\ UNCHANGED <<log, lock, telegram, runtimes, writes, sessions, prompted>> /\ excused \subseteq excused'
      /\ polls[c].at \in {"catching up", "polling"}
  BY DEF TakeCommand, TakeNothing, TakeAlbum, NextUpdate
<1>2. polls[c].at = "polling" \/ ~HasRuntime(c)
  BY <1>0, <1>1 DEF TakeCommand, TakeNothing, TakeAlbum, IsCommand, IsHeld, ArmedWhenCaughtUp
<1>3. polls'[c].at = polls[c].at /\ \A d \in Connections \ {c} : polls'[d] = polls[d]
  <2> DEFINE p == Passed(polls[c], u)
             q == [p EXCEPT !.held = @ \cup {u}]
  <2>1. p.at = polls[c].at /\ q.at = polls[c].at
    <3>1. p \in PollType /\ p.at = polls[c].at
      BY <1>0, PassedIsTyped
    <3> QED
      BY <3>1 DEF PollType
  <2>2. polls' = [polls EXCEPT ![c] = p] \/ polls' = [polls EXCEPT ![c] = q]
    BY DEF TakeCommand, TakeNothing, TakeAlbum
  <2> HIDE DEF p, q
  <2> QED
    BY <1>0, <2>1, <2>2 DEF TypeOK
<1>4. \A d \in Connections : Holds(d)' => Holds(d)
  BY <1>1 DEF Holds, HasRuntime, Owner
<1>5. MovesOf(c)
  <2>1. AsksGoOn(c) /\ ~Unread(c)' /\ (CatchingUp(c)' => CatchingUp(c))
    BY <1>1, <1>3 DEF AsksGoOn, Unread, CatchingUp
  <2>2. CatchUpGoesOn(c)
    BY <1>1, <1>2, <1>3 DEF CatchUpGoesOn, CatchingUp, Holds
  <2> QED
    BY <1>0, <1>1, <1>4, <2>1, <2>2, LoopMoves DEF Keeps
<1>6. ASSUME NEW d \in Connections, d # c PROVE MovesOf(d)
  BY <1>1, <1>3, <1>4, <1>6, OthersMove DEF PollStays
<1> QED
  BY <1>0, <1>1, <1>5, <1>6, QuietTelegram DEF Motion, LogGoesOn, LockGoesOn, SameTelegram

LEMMA FlushMoves ==
    ASSUME RecordsInvariant, \A d \in Connections : JobsAreArmed(d), NEW c \in Connections, NEW u \in Updates,
           FlushAlbum(c, u)
    PROVE  Motion
<1>0. /\ TypeOK /\ JobsAreArmed(c) /\ "flush" \in Tasks /\ OthersAreAlbums(c) /\ TurnsOfAlbums(c)
  BY DEF RecordsInvariant, TurnsInvariant, TurnsOf, TurnsOfMessages, HandoverInvariant, Tasks
<1>1. /\ UNCHANGED <<log, lock, telegram, runtimes, sessions, excused, prompted>>
      /\ u \in polls[c].held /\ writes[c]["flush"] = <<>> /\ Owner(c) \in Sessions
  BY AliveIsOwned DEF FlushAlbum
<1>2. polls[c].at \in {"polling", "fetching", "ended"}
  BY <1>0, <1>1 DEF OthersAreAlbums, TurnsOfAlbums, Placed, Polls
<1>3. /\ polls'[c].at = polls[c].at /\ polls'[c].offset = polls[c].offset
      /\ \A d \in Connections \ {c} : polls'[d] = polls[d]
  <2> DEFINE q == [polls[c] EXCEPT !.held = @ \ {u}]
  <2>1. q.at = polls[c].at /\ q.offset = polls[c].offset
    <3>1. polls[c] \in PollType
      BY <1>0, PollIsTyped
    <3> QED
      BY <3>1 DEF PollType
  <2>2. polls' = [polls EXCEPT ![c] = q]
    BY DEF FlushAlbum
  <2> HIDE DEF q
  <2> QED
    BY <1>0, <2>1, <2>2 DEF TypeOK
<1>4. \A d \in Connections : Holds(d)' => Holds(d)
  BY <1>1 DEF Holds, HasRuntime, Owner
<1>5. /\ AsksGoOn(c) /\ CatchUpGoesOn(c) /\ ~Unread(c)' /\ ~CatchingUp(c)' /\ ~CatchingUp(c)
  BY <1>1, <1>2, <1>3 DEF AsksGoOn, CatchUpGoesOn, CatchingUp, Unread
<1>6. MovesOf(c) /\ \A d \in Connections \ {c} : writes'[d] = writes[d]
  <2>1. CASE HasRuntime(c)
    <3> PICK w : w = Writing(Record(c, runtimes[c], "inbound", u, 0))
      OBVIOUS
    <3>1. /\ w # <<>> /\ ~w[1].fenced
          /\ w[1].rec.kind = "inbound" /\ w[1].rec.update = u /\ w[1].rec.id = runtimes[c].next
      BY NewRecordIs
    <3>2. writes' = [writes EXCEPT ![c]["flush"] = w]
      BY <2>1 DEF FlushAlbum
    <3>3. /\ writes'[c]["flush"] = w /\ \A r \in Tasks \ {"flush"} : writes'[c][r] = writes[c][r]
          /\ \A d \in Connections \ {c} : writes'[d] = writes[d]
      BY <1>0, <3>2 DEF TypeOK
    <3>4. /\ ~Busy(c, "flush") /\ Busy(c, "flush")' /\ ~Past(c, "flush")'
          /\ (Rec(c, "flush").id)' = runtimes[c].next /\ (Rec(c, "flush").kind)' = "inbound"
          /\ (Rec(c, "flush").update)' = u
      BY <1>1, <3>1, <3>3 DEF Busy, Past, Rec
    <3>5. MovesOf(c)
      BY <1>0, <1>1, <1>4, <1>5, <2>1, <3>3, <3>4, NewRecordMoves
    <3> QED
      BY <3>3, <3>5
  <2>2. CASE ~HasRuntime(c)
    <3>1. writes' = writes
      BY <2>2 DEF FlushAlbum
    <3> QED
      BY <1>0, <1>1, <1>4, <1>5, <3>1, LoopMoves DEF Keeps
  <2> QED
    BY <2>1, <2>2
<1>7. ASSUME NEW d \in Connections, d # c PROVE MovesOf(d)
  BY <1>1, <1>3, <1>4, <1>6, <1>7, OthersMove DEF PollStays
<1> QED
  BY <1>0, <1>1, <1>6, <1>7, QuietTelegram DEF Motion, LogGoesOn, LockGoesOn, SameTelegram

-----------------------------------------------------------------------------
(* The records: past the fence, and on.                                      *)

LEMMA FencePassedMoves ==
    ASSUME RecordsInvariant, \A d \in Connections : JobsAreArmed(d), NEW c \in Connections, NEW t \in Tasks,
           Fence(c, t), Owns(c)
    PROVE  Motion
<1> DEFINE x == writes[c][t]
           e == [x[1] EXCEPT !.fenced = TRUE]
           rec == x[1].rec
           k == Pushed(runtimes[c], rec)
<1>1. /\ Owner(c) \in Sessions /\ x # <<>> /\ ~x[1].fenced /\ lock.owner = Owner(c) /\ ~runtimes[c].lost
      /\ runtimes' = [runtimes EXCEPT ![c] = k]
      /\ UNCHANGED <<log, lock, telegram, polls, sessions, excused, prompted>>
  BY AliveIsOwned DEF Fence, Owns
<1>2. TypeOK /\ JobsAreArmed(c) /\ StartsEmpty(c) /\ x \in Seq(WriteType) /\ runtimes[c] \in RuntimeType
  BY DEF RecordsInvariant, RecordsOf, TurnsInvariant, HandoverInvariant, TypeOK
<1>3. x[1] \in WriteType /\ rec \in RecordType
  BY <1>1, <1>2, WriteIsTyped
<1>4. e \in WriteType /\ e.rec = rec /\ e.fenced
  BY <1>3 DEF WriteType
<1>5. writes' = [writes EXCEPT ![c][t] = [x EXCEPT ![1] = e]]
  BY <1>1 DEF Fence, Owns
<1>6. k.owner = runtimes[c].owner /\ k.lost = runtimes[c].lost /\ k.armed = runtimes[c].armed
      /\ k.pending = runtimes[c].pending /\ k.active = runtimes[c].active
  BY <1>2, <1>3, WhatIsPushed
<1>7. [x EXCEPT ![1] = e] # <<>> /\ [x EXCEPT ![1] = e][1] = e
  <2> HIDE DEF e, x
  <2> QED
    BY <1>1, <1>2, <1>4
<1>8. /\ writes'[c][t] # <<>> /\ writes'[c][t][1] = e
      /\ \A r \in Tasks \ {t} : writes'[c][r] = writes[c][r]
      /\ \A d \in Connections \ {c} : writes'[d] = writes[d]
  <2> PICK y : y = [x EXCEPT ![1] = e]
    OBVIOUS
  <2>1. writes' = [writes EXCEPT ![c][t] = y] /\ y # <<>> /\ y[1] = e
    BY <1>5, <1>7
  <2> HIDE DEF e, x
  <2> QED
    BY <1>2, <2>1 DEF TypeOK
<1>9. runtimes'[c] = k /\ \A d \in Connections \ {c} : runtimes'[d] = runtimes[d]
  BY <1>1, <1>2 DEF TypeOK
<1>10. PassesNow(c, t)
  <2>1. Busy(c, t) /\ ~Past(c, t) /\ Rec(c, t) = rec
    BY <1>1 DEF Busy, Past, Rec
  <2>2. Past(c, t)' /\ Rec(c, t)' = rec
    BY <1>4, <1>8 DEF Busy, Past, Rec
  <2> HIDE DEF e, x, rec
  <2>3. runtimes'[c] = Pushed(runtimes[c], Rec(c, t))
    BY <1>9, <2>1
  <2> HIDE DEF k
  <2> QED
    BY <1>1, <1>8, <2>1, <2>2, <2>3 DEF PassesNow
<1>11. Busy(c, t)
  BY <1>1 DEF Busy
<1>12. /\ \A r \in Tasks : Busy(c, r)' => Busy(c, r) /\ Rec(c, r)' = Rec(c, r)
  <2>1. \A r \in Tasks \ {t} : Busy(c, r)' = Busy(c, r) /\ Rec(c, r)' = Rec(c, r)
    BY <1>8 DEF Busy, Rec
  <2> QED
    BY <1>10, <1>11, <2>1 DEF PassesNow
<1> HIDE DEF x, e, rec, k
<1>13. \A d \in Connections : PollStays(d) /\ (Holds(d)' => Holds(d))
  <2>1. \A d \in Connections : Owner(d)' = Owner(d) /\ runtimes'[d].lost = runtimes[d].lost
    BY <1>6, <1>9 DEF Owner
  <2> QED
    BY <1>1, <2>1 DEF PollStays, Holds, HasRuntime
<1>14. MovesOf(c)
  <2>1. ~Unread(c)' /\ (CatchingUp(c)' = CatchingUp(c))
    BY <1>1, <1>2, <1>11 DEF StartsEmpty, Unread, CatchingUp
  <2>2. Passing(c, t)
    BY <1>1, <1>10, <1>13, <2>1 DEF Passing
  <2>3. AsksGoOn(c) /\ CatchUpGoesOn(c)
    BY <1>1, <1>6, <1>9 DEF AsksGoOn, CatchUpGoesOn, CatchingUp
  <2>4. StartsJobs(c)
    BY <1>6, <1>9 DEF StartsJobs, Runs
  <2>5. JobsAreArmed(c)'
    BY <1>2, <1>6, <1>9, <1>12 DEF JobsAreArmed
  <2> QED
    BY <2>2, <2>3, <2>4, <2>5 DEF MovesOf, Goes
<1>15. ASSUME NEW d \in Connections, d # c PROVE MovesOf(d)
  BY <1>1, <1>8, <1>9, <1>13, <1>15, OthersMove
<1> QED
  BY <1>1, <1>2, <1>14, <1>15, QuietTelegram DEF Motion, LogGoesOn, LockGoesOn, SameTelegram

\* A turn is wanted only past the point from which the connection asks for turns.
LEMMA WantsTurnIs ==
    ASSUME NEW k \in RuntimeType, NEW id \in Int, WantsTurn(k, id)
    PROVE  k.armed # NotArmed /\ k.armed < id
<1> PICK a, b : a = k.armed /\ b = k.queued
  OBVIOUS
<1>1. a \in Int /\ b \in Int
  BY DEF RuntimeType
<1>2. \E x \in {a, b} : \A y \in {a, b} : y <= x
  BY <1>1
<1> PICK n : n = Largest({a, b})
  OBVIOUS
<1>3. n \in {a, b} /\ \A y \in {a, b} : y <= n
  BY <1>2 DEF Largest
<1>4. k.armed # NotArmed /\ id > n
  BY DEF WantsTurn
<1> QED
  BY <1>1, <1>3, <1>4

\* What a task writes after a record, and what it refers to.
LEMMA FollowUpIs ==
    ASSUME NEW c, NEW k, NEW rec, NEW w, w = FollowUp(c, k, rec), w # <<>>
    PROVE  /\ ~w[1].fenced /\ w[1].rec.id = k.next
           /\ \/ rec.kind = "inbound" /\ w[1].rec.kind = "checkpoint" /\ w[1].rec.ref = rec.id
                 /\ w[1].rec.update = rec.update
              \/ rec.kind = "inbound" /\ w[1].rec.kind = "job_queued" /\ w[1].rec.ref = rec.id
                 /\ WantsTurn(k, rec.id)
              \/ rec.kind = "checkpoint" /\ w[1].rec.kind = "job_queued" /\ w[1].rec.ref = rec.ref
                 /\ WantsTurn(k, rec.ref)
              \/ rec.kind = "outbound" /\ w[1].rec.kind = "job_completed" /\ w[1].rec.ref = rec.ref
<1>1. CASE rec.kind = "inbound" /\ k.cursor # rec.update
  <2>1. w = Writing(Record(c, k, "checkpoint", rec.update, rec.id))
    BY <1>1 DEF FollowUp
  <2> QED
    BY <1>1, <2>1 DEF Writing, Record
<1>2. CASE rec.kind = "inbound" /\ k.cursor = rec.update
  <2>1. w = Trigger(c, k, rec.update, rec.id)
    BY <1>2 DEF FollowUp
  <2>2. WantsTurn(k, rec.id) /\ w = Writing(Record(c, k, "job_queued", rec.update, rec.id))
    BY <2>1 DEF Trigger
  <2> QED
    BY <1>2, <2>2 DEF Writing, Record
<1>3. CASE rec.kind = "checkpoint"
  <2>1. w = Trigger(c, k, rec.update, rec.ref)
    BY <1>3 DEF FollowUp
  <2>2. WantsTurn(k, rec.ref) /\ w = Writing(Record(c, k, "job_queued", rec.update, rec.ref))
    BY <2>1 DEF Trigger
  <2> QED
    BY <1>3, <2>2 DEF Writing, Record
<1>4. CASE rec.kind = "outbound"
  <2>1. w = Writing(Record(c, k, "job_completed", 0, rec.ref))
    BY <1>4 DEF FollowUp
  <2> QED
    BY <1>4, <2>1 DEF Writing, Record
<1>5. CASE rec.kind \notin {"inbound", "checkpoint", "outbound"}
  BY <1>5 DEF FollowUp
<1> QED
  BY <1>1, <1>2, <1>3, <1>4, <1>5

\* What a record that is done with makes of the jobs.
JobsLeft(k, rec, f) ==
    /\ Keeps(k, f) /\ f.armed = k.armed /\ f.lost = k.lost
    /\ \A y : (\E i \in DOMAIN f.pending : f.pending[i] = y) =>
          (\E i \in DOMAIN k.pending : k.pending[i] = y) \/ (rec.kind = "job_queued" /\ rec.ref = y)
    /\ \A y : f.active # <<>> /\ f.active[1] = y => k.active # <<>> /\ k.active[1] = y
    /\ f.active = <<>> /\ k.active # <<>> => Finishes(rec)
    /\ f.pending # <<>> \/ f.active # <<>> =>
          k.pending # <<>> \/ k.active # <<>> \/ rec.kind = "job_queued"

LEMMA WhatIsFinished ==
    ASSUME NEW k \in RuntimeType, NEW rec \in RecordType, NEW f, f = Finished(k, rec)
    PROVE  JobsLeft(k, rec, f)
<1>1. CASE rec.kind = "job_queued"
  <2> PICK p : p = Append(k.pending, rec.ref)
    OBVIOUS
  <2>1. f = [k EXCEPT !.pending = p]
    BY <1>1 DEF Finished
  <2>2. \A i \in DOMAIN p : (i \in DOMAIN k.pending /\ p[i] = k.pending[i]) \/ p[i] = rec.ref
    <3>1. k.pending \in Seq(Int) /\ rec.ref \in Int
      BY DEF RuntimeType, RecordType
    <3> QED
      BY <3>1
  <2>3. /\ f.pending = p /\ f.active = k.active /\ f.owner = k.owner /\ f.next = k.next /\ f.boundary = k.boundary
        /\ f.tail = k.tail /\ f.heard = k.heard /\ f.armed = k.armed /\ f.lost = k.lost
    BY <2>1 DEF RuntimeType
  <2> QED
    BY <1>1, <2>2, <2>3 DEF Keeps, JobsLeft
<1>2. CASE Finishes(rec)
  <2>1. f = [k EXCEPT !.active = <<>>]
    BY <1>2 DEF Finished, Finishes
  <2>2. /\ f.pending = k.pending /\ f.active = <<>> /\ f.owner = k.owner /\ f.next = k.next
        /\ f.boundary = k.boundary
        /\ f.tail = k.tail /\ f.heard = k.heard /\ f.armed = k.armed /\ f.lost = k.lost
    BY <2>1 DEF RuntimeType
  <2> QED
    BY <1>2, <2>2 DEF Keeps, JobsLeft
<1>3. CASE rec.kind # "job_queued" /\ ~Finishes(rec)
  <2>1. f = k
    BY <1>3 DEF Finished, Finishes
  <2> QED
    BY <1>3, <2>1 DEF Keeps, JobsLeft
<1> QED
  BY <1>1, <1>2, <1>3

\* Either the task writes on, or what it wrote is done with and a turn may start.
LEMMA WhatContinues ==
    ASSUME TypeOK, CurrentIsConnected, NEW c \in Connections, NEW t \in Tasks, Owner(c) \in Sessions,
           NEW rts \in [Connections -> RuntimeType],
           NEW v, StaysAs(Owner(c), v), NEW rec \in RecordType, Continue(c, t, rts, v, rec),
           NEW w, w = FollowUp(c, rts[c], rec), NEW f, f = Finished(rts[c], rec)
    PROVE  /\ prompted \subseteq prompted'
           /\ \A d \in Connections \ {c} : Dispatches(rts[d], runtimes'[d])
           /\ \/ runtimes'[c] = rts[c] /\ (w # <<>> \/ rec.kind = "error")
              \/ w = <<>> /\ Dispatches(f, runtimes'[c])
<1>1. CASE w = <<>> /\ rec.kind # "error"
  <2> PICK done : done = [rts EXCEPT ![c] = f]
    OBVIOUS
  <2>1. f \in RuntimeType
    BY FinishedIsTyped
  <2>2. /\ done \in [Connections -> RuntimeType]
        /\ done[c] = f /\ \A d \in Connections \ {c} : done[d] = rts[d]
    BY <2>1
  <2>3. TryDispatch(done, Owner(c), v)
    BY <1>1 DEF Continue
  <2>4. prompted \subseteq prompted' /\ \A d \in Connections : Dispatches(done[d], runtimes'[d])
    BY <2>2, <2>3, WhatIsDispatched
  <2> QED
    BY <1>1, <2>2, <2>4
<1>2. CASE ~(w = <<>> /\ rec.kind # "error")
  <2>1. runtimes' = rts /\ prompted' = prompted
    BY <1>2 DEF Continue
  <2> QED
    BY <1>2, <2>1 DEF Dispatches
<1> QED
  BY <1>1, <1>2

\* The jobs of a connection after it is done with a record, writes w next or not.
JobsDone(k, rec, w, m) ==
    /\ Keeps(k, m) /\ m.armed = k.armed
    /\ \A y : (\E i \in DOMAIN m.pending : m.pending[i] = y) =>
          (\E i \in DOMAIN k.pending : k.pending[i] = y) \/ (rec.kind = "job_queued" /\ rec.ref = y)
    /\ \A y : m.active # <<>> /\ m.active[1] = y =>
          \/ k.active # <<>> /\ k.active[1] = y
          \/ /\ (\E i \in DOMAIN k.pending : k.pending[i] = y) \/ (rec.kind = "job_queued" /\ rec.ref = y)
             /\ Prompt(k, y) \subseteq prompted' /\ (k.active # <<>> => Finishes(rec))
    /\ k.active # <<>> => m.active # <<>> \/ (w = <<>> /\ Finishes(rec))
    /\ m.pending # <<>> \/ m.active # <<>> =>
          k.pending # <<>> \/ k.active # <<>> \/ rec.kind = "job_queued"

WritesOn(j, rec, w, m) ==
    \/ m = j /\ (w # <<>> \/ rec.kind = "error")
    \/ w = <<>> /\ Dispatches(Finished(j, rec), m)

LEMMA JobsAfter ==
    ASSUME NEW k \in RuntimeType, NEW j \in RuntimeType, NEW rec \in RecordType, NEW w, NEW m,
           Keeps(k, j), j.pending = k.pending, j.active = k.active, j.armed = k.armed,
           WritesOn(j, rec, w, m)
    PROVE  JobsDone(k, rec, w, m) /\ m.lost = j.lost
<1>1. CASE m = j /\ (w # <<>> \/ rec.kind = "error")
  BY <1>1 DEF JobsDone
<1>2. CASE w = <<>> /\ Dispatches(Finished(j, rec), m)
  <2> PICK f : f = Finished(j, rec)
    OBVIOUS
  <2>1. JobsLeft(j, rec, f)
    BY WhatIsFinished
  <2>2. f \in RuntimeType
    BY FinishedIsTyped
  <2>3. /\ Keeps(f, m) /\ JobsGoOn(f, m) /\ m.armed = f.armed /\ m.lost = f.lost
        /\ \A y : m.active # <<>> /\ m.active[1] = y =>
              \/ f.active # <<>> /\ f.active[1] = y
              \/ Begins(f, m) /\ Prompt(f, y) \subseteq prompted'
        /\ m.pending # <<>> \/ m.active # <<>> => f.pending # <<>> \/ f.active # <<>>
    BY <1>2, JobsOfDispatch
  <2>4. /\ \A y : (\E i \in DOMAIN m.pending : m.pending[i] = y) => \E i \in DOMAIN f.pending : f.pending[i] = y
        /\ \A y : m.active # <<>> /\ m.active[1] = y =>
              (f.active # <<>> /\ f.active[1] = y) \/ \E i \in DOMAIN f.pending : f.pending[i] = y
        /\ f.active # <<>> => m.active # <<>>
    BY <2>2, <2>3, JobsComeFrom
  <2>5. \A y : Prompt(f, y) = Prompt(k, y)
    BY <2>1 DEF JobsLeft, Prompt, Keeps
  <2>6. Keeps(k, m) /\ m.armed = k.armed /\ m.lost = j.lost
    BY <2>1, <2>3 DEF JobsLeft, Keeps
  <2>7. ASSUME NEW y, m.active # <<>>, m.active[1] = y, ~(k.active # <<>> /\ k.active[1] = y)
        PROVE  /\ (\E i \in DOMAIN k.pending : k.pending[i] = y) \/ (rec.kind = "job_queued" /\ rec.ref = y)
               /\ Prompt(k, y) \subseteq prompted' /\ (k.active # <<>> => Finishes(rec))
    <3>1. ~(f.active # <<>> /\ f.active[1] = y)
      BY <2>1, <2>7 DEF JobsLeft
    <3>2. Begins(f, m) /\ Prompt(f, y) \subseteq prompted' /\ \E i \in DOMAIN f.pending : f.pending[i] = y
      BY <2>3, <2>4, <2>7, <3>1
    <3>3. f.active = <<>>
      BY <3>2 DEF Begins
    <3> QED
      BY <2>1, <2>5, <3>2, <3>3 DEF JobsLeft
  <2>8. k.active # <<>> => m.active # <<>> \/ (w = <<>> /\ Finishes(rec))
    BY <1>2, <2>1, <2>4 DEF JobsLeft
  <2>9. ASSUME NEW y, \E i \in DOMAIN m.pending : m.pending[i] = y
        PROVE  (\E i \in DOMAIN k.pending : k.pending[i] = y) \/ (rec.kind = "job_queued" /\ rec.ref = y)
    <3>1. \E i \in DOMAIN f.pending : f.pending[i] = y
      BY <2>4, <2>9
    <3>2. (\E i \in DOMAIN j.pending : j.pending[i] = y) \/ (rec.kind = "job_queued" /\ rec.ref = y)
      BY <2>1, <3>1 DEF JobsLeft
    <3> QED
      BY <3>2
  <2>10. m.pending # <<>> \/ m.active # <<>> =>
            k.pending # <<>> \/ k.active # <<>> \/ rec.kind = "job_queued"
    BY <2>1, <2>3 DEF JobsLeft
  <2> QED
    BY <2>6, <2>7, <2>8, <2>9, <2>10 DEF JobsDone
<1> QED
  BY <1>1, <1>2 DEF WritesOn

\* A record is done with: dropped at the fence, or in the log.
LEMMA ContinueMoves ==
    ASSUME RecordsInvariant, \A d \in Connections : JobsAreArmed(d), NEW c \in Connections, NEW t \in Tasks,
           Owner(c) \in Sessions, Busy(c, t), NEW rec, rec = Rec(c, t),
           NEW rts \in [Connections -> RuntimeType], OwnersStay(rts), \A d \in Connections \ {c} : rts[d] = runtimes[d],
           Keeps(runtimes[c], rts[c]), rts[c].pending = runtimes[c].pending, rts[c].active = runtimes[c].active,
           rts[c].armed = runtimes[c].armed,
           NEW v, StaysAs(Owner(c), v), Continue(c, t, rts, v, rec),
           UNCHANGED <<lock, telegram, polls, excused>>, LogGoesOn, Past(c, t) \/ rts[c].lost,
           Past(c, t) => \E i \in DOMAIN log' : Appended(c, t, i),
           \A i \in DOMAIN log' : i \in DOMAIN log \/ (Past(c, t) /\ Appended(c, t, i))
    PROVE  Motion
<1>0. /\ TypeOK /\ CurrentIsConnected /\ RecordsOf(c) /\ JobsAreArmed(c) /\ runtimes[c] \in RuntimeType
      /\ rec \in RecordType /\ "turn" \in Tasks
  BY WriteIsTyped DEF RecordsInvariant, TurnsInvariant, HandoverInvariant, TypeOK, Busy, Rec, Tasks
<1> PICK k, j, m, w : k = runtimes[c] /\ j = rts[c] /\ m = runtimes'[c] /\ w = FollowUp(c, rts[c], rec)
  OBVIOUS
<1>1. /\ OwnersStay(runtimes') /\ SessionsStay /\ writes' = [writes EXCEPT ![c][t] = w]
  BY <1>0, ContinueStays
<1>2. /\ writes'[c][t] = w /\ \A r \in Tasks \ {t} : writes'[c][r] = writes[c][r]
      /\ \A d \in Connections \ {c} : writes'[d] = writes[d]
  BY <1>0, <1>1 DEF TypeOK
<1>3. LogKept
  BY <1>0, WhatIsAppended
<1>4. \A d \in Connections : PollStays(d) /\ (Holds(d)' => Holds(d))
  BY <1>0, <1>1, StayingHolds DEF PollStays
<1>5. /\ prompted \subseteq prompted'
      /\ \A d \in Connections \ {c} : Dispatches(rts[d], runtimes'[d])
      /\ WritesOn(j, rec, w, m)
  BY <1>0, WhatContinues DEF WritesOn
<1>6. ASSUME NEW d \in Connections, d # c PROVE MovesOf(d)
  <2>1. LoggedBefore(d)
    BY <1>6 DEF LoggedBefore, Appended
  <2> QED
    BY <1>2, <1>4, <1>5, <1>6, <2>1, BystanderMoves
<1>7. JobsDone(k, rec, w, m) /\ m.lost = j.lost
  <2>1. j \in RuntimeType /\ k \in RuntimeType /\ rec \in RecordType
    BY <1>0
  <2>2. Keeps(k, j) /\ j.pending = k.pending /\ j.active = k.active /\ j.armed = k.armed
    OBVIOUS
  <2> QED
    BY <1>5, <2>1, <2>2, JobsAfter
<1>8. /\ \A y : Pends(c, y)' => Pends(c, y) \/ (rec.kind = "job_queued" /\ rec.ref = y)
      /\ \A y : Runs(c, y)' =>
            \/ Runs(c, y)
            \/ /\ Pends(c, y) \/ (rec.kind = "job_queued" /\ rec.ref = y)
               /\ Prompt(runtimes[c], y) \subseteq prompted' /\ (runtimes[c].active # <<>> => Finishes(rec))
  BY <1>7 DEF JobsDone, Pends, Runs
<1>9. ~Unread(c)' /\ (CatchingUp(c)' = CatchingUp(c)) /\ (CatchingUp(c) => t = "poll")
  <2>1. StartsEmpty(c) /\ CatchesUpAlone(c)
    BY <1>0 DEF RecordsOf
  <2> QED
    BY <2>1 DEF StartsEmpty, CatchesUpAlone, Unread, CatchingUp, Tasks
<1>10. /\ t = "turn" => rec.kind \in {"outbound", "job_completed", "job_failed"}
       /\ t # "turn" => rec.kind \in {"inbound", "checkpoint", "job_queued", "error"}
  BY <1>0 DEF RecordsOf, TasksKeepToTheirs
\* What it writes next.
<1>11. w # <<>> =>
         /\ ~w[1].fenced /\ w[1].rec.id = runtimes[c].next
         /\ \/ rec.kind = "inbound" /\ w[1].rec.kind = "checkpoint" /\ w[1].rec.ref = rec.id
               /\ w[1].rec.update = rec.update
            \/ rec.kind = "inbound" /\ w[1].rec.kind = "job_queued" /\ w[1].rec.ref = rec.id
               /\ WantsTurn(j, rec.id)
            \/ rec.kind = "checkpoint" /\ w[1].rec.kind = "job_queued" /\ w[1].rec.ref = rec.ref
               /\ WantsTurn(j, rec.ref)
            \/ rec.kind = "outbound" /\ w[1].rec.kind = "job_completed" /\ w[1].rec.ref = rec.ref
  <2>1. j.next = runtimes[c].next
    BY DEF Keeps
  <2> QED
    BY <2>1, FollowUpIs
<1>12. w # <<>> /\ w[1].rec.kind = "job_queued" => k.armed # NotArmed /\ k.armed < w[1].rec.ref
  <2>1. j \in RuntimeType /\ rec.id \in Int /\ rec.ref \in Int /\ j.armed = k.armed
    BY <1>0 DEF RecordType
  <2> QED
    BY <1>11, <2>1, WantsTurnIs
<1>13. (Busy(c, t)' <=> w # <<>>) /\ ~Past(c, t)' /\ Rec(c, t)' = w[1].rec
  BY <1>2, <1>11 DEF Busy, Past, Rec
<1>14. \A r \in Tasks \ {t} : Busy(c, r)' = Busy(c, r) /\ Rec(c, r)' = Rec(c, r)
  BY <1>2 DEF Busy, Rec
<1> HIDE DEF JobsDone
<1>15. MovesOf(c)
  <2>1. MovesOn(c, t)
    <3>1. Keeps(runtimes[c], runtimes'[c])
      BY <1>7 DEF JobsDone
    <3>2. Busy(c, t)' => ~Past(c, t)' /\ (Rec(c, t).id)' = runtimes[c].next
      BY <1>11, <1>13
    <3> QED
      BY <1>2, <1>3, <3>1, <3>2 DEF MovesOn
  <2>2. Past(c, t) \/ runtimes'[c].lost
    BY <1>7
  <2>3. Busy(c, "turn")' => runtimes'[c].active # <<>>
    <3>1. Busy(c, "turn") => runtimes[c].active # <<>>
      BY <1>0 DEF RecordsOf, RefsAreLogged
    <3>2. runtimes[c].active # <<>> => runtimes'[c].active # <<>> \/ (w = <<>> /\ Finishes(rec))
      BY <1>7 DEF JobsDone
    <3>3. CASE t = "turn"
      BY <1>13, <3>1, <3>2, <3>3
    <3>4. CASE t # "turn"
      BY <1>0, <1>10, <1>14, <3>1, <3>2, <3>4 DEF Finishes
    <3> QED
      BY <3>3, <3>4
  <2>4. JobsMoveOn(c, t)
    <3>1. ASSUME ~runtimes'[c].lost, Busy(c, t)', t = "turn"
          PROVE  \E i \in DOMAIN log' : log'[i].id = (Rec(c, t).ref)'
      <4>1. w[1].rec.ref = rec.ref
        BY <1>10, <1>11, <1>13, <3>1
      <4>2. Passes(c, "turn")
        BY <2>2, <3>1 DEF Past, Passes
      <4>3. \E i \in DOMAIN log : log[i].id = rec.ref
        BY <1>0, <3>1, <4>2 DEF RecordsOf, RefsAreLogged
      <4> QED
        BY <1>3, <1>13, <4>1, <4>3 DEF LogKept
    <3>2. ASSUME ~runtimes'[c].lost, Busy(c, t)', (Rec(c, t).kind)' \in {"checkpoint", "job_queued"}
          PROVE  TaskLogged(c, t, w[1].rec.ref)'
      <4>1. Past(c, t) /\ Passes(c, t)
        BY <2>2, <3>2 DEF Past, Passes
      <4>2. CASE rec.kind = "inbound"
        <5>1. w[1].rec.ref = rec.id
          BY <1>11, <1>13, <3>2, <4>2
        <5> QED
          BY <4>1, <4>2, <5>1 DEF Appended, TaskLogged
      <4>3. CASE rec.kind = "checkpoint"
        <5>1. w[1].rec.ref = rec.ref
          BY <1>11, <1>13, <3>2, <4>3
        <5>2. TaskLogged(c, t, rec.ref)
          BY <1>0, <4>1, <4>3 DEF RecordsOf, RefsAreLogged
        <5> QED
          BY <1>3, <5>1, <5>2, LogOnlyGrows
      <4> QED
        BY <1>11, <1>13, <3>2, <4>2, <4>3
    <3>3. ASSUME Busy(c, t)', (Rec(c, t).kind)' = "job_queued"
          PROVE  runtimes'[c].armed # NotArmed /\ runtimes'[c].armed < (Rec(c, t).ref)'
      <4>1. runtimes'[c].armed = k.armed
        BY <1>7 DEF JobsDone
      <4> QED
        BY <1>12, <1>13, <3>3, <4>1
    <3>4. TaskLogged(c, t, Rec(c, t).ref)' = TaskLogged(c, t, w[1].rec.ref)'
      BY <1>13
    <3> QED
      BY <1>8, <2>2, <2>3, <3>1, <3>2, <3>3, <3>4 DEF JobsMoveOn
  <2>5. StartsRecord(c, t)
    <3>1. Busy(c, t)' /\ t = "turn" => (Rec(c, t).kind)' = "job_completed" /\ (Rec(c, t).ref)' = Rec(c, t).ref
      BY <1>10, <1>11, <1>13
    <3>2. Busy(c, t)' => (Rec(c, t).kind)' # "inbound"
      BY <1>11, <1>13
    <3>3. Busy(c, t)' /\ t # "turn" => (Rec(c, t).kind)' \in {"checkpoint", "job_queued"}
      BY <1>10, <1>11, <1>13
    <3>4. Busy(c, t)' /\ (Rec(c, t).kind)' = "checkpoint" =>
             rec.kind = "inbound" /\ (Rec(c, t).update)' = rec.update
      BY <1>11, <1>13
    <3> QED
      BY <3>1, <3>2, <3>3, <3>4 DEF StartsRecord
  <2>6. Moves(c, t)
    BY <1>4, <1>9, <2>1, <2>2, <2>4, <2>5 DEF Moves
  <2>7. runtimes'[c].armed = runtimes[c].armed
    BY <1>7 DEF JobsDone
  <2>8. AsksGoOn(c) /\ CatchUpGoesOn(c)
    BY <1>9, <2>7 DEF AsksGoOn, CatchUpGoesOn, CatchingUp
  <2>9. StartsJobs(c)
    <3> SUFFICES ASSUME NEW y \in Int, Holds(c)', Runs(c, y)', ~Runs(c, y), Busy(c, "turn"),
                        NEW x, x = Rec(c, "turn").id
                 PROVE  HasLogged(c, x)'
      BY <1>8 DEF StartsJobs, StartsJob
    <3>1. runtimes[c].active # <<>>
      BY <1>0 DEF RecordsOf, RefsAreLogged
    <3>2. Finishes(rec)
      BY <1>8, <3>1
    <3>3. t = "turn" /\ Past(c, t)
      BY <1>10, <2>2, <3>2 DEF Finishes, Holds
    <3> QED
      BY <3>3 DEF Appended, HasLogged
  <2>10. JobsAreArmed(c)'
    <3>1. runtimes'[c].pending # <<>> \/ runtimes'[c].active # <<>> => runtimes'[c].armed # NotArmed
      <4>1. rec.kind = "job_queued" => runtimes[c].armed # NotArmed
        BY <1>0 DEF JobsAreArmed
      <4>2. runtimes'[c].pending # <<>> \/ runtimes'[c].active # <<>> =>
               runtimes[c].pending # <<>> \/ runtimes[c].active # <<>> \/ rec.kind = "job_queued"
        BY <1>7 DEF JobsDone
      <4> QED
        BY <1>0, <2>7, <4>1, <4>2 DEF JobsAreArmed
    <3>2. ASSUME NEW r \in Tasks, Busy(c, r)', (Rec(c, r).kind)' = "job_queued"
          PROVE  runtimes'[c].armed # NotArmed
      <4>1. CASE r = t
        BY <1>12, <1>13, <2>7, <3>2, <4>1
      <4>2. CASE r # t
        BY <1>0, <1>14, <2>7, <3>2, <4>2 DEF JobsAreArmed
      <4> QED
        BY <4>1, <4>2
    <3> QED
      BY <3>1, <3>2 DEF JobsAreArmed
  <2> QED
    BY <2>6, <2>8, <2>9, <2>10 DEF MovesOf, Goes
<1> QED
  BY <1>0, <1>5, <1>6, <1>15, QuietTelegram DEF Motion, LockGoesOn, SameTelegram

LEMMA FenceDroppedMoves ==
    ASSUME RecordsInvariant, \A d \in Connections : JobsAreArmed(d), NEW c \in Connections, NEW t \in Tasks,
           Fence(c, t), ~Owns(c)
    PROVE  Motion
<1>0. PICK rec : rec = Rec(c, t)
  OBVIOUS
<1> DEFINE k == [runtimes[c] EXCEPT !.lost = TRUE]
           s == Owner(c)
           v == IF runtimes[c].lost THEN sessions[s] ELSE Noticed(sessions[s])
<1>1. PICK rts : /\ rts = [runtimes EXCEPT ![c].lost = TRUE]
                 /\ Continue(c, t, rts, v, rec)
  BY <1>0 DEF Fence, Rec
<1>2. /\ s \in Sessions /\ Busy(c, t) /\ ~Past(c, t)
      /\ UNCHANGED <<log, lock, telegram, polls, excused>>
  BY AliveIsOwned DEF Fence, Busy, Past
<1>3. TypeOK /\ runtimes[c] \in RuntimeType
  BY DEF RecordsInvariant, TurnsInvariant, HandoverInvariant, TypeOK
<1>4. /\ k \in RuntimeType /\ k.owner = runtimes[c].owner /\ k.lost /\ Keeps(runtimes[c], k)
      /\ k.pending = runtimes[c].pending /\ k.active = runtimes[c].active /\ k.armed = runtimes[c].armed
  BY <1>3 DEF RuntimeType, Keeps
<1>5. rts = [runtimes EXCEPT ![c] = k]
  BY <1>1
<1> HIDE DEF k
<1>6. /\ rts \in [Connections -> RuntimeType] /\ OwnersStay(rts)
      /\ rts[c] = k /\ \A d \in Connections \ {c} : rts[d] = runtimes[d]
  BY <1>3, <1>4, <1>5 DEF TypeOK, OwnersStay
<1>7. StaysAs(s, v)
  BY <1>2, <1>3, NoticedStays
<1> HIDE DEF v
<1>8. LogGoesOn /\ \A i \in DOMAIN log' : i \in DOMAIN log
  BY <1>2 DEF LogGoesOn
<1> QED
  BY <1>0, <1>1, <1>2, <1>4, <1>6, <1>7, <1>8, ContinueMoves

LEMMA AppendMoves ==
    ASSUME RecordsInvariant, \A d \in Connections : JobsAreArmed(d), NEW c \in Connections, NEW t \in Tasks,
           AppendRecord(c, t)
    PROVE  Motion
<1>0. PICK rec : rec = Rec(c, t)
  OBVIOUS
<1> DEFINE s == Owner(c)
           stray == lock.owner # s
           claim == IF lock.owner # s THEN lock.claims ELSE 0
<1>1. PICK e : /\ log' = Append(log, e)
               /\ e = [kind |-> rec.kind, id |-> rec.id, update |-> rec.update, ref |-> rec.ref,
                       by |-> c, task |-> t, stray |-> stray, claim |-> claim]
  BY <1>0 DEF AppendRecord, Rec
<1>2. /\ s \in Sessions /\ Busy(c, t) /\ Past(c, t) /\ Continue(c, t, runtimes, sessions[s], rec)
      /\ UNCHANGED <<lock, telegram, polls, excused>>
  BY <1>0, AliveIsOwned DEF AppendRecord, Busy, Past, Rec
<1>3. TypeOK /\ runtimes \in [Connections -> RuntimeType] /\ log \in Seq(LogRecordType)
  BY DEF RecordsInvariant, TurnsInvariant, HandoverInvariant, TypeOK
<1>4. rec \in RecordType
  BY <1>0, <1>2, <1>3, WriteIsTyped DEF Busy, Rec
<1>5. e \in LogRecordType
  <2>1. claim \in Nat /\ stray \in BOOLEAN
    BY <1>3 DEF TypeOK
  <2> HIDE DEF claim, stray
  <2> QED
    BY <1>1, <1>4, <2>1 DEF RecordType, LogRecordType
<1>6. /\ e.by = c /\ e.task = t /\ e.id = rec.id /\ e.kind = rec.kind
      /\ e.update = rec.update /\ e.ref = rec.ref
  BY <1>1
<1>7. LogGoesOn
  BY <1>0, <1>1, <1>2, <1>5, <1>6 DEF LogGoesOn
<1>8. /\ \A i \in DOMAIN log' : i \in DOMAIN log \/ log'[i] = e
      /\ Len(log) + 1 \in DOMAIN log' /\ log'[Len(log) + 1] = e
  BY <1>1, <1>3, <1>5
<1>9. \A i \in DOMAIN log' : log'[i] = e => Appended(c, t, i)
  BY <1>0, <1>6 DEF Appended
<1>10. StaysAs(s, sessions[s]) /\ OwnersStay(runtimes) /\ Keeps(runtimes[c], runtimes[c])
  BY <1>2, <1>3, NoticedStays DEF OwnersStay, Keeps
<1> QED
  BY <1>0, <1>2, <1>3, <1>7, <1>8, <1>9, <1>10, ContinueMoves

LEMMA MotionNext ==
    ASSUME RecordsInvariant, \A d \in Connections : JobsAreArmed(d), [Next]_vars
    PROVE  Motion
<1>1. CASE Send \/ UNCHANGED vars
  BY <1>1, SendMoves
<1>2. ASSUME NEW s \in Sessions, SessionStep(s) \/ TurnStep(s) \/ Disconnect(s)
      PROVE  Motion
  <2>1. SideStep(s)
    BY <1>2 DEF SessionStep, TurnStep, SideStep, SessionOnly
  <2> QED
    BY <2>1, SideStepMoves
<1>3. ASSUME NEW s \in Sessions, Crash(s) PROVE Motion
  BY <1>3, CrashMoves
<1>4. ASSUME NEW s \in Sessions, NEW c \in Connections, Connect(s, c) \/ Restore(s, c) PROVE Motion
  BY <1>4, ConnectMoves DEF Connect, Restore
<1>5. ASSUME NEW c \in Connections, NEW u \in Updates,
             \/ TakeMessage(c, u) \/ TakeCommand(c, u) \/ TakeNothing(c, u)
             \/ TakeAlbum(c, u) \/ FlushAlbum(c, u) \/ TakeFails(c, u)
      PROVE  Motion
  BY <1>5, TakeMessageMoves, TakeMoves, FlushMoves, FailsMoves
<1>6. ASSUME NEW c \in Connections, NEW t \in Tasks, Fence(c, t) \/ AppendRecord(c, t) PROVE Motion
  BY <1>6, FencePassedMoves, FenceDroppedMoves, AppendMoves
<1>7. ASSUME NEW c \in Connections, ChannelStep(c) \/ ConnectFails(c) \/ FetchFails(c) PROVE Motion
  <2>1. CASE Claim(c) \/ Load(c) \/ FetchInitial(c) \/ Fetch(c)
    BY <2>1, ClaimMoves, LoadMoves, FetchMoves
  <2>2. CASE CaughtUp(c) \/ CheckPasses(c) \/ FetchFails(c)
    BY <2>2, CaughtUpMoves, CheckPassesMoves, FailsMoves
  <2>3. CASE CheckFails(c) \/ FetchConflict(c) \/ LoopEnds(c) \/ ConnectFails(c)
    BY <2>3, StandDownMoves, LoopEndsMoves, ConnectFailsMoves
  <2> QED
    BY <1>5, <1>6, <1>7, <2>1, <2>2, <2>3 DEF ChannelStep
<1> QED
  BY <1>1, <1>2, <1>3, <1>4, <1>5, <1>7 DEF Next

\* The inductive invariant of what follows.
NothingIsMissed == PassedOverInvariant /\ \A c \in Connections : JobsAreArmed(c)

LEMMA MissedInit == Init => NothingIsMissed
<1> SUFFICES ASSUME Init PROVE NothingIsMissed
  OBVIOUS
<1>1. TurnsInvariant
  BY InitTurns
<1>2. log = <<>> /\ DOMAIN log = {}
  BY DEF Init
<1>3. ASSUME NEW c \in Connections
      PROVE  /\ runtimes[c] = NewRuntime(NoOwner) /\ polls[c].at = "off" /\ Owner(c) \notin Sessions
             /\ \A t \in Tasks : ~Busy(c, t)
  BY NoOwnerAssumption DEF Init, NewPoll, NewRuntime, Owner, Busy
<1>4. ASSUME NEW c \in Connections
      PROVE  /\ runtimes[c].pending = <<>> /\ runtimes[c].active = <<>> /\ runtimes[c].next = 1
             /\ ~Holds(c) /\ ~CatchingUp(c) /\ \A t \in Tasks : ~Past(c, t) /\ ~Passes(c, t)
  <2>1. runtimes[c].pending = <<>> /\ runtimes[c].active = <<>> /\ runtimes[c].next = 1
    BY <1>3 DEF NewRuntime
  <2>2. ~CatchingUp(c)
    BY <1>3 DEF CatchingUp
  <2>3. \A t \in Tasks : ~Past(c, t)
    BY <1>3 DEF Past
  <2>4. \A t \in Tasks : ~Passes(c, t)
    BY <1>3 DEF Passes
  <2>5. ~Holds(c)
    BY <1>3 DEF Holds
  <2> QED
    BY <2>1, <2>2, <2>3, <2>4, <2>5
<1>5. "turn" \in Tasks /\ "poll" \in Tasks
  BY DEF Tasks
<1>6. ASSUME NEW c \in Connections PROVE RecordsOf(c) /\ IdsArePositive(c)
  <2>1. TasksKeepToTheirs(c) /\ StartsEmpty(c) /\ IdsGoUp(c) /\ IdsArePositive(c)
    BY <1>2, <1>3, <1>4 DEF TasksKeepToTheirs, StartsEmpty, IdsGoUp, IdsArePositive
  <2>2. HearsItself(c) /\ BoundaryIsFinished(c) /\ CatchesUpAlone(c)
    BY <1>2, <1>4 DEF HearsItself, BoundaryIsFinished, CatchesUpAlone
  <2>3. RefsAreLogged(c)
    BY <1>3, <1>4, <1>5 DEF RefsAreLogged, Pends, Runs
  <2> QED
    BY <2>1, <2>2, <2>3 DEF RecordsOf
<1>7. RecordsInvariant
  BY <1>1, <1>2, <1>6 DEF RecordsInvariant, LargestIsLogged, FinishedAreLogged
<1>8. \A y : ~Finishing(y)
  BY <1>2, <1>4, <1>5 DEF Finishing
<1>9. /\ \A e \in Connections : \A x, u : ~Arrives(e, x, u)
      /\ \A c \in Connections : ~Leader(c)
  BY <1>2, <1>3, <1>4, <1>5 DEF Arrives, InTheLog, Coming, Leader
<1>10. ArrivalsAreUpdates /\ LeadersGoUp /\ FinishedAreClosed
  BY <1>8, <1>9 DEF ArrivalsAreUpdates, LeadersGoUp, FinishedAreClosed
<1>11. \A c \in Connections : HearsTheRest(c) /\ AsksForTheHeard(c)
  BY <1>4, <1>9 DEF HearsTheRest, AsksForTheHeard
<1>12. \A c \in Connections : JobsAreArmed(c)
  BY <1>3, <1>4 DEF JobsAreArmed
<1> QED
  BY <1>7, <1>10, <1>11, <1>12 DEF NothingIsMissed, PassedOverInvariant

LEMMA MissedNext == NothingIsMissed /\ [Next]_vars => NothingIsMissed'
<1> SUFFICES ASSUME NothingIsMissed, [Next]_vars PROVE NothingIsMissed'
  OBVIOUS
<1>1. RecordsInvariant /\ TurnsInvariant
  BY DEF NothingIsMissed, PassedOverInvariant, RecordsInvariant
<1>2. Motion
  BY <1>1, MotionNext DEF NothingIsMissed
<1>3. TurnsInvariant'
  BY <1>1, TurnsNext
<1>4. LogGoesOn /\ \A c \in Connections : Goes(c) /\ JobsAreArmed(c)'
  BY <1>2 DEF Motion, MovesOf
<1>5. RecordsInvariant'
  BY <1>1, <1>3, <1>4, RecordsGo
<1>6. Steps
  BY <1>2, <1>5 DEF Steps, Motion, MovesOf
<1>7. PassedOverInvariant'
  BY <1>6, PassedOverGoesOn DEF NothingIsMissed
<1> QED
  BY <1>4, <1>7 DEF NothingIsMissed

LEMMA MissedIsPassedOver == PassedOverInvariant => NothingIsPassedOver
<1> SUFFICES ASSUME PassedOverInvariant, NEW i \in DOMAIN log, NEW j \in DOMAIN log,
                    log[i].kind = "inbound", log[i].update \notin Albums,
                    log[j].kind \in {"job_completed", "job_failed"}, log[i].id <= log[j].ref
             PROVE  log[i].update \in prompted \cup excused \/ Collided(log[i].update)
  BY DEF NothingIsPassedOver
<1>1. TypeOK
  BY DEF PassedOverInvariant, RecordsInvariant, TurnsInvariant, HandoverInvariant
<1> PICK e, x, u, y : e = log[i].by /\ x = log[i].id /\ u = log[i].update /\ y = log[j].ref
  OBVIOUS
<1>2. e \in Connections /\ x \in Int /\ u \in Messages /\ y \in Int
  BY <1>1, LogIsTyped DEF LogRecordType, Messages
<1>3. Finishing(y)
  BY DEF Finishing, Finishes
<1>4. Closed(y)
  BY <1>2, <1>3 DEF PassedOverInvariant, FinishedAreClosed
<1>5. InTheLog(e, x, u)
  BY DEF InTheLog
<1>6. Fine(u)
  BY <1>2, <1>4, <1>5 DEF Closed
<1> QED
  BY <1>6 DEF Fine

-----------------------------------------------------------------------------
(* The theorem.                                                              *)

\* Whoever finished a job and whoever logged a message, the boundary passes over
\* no message that no prompt had, but for commands, failed downloads and the
\* messages whose id their own connection gave twice (buildPrompt of runtime.ts).
THEOREM NoMessageIsPassedOver == Spec => []NothingIsPassedOver
<1>1. Init => NothingIsMissed
  BY MissedInit
<1>2. NothingIsMissed /\ [Next]_vars => NothingIsMissed'
  BY MissedNext
<1>3. NothingIsMissed => NothingIsPassedOver
  BY MissedIsPassedOver DEF NothingIsMissed
<1> QED
  BY <1>1, <1>2, <1>3, PTL DEF Spec

================================================================================
