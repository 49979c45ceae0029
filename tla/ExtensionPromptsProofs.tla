------------------------ MODULE ExtensionPromptsProofs ------------------------
(***************************************************************************)
(* What holds of the prompts of extensions for every set of prompts and    *)
(* sessions, whatever their order, and every number of cards.              *)
(*                                                                         *)
(* Each synchronous stretch of the code maps a page to a page; so most of  *)
(* the lemmas are about a page.  First, each operation keeps it in order   *)
(* (PageOK): a request that waits is in one place, and not responded to.   *)
(* Then, each operation concerns one session (Elsewhere), and keeps a      *)
(* prompt that is the only one of its session (Kept).  The invariant adds  *)
(* what the page cannot know by itself: which prompts Pi waits for.        *)
(***************************************************************************)
EXTENDS ExtensionPrompts, FiniteSetTheorems, TLAPS

Request == [prompt : Prompts, nth : Nat \ {0}]

PageType ==
    [queues : [Sessions -> Seq(Request)], slot : [Sessions -> 0 .. MaxCards],
     cards : [CardIds -> Seq(Request)], onPage : SUBSET CardIds,
     handled : [Prompts -> Nat], responded : SUBSET Request, twice : SUBSET Request,
     unsent : SUBSET Prompts, answered : SUBSET Prompts]

LinkType == [up : BOOLEAN, subscribed : SUBSET Sessions, wire : Seq(Prompts)]

AppType == [target : Sessions, shown : Sessions, to : Sessions,
            at : {"none", "loading", "adopting", "snapshot", "failed"},
            disk : {"reading", "had prompt", "read"},
            adopting : {"none", "reading", "had prompt", "read"},
            asked : SUBSET Sessions, flush : BOOLEAN]

TypeOK ==
    /\ pi \in [Prompts -> {"idle", "open", "answered"}]
    /\ link \in LinkType
    /\ app \in AppType
    /\ foreground \in Sessions
    /\ together \in SUBSET Prompts
    /\ Page \in PageType

\* The requests that wait in a queue or in a call.
Waiting(page) ==
    {r \in Request : \/ \E s \in Sessions : \E i \in DOMAIN page.queues[s] : page.queues[s][i] = r
                     \/ \E id \in CardIds : \E i \in DOMAIN page.cards[id] : page.cards[id][i] = r}

\* Cards, slots and queues hold what they should, each for one session.
Tidy(page) ==
    /\ \A id \in page.onPage : page.cards[id] # <<>>
    /\ \A s \in Sessions : page.slot[s] # 0 => /\ page.cards[page.slot[s]] # <<>>
                                               /\ Of(page.cards[page.slot[s]][1]) = s
    /\ \A s \in Sessions : \A i \in DOMAIN page.queues[s] : Of(page.queues[s][i]) = s
    /\ \A id \in CardIds : \A i \in DOMAIN page.cards[id] : Of(page.cards[id][i]) = Of(page.cards[id][1])

\* A request waits in one place only.
Distinct(page) ==
    /\ \A s \in Sessions : \A i, j \in DOMAIN page.queues[s] : page.queues[s][i] = page.queues[s][j] => i = j
    /\ \A id, jd \in CardIds : \A i \in DOMAIN page.cards[id], j \in DOMAIN page.cards[jd] :
          page.cards[id][i] = page.cards[jd][j] => id = jd /\ i = j
    /\ \A s \in Sessions, id \in CardIds : \A i \in DOMAIN page.queues[s], j \in DOMAIN page.cards[id] :
          page.queues[s][i] # page.cards[id][j]

\* What waits was handled and was not responded to.
Unanswered(page) ==
    /\ \A r \in Waiting(page) : r.nth <= page.handled[r.prompt] /\ r \notin page.responded
    /\ \A r \in page.responded : r.nth <= page.handled[r.prompt]
    /\ page.twice = {}

\* A response reached Pi, unless it was lost.
Heard(page) ==
    /\ \A p \in page.answered : \E r \in page.responded : r.prompt = p
    /\ \A r \in page.responded : r.prompt \in page.unsent \/ r.prompt \in page.answered \/ pi[r.prompt] = "answered"

PageOK(page) == Tidy(page) /\ Distinct(page) /\ Unanswered(page) /\ Heard(page)

\* What the page handled or is being told was asked, and Pi took no answer but
\* to a request; prompts of a session that are open at once are together.
Asking ==
    /\ \A p \in Prompts : handled[p] >= 1 => pi[p] # "idle"
    /\ \A i \in DOMAIN link.wire : pi[link.wire[i]] # "idle"
    /\ \A p \in Prompts : pi[p] = "answered" => \E r \in responded : r.prompt = p
    /\ \A p, q \in Prompts : p # q /\ Asker[p] = Asker[q] /\ Open(p) /\ Open(q) => {p, q} \subseteq together

\* A card whose turn it is to ask p is on the page of session s, in the slot.
LoneCards(page, s, p) ==
    \A id \in CardIds : page.cards[id] # <<>> /\ page.cards[id][1].prompt = p =>
        id \in page.onPage /\ page.slot[Asker[p]] = id /\ Asker[p] = s

-----------------------------------------------------------------------------
(* What the operations on a page change                                      *)

\* A page with other queues, cards and slots, and the same history.
SameHistory(page, new) ==
    /\ new.handled = page.handled /\ new.responded = page.responded /\ new.twice = page.twice
    /\ new.unsent = page.unsent /\ new.answered = page.answered

\* Requests of one session, taken out of the page and not responded to.
Loose(page, due) ==
    /\ due \in Seq(Request)
    /\ \A i, j \in DOMAIN due : Of(due[i]) = Of(due[j]) /\ (due[i] = due[j] => i = j)
    /\ \A i \in DOMAIN due :
          /\ due[i] \notin Waiting(page) /\ due[i] \notin page.responded
          /\ due[i].nth <= page.handled[due[i].prompt]

LEMMA RequestTypes ==
    ASSUME NEW r \in Request
    PROVE  r.prompt \in Prompts /\ r.nth \in Nat \ {0} /\ Of(r) \in Sessions
BY PromptsAssumption DEF Request, Of

LEMMA SequenceParts ==
    ASSUME NEW T, NEW due \in Seq(T), due # <<>>
    PROVE  /\ Len(due) \in Nat \ {0} /\ DOMAIN due = 1 .. Len(due)
           /\ 1 \in DOMAIN due /\ Head(due) = due[1] /\ due[1] \in T
           /\ Tail(due) \in Seq(T) /\ Len(Tail(due)) = Len(due) - 1
           /\ DOMAIN Tail(due) = 1 .. Len(due) - 1
           /\ \A i \in DOMAIN Tail(due) : i + 1 \in DOMAIN due /\ Tail(due)[i] = due[i + 1]
<1>1. Len(due) \in Nat \ {0} /\ DOMAIN due = 1 .. Len(due)
  OBVIOUS
<1>2. 1 \in DOMAIN due /\ Head(due) = due[1] /\ due[1] \in T
  BY <1>1
<1>3. Tail(due) \in Seq(T) /\ Len(Tail(due)) = Len(due) - 1
  BY <1>1
<1>4. DOMAIN Tail(due) = 1 .. Len(due) - 1
  BY <1>1, <1>3
<1>5. \A i \in 1 .. Len(due) - 1 : i + 1 \in DOMAIN due /\ Tail(due)[i] = due[i + 1]
  BY <1>1
<1> QED
  BY <1>1, <1>2, <1>3, <1>4, <1>5

LEMMA SequenceElements ==
    ASSUME NEW T, NEW due \in Seq(T)
    PROVE  \A i \in DOMAIN due : due[i] \in T
OBVIOUS

LEMMA ShowIs ==
    ASSUME NEW page \in PageType, NEW due \in Seq(Request), due # <<>>,
           \E i \in CardIds : page.cards[i] = <<>>
    PROVE  /\ Show(page, due) \in PageType
           /\ SameHistory(page, Show(page, due))
           /\ Show(page, due).queues = page.queues
           /\ \E id \in CardIds :
                 /\ page.cards[id] = <<>>
                 /\ Show(page, due).cards = [page.cards EXCEPT ![id] = due]
                 /\ Show(page, due).onPage = page.onPage \cup {id}
                 /\ Show(page, due).slot = [page.slot EXCEPT ![Of(due[1])] = id]
<1> DEFINE id == CHOOSE i \in CardIds : page.cards[i] = <<>>
<1>1. id \in CardIds /\ page.cards[id] = <<>>
  OBVIOUS
<1>2. Show(page, due) = [page EXCEPT !.cards[id] = due, !.onPage = @ \cup {id}, !.slot[Of(Head(due))] = id]
  BY DEF Show
<1> HIDE DEF id
<1>3. Head(due) = due[1] /\ Of(due[1]) \in Sessions
  BY SequenceParts, RequestTypes
<1>4. id \in 0 .. MaxCards
  BY <1>1, BoundsAssumption DEF CardIds
<1>5. Show(page, due) = [page EXCEPT !.cards = [page.cards EXCEPT ![id] = due], !.onPage = page.onPage \cup {id},
                                     !.slot = [page.slot EXCEPT ![Of(due[1])] = id]]
  BY <1>2, <1>3 DEF PageType
<1>6. /\ Show(page, due).cards = [page.cards EXCEPT ![id] = due]
      /\ Show(page, due).onPage = page.onPage \cup {id}
      /\ Show(page, due).slot = [page.slot EXCEPT ![Of(due[1])] = id]
      /\ Show(page, due).queues = page.queues
      /\ SameHistory(page, Show(page, due))
  BY <1>5 DEF PageType, SameHistory
<1>7. /\ [page.cards EXCEPT ![id] = due] \in [CardIds -> Seq(Request)]
      /\ page.onPage \cup {id} \in SUBSET CardIds
      /\ [page.slot EXCEPT ![Of(due[1])] = id] \in [Sessions -> 0 .. MaxCards]
  BY <1>1, <1>3, <1>4 DEF PageType
<1>8. Show(page, due) \in PageType
  BY <1>5, <1>7 DEF PageType
<1> QED
  BY <1>1, <1>6, <1>8

LEMMA CloseIs ==
    ASSUME NEW page \in PageType, NEW id \in CardIds, page.cards[id] # <<>>
    PROVE  /\ Close(page, id) \in PageType
           /\ SameHistory(page, Close(page, id))
           /\ Close(page, id).queues = page.queues
           /\ Close(page, id).cards = [page.cards EXCEPT ![id] = <<>>]
           /\ Close(page, id).onPage = page.onPage \ {id}
           /\ Close(page, id).slot =
                 [page.slot EXCEPT ![Of(page.cards[id][1])] = IF @ = id THEN 0 ELSE @]
<1> DEFINE s == Of(page.cards[id][1])
<1>1. page.cards[id] \in Seq(Request)
  BY DEF PageType
<1>2. Head(page.cards[id]) = page.cards[id][1] /\ s \in Sessions
  BY <1>1, SequenceParts, RequestTypes
<1>3. Close(page, id) = [page EXCEPT !.cards = [page.cards EXCEPT ![id] = <<>>], !.onPage = page.onPage \ {id},
                                     !.slot = [page.slot EXCEPT ![s] = IF @ = id THEN 0 ELSE @]]
  BY <1>2 DEF Close, PageType
<1> HIDE DEF s
<1>4. /\ [page.cards EXCEPT ![id] = <<>>] \in [CardIds -> Seq(Request)]
      /\ page.onPage \ {id} \in SUBSET CardIds
      /\ [page.slot EXCEPT ![s] = IF @ = id THEN 0 ELSE @] \in [Sessions -> 0 .. MaxCards]
  <2>1. 0 \in 0 .. MaxCards
    BY BoundsAssumption
  <2>2. <<>> \in Seq(Request)
    OBVIOUS
  <2> QED
    BY <1>2, <2>1, <2>2 DEF PageType
<1>5. Close(page, id) \in PageType
  BY <1>3, <1>4 DEF PageType
<1>6. /\ SameHistory(page, Close(page, id))
      /\ Close(page, id).queues = page.queues
      /\ Close(page, id).cards = [page.cards EXCEPT ![id] = <<>>]
      /\ Close(page, id).onPage = page.onPage \ {id}
      /\ Close(page, id).slot = [page.slot EXCEPT ![s] = IF @ = id THEN 0 ELSE @]
  BY <1>3 DEF PageType, SameHistory
<1> QED
  BY <1>5, <1>6 DEF s

LEMMA RespondIs ==
    ASSUME NEW page \in PageType, NEW r \in Request
    PROVE  /\ Respond(page, r) \in PageType
           /\ Respond(page, r).queues = page.queues /\ Respond(page, r).cards = page.cards
           /\ Respond(page, r).onPage = page.onPage /\ Respond(page, r).slot = page.slot
           /\ Respond(page, r).handled = page.handled
           /\ Respond(page, r).responded = page.responded \cup {r}
           /\ r \notin page.responded => Respond(page, r).twice = page.twice
           /\ Arrives(page, r.prompt) =>
                 /\ Respond(page, r).answered = page.answered \cup {r.prompt}
                 /\ Respond(page, r).unsent = page.unsent
           /\ ~Arrives(page, r.prompt) =>
                 /\ Respond(page, r).answered = page.answered
                 /\ Respond(page, r).unsent = page.unsent \cup {r.prompt}
<1>1. r.prompt \in Prompts
  BY RequestTypes
<1>2. CASE Arrives(page, r.prompt)
  <2> DEFINE t == IF r \in page.responded THEN page.twice \cup {r} ELSE page.twice
  <2>1. Respond(page, r) = [page EXCEPT !.responded = page.responded \cup {r}, !.twice = t,
                                        !.answered = page.answered \cup {r.prompt}, !.unsent = page.unsent]
    BY <1>2 DEF Respond, PageType
  <2>2. t \in SUBSET Request
    BY DEF PageType
  <2>3. r \notin page.responded => t = page.twice
    OBVIOUS
  <2> HIDE DEF t
  <2>4. Respond(page, r) \in PageType
    <3>1. /\ page.responded \cup {r} \in SUBSET Request
          /\ page.answered \cup {r.prompt} \in SUBSET Prompts
          /\ page.unsent \cup {r.prompt} \in SUBSET Prompts
      BY <1>1 DEF PageType
    <3> QED
      BY <2>1, <2>2, <3>1 DEF PageType
  <2> QED
    BY <1>2, <2>1, <2>3, <2>4 DEF PageType
<1>3. CASE ~Arrives(page, r.prompt)
  <2> DEFINE t == IF r \in page.responded THEN page.twice \cup {r} ELSE page.twice
  <2>1. Respond(page, r) = [page EXCEPT !.responded = page.responded \cup {r}, !.twice = t,
                                        !.answered = page.answered, !.unsent = page.unsent \cup {r.prompt}]
    BY <1>3 DEF Respond, PageType
  <2>2. t \in SUBSET Request
    BY DEF PageType
  <2>3. r \notin page.responded => t = page.twice
    OBVIOUS
  <2> HIDE DEF t
  <2>4. Respond(page, r) \in PageType
    <3>1. /\ page.responded \cup {r} \in SUBSET Request
          /\ page.answered \cup {r.prompt} \in SUBSET Prompts
          /\ page.unsent \cup {r.prompt} \in SUBSET Prompts
      BY <1>1 DEF PageType
    <3> QED
      BY <2>1, <2>2, <3>1 DEF PageType
  <2> QED
    BY <1>3, <2>1, <2>3, <2>4 DEF PageType
<1> QED
  BY <1>2, <1>3

-----------------------------------------------------------------------------
(* The operations keep a page in order                                       *)

\* Where a request waits.
LEMMA WaitingIs ==
    ASSUME NEW page \in PageType
    PROVE  /\ \A s \in Sessions : \A i \in DOMAIN page.queues[s] : page.queues[s][i] \in Waiting(page)
           /\ \A id \in CardIds : \A i \in DOMAIN page.cards[id] : page.cards[id][i] \in Waiting(page)
<1>1. \A s \in Sessions : \A i \in DOMAIN page.queues[s] : page.queues[s][i] \in Request
  BY DEF PageType
<1>2. \A id \in CardIds : \A i \in DOMAIN page.cards[id] : page.cards[id][i] \in Request
  BY DEF PageType
<1> QED
  BY <1>1, <1>2 DEF Waiting

LEMMA LooseIs ==
    ASSUME NEW page \in PageType, NEW due, Loose(page, due)
    PROVE  /\ \A i \in DOMAIN due : due[i] \in Request
           /\ \A i \in DOMAIN due : \A s \in Sessions : \A j \in DOMAIN page.queues[s] : page.queues[s][j] # due[i]
           /\ \A i \in DOMAIN due : \A id \in CardIds : \A j \in DOMAIN page.cards[id] : page.cards[id][j] # due[i]
BY WaitingIs DEF Loose

LEMMA LooseTail ==
    ASSUME NEW page, NEW due, Loose(page, due), due # <<>>
    PROVE  /\ Loose(page, Tail(due)) /\ Loose(page, <<due[1]>>)
           /\ \A i \in DOMAIN Tail(due) : Tail(due)[i] # due[1] /\ Of(Tail(due)[i]) = Of(due[1])
<1>1. due \in Seq(Request)
  BY DEF Loose
<1>2. /\ Len(due) \in Nat \ {0} /\ DOMAIN due = 1 .. Len(due)
      /\ 1 \in DOMAIN due /\ due[1] \in Request
      /\ Tail(due) \in Seq(Request)
      /\ DOMAIN Tail(due) = 1 .. Len(due) - 1
      /\ \A i \in DOMAIN Tail(due) : i + 1 \in DOMAIN due /\ Tail(due)[i] = due[i + 1]
  BY <1>1, SequenceParts
<1>3. \A i \in DOMAIN Tail(due) : i + 1 # 1 /\ i \in Nat
  BY <1>2
<1>4. Loose(page, Tail(due))
  <2>1. ASSUME NEW i \in DOMAIN Tail(due), NEW j \in DOMAIN Tail(due), Tail(due)[i] = Tail(due)[j]
        PROVE  i = j
    <3>1. i + 1 = j + 1
      BY <1>2, <2>1 DEF Loose
    <3> QED
      BY <1>3, <3>1
  <2> QED
    BY <1>2, <2>1 DEF Loose
<1>5. Loose(page, <<due[1]>>)
  <2>1. <<due[1]>> \in Seq(Request) /\ DOMAIN <<due[1]>> = {1} /\ <<due[1]>>[1] = due[1]
    BY <1>2
  <2> QED
    BY <1>2, <2>1 DEF Loose
<1>6. \A i \in DOMAIN Tail(due) : Tail(due)[i] # due[1] /\ Of(Tail(due)[i]) = Of(due[1])
  BY <1>2, <1>3 DEF Loose
<1> QED
  BY <1>4, <1>5, <1>6

LEMMA ShowKeeps ==
    ASSUME NEW page \in PageType, PageOK(page), NEW due, Loose(page, due), due # <<>>,
           \E i \in CardIds : page.cards[i] = <<>>
    PROVE  /\ Show(page, due) \in PageType /\ PageOK(Show(page, due))
           /\ SameHistory(page, Show(page, due))
           /\ \A r : r \in Waiting(Show(page, due)) <=> r \in Waiting(page) \/ \E i \in DOMAIN due : due[i] = r
<1>1. due \in Seq(Request) /\ \A i \in DOMAIN due : due[i] \in Request
  BY LooseIs DEF Loose
<1> DEFINE new == Show(page, due)
<1>2. /\ new \in PageType /\ SameHistory(page, new) /\ new.queues = page.queues
      /\ \E id \in CardIds :
            /\ page.cards[id] = <<>>
            /\ new.cards = [page.cards EXCEPT ![id] = due]
            /\ new.onPage = page.onPage \cup {id}
            /\ new.slot = [page.slot EXCEPT ![Of(due[1])] = id]
  BY <1>1, ShowIs
<1> HIDE DEF new
<1>3. PICK id \in CardIds :
            /\ page.cards[id] = <<>>
            /\ new.cards = [page.cards EXCEPT ![id] = due]
            /\ new.onPage = page.onPage \cup {id}
            /\ new.slot = [page.slot EXCEPT ![Of(due[1])] = id]
  BY <1>2
<1>4. /\ page.queues \in [Sessions -> Seq(Request)] /\ page.cards \in [CardIds -> Seq(Request)]
      /\ page.slot \in [Sessions -> 0 .. MaxCards] /\ page.onPage \in SUBSET CardIds
  BY DEF PageType
<1>5. /\ new.cards[id] = due
      /\ \A jd \in CardIds : jd # id => new.cards[jd] = page.cards[jd]
      /\ 1 \in DOMAIN due /\ Of(due[1]) \in Sessions /\ DOMAIN <<>> = {}
  BY <1>1, <1>3, <1>4, SequenceParts, RequestTypes
<1>6. Tidy(new)
  <2>1. \A jd \in new.onPage : new.cards[jd] # <<>>
    BY <1>3, <1>4, <1>5 DEF PageOK, Tidy
  <2>2. ASSUME NEW s \in Sessions, new.slot[s] # 0
        PROVE  new.cards[new.slot[s]] # <<>> /\ Of(new.cards[new.slot[s]][1]) = s
    <3>1. CASE s = Of(due[1])
      BY <1>3, <1>4, <1>5, <3>1
    <3>2. CASE s # Of(due[1])
      <4>1. new.slot[s] = page.slot[s] /\ page.slot[s] # 0
        BY <1>3, <1>4, <2>2, <3>2
      <4>2. page.cards[page.slot[s]] # <<>> /\ Of(page.cards[page.slot[s]][1]) = s
        BY <4>1 DEF PageOK, Tidy
      <4>3. page.slot[s] \in CardIds /\ page.slot[s] # id
        <5>1. page.slot[s] \in 0 .. MaxCards
          BY <1>4
        <5> QED
          BY <1>3, <4>1, <4>2, <5>1, BoundsAssumption DEF CardIds
      <4> QED
        BY <1>5, <4>1, <4>2, <4>3
    <3> QED
      BY <3>1, <3>2
  <2>3. \A s \in Sessions : \A i \in DOMAIN new.queues[s] : Of(new.queues[s][i]) = s
    BY <1>2 DEF PageOK, Tidy
  <2>4. \A jd \in CardIds : \A i \in DOMAIN new.cards[jd] : Of(new.cards[jd][i]) = Of(new.cards[jd][1])
    BY <1>5 DEF PageOK, Tidy, Loose
  <2> QED
    BY <2>1, <2>2, <2>3, <2>4 DEF Tidy
<1>7. /\ \A i \in DOMAIN due : \A s \in Sessions : \A j \in DOMAIN page.queues[s] : page.queues[s][j] # due[i]
      /\ \A i \in DOMAIN due : \A jd \in CardIds : \A j \in DOMAIN page.cards[jd] : page.cards[jd][j] # due[i]
  BY LooseIs
<1>8. Distinct(new)
  <2>1. \A s \in Sessions : \A i, j \in DOMAIN new.queues[s] : new.queues[s][i] = new.queues[s][j] => i = j
    BY <1>2 DEF PageOK, Distinct
  <2>2. ASSUME NEW kd \in CardIds, NEW jd \in CardIds, NEW i \in DOMAIN new.cards[kd], NEW j \in DOMAIN new.cards[jd],
               new.cards[kd][i] = new.cards[jd][j]
        PROVE  kd = jd /\ i = j
    <3>1. CASE kd = id /\ jd = id
      BY <1>5, <2>2, <3>1 DEF Loose
    <3>2. CASE kd = id /\ jd # id
      BY <1>5, <1>7, <2>2, <3>2
    <3>3. CASE kd # id /\ jd = id
      BY <1>5, <1>7, <2>2, <3>3
    <3>4. CASE kd # id /\ jd # id
      BY <1>5, <2>2, <3>4 DEF PageOK, Distinct
    <3> QED
      BY <3>1, <3>2, <3>3, <3>4
  <2>3. ASSUME NEW s \in Sessions, NEW jd \in CardIds, NEW i \in DOMAIN new.queues[s], NEW j \in DOMAIN new.cards[jd]
        PROVE  new.queues[s][i] # new.cards[jd][j]
    <3>1. CASE jd = id
      BY <1>2, <1>5, <1>7, <3>1
    <3>2. CASE jd # id
      BY <1>2, <1>5, <3>2 DEF PageOK, Distinct
    <3> QED
      BY <3>1, <3>2
  <2> QED
    BY <2>1, <2>2, <2>3 DEF Distinct
<1>9. \A r : r \in Waiting(new) <=> r \in Waiting(page) \/ \E i \in DOMAIN due : due[i] = r
  <2>1. ASSUME NEW r \in Waiting(new) PROVE r \in Waiting(page) \/ \E i \in DOMAIN due : due[i] = r
    BY <1>2, <1>5, <2>1 DEF Waiting
  <2>2. ASSUME NEW r \in Waiting(page) PROVE r \in Waiting(new)
    BY <1>2, <1>3, <1>5, <2>2 DEF Waiting
  <2>3. ASSUME NEW i \in DOMAIN due PROVE due[i] \in Waiting(new)
    BY <1>1, <1>5, <2>3 DEF Waiting
  <2> QED
    BY <2>1, <2>2, <2>3
<1>10. Unanswered(new) /\ Heard(new)
  BY <1>2, <1>9 DEF PageOK, Unanswered, Heard, SameHistory, Loose
<1> QED
  BY <1>2, <1>6, <1>8, <1>9, <1>10 DEF PageOK, new

LEMMA CloseKeeps ==
    ASSUME NEW page \in PageType, PageOK(page), NEW id \in CardIds, page.cards[id] # <<>>
    PROVE  /\ Close(page, id) \in PageType /\ PageOK(Close(page, id))
           /\ SameHistory(page, Close(page, id))
           /\ Loose(Close(page, id), page.cards[id])
           /\ Close(page, id).cards[id] = <<>>
           /\ \A r : r \in Waiting(page) <=> \/ r \in Waiting(Close(page, id))
                                             \/ \E i \in DOMAIN page.cards[id] : page.cards[id][i] = r
<1> DEFINE new == Close(page, id)
<1> DEFINE due == page.cards[id]
<1>1. /\ new \in PageType /\ SameHistory(page, new)
      /\ new.queues = page.queues
      /\ new.cards = [page.cards EXCEPT ![id] = <<>>]
      /\ new.onPage = page.onPage \ {id}
      /\ new.slot = [page.slot EXCEPT ![Of(due[1])] = IF @ = id THEN 0 ELSE @]
  BY CloseIs
<1>2. /\ page.queues \in [Sessions -> Seq(Request)] /\ page.cards \in [CardIds -> Seq(Request)]
      /\ page.slot \in [Sessions -> 0 .. MaxCards] /\ page.onPage \in SUBSET CardIds
  BY DEF PageType
<1> HIDE DEF new
<1>3. due \in Seq(Request) /\ (\A i \in DOMAIN due : due[i] \in Request) /\ 1 \in DOMAIN due /\ Of(due[1]) \in Sessions
  BY <1>2, SequenceParts, RequestTypes
<1>4. /\ new.cards[id] = <<>> /\ DOMAIN <<>> = {}
      /\ \A jd \in CardIds : jd # id => new.cards[jd] = page.cards[jd]
  BY <1>1, <1>2
<1>5. \A jd \in CardIds : \A i \in DOMAIN new.cards[jd] : i \in DOMAIN page.cards[jd] /\ new.cards[jd][i] = page.cards[jd][i]
  BY <1>4
<1>6. Tidy(new)
  <2>1. \A jd \in new.onPage : new.cards[jd] # <<>>
    BY <1>1, <1>2, <1>4 DEF PageOK, Tidy
  <2>2. ASSUME NEW s \in Sessions, new.slot[s] # 0
        PROVE  new.cards[new.slot[s]] # <<>> /\ Of(new.cards[new.slot[s]][1]) = s
    <3>1. new.slot[s] = page.slot[s] /\ page.slot[s] # 0
      BY <1>1, <1>2, <2>2
    <3>2. page.cards[page.slot[s]] # <<>> /\ Of(page.cards[page.slot[s]][1]) = s
      BY <3>1 DEF PageOK, Tidy
    <3>3. page.slot[s] # id
      BY <1>1, <1>2, <2>2, <3>1, <3>2
    <3>4. page.slot[s] \in CardIds
      <4>1. page.slot[s] \in 0 .. MaxCards
        BY <1>2
      <4> QED
        BY <3>1, <4>1, BoundsAssumption DEF CardIds
    <3> QED
      BY <1>4, <3>1, <3>2, <3>3, <3>4
  <2>3. \A s \in Sessions : \A i \in DOMAIN new.queues[s] : Of(new.queues[s][i]) = s
    BY <1>1 DEF PageOK, Tidy
  <2>4. \A jd \in CardIds : \A i \in DOMAIN new.cards[jd] : Of(new.cards[jd][i]) = Of(new.cards[jd][1])
    BY <1>4 DEF PageOK, Tidy
  <2> QED
    BY <2>1, <2>2, <2>3, <2>4 DEF Tidy
<1>7. Distinct(new)
  BY <1>1, <1>5 DEF PageOK, Distinct
<1>8. \A r : r \in Waiting(page) <=> r \in Waiting(new) \/ \E i \in DOMAIN due : due[i] = r
  <2>1. ASSUME NEW r \in Waiting(page) PROVE r \in Waiting(new) \/ \E i \in DOMAIN due : due[i] = r
    BY <1>1, <1>4, <2>1 DEF Waiting
  <2>2. ASSUME NEW r \in Waiting(new) PROVE r \in Waiting(page)
    BY <1>1, <1>5, <2>2 DEF Waiting
  <2>3. ASSUME NEW i \in DOMAIN due PROVE due[i] \in Waiting(page)
    BY <1>3, <2>3 DEF Waiting
  <2> QED
    BY <2>1, <2>2, <2>3
<1>9. Unanswered(new) /\ Heard(new)
  BY <1>1, <1>8 DEF PageOK, Unanswered, Heard, SameHistory
<1>10. Loose(new, due)
  <2>1. ASSUME NEW i \in DOMAIN due PROVE due[i] \notin Waiting(new)
    <3>1. \A s \in Sessions : \A j \in DOMAIN new.queues[s] : new.queues[s][j] # due[i]
      BY <1>1, <1>3 DEF PageOK, Distinct
    <3>2. \A jd \in CardIds : \A j \in DOMAIN new.cards[jd] : new.cards[jd][j] # due[i]
      BY <1>4, <1>5 DEF PageOK, Distinct
    <3> QED
      BY <3>1, <3>2 DEF Waiting
  <2>2. ASSUME NEW i \in DOMAIN due
        PROVE  due[i] \notin new.responded /\ due[i].nth <= new.handled[due[i].prompt]
    BY <1>1, <1>8 DEF PageOK, Unanswered, SameHistory
  <2>3. \A i, j \in DOMAIN due : Of(due[i]) = Of(due[j]) /\ (due[i] = due[j] => i = j)
    <3>1. \A i \in DOMAIN due : Of(due[i]) = Of(due[1])
      BY DEF PageOK, Tidy
    <3>2. \A i, j \in DOMAIN due : due[i] = due[j] => i = j
      BY DEF PageOK, Distinct
    <3> QED
      BY <3>1, <3>2
  <2> QED
    BY <1>3, <2>1, <2>2, <2>3 DEF Loose
<1> QED
  BY <1>1, <1>4, <1>6, <1>7, <1>8, <1>9, <1>10 DEF PageOK, new

\* A queue with the same requests and one more.
Adds(old, new, r) ==
    /\ new \in Seq(Request)
    /\ \A i, j \in DOMAIN new : new[i] = new[j] => i = j
    /\ \A i \in DOMAIN new : new[i] = r \/ \E j \in DOMAIN old : old[j] = new[i]
    /\ \A j \in DOMAIN old : \E i \in DOMAIN new : new[i] = old[j]
    /\ \E i \in DOMAIN new : new[i] = r

LEMMA AddsAtAnEnd ==
    ASSUME NEW old \in Seq(Request), NEW r \in Request,
           \A i, j \in DOMAIN old : old[i] = old[j] => i = j,
           \A i \in DOMAIN old : old[i] # r
    PROVE  Adds(old, <<r>> \o old, r) /\ Adds(old, Append(old, r), r)
<1>1. Len(old) \in Nat /\ DOMAIN old = 1 .. Len(old)
  OBVIOUS
<1>2. Adds(old, <<r>> \o old, r)
  <2> DEFINE new == <<r>> \o old
  <2>1. new \in Seq(Request) /\ Len(new) = Len(old) + 1
    OBVIOUS
  <2>2. DOMAIN new = 1 .. Len(old) + 1
    BY <2>1
  <2>3. new[1] = r /\ \A i \in 2 .. Len(old) + 1 : new[i] = old[i - 1]
    OBVIOUS
  <2> HIDE DEF new
  <2>4. \A i \in DOMAIN new : i = 1 \/ (i \in 2 .. Len(old) + 1 /\ i - 1 \in DOMAIN old)
    BY <1>1, <2>2
  <2>5. \A j \in DOMAIN old : j + 1 \in DOMAIN new /\ new[j + 1] = old[j]
    BY <1>1, <2>2, <2>3
  <2>6. ASSUME NEW i \in DOMAIN new, NEW j \in DOMAIN new, new[i] = new[j] PROVE i = j
    <3>1. CASE i = 1 \/ j = 1
      BY <2>3, <2>4, <2>6, <3>1
    <3>2. CASE i # 1 /\ j # 1
      <4>1. i - 1 = j - 1
        BY <2>3, <2>4, <2>6, <3>2
      <4> QED
        BY <2>4, <3>2, <4>1
    <3> QED
      BY <3>1, <3>2
  <2>7. 1 \in DOMAIN new
    BY <1>1, <2>2
  <2> QED
    BY <2>1, <2>3, <2>4, <2>5, <2>6, <2>7 DEF Adds, new
<1>3. Adds(old, Append(old, r), r)
  <2> DEFINE new == Append(old, r)
  <2>1. new \in Seq(Request) /\ Len(new) = Len(old) + 1
    OBVIOUS
  <2>2. DOMAIN new = 1 .. Len(old) + 1
    BY <2>1
  <2>3. new[Len(old) + 1] = r /\ \A i \in 1 .. Len(old) : new[i] = old[i]
    OBVIOUS
  <2> HIDE DEF new
  <2>4. \A i \in DOMAIN new : i = Len(old) + 1 \/ i \in DOMAIN old
    BY <1>1, <2>2
  <2>5. \A j \in DOMAIN old : j \in DOMAIN new /\ new[j] = old[j]
    BY <1>1, <2>2, <2>3
  <2>6. ASSUME NEW i \in DOMAIN new, NEW j \in DOMAIN new, new[i] = new[j] PROVE i = j
    BY <2>3, <2>4, <2>5, <2>6
  <2>7. Len(old) + 1 \in DOMAIN new
    BY <1>1, <2>2
  <2> QED
    BY <2>1, <2>3, <2>4, <2>5, <2>6, <2>7 DEF Adds, new
<1> QED
  BY <1>2, <1>3

\* A page with another queue for a session.
WithQueue(page, s, queue) == [page EXCEPT !.queues[s] = queue]

LEMMA WithQueueIs ==
    ASSUME NEW page \in PageType, NEW s \in Sessions, NEW queue \in Seq(Request)
    PROVE  /\ WithQueue(page, s, queue) \in PageType
           /\ SameHistory(page, WithQueue(page, s, queue))
           /\ WithQueue(page, s, queue).cards = page.cards
           /\ WithQueue(page, s, queue).onPage = page.onPage
           /\ WithQueue(page, s, queue).slot = page.slot
           /\ WithQueue(page, s, queue).queues[s] = queue
           /\ \A t \in Sessions : t # s => WithQueue(page, s, queue).queues[t] = page.queues[t]
<1> DEFINE new == WithQueue(page, s, queue)
<1>1. page.queues \in [Sessions -> Seq(Request)]
  BY DEF PageType
<1>2. new = [page EXCEPT !.queues = [page.queues EXCEPT ![s] = queue]]
  BY DEF PageType, WithQueue
<1> HIDE DEF new
<1>3. [page.queues EXCEPT ![s] = queue] \in [Sessions -> Seq(Request)]
  BY <1>1
<1>4. new \in PageType
  BY <1>2, <1>3 DEF PageType
<1>5. /\ SameHistory(page, new) /\ new.cards = page.cards /\ new.onPage = page.onPage /\ new.slot = page.slot
      /\ new.queues = [page.queues EXCEPT ![s] = queue]
  BY <1>2 DEF PageType, SameHistory
<1>6. new.queues[s] = queue /\ \A t \in Sessions : t # s => new.queues[t] = page.queues[t]
  BY <1>1, <1>5
<1> QED
  BY <1>4, <1>5, <1>6 DEF new

LEMMA QueueKeeps ==
    ASSUME NEW page \in PageType, PageOK(page), NEW s \in Sessions, NEW r, NEW queue,
           Loose(page, <<r>>), Of(r) = s, Adds(page.queues[s], queue, r)
    PROVE  /\ PageOK(WithQueue(page, s, queue))
           /\ \A q \in Request : q \in Waiting(WithQueue(page, s, queue)) <=> q \in Waiting(page) \/ q = r
<1> DEFINE new == WithQueue(page, s, queue)
<1>0. queue \in Seq(Request) /\ r \in Request
  BY DEF Adds, Loose
<1>5. /\ new \in PageType
      /\ SameHistory(page, new) /\ new.cards = page.cards /\ new.onPage = page.onPage /\ new.slot = page.slot
      /\ new.queues[s] = queue /\ \A t \in Sessions : t # s => new.queues[t] = page.queues[t]
  BY <1>0, WithQueueIs
<1> HIDE DEF new
<1>6. new.queues[s] = queue /\ \A t \in Sessions : t # s => new.queues[t] = page.queues[t]
  BY <1>5
<1>7. Tidy(new)
  <2>1. \A i \in DOMAIN queue : Of(queue[i]) = s
    BY DEF Adds, PageOK, Tidy
  <2> QED
    BY <1>5, <1>6, <2>1 DEF PageOK, Tidy
<1>8. \A jd \in CardIds : \A j \in DOMAIN page.cards[jd] : page.cards[jd][j] # r
  <2>1. r \notin Waiting(page)
    <3>1. 1 \in DOMAIN <<r>> /\ <<r>>[1] = r
      OBVIOUS
    <3> QED
      BY <3>1 DEF Loose
  <2> QED
    BY <2>1, WaitingIs
<1>9. Distinct(new)
  <2>1. \A t \in Sessions : \A i, j \in DOMAIN new.queues[t] : new.queues[t][i] = new.queues[t][j] => i = j
    BY <1>6 DEF PageOK, Distinct, Adds
  <2>2. \A kd, jd \in CardIds : \A i \in DOMAIN new.cards[kd], j \in DOMAIN new.cards[jd] :
           new.cards[kd][i] = new.cards[jd][j] => kd = jd /\ i = j
    BY <1>5 DEF PageOK, Distinct
  <2>3. ASSUME NEW t \in Sessions, NEW jd \in CardIds, NEW i \in DOMAIN new.queues[t], NEW j \in DOMAIN new.cards[jd]
        PROVE  new.queues[t][i] # new.cards[jd][j]
    <3>1. CASE t = s
      <4>1. queue[i] = r \/ \E k \in DOMAIN page.queues[s] : page.queues[s][k] = queue[i]
        BY <1>6, <2>3, <3>1 DEF Adds
      <4> QED
        BY <1>5, <1>6, <1>8, <3>1, <4>1 DEF PageOK, Distinct
    <3>2. CASE t # s
      BY <1>5, <1>6, <3>2 DEF PageOK, Distinct
    <3> QED
      BY <3>1, <3>2
  <2> QED
    BY <2>1, <2>2, <2>3 DEF Distinct
<1>10. \A q : q \in Waiting(new) <=> q \in Waiting(page) \/ q = r
  <2>1. ASSUME NEW q \in Waiting(new) PROVE q \in Waiting(page) \/ q = r
    BY <1>5, <1>6, <2>1 DEF Waiting, Adds
  <2>2. ASSUME NEW q \in Waiting(page) PROVE q \in Waiting(new)
    <3>1. CASE \E t \in Sessions : \E i \in DOMAIN page.queues[t] : page.queues[t][i] = q
      <4>0. PICK t \in Sessions : \E i \in DOMAIN page.queues[t] : page.queues[t][i] = q
        BY <3>1
      <4>1. PICK i \in DOMAIN page.queues[t] : page.queues[t][i] = q
        BY <4>0
      <4>2. q \in Request
        BY <2>2 DEF Waiting
      <4>3. CASE t = s
        <5>1. PICK k \in DOMAIN queue : queue[k] = page.queues[s][i]
          BY <4>1, <4>3 DEF Adds
        <5>2. k \in DOMAIN new.queues[s] /\ new.queues[s][k] = q
          BY <1>6, <4>1, <4>3, <5>1
        <5> QED
          BY <4>2, <5>2 DEF Waiting
      <4>4. CASE t # s
        BY <1>6, <4>1, <4>2, <4>4 DEF Waiting
      <4> QED
        BY <4>3, <4>4
    <3>2. CASE \E id \in CardIds : \E i \in DOMAIN page.cards[id] : page.cards[id][i] = q
      BY <1>5, <2>2, <3>2 DEF Waiting
    <3> QED
      BY <2>2, <3>1, <3>2 DEF Waiting
  <2>3. r \in Waiting(new)
    BY <1>0, <1>6 DEF Waiting, Adds
  <2> QED
    BY <2>1, <2>2, <2>3
<1>11. Unanswered(new) /\ Heard(new)
  <2>1. r \notin page.responded /\ r.nth <= page.handled[r.prompt]
    <3>1. 1 \in DOMAIN <<r>> /\ <<r>>[1] = r
      OBVIOUS
    <3> QED
      BY <3>1 DEF Loose
  <2> QED
    BY <1>5, <1>10, <2>1 DEF PageOK, Unanswered, Heard, SameHistory
<1> QED
  BY <1>7, <1>9, <1>10, <1>11 DEF PageOK, new

LEMMA RespondKeeps ==
    ASSUME NEW page \in PageType, PageOK(page), NEW r, Loose(page, <<r>>)
    PROVE  /\ Respond(page, r) \in PageType /\ PageOK(Respond(page, r))
           /\ Waiting(Respond(page, r)) = Waiting(page)
           /\ \A due : Loose(page, due) /\ (\A i \in DOMAIN due : due[i] # r) => Loose(Respond(page, r), due)
<1>1. r \in Request /\ r \notin page.responded /\ r \notin Waiting(page) /\ r.nth <= page.handled[r.prompt]
  <2>1. 1 \in DOMAIN <<r>> /\ <<r>>[1] = r
    OBVIOUS
  <2> QED
    BY <2>1, LooseIs DEF Loose
<1> DEFINE new == Respond(page, r)
<1>2. /\ new \in PageType
      /\ new.queues = page.queues /\ new.cards = page.cards
      /\ new.onPage = page.onPage /\ new.slot = page.slot
      /\ new.handled = page.handled
      /\ new.responded = page.responded \cup {r}
      /\ new.twice = page.twice
      /\ \/ /\ new.answered = page.answered \cup {r.prompt}
            /\ new.unsent = page.unsent
         \/ /\ new.answered = page.answered
            /\ new.unsent = page.unsent \cup {r.prompt}
  BY <1>1, RespondIs
<1> HIDE DEF new
<1>3. Waiting(new) = Waiting(page)
  BY <1>2 DEF Waiting
<1>4. Tidy(new) /\ Distinct(new)
  BY <1>2 DEF PageOK, Tidy, Distinct
<1>5. Unanswered(new)
  BY <1>1, <1>2, <1>3 DEF PageOK, Unanswered
<1>6. Heard(new)
  BY <1>1, <1>2 DEF PageOK, Heard
<1>7. ASSUME NEW due, Loose(page, due), \A i \in DOMAIN due : due[i] # r PROVE Loose(new, due)
  BY <1>2, <1>3, <1>7 DEF Loose
<1> QED
  BY <1>2, <1>3, <1>4, <1>5, <1>6, <1>7 DEF PageOK, new

LEMMA HideKeeps ==
    ASSUME NEW page \in PageType, PageOK(page)
    PROVE  LET new == [page EXCEPT !.onPage = {}]
           IN  /\ new \in PageType /\ PageOK(new) /\ SameHistory(page, new)
               /\ new.queues = page.queues /\ new.cards = page.cards /\ new.slot = page.slot
               /\ new.onPage = {} /\ Waiting(new) = Waiting(page)
<1> DEFINE new == [page EXCEPT !.onPage = {}]
<1>1. /\ new \in PageType /\ SameHistory(page, new)
      /\ new.queues = page.queues /\ new.cards = page.cards /\ new.slot = page.slot /\ new.onPage = {}
  BY DEF PageType, SameHistory
<1> HIDE DEF new
<1>2. Waiting(new) = Waiting(page)
  BY <1>1 DEF Waiting
<1>3. PageOK(new)
  BY <1>1, <1>2 DEF PageOK, Tidy, Distinct, Unanswered, Heard, SameHistory
<1> QED
  BY <1>1, <1>2, <1>3 DEF new

LEMMA HandleKeeps ==
    ASSUME NEW page \in PageType, PageOK(page), NEW p \in Prompts, page.handled = handled
    PROVE  /\ Handle(page, p) \in PageType /\ PageOK(Handle(page, p))
           /\ Loose(Handle(page, p), <<NewRequest(p)>>)
           /\ Of(NewRequest(p)) = Asker[p]
           /\ Handle(page, p).queues = page.queues /\ Handle(page, p).cards = page.cards
           /\ Handle(page, p).slot = page.slot /\ Handle(page, p).onPage = page.onPage
           /\ Handle(page, p).handled = [page.handled EXCEPT ![p] = @ + 1]
           /\ Handle(page, p).responded = page.responded /\ Handle(page, p).unsent = page.unsent
           /\ Handle(page, p).answered = page.answered
           /\ Waiting(Handle(page, p)) = Waiting(page)
<1> DEFINE new == Handle(page, p)
<1> DEFINE r == NewRequest(p)
<1>1. handled \in [Prompts -> Nat]
  BY DEF PageType
<1>2. /\ new \in PageType
      /\ new.queues = page.queues /\ new.cards = page.cards
      /\ new.slot = page.slot /\ new.onPage = page.onPage
      /\ new.handled = [page.handled EXCEPT ![p] = @ + 1]
      /\ new.responded = page.responded /\ new.unsent = page.unsent /\ new.twice = page.twice
      /\ new.answered = page.answered
  <2>1. new = [page EXCEPT !.handled = [page.handled EXCEPT ![p] = @ + 1]]
    BY DEF Handle, PageType
  <2>2. [page.handled EXCEPT ![p] = @ + 1] \in [Prompts -> Nat]
    BY <1>1
  <2> HIDE DEF new
  <2> QED
    BY <2>1, <2>2 DEF PageType
<1> HIDE DEF new
<1>3. Waiting(new) = Waiting(page)
  BY <1>2 DEF Waiting
<1>4. r \in Request /\ r.prompt = p /\ r.nth = handled[p] + 1
  BY <1>1 DEF NewRequest, Request
<1>5. \A q \in Request : new.handled[q.prompt] \in Nat /\ page.handled[q.prompt] <= new.handled[q.prompt]
  BY <1>1, <1>2, RequestTypes
<1>6. page.responded \in SUBSET Request /\ Waiting(page) \in SUBSET Request
  BY DEF PageType, Waiting
<1>7. r \notin Waiting(page) /\ r \notin page.responded
  BY <1>1, <1>4 DEF PageOK, Unanswered
<1>8. Unanswered(new)
  <2>1. ASSUME NEW q \in Request, q.nth <= page.handled[q.prompt] PROVE q.nth <= new.handled[q.prompt]
    BY <1>1, <1>5, <2>1, RequestTypes
  <2> QED
    BY <1>2, <1>3, <1>6, <2>1 DEF PageOK, Unanswered
<1>9. Tidy(new) /\ Distinct(new) /\ Heard(new)
  BY <1>2 DEF PageOK, Tidy, Distinct, Heard
<1>10. Loose(new, <<r>>)
  <2>1. <<r>> \in Seq(Request) /\ DOMAIN <<r>> = {1} /\ <<r>>[1] = r
    BY <1>4
  <2>2. r.nth <= new.handled[r.prompt]
    BY <1>1, <1>2, <1>4
  <2> QED
    BY <1>2, <1>3, <1>7, <2>1, <2>2 DEF Loose
<1> QED
  BY <1>2, <1>3, <1>4, <1>8, <1>9, <1>10 DEF PageOK, Of, new

-----------------------------------------------------------------------------
(* What the operations leave alone                                           *)

First(p) == [prompt |-> p, nth |-> 1]

\* An operation on the page that concerns session t only.
Elsewhere(page, new, t) ==
    /\ \A q \in Prompts : Asker[q] # t => new.handled[q] = page.handled[q]
    /\ page.responded \subseteq new.responded
    /\ \A s \in Sessions : s # t => new.queues[s] = page.queues[s] /\ new.slot[s] = page.slot[s]
    /\ \A id \in CardIds :
          \/ page.cards[id] # <<>> /\ Of(page.cards[id][1]) # t
          \/ new.cards[id] # <<>> /\ Of(new.cards[id][1]) # t
          => new.cards[id] = page.cards[id] /\ (id \in page.onPage => id \in new.onPage)

LEMMA ElsewhereTwice ==
    ASSUME NEW page, NEW mid, NEW new, NEW t, Elsewhere(page, mid, t), Elsewhere(mid, new, t)
    PROVE  Elsewhere(page, new, t)
<1>1. \A q \in Prompts : Asker[q] # t => new.handled[q] = page.handled[q]
  BY DEF Elsewhere
<1>2. page.responded \subseteq new.responded
  BY DEF Elsewhere
<1>3. \A s \in Sessions : s # t => new.queues[s] = page.queues[s] /\ new.slot[s] = page.slot[s]
  BY DEF Elsewhere
<1>4. ASSUME NEW id \in CardIds,
             \/ page.cards[id] # <<>> /\ Of(page.cards[id][1]) # t
             \/ new.cards[id] # <<>> /\ Of(new.cards[id][1]) # t
      PROVE  new.cards[id] = page.cards[id] /\ (id \in page.onPage => id \in new.onPage)
  BY <1>4 DEF Elsewhere
<1> QED
  BY <1>1, <1>2, <1>3, <1>4 DEF Elsewhere

LEMMA ShowElsewhere ==
    ASSUME NEW page \in PageType, NEW due \in Seq(Request), due # <<>>,
           \E i \in CardIds : page.cards[i] = <<>>
    PROVE  Elsewhere(page, Show(page, due), Of(due[1]))
<1> DEFINE new == Show(page, due)
<1>2. /\ SameHistory(page, new) /\ new.queues = page.queues
      /\ \E id \in CardIds :
            /\ page.cards[id] = <<>>
            /\ new.cards = [page.cards EXCEPT ![id] = due]
            /\ new.onPage = page.onPage \cup {id}
            /\ new.slot = [page.slot EXCEPT ![Of(due[1])] = id]
  BY ShowIs
<1> HIDE DEF new
<1>3. PICK id \in CardIds :
            /\ page.cards[id] = <<>>
            /\ new.cards = [page.cards EXCEPT ![id] = due]
            /\ new.onPage = page.onPage \cup {id}
            /\ new.slot = [page.slot EXCEPT ![Of(due[1])] = id]
  BY <1>2
<1>4. page.cards \in [CardIds -> Seq(Request)] /\ page.slot \in [Sessions -> 0 .. MaxCards]
  BY DEF PageType
<1>5. new.cards[id] = due /\ \A jd \in CardIds : jd # id => new.cards[jd] = page.cards[jd]
  BY <1>3, <1>4
<1>6. \A s \in Sessions : s # Of(due[1]) => new.slot[s] = page.slot[s]
  BY <1>3, <1>4
<1> QED
  BY <1>2, <1>3, <1>5, <1>6 DEF Elsewhere, SameHistory, new

LEMMA CloseElsewhere ==
    ASSUME NEW page \in PageType, NEW id \in CardIds, page.cards[id] # <<>>
    PROVE  Elsewhere(page, Close(page, id), Of(page.cards[id][1]))
<1> DEFINE new == Close(page, id)
<1> DEFINE t == Of(page.cards[id][1])
<1>1. /\ SameHistory(page, new) /\ new.queues = page.queues
      /\ new.cards = [page.cards EXCEPT ![id] = <<>>]
      /\ new.onPage = page.onPage \ {id}
      /\ new.slot = [page.slot EXCEPT ![t] = IF @ = id THEN 0 ELSE @]
  BY CloseIs
<1>2. page.cards \in [CardIds -> Seq(Request)] /\ page.slot \in [Sessions -> 0 .. MaxCards]
  BY DEF PageType
<1>0. t = Of(page.cards[id][1])
  OBVIOUS
<1> HIDE DEF new, t
<1>3. new.cards[id] = <<>> /\ \A jd \in CardIds : jd # id => new.cards[jd] = page.cards[jd]
  BY <1>1, <1>2
<1>4. \A s \in Sessions : s # t => new.slot[s] = page.slot[s]
  BY <1>1, <1>2
<1>5. Elsewhere(page, new, t)
  BY <1>0, <1>1, <1>3, <1>4 DEF Elsewhere, SameHistory
<1> QED
  BY <1>5 DEF new, t

LEMMA RespondElsewhere ==
    ASSUME NEW page \in PageType, NEW r \in Request, NEW t
    PROVE  Elsewhere(page, Respond(page, r), t)
BY RespondIs DEF Elsewhere

LEMMA QueueElsewhere ==
    ASSUME NEW page \in PageType, NEW t \in Sessions, NEW queue \in Seq(Request)
    PROVE  Elsewhere(page, WithQueue(page, t, queue), t)
BY WithQueueIs DEF Elsewhere, SameHistory

-----------------------------------------------------------------------------
(* Prompts that are alone in their session                                   *)

\* A prompt that still waits, in a session whose other prompts are done with.
Sole(page, p) ==
    /\ page.handled[p] = 1 /\ First(p) \notin page.responded /\ First(p) \in Waiting(page)
    /\ \A q \in Prompts : Asker[q] = Asker[p] =>
          page.handled[q] <= 1 /\ (q # p /\ page.handled[q] = 1 => First(q) \in page.responded)

NoCard(page, p) == \A id \in CardIds : page.cards[id] # <<>> => page.cards[id][1].prompt # p

Kept(page, s, p) == First(p) \in page.responded \/ (Sole(page, p) /\ LoneCards(page, s, p))

LEMMA SoleMeans ==
    ASSUME NEW page \in PageType, PageOK(page), NEW p \in Prompts, Sole(page, p),
           NEW r \in Waiting(page), Of(r) = Asker[p]
    PROVE  r = First(p)
<1>1. r \in Request /\ r.prompt \in Prompts /\ r.nth \in Nat \ {0} /\ Asker[r.prompt] = Asker[p]
  BY RequestTypes DEF Waiting, Of
<1>2. page.handled[r.prompt] \in Nat /\ r.nth <= page.handled[r.prompt] /\ r \notin page.responded
  BY <1>1 DEF PageOK, Unanswered, PageType
<1>3. page.handled[r.prompt] <= 1
  BY <1>1 DEF Sole
<1>4. r.nth = 1 /\ page.handled[r.prompt] = 1
  BY <1>1, <1>2, <1>3
<1>5. r = First(r.prompt)
  BY <1>1, <1>4 DEF Request, First
<1> QED
  BY <1>1, <1>2, <1>4, <1>5 DEF Sole

LEMMA FirstIs ==
    ASSUME NEW p \in Prompts
    PROVE  First(p) \in Request /\ First(p).prompt = p /\ First(p).nth = 1 /\ Of(First(p)) = Asker[p]
BY DEF First, Request, Of

LEMMA SoleElsewhere ==
    ASSUME NEW page \in PageType, PageOK(page), NEW new, NEW p \in Prompts, NEW t,
           Elsewhere(page, new, t), Asker[p] # t, Sole(page, p)
    PROVE  /\ First(p) \in new.responded \/ Sole(new, p)
           /\ NoCard(page, p) => NoCard(new, p)
           /\ \A s : LoneCards(page, s, p) => LoneCards(new, s, p)
<1>1. /\ page.queues \in [Sessions -> Seq(Request)] /\ page.cards \in [CardIds -> Seq(Request)]
      /\ Asker[p] \in Sessions
  BY PromptsAssumption DEF PageType
<1>2. First(p) \in Waiting(new)
  <2>1. CASE \E s \in Sessions : \E i \in DOMAIN page.queues[s] : page.queues[s][i] = First(p)
    <3>1. PICK s \in Sessions : \E i \in DOMAIN page.queues[s] : page.queues[s][i] = First(p)
      BY <2>1
    <3>2. s = Asker[p]
      BY <3>1, FirstIs DEF PageOK, Tidy
    <3>3. new.queues[s] = page.queues[s]
      BY <3>2 DEF Elsewhere
    <3> QED
      BY <3>1, <3>3, FirstIs DEF Waiting
  <2>2. CASE \E id \in CardIds : \E i \in DOMAIN page.cards[id] : page.cards[id][i] = First(p)
    <3>1. PICK id \in CardIds : \E i \in DOMAIN page.cards[id] : page.cards[id][i] = First(p)
      BY <2>2
    <3>2. page.cards[id] # <<>> /\ Of(page.cards[id][1]) = Asker[p]
      BY <3>1, FirstIs DEF PageOK, Tidy
    <3>3. new.cards[id] = page.cards[id]
      BY <3>2 DEF Elsewhere
    <3> QED
      BY <3>1, <3>3, FirstIs DEF Waiting
  <2> QED
    BY <2>1, <2>2 DEF Sole, Waiting
<1>3. First(p) \in new.responded \/ Sole(new, p)
  BY <1>2 DEF Elsewhere, Sole
<1>4. ASSUME NEW id \in CardIds, new.cards[id] # <<>>, new.cards[id][1].prompt = p
      PROVE  new.cards[id] = page.cards[id] /\ (id \in page.onPage => id \in new.onPage)
  BY <1>4 DEF Elsewhere, Of
<1>5. NoCard(page, p) => NoCard(new, p)
  BY <1>4 DEF NoCard
<1>6. \A s : LoneCards(page, s, p) => LoneCards(new, s, p)
  BY <1>1, <1>4 DEF LoneCards, Elsewhere
<1> QED
  BY <1>3, <1>5, <1>6

-----------------------------------------------------------------------------
(* A queue that is taken or cancelled                                        *)

LEMMA QueueIs ==
    ASSUME NEW page \in PageType, PageOK(page), NEW s \in Sessions
    PROVE  /\ page.queues[s] \in Seq(Request)
           /\ \A i, j \in DOMAIN page.queues[s] : page.queues[s][i] = page.queues[s][j] => i = j
           /\ \A i \in DOMAIN page.queues[s] :
                 /\ page.queues[s][i] \in Request /\ Of(page.queues[s][i]) = s
                 /\ page.queues[s][i] \in Waiting(page) /\ page.queues[s][i] \notin page.responded
                 /\ page.queues[s][i].nth <= page.handled[page.queues[s][i].prompt]
<1>1. page.queues \in [Sessions -> Seq(Request)]
  BY DEF PageType
<1>2. \A i \in DOMAIN page.queues[s] : page.queues[s][i] \in Waiting(page)
  BY WaitingIs
<1> QED
  BY <1>1, <1>2 DEF PageOK, Tidy, Distinct, Unanswered

LEMMA TakeQueueKeeps ==
    ASSUME NEW page \in PageType, PageOK(page), NEW s \in Sessions
    PROVE  LET new == WithQueue(page, s, <<>>)
           IN  /\ new \in PageType /\ PageOK(new) /\ SameHistory(page, new)
               /\ Loose(new, page.queues[s])
               /\ new.cards = page.cards /\ new.onPage = page.onPage /\ new.slot = page.slot
               /\ \A r \in Waiting(page) : r \in Waiting(new) \/ \E i \in DOMAIN page.queues[s] : page.queues[s][i] = r
<1> DEFINE new == WithQueue(page, s, <<>>)
<1>1. page.queues \in [Sessions -> Seq(Request)] /\ <<>> \in Seq(Request) /\ DOMAIN <<>> = {}
  BY DEF PageType
<1>2. /\ SameHistory(page, new) /\ new.cards = page.cards /\ new.onPage = page.onPage /\ new.slot = page.slot
      /\ new.queues = [page.queues EXCEPT ![s] = <<>>]
  BY DEF PageType, SameHistory, WithQueue
<1>3. new \in PageType
  <2>1. [page.queues EXCEPT ![s] = <<>>] \in [Sessions -> Seq(Request)]
    BY <1>1
  <2>2. new = [page EXCEPT !.queues = [page.queues EXCEPT ![s] = <<>>]]
    BY DEF PageType, WithQueue
  <2> HIDE DEF new
  <2> QED
    BY <2>1, <2>2 DEF PageType
<1> HIDE DEF new
<1>4. new.queues[s] = <<>> /\ \A t \in Sessions : t # s => new.queues[t] = page.queues[t]
  BY <1>1, <1>2
<1>5. \A r \in Waiting(new) : r \in Waiting(page)
  BY <1>1, <1>2, <1>4 DEF Waiting
<1>6. \A r \in Waiting(page) : r \in Waiting(new) \/ \E i \in DOMAIN page.queues[s] : page.queues[s][i] = r
  BY <1>2, <1>4 DEF Waiting
<1>7. Tidy(new)
  BY <1>1, <1>2, <1>4 DEF PageOK, Tidy
<1>8. Distinct(new)
  BY <1>1, <1>2, <1>4 DEF PageOK, Distinct
<1>9. Unanswered(new) /\ Heard(new)
  BY <1>2, <1>5 DEF PageOK, Unanswered, Heard, SameHistory
<1>10. Loose(new, page.queues[s])
  <2>1. ASSUME NEW i \in DOMAIN page.queues[s] PROVE page.queues[s][i] \notin Waiting(new)
    <3>1. Of(page.queues[s][i]) = s
      BY QueueIs
    <3>2. \A t \in Sessions : \A j \in DOMAIN new.queues[t] : new.queues[t][j] # page.queues[s][i]
      BY <1>1, <1>4, <3>1 DEF PageOK, Tidy
    <3>3. \A id \in CardIds : \A j \in DOMAIN new.cards[id] : new.cards[id][j] # page.queues[s][i]
      BY <1>2 DEF PageOK, Distinct
    <3> QED
      BY <3>2, <3>3 DEF Waiting
  <2> QED
    BY <1>2, <2>1, QueueIs DEF Loose, SameHistory
<1> QED
  BY <1>2, <1>3, <1>6, <1>7, <1>8, <1>9, <1>10 DEF PageOK, new

LEMMA CancelQueueKeeps ==
    ASSUME NEW page \in PageType, PageOK(page), NEW s \in Sessions
    PROVE  LET new == CancelQueue(page, s)
           IN  /\ new \in PageType /\ PageOK(new) /\ Elsewhere(page, new, s)
               /\ new.handled = page.handled
               /\ new.cards = page.cards /\ new.slot = page.slot /\ new.onPage = page.onPage
               /\ \A i \in DOMAIN page.queues[s] : page.queues[s][i] \in new.responded
               /\ \A r \in Waiting(page) : r \in Waiting(new) \/ r \in new.responded
<1> DEFINE queue == page.queues[s]
<1> DEFINE At(places) == {queue[i] : i \in places}
<1> DEFINE Again == {i \in DOMAIN queue : queue[i] \in page.responded \/ \E j \in 1 .. i - 1 : queue[j] = queue[i]}
<1> DEFINE Late == {i \in DOMAIN queue :
                    \/ ~Arrives(page, queue[i].prompt)
                    \/ \E j \in 1 .. i - 1 : queue[j].prompt = queue[i].prompt}
<1> DEFINE told == {request.prompt : request \in At(DOMAIN queue \ Late)}
<1> DEFINE lost == {request.prompt : request \in At(Late)}
<1> DEFINE new == CancelQueue(page, s)
<1> DEFINE taken == WithQueue(page, s, <<>>)
<1>1. /\ queue \in Seq(Request)
      /\ \A i, j \in DOMAIN queue : queue[i] = queue[j] => i = j
      /\ \A i \in DOMAIN queue : queue[i] \in Request /\ queue[i] \notin page.responded
                                 /\ queue[i].nth <= page.handled[queue[i].prompt]
  BY QueueIs
<1>2. At(Again) = {}
  <2>1. ASSUME NEW i \in DOMAIN queue, NEW j \in 1 .. i - 1 PROVE queue[j] # queue[i]
    <3>1. Len(queue) \in Nat /\ DOMAIN queue = 1 .. Len(queue)
      BY <1>1
    <3>2. j \in DOMAIN queue /\ j # i
      BY <3>1
    <3> QED
      BY <1>1, <3>2
  <2> QED
    BY <1>1, <2>1
<1>3. new = [page EXCEPT !.queues[s] = <<>>,
                         !.responded = page.responded \cup At(DOMAIN queue),
                         !.twice = page.twice \cup At(Again),
                         !.answered = page.answered \cup told,
                         !.unsent = page.unsent \cup lost]
  BY DEF CancelQueue, PageType
<1>4. At(DOMAIN queue) \in SUBSET Request /\ Late \in SUBSET DOMAIN queue
  BY <1>1
<1>5. told \in SUBSET Prompts /\ lost \in SUBSET Prompts
  <2>1. \A i \in DOMAIN queue : queue[i].prompt \in Prompts
    BY <1>1, RequestTypes
  <2> QED
    BY <1>4, <2>1
<1>6. \A r \in At(DOMAIN queue) : r.prompt \in told \/ r.prompt \in lost
  OBVIOUS
<1>7. \A p \in told : \E r \in At(DOMAIN queue) : r.prompt = p
  BY <1>4
<1>8. \A r : r \in At(DOMAIN queue) <=> \E i \in DOMAIN queue : queue[i] = r
  OBVIOUS
<1>9. /\ taken \in PageType /\ PageOK(taken) /\ SameHistory(page, taken)
      /\ Loose(taken, queue)
      /\ taken.cards = page.cards /\ taken.onPage = page.onPage /\ taken.slot = page.slot
      /\ \A r \in Waiting(page) : r \in Waiting(taken) \/ \E i \in DOMAIN queue : queue[i] = r
      /\ Elsewhere(page, taken, s)
  <2>1. <<>> \in Seq(Request)
    OBVIOUS
  <2> QED
    BY TakeQueueKeeps, QueueElsewhere, <1>1, <2>1
<1> DEFINE all == At(DOMAIN queue)
<1>10. new = [taken EXCEPT !.responded = page.responded \cup all,
                           !.answered = page.answered \cup told, !.unsent = page.unsent \cup lost]
  <2>1. page.twice \cup At(Again) = page.twice
    BY <1>2
  <2> HIDE DEF all, told, lost, At, Again
  <2> QED
    BY <1>3, <2>1 DEF PageType, WithQueue, all
<1> HIDE DEF new, taken, told, lost, all, At, Again, Late
<1>11. /\ new.queues = taken.queues /\ new.cards = taken.cards /\ new.onPage = taken.onPage /\ new.slot = taken.slot
       /\ new.handled = page.handled /\ new.twice = page.twice
       /\ new.responded = page.responded \cup all
       /\ new.answered = page.answered \cup told /\ new.unsent = page.unsent \cup lost
  BY <1>9, <1>10 DEF PageType, SameHistory
<1>12. new \in PageType
  <2>1. /\ page.responded \cup all \in SUBSET Request
        /\ page.answered \cup told \in SUBSET Prompts /\ page.unsent \cup lost \in SUBSET Prompts
    BY <1>4, <1>5 DEF all, PageType
  <2> QED
    BY <1>9, <1>10, <2>1 DEF PageType
<1>13. Waiting(new) = Waiting(taken)
  BY <1>11 DEF Waiting
<1>14. Tidy(new) /\ Distinct(new)
  BY <1>9, <1>11 DEF PageOK, Tidy, Distinct
<1>15. Unanswered(new)
  <2>1. ASSUME NEW r \in Waiting(new) PROVE r.nth <= new.handled[r.prompt] /\ r \notin new.responded
    <3>1. r \notin all
      BY <1>8, <1>9, <1>13 DEF Loose, all
    <3> QED
      BY <1>9, <1>11, <1>13, <3>1 DEF PageOK, Unanswered, SameHistory
  <2>2. \A r \in new.responded : r.nth <= new.handled[r.prompt]
    BY <1>1, <1>8, <1>11 DEF PageOK, Unanswered, all
  <2> QED
    BY <1>11, <2>1, <2>2 DEF PageOK, Unanswered
<1>16. Heard(new)
  BY <1>6, <1>7, <1>11 DEF PageOK, Heard, all
<1>17. Elsewhere(page, new, s)
  BY <1>9, <1>11 DEF Elsewhere
<1> QED
  BY <1>8, <1>9, <1>11, <1>12, <1>13, <1>14, <1>15, <1>16, <1>17 DEF PageOK, new, all

-----------------------------------------------------------------------------
(* The stretches of code that end a wait                                     *)

LEMMA ContinueKeeps ==
    ASSUME NEW page \in PageType, PageOK(page), NEW due, Loose(page, due), NEW t,
           due # <<>> => Of(due[1]) = t,
           \E i \in CardIds : page.cards[i] = <<>>
    PROVE  /\ Continue(page, due) \in PageType /\ PageOK(Continue(page, due))
           /\ SameHistory(page, Continue(page, due))
           /\ Elsewhere(page, Continue(page, due), t)
           /\ Continue(page, due).queues = page.queues
           /\ \A r : r \in Waiting(Continue(page, due)) <=> r \in Waiting(page) \/ \E i \in DOMAIN due : due[i] = r
<1>1. CASE due = <<>>
  <2>1. Continue(page, due) = page /\ DOMAIN due = {}
    BY <1>1 DEF Continue
  <2> QED
    BY <2>1 DEF SameHistory, Elsewhere
<1>2. CASE due # <<>>
  <2>1. Continue(page, due) = Show(page, due) /\ due \in Seq(Request)
    BY <1>2 DEF Continue, Loose
  <2> QED
    BY <1>2, <2>1, ShowKeeps, ShowElsewhere, ShowIs
<1> QED
  BY <1>1, <1>2

LEMMA AnsweredKeeps ==
    ASSUME NEW page \in PageType, PageOK(page), NEW id \in CardIds, page.cards[id] # <<>>
    PROVE  /\ Answered(page, id) \in PageType /\ PageOK(Answered(page, id))
           /\ Answered(page, id).handled = page.handled
           /\ Elsewhere(page, Answered(page, id), Of(page.cards[id][1]))
           /\ page.cards[id][1] \in Answered(page, id).responded
<1> DEFINE due == page.cards[id]
<1> DEFINE r == due[1]
<1> DEFINE t == Of(r)
<1> DEFINE closed == Close(page, id)
<1> DEFINE after == Respond(closed, r)
<1> DEFINE new == Answered(page, id)
<1>1. /\ closed \in PageType /\ PageOK(closed) /\ SameHistory(page, closed)
      /\ Loose(closed, due) /\ closed.cards[id] = <<>>
      /\ Elsewhere(page, closed, t)
  BY CloseKeeps, CloseElsewhere
<1>2. due \in Seq(Request) /\ r \in Request /\ Head(due) = r
  BY SequenceParts DEF PageType
<1>3. /\ Loose(closed, Tail(due)) /\ Loose(closed, <<r>>)
      /\ \A i \in DOMAIN Tail(due) : Tail(due)[i] # r /\ Of(Tail(due)[i]) = t
      /\ Tail(due) \in Seq(Request)
  BY <1>1, <1>2, LooseTail, SequenceParts
<1>4. /\ after \in PageType /\ PageOK(after) /\ Loose(after, Tail(due))
      /\ after.handled = page.handled
      /\ after.cards[id] = <<>>
      /\ r \in after.responded
  <2> HIDE DEF closed, due, r, t
  <2>1. after.handled = closed.handled /\ after.cards = closed.cards /\ after.responded = closed.responded \cup {r}
    BY <1>1, <1>2, RespondIs
  <2>2. /\ after \in PageType /\ PageOK(after)
        /\ \A rest : Loose(closed, rest) /\ (\A i \in DOMAIN rest : rest[i] # r) => Loose(after, rest)
    BY <1>1, <1>3, RespondKeeps
  <2>3. Loose(after, Tail(due))
    BY <1>3, <2>2
  <2> QED
    BY <1>1, <2>1, <2>2, <2>3 DEF SameHistory
<1>5. Elsewhere(page, after, t)
  BY <1>1, <1>2, RespondElsewhere, ElsewhereTwice
<1>6. Tail(due) # <<>> => Of(Tail(due)[1]) = t
  BY <1>3, SequenceParts
<1>7. new = IF Arrives(page, r.prompt) THEN Continue(after, Tail(due)) ELSE after
  BY <1>2 DEF Answered
<1>8. /\ Continue(after, Tail(due)) \in PageType /\ PageOK(Continue(after, Tail(due)))
      /\ SameHistory(after, Continue(after, Tail(due)))
      /\ Elsewhere(after, Continue(after, Tail(due)), t)
  <2> HIDE DEF after, due, t
  <2> QED
    BY <1>4, <1>6, ContinueKeeps
<1> HIDE DEF closed, after, due, r, t
<1>9. Elsewhere(page, Continue(after, Tail(due)), t)
  BY <1>5, <1>8, ElsewhereTwice
<1> QED
  BY <1>4, <1>5, <1>7, <1>8, <1>9 DEF SameHistory, due, r, t

\* Pages are the same when their parts are.
LEMMA SamePage ==
    ASSUME NEW a \in PageType, NEW b \in PageType, SameHistory(a, b),
           a.queues = b.queues, a.slot = b.slot, a.cards = b.cards, a.onPage = b.onPage
    PROVE  a = b
<1>1. \A page \in PageType :
         page = [queues |-> page.queues, slot |-> page.slot, cards |-> page.cards, onPage |-> page.onPage,
                 handled |-> page.handled, responded |-> page.responded, twice |-> page.twice,
                 unsent |-> page.unsent, answered |-> page.answered]
  BY DEF PageType
<1> QED
  BY <1>1 DEF SameHistory

LEMMA SlotIs ==
    ASSUME NEW page \in PageType, PageOK(page), NEW s \in Sessions, page.slot[s] # 0
    PROVE  page.slot[s] \in CardIds /\ page.cards[page.slot[s]] # <<>> /\ Of(page.cards[page.slot[s]][1]) = s
<1>1. page.slot[s] \in 0 .. MaxCards
  BY DEF PageType
<1> QED
  BY <1>1, BoundsAssumption DEF PageOK, Tidy, CardIds

\* Putting a card first in the queue and ending its wait may change places.
LEMMA PutFirstIs ==
    ASSUME NEW page \in PageType, PageOK(page), NEW s \in Sessions, page.slot[s] # 0,
           NEW id, id = page.slot[s]
    PROVE  /\ PutFirst(page, s).cards = page.cards
           /\ Close(PutFirst(page, s), id) =
                 WithQueue(Close(page, id), s, <<page.cards[id][1]>> \o Close(page, id).queues[s])
<1> DEFINE due == page.cards[id]
<1> DEFINE r == due[1]
<1> DEFINE queue == <<r>> \o page.queues[s]
<1> DEFINE put == PutFirst(page, s)
<1> DEFINE closed == Close(page, id)
<1>1. id \in CardIds /\ due # <<>> /\ due \in Seq(Request) /\ r \in Request /\ Head(due) = r /\ page.queues[s] \in Seq(Request)
  BY SlotIs, SequenceParts DEF PageType
<1>2. queue \in Seq(Request)
  BY <1>1
<1>3. put = [page EXCEPT !.queues = [page.queues EXCEPT ![s] = queue]]
  BY <1>1 DEF PutFirst, PageType
<1> HIDE DEF put, queue
<1>4. [page.queues EXCEPT ![s] = queue] \in [Sessions -> Seq(Request)]
  BY <1>2 DEF PageType
<1>5. /\ put \in PageType /\ SameHistory(page, put)
      /\ put.queues = [page.queues EXCEPT ![s] = queue]
      /\ put.cards = page.cards /\ put.onPage = page.onPage /\ put.slot = page.slot
  BY <1>3, <1>4 DEF PageType, SameHistory
<1>6. /\ Close(put, id) \in PageType /\ SameHistory(page, Close(put, id))
      /\ Close(put, id).queues = [page.queues EXCEPT ![s] = queue]
      /\ Close(put, id).cards = [page.cards EXCEPT ![id] = <<>>]
      /\ Close(put, id).onPage = page.onPage \ {id}
      /\ Close(put, id).slot = [page.slot EXCEPT ![Of(r)] = IF @ = id THEN 0 ELSE @]
  <2>1. put.cards[id] # <<>> /\ put.cards[id][1] = r
    BY <1>1, <1>5
  <2>2. id \in CardIds /\ put \in PageType
    BY <1>1, <1>5
  <2>3. SameHistory(put, Close(put, id))
    BY <2>1, <2>2, CloseIs, Zenon
  <2>4. /\ Close(put, id) \in PageType
        /\ Close(put, id).queues = put.queues
        /\ Close(put, id).cards = [put.cards EXCEPT ![id] = <<>>]
        /\ Close(put, id).onPage = put.onPage \ {id}
        /\ Close(put, id).slot = [put.slot EXCEPT ![Of(put.cards[id][1])] = IF @ = id THEN 0 ELSE @]
    BY <2>1, <2>2, CloseIs, Zenon
  <2> QED
    BY <1>5, <2>1, <2>3, <2>4 DEF SameHistory
<1>7. /\ closed \in PageType /\ SameHistory(page, closed)
      /\ closed.queues = page.queues
      /\ closed.cards = [page.cards EXCEPT ![id] = <<>>]
      /\ closed.onPage = page.onPage \ {id}
      /\ closed.slot = [page.slot EXCEPT ![Of(r)] = IF @ = id THEN 0 ELSE @]
  BY <1>1, CloseIs
<1> HIDE DEF closed
<1> DEFINE other == [closed EXCEPT !.queues = [page.queues EXCEPT ![s] = queue]]
<1>8. /\ other \in PageType /\ SameHistory(Close(put, id), other)
      /\ other.queues = [page.queues EXCEPT ![s] = queue]
      /\ other.cards = closed.cards /\ other.onPage = closed.onPage /\ other.slot = closed.slot
  BY <1>4, <1>6, <1>7 DEF PageType, SameHistory
<1>9. Close(put, id) = other
  <2> HIDE DEF other
  <2> QED
    BY <1>6, <1>7, <1>8, SamePage
<1>10. other = WithQueue(closed, s, queue)
  BY <1>7 DEF PageType, WithQueue
<1>11. queue = <<r>> \o closed.queues[s]
  BY <1>7 DEF queue
<1> QED
  BY <1>5, <1>9, <1>10, <1>11 DEF put, closed

LEMMA RequeuedKeeps ==
    ASSUME NEW page \in PageType, PageOK(page), NEW s \in Sessions, page.slot[s] # 0
    PROVE  LET new == Requeued(page, s)
               r == page.cards[page.slot[s]][1]
           IN  /\ new \in PageType /\ PageOK(new) /\ SameHistory(page, new)
               /\ Elsewhere(page, new, s)
               /\ r \in Waiting(page) /\ Of(r) = s
               /\ \E i \in DOMAIN new.queues[s] : new.queues[s][i] = r
<1> DEFINE id == page.slot[s]
<1> DEFINE due == page.cards[id]
<1> DEFINE r == due[1]
<1> DEFINE closed == Close(page, id)
<1> DEFINE mid == Close(PutFirst(page, s), id)
<1> DEFINE new == Requeued(page, s)
<1> DEFINE queue == <<r>> \o closed.queues[s]
<1>1. /\ id \in CardIds /\ due # <<>> /\ due \in Seq(Request) /\ r \in Request /\ Of(r) = s
      /\ 1 \in DOMAIN due /\ r \in Waiting(page)
  BY SlotIs, SequenceParts, WaitingIs DEF PageType
<1>2. /\ closed \in PageType /\ PageOK(closed) /\ SameHistory(page, closed)
      /\ Loose(closed, due) /\ closed.cards[id] = <<>>
      /\ Elsewhere(page, closed, s)
  BY <1>1, CloseKeeps, CloseElsewhere
<1>3. mid = WithQueue(closed, s, queue) /\ PutFirst(page, s).cards = page.cards
  BY PutFirstIs
<1>4. new = Continue(mid, Tail(due))
  BY <1>3 DEF Requeued
<1> HIDE DEF closed, mid, new, due, r, id, queue
<1>5. /\ Loose(closed, Tail(due)) /\ Loose(closed, <<r>>)
      /\ \A i \in DOMAIN Tail(due) : Tail(due)[i] # r /\ Of(Tail(due)[i]) = s
      /\ Tail(due) \in Seq(Request)
  BY <1>1, <1>2, LooseTail, SequenceParts DEF r
<1>6. closed.queues[s] \in Seq(Request) /\ \A i \in DOMAIN closed.queues[s] : closed.queues[s][i] # r
  <2>1. 1 \in DOMAIN <<r>> /\ <<r>>[1] = r
    OBVIOUS
  <2> QED
    BY <1>2, <1>5, <2>1, QueueIs, LooseIs
<1>7. Adds(closed.queues[s], queue, r)
  BY <1>1, <1>2, <1>6, QueueIs, AddsAtAnEnd DEF queue
<1>8. /\ mid \in PageType /\ SameHistory(closed, mid)
      /\ mid.cards = closed.cards /\ mid.queues[s] = queue
  BY <1>1, <1>2, <1>3, <1>7, WithQueueIs DEF Adds
<1>15. PageOK(mid) /\ \A q \in Request : q \in Waiting(mid) <=> q \in Waiting(closed) \/ q = r
  BY <1>1, <1>2, <1>3, <1>5, <1>7, QueueKeeps
<1>9. Elsewhere(page, mid, s)
  BY <1>1, <1>2, <1>3, <1>7, QueueElsewhere, ElsewhereTwice DEF Adds
<1>10. \E i \in DOMAIN mid.queues[s] : mid.queues[s][i] = r
  BY <1>7, <1>8 DEF Adds
<1>11. Loose(mid, Tail(due))
  BY <1>5, <1>8, <1>15, LooseIs DEF Loose, SameHistory
<1>12. Tail(due) # <<>> => Of(Tail(due)[1]) = s
  BY <1>5, SequenceParts
<1>13. /\ new \in PageType /\ PageOK(new) /\ SameHistory(mid, new)
       /\ Elsewhere(mid, new, s) /\ new.queues = mid.queues
  <2>1. \E i \in CardIds : mid.cards[i] = <<>>
    BY <1>1, <1>2, <1>8
  <2> QED
    BY <1>4, <1>8, <1>15, <1>11, <1>12, <2>1, ContinueKeeps
<1>14. SameHistory(page, new) /\ Elsewhere(page, new, s)
  BY <1>2, <1>8, <1>9, <1>13, ElsewhereTwice DEF SameHistory
<1> QED
  BY <1>1, <1>10, <1>13, <1>14 DEF new, r, due, id

\* A lone prompt that waits in a queue has no card.
LEMMA QueuedMeans ==
    ASSUME NEW page \in PageType, PageOK(page), NEW p \in Prompts, Sole(page, p), NEW s \in Sessions,
           \E i \in DOMAIN page.queues[s] : page.queues[s][i] = First(p)
    PROVE  NoCard(page, p)
<1>1. SUFFICES ASSUME NEW id \in CardIds, page.cards[id] # <<>>, page.cards[id][1].prompt = p PROVE FALSE
  BY DEF NoCard
<1>2. 1 \in DOMAIN page.cards[id]
  BY <1>1, SequenceParts DEF PageType
<1>3. page.cards[id][1] \in Waiting(page) /\ Of(page.cards[id][1]) = Asker[p]
  BY <1>1, <1>2, WaitingIs DEF Of
<1>4. page.cards[id][1] = First(p)
  BY <1>3, SoleMeans
<1> QED
  BY <1>2, <1>4 DEF PageOK, Distinct

LEMMA PutBackKeeps ==
    ASSUME NEW page \in PageType, PageOK(page), NEW s \in Sessions
    PROVE  LET new == PutBack(page, s)
           IN  /\ new \in PageType /\ PageOK(new) /\ SameHistory(page, new)
               /\ \A p \in Prompts :
                     Sole(page, p) /\ ((Asker[p] = s /\ page.slot[s] # 0) \/ NoCard(page, p))
                        => Sole(new, p) /\ NoCard(new, p)
<1>1. CASE page.slot[s] = 0
  BY <1>1 DEF PutBack, SameHistory
<1>2. CASE page.slot[s] # 0
  <2> DEFINE new == Requeued(page, s)
  <2> DEFINE r == page.cards[page.slot[s]][1]
  <2>1. /\ new \in PageType /\ PageOK(new) /\ SameHistory(page, new)
        /\ Elsewhere(page, new, s)
        /\ r \in Waiting(page) /\ Of(r) = s
        /\ \E i \in DOMAIN new.queues[s] : new.queues[s][i] = r
    BY <1>2, RequeuedKeeps
  <2>2. PutBack(page, s) = new
    BY <1>2 DEF PutBack
  <2> HIDE DEF new, r
  <2>3. ASSUME NEW p \in Prompts, Sole(page, p), Asker[p] = s PROVE Sole(new, p) /\ NoCard(new, p)
    <3>1. r = First(p)
      BY <2>1, <2>3, SoleMeans
    <3>2. First(p) \in Waiting(new)
      BY <2>1, <3>1, WaitingIs
    <3>3. Sole(new, p)
      BY <2>1, <2>3, <3>2 DEF Sole, SameHistory
    <3> QED
      BY <2>1, <3>1, <3>3, QueuedMeans
  <2>4. ASSUME NEW p \in Prompts, Sole(page, p), Asker[p] # s, NoCard(page, p) PROVE Sole(new, p) /\ NoCard(new, p)
    <3>1. First(p) \notin new.responded
      BY <2>1, <2>4 DEF Sole, SameHistory
    <3> QED
      BY <2>1, <2>4, <3>1, SoleElsewhere
  <2> QED
    BY <2>1, <2>2, <2>3, <2>4
<1> QED
  BY <1>1, <1>2

LEMMA NoCardMeans ==
    ASSUME NEW page, NEW p \in Prompts, NoCard(page, p)
    PROVE  \A s : LoneCards(page, s, p)
BY DEF NoCard, LoneCards

-----------------------------------------------------------------------------
(* Lone prompts through each stretch of code                                 *)

LEMMA KeptElsewhere ==
    ASSUME NEW page \in PageType, PageOK(page), NEW new, NEW t, Elsewhere(page, new, t),
           NEW p \in Prompts, Asker[p] # t, NEW s, Kept(page, s, p)
    PROVE  Kept(new, s, p)
<1>1. CASE First(p) \in page.responded
  BY <1>1 DEF Elsewhere, Kept
<1>2. CASE Sole(page, p) /\ LoneCards(page, s, p)
  BY <1>2, SoleElsewhere DEF Kept
<1> QED
  BY <1>1, <1>2 DEF Kept

LEMMA AnsweredKept ==
    ASSUME NEW page \in PageType, PageOK(page), NEW id \in CardIds, page.cards[id] # <<>>,
           NEW p \in Prompts, NEW s, Kept(page, s, p)
    PROVE  Kept(Answered(page, id), s, p)
<1> DEFINE new == Answered(page, id)
<1> DEFINE r == page.cards[id][1]
<1>1. Elsewhere(page, new, Of(r)) /\ r \in new.responded
  BY AnsweredKeeps
<1>2. r \in Waiting(page)
  BY SequenceParts, WaitingIs DEF PageType
<1> HIDE DEF new, r
<1>3. CASE Asker[p] = Of(r) /\ Sole(page, p)
  <2>1. r = First(p)
    BY <1>2, <1>3, SoleMeans
  <2> QED
    BY <1>1, <2>1 DEF Kept, new
<1>4. CASE Asker[p] # Of(r)
  BY <1>1, <1>4, KeptElsewhere DEF new
<1>5. CASE First(p) \in page.responded
  BY <1>1, <1>5 DEF Elsewhere, Kept, new
<1> QED
  BY <1>3, <1>4, <1>5 DEF Kept

LEMMA CancelQueueKept ==
    ASSUME NEW page \in PageType, PageOK(page), NEW t \in Sessions,
           NEW p \in Prompts, NEW s, Kept(page, s, p)
    PROVE  Kept(CancelQueue(page, t), s, p)
<1> DEFINE new == CancelQueue(page, t)
<1>1. /\ Elsewhere(page, new, t) /\ new.handled = page.handled
      /\ new.cards = page.cards /\ new.slot = page.slot /\ new.onPage = page.onPage
      /\ \A r \in Waiting(page) : r \in Waiting(new) \/ r \in new.responded
  BY CancelQueueKeeps
<1> HIDE DEF new
<1>2. CASE First(p) \in page.responded
  BY <1>1, <1>2 DEF Elsewhere, Kept, new
<1>3. CASE Sole(page, p) /\ LoneCards(page, s, p)
  <2>1. First(p) \in new.responded \/ Sole(new, p)
    BY <1>1, <1>3 DEF Sole, Elsewhere
  <2>2. LoneCards(new, s, p)
    BY <1>1, <1>3 DEF LoneCards
  <2> QED
    BY <2>1, <2>2 DEF Kept, new
<1> QED
  BY <1>2, <1>3 DEF Kept

\* The card of a lone prompt that is shown is the only one of it.
LEMMA ShownMeans ==
    ASSUME NEW page \in PageType, PageOK(page), NEW due, Loose(page, due), due # <<>>,
           \E i \in CardIds : page.cards[i] = <<>>,
           NEW p \in Prompts, due[1] = First(p), Sole(Show(page, due), p)
    PROVE  LoneCards(Show(page, due), Asker[p], p)
<1> DEFINE new == Show(page, due)
<1>1. due \in Seq(Request) /\ 1 \in DOMAIN due /\ Of(due[1]) = Asker[p] /\ Asker[p] \in Sessions
  BY SequenceParts, FirstIs, PromptsAssumption DEF Loose
<1>2. new \in PageType /\ PageOK(new)
  BY ShowKeeps
<1>3. \E id \in CardIds :
            /\ page.cards[id] = <<>>
            /\ new.cards = [page.cards EXCEPT ![id] = due]
            /\ new.onPage = page.onPage \cup {id}
            /\ new.slot = [page.slot EXCEPT ![Of(due[1])] = id]
  BY <1>1, ShowIs
<1> HIDE DEF new
<1>4. PICK id \in CardIds :
            /\ page.cards[id] = <<>>
            /\ new.cards = [page.cards EXCEPT ![id] = due]
            /\ new.onPage = page.onPage \cup {id}
            /\ new.slot = [page.slot EXCEPT ![Of(due[1])] = id]
  BY <1>3
<1>5. new.cards[id] = due /\ id \in new.onPage /\ new.slot[Asker[p]] = id
  BY <1>1, <1>4 DEF PageType
<1>6. ASSUME NEW jd \in CardIds, new.cards[jd] # <<>>, new.cards[jd][1].prompt = p PROVE jd = id
  <2>1. 1 \in DOMAIN new.cards[jd]
    BY <1>2, <1>6, SequenceParts DEF PageType
  <2>2. new.cards[jd][1] \in Waiting(new) /\ Of(new.cards[jd][1]) = Asker[p]
    BY <1>2, <1>6, <2>1, WaitingIs DEF Of
  <2>3. new.cards[jd][1] = First(p)
    BY <1>2, <2>2, SoleMeans DEF new
  <2> QED
    BY <1>1, <1>2, <1>5, <2>1, <2>3 DEF PageOK, Distinct
<1>7. LoneCards(new, Asker[p], p)
  BY <1>5, <1>6 DEF LoneCards
<1> QED
  BY <1>7 DEF new

LEMMA FlushedKept ==
    ASSUME NEW page \in PageType, PageOK(page), NEW s \in Sessions,
           page.queues[s] # <<>> => \E i \in CardIds : page.cards[i] = <<>>
    PROVE  LET new == Continue(WithQueue(page, s, <<>>), page.queues[s])
           IN  /\ new \in PageType /\ PageOK(new) /\ SameHistory(page, new)
               /\ \A p \in Prompts : Kept(page, s, p) => Kept(new, s, p)
<1> DEFINE taken == WithQueue(page, s, <<>>)
<1> DEFINE queue == page.queues[s]
<1> DEFINE new == Continue(taken, queue)
<1>0. <<>> \in Seq(Request)
  OBVIOUS
<1>1. /\ taken \in PageType /\ PageOK(taken) /\ SameHistory(page, taken)
      /\ Loose(taken, queue) /\ Elsewhere(page, taken, s)
      /\ taken.cards = page.cards /\ taken.onPage = page.onPage /\ taken.slot = page.slot
      /\ \A r \in Waiting(page) : r \in Waiting(taken) \/ \E i \in DOMAIN queue : queue[i] = r
  BY <1>0, TakeQueueKeeps, QueueElsewhere
<1>2. CASE queue = <<>>
  <2>1. new = taken /\ DOMAIN queue = {}
    BY <1>2 DEF Continue
  <2> HIDE DEF new, taken
  <2>2. ASSUME NEW p \in Prompts, Kept(page, s, p) PROVE Kept(taken, s, p)
    BY <1>1, <2>1, <2>2 DEF Kept, Sole, LoneCards, SameHistory
  <2> QED
    BY <1>1, <2>1, <2>2 DEF new, taken
<1>3. CASE queue # <<>>
  <2>1. new = Show(taken, queue)
    BY <1>3 DEF Continue
  <2>2. queue \in Seq(Request) /\ 1 \in DOMAIN queue /\ Of(queue[1]) = s /\ queue[1] \in Waiting(page)
    BY <1>3, QueueIs, SequenceParts
  <2> HIDE DEF new, taken, queue
  <2>3. \E i \in CardIds : taken.cards[i] = <<>>
    BY <1>1, <1>3 DEF queue
  <2>4. /\ new \in PageType /\ PageOK(new) /\ SameHistory(taken, new)
        /\ \A r : r \in Waiting(new) <=> r \in Waiting(taken) \/ \E i \in DOMAIN queue : queue[i] = r
    BY <1>1, <1>3, <2>1, <2>3, ShowKeeps
  <2>5. Elsewhere(page, new, s)
    BY <1>1, <1>3, <2>1, <2>2, <2>3, ShowElsewhere, ElsewhereTwice
  <2>6. ASSUME NEW p \in Prompts, Kept(page, s, p) PROVE Kept(new, s, p)
    <3>1. CASE Asker[p] = s /\ Sole(page, p)
      <4>1. queue[1] = First(p)
        BY <2>2, <3>1, SoleMeans
      <4>2. Sole(new, p)
        BY <1>1, <2>4, <3>1 DEF Sole, SameHistory
      <4> QED
        BY <1>1, <1>3, <2>1, <2>3, <3>1, <4>1, <4>2, ShownMeans DEF Kept
    <3>2. CASE Asker[p] # s
      BY <2>5, <2>6, <3>2, KeptElsewhere
    <3>3. CASE First(p) \in page.responded
      BY <2>5, <3>3 DEF Elsewhere, Kept
    <3> QED
      BY <2>6, <3>1, <3>2, <3>3 DEF Kept
  <2> QED
    BY <1>1, <2>4, <2>6 DEF SameHistory, new, taken, queue
<1> QED
  BY <1>2, <1>3

\* The history is rendered, or another session comes to the foreground.
LEMMA PutBackKept ==
    ASSUME NEW page \in PageType, PageOK(page), NEW s \in Sessions, NEW p \in Prompts, Kept(page, s, p)
    PROVE  First(p) \in PutBack(page, s).responded
           \/ (Sole(PutBack(page, s), p) /\ NoCard(PutBack(page, s), p))
<1>1. CASE First(p) \in page.responded
  <2>1. SameHistory(page, PutBack(page, s))
    BY PutBackKeeps
  <2> QED
    BY <1>1, <2>1 DEF SameHistory
<1>2. CASE Sole(page, p) /\ LoneCards(page, s, p)
  <2>1. CASE Asker[p] = s /\ page.slot[s] # 0
    BY <1>2, <2>1, PutBackKeeps
  <2>2. CASE ~(Asker[p] = s /\ page.slot[s] # 0)
    <3>1. 0 \notin CardIds
      BY DEF CardIds
    <3>2. NoCard(page, p)
      BY <1>2, <2>2, <3>1 DEF LoneCards, NoCard
    <3> QED
      BY <1>2, <3>2, PutBackKeeps
  <2> QED
    BY <2>1, <2>2
<1> QED
  BY <1>1, <1>2 DEF Kept

LEMMA RenderedKeeps ==
    ASSUME NEW page \in PageType, PageOK(page), foreground \in Sessions
    PROVE  /\ Rendered(page) \in PageType /\ PageOK(Rendered(page)) /\ SameHistory(page, Rendered(page))
           /\ \A p \in Prompts : Kept(page, foreground, p) => Kept(Rendered(page), foreground, p)
<1> DEFINE hidden == [page EXCEPT !.onPage = {}]
<1>1. /\ hidden \in PageType /\ PageOK(hidden) /\ SameHistory(page, hidden)
      /\ hidden.queues = page.queues /\ hidden.cards = page.cards /\ hidden.slot = page.slot
      /\ Waiting(hidden) = Waiting(page)
  BY HideKeeps
<1>2. Rendered(page) = PutBack(hidden, foreground)
  BY DEF Rendered, PutBack
<1> HIDE DEF hidden
<1>3. /\ Rendered(page) \in PageType /\ PageOK(Rendered(page)) /\ SameHistory(hidden, Rendered(page))
  BY <1>1, <1>2, PutBackKeeps
<1>4. ASSUME NEW p \in Prompts, Kept(page, foreground, p) PROVE Kept(Rendered(page), foreground, p)
  <2>1. CASE First(p) \in page.responded
    BY <1>1, <1>3, <2>1 DEF SameHistory, Kept
  <2>2. CASE Sole(page, p) /\ LoneCards(page, foreground, p)
    <3>1. Sole(hidden, p)
      BY <1>1, <2>2 DEF Sole, SameHistory
    <3>2. (Asker[p] = foreground /\ hidden.slot[foreground] # 0) \/ NoCard(hidden, p)
      <4>1. 0 \notin CardIds
        BY DEF CardIds
      <4> QED
        BY <1>1, <2>2, <4>1 DEF LoneCards, NoCard
    <3>3. Sole(Rendered(page), p) /\ NoCard(Rendered(page), p)
      BY <1>1, <1>2, <3>1, <3>2, PutBackKeeps
    <3> QED
      BY <3>3, NoCardMeans DEF Kept
  <2> QED
    BY <1>4, <2>1, <2>2 DEF Kept
<1> QED
  BY <1>1, <1>3, <1>4 DEF SameHistory

-----------------------------------------------------------------------------
(* The inductive invariant                                                   *)

LoneOnes == \A p \in Prompts : Lone(p) /\ handled[p] # 0 => Kept(Page, foreground, p)

PromptsInvariant == TypeOK /\ PageOK(Page) /\ Asking /\ LoneOnes

LEMMA PageIs ==
    ASSUME TypeOK
    PROVE  /\ Page \in PageType
           /\ Page.queues = queues /\ Page.slot = slot /\ Page.cards = cards /\ Page.onPage = onPage
           /\ Page.handled = handled /\ Page.responded = responded /\ Page.twice = twice
           /\ Page.unsent = unsent /\ Page.answered = {}
           /\ queues \in [Sessions -> Seq(Request)] /\ slot \in [Sessions -> 0 .. MaxCards]
           /\ cards \in [CardIds -> Seq(Request)] /\ onPage \in SUBSET CardIds
           /\ handled \in [Prompts -> Nat] /\ responded \in SUBSET Request
           /\ twice \in SUBSET Request /\ unsent \in SUBSET Prompts
<1>1. Page \in PageType
  BY DEF TypeOK
<1>2. /\ Page.queues = queues /\ Page.slot = slot /\ Page.cards = cards /\ Page.onPage = onPage
      /\ Page.handled = handled /\ Page.responded = responded /\ Page.twice = twice
      /\ Page.unsent = unsent /\ Page.answered = {}
  BY DEF Page
<1> QED
  BY <1>1, <1>2 DEF PageType

LEMMA KeptOnlyBy ==
    ASSUME NEW page, NEW new, NEW s, NEW p \in Prompts, Kept(page, s, p),
           new.queues = page.queues, new.slot = page.slot, new.cards = page.cards, new.onPage = page.onPage,
           new.handled = page.handled, new.responded = page.responded
    PROVE  Kept(new, s, p)
BY DEF Kept, Sole, LoneCards, Waiting

LEMMA OrderOnlyBy ==
    ASSUME NEW page, NEW new, PageOK(page),
           new.queues = page.queues, new.slot = page.slot, new.cards = page.cards, new.onPage = page.onPage,
           new.handled = page.handled, new.responded = page.responded, new.twice = page.twice
    PROVE  Tidy(new) /\ Distinct(new) /\ Unanswered(new)
<1>1. Waiting(new) = Waiting(page)
  BY DEF Waiting
<1>2. Unanswered(new)
  BY <1>1 DEF PageOK, Unanswered
<1>3. Tidy(new)
  BY DEF PageOK, Tidy
<1>4. Distinct(new)
  BY DEF PageOK, Distinct
<1> QED
  BY <1>2, <1>3, <1>4

\* A step that leaves a page in order, and what the host did at the same time.
LEMMA BecomesKeeps ==
    ASSUME TypeOK, Asking,
           NEW page \in PageType, PageOK(page), Becomes(page),
           responded \subseteq page.responded,
           \A p \in Prompts : page.handled[p] >= 1 => pi[p] # "idle",
           \A i \in DOMAIN link'.wire : pi[link'.wire[i]] # "idle",
           link' \in LinkType,
           app' \in AppType,
           foreground' \in Sessions, together' = together,
           \A p \in Prompts :
              /\ p \notin together
              /\ \A q \in Prompts : Asker[q] = Asker[p] => page.handled[q] <= 1
              /\ page.handled[p] # 0
              => Kept(page, foreground', p)
    PROVE  PromptsInvariant'
<1>1. /\ Page'.queues = page.queues /\ Page'.slot = page.slot /\ Page'.cards = page.cards
      /\ Page'.onPage = page.onPage /\ Page'.handled = page.handled /\ Page'.responded = page.responded
      /\ Page'.twice = page.twice /\ Page'.unsent = page.unsent /\ Page'.answered = {}
  BY DEF Page, Becomes
<1>2. Page' \in PageType
  <2>1. Page' = [queues |-> page.queues, slot |-> page.slot, cards |-> page.cards, onPage |-> page.onPage,
                 handled |-> page.handled, responded |-> page.responded, twice |-> page.twice,
                 unsent |-> page.unsent, answered |-> {}]
    BY DEF Page, Becomes
  <2> QED
    BY <2>1 DEF PageType
<1>3. /\ pi \in [Prompts -> {"idle", "open", "answered"}]
      /\ pi' = [p \in Prompts |-> IF p \in page.answered THEN "answered" ELSE pi[p]]
  BY DEF TypeOK, Becomes
<1>4. \A p \in Prompts : /\ pi'[p] \in {"idle", "open", "answered"}
                         /\ pi[p] # "idle" => pi'[p] # "idle"
                         /\ pi'[p] = "open" => pi[p] = "open"
                         /\ p \in page.answered => pi'[p] = "answered"
                         /\ pi[p] = "answered" => pi'[p] = "answered"
                         /\ pi'[p] = "answered" => p \in page.answered \/ pi[p] = "answered"
  BY <1>3
<1>5. TypeOK'
  <2>1. pi' \in [Prompts -> {"idle", "open", "answered"}]
    BY <1>3, <1>4
  <2>2. together' \in SUBSET Prompts
    BY DEF TypeOK
  <2> QED
    BY <1>2, <2>1, <2>2 DEF TypeOK
<1>6. PageOK(Page)'
  <2>1. Tidy(Page') /\ Distinct(Page') /\ Unanswered(Page')
    BY <1>1, OrderOnlyBy
  <2>4. \A r \in Page'.responded : r.prompt \in Page'.unsent \/ pi'[r.prompt] = "answered"
    <3>1. \A r \in page.responded : r.prompt \in Prompts
      BY RequestTypes DEF PageType
    <3> QED
      BY <1>1, <1>4, <3>1 DEF PageOK, Heard
  <2>5. Heard(Page)'
    BY <1>1, <2>4 DEF Heard
  <2> QED
    BY <2>1, <2>5 DEF PageOK, Tidy, Distinct, Unanswered, Waiting
<1>7. Asking'
  <2>1. \A p \in Prompts : handled'[p] >= 1 => pi'[p] # "idle"
    BY <1>4 DEF Becomes
  <2>2. \A i \in DOMAIN link'.wire : pi'[link'.wire[i]] # "idle"
    <3>1. link'.wire \in Seq(Prompts)
      BY DEF LinkType
    <3>2. \A i \in DOMAIN link'.wire : link'.wire[i] \in Prompts
      BY <3>1, SequenceElements
    <3> QED
      BY <1>4, <3>2
  <2>3. \A p \in Prompts : pi'[p] = "answered" => \E r \in responded' : r.prompt = p
    <3>1. responded' = page.responded
      BY DEF Becomes
    <3>2. \A p \in page.answered : \E r \in page.responded : r.prompt = p
      BY DEF PageOK, Heard
    <3>3. \A p \in Prompts : pi[p] = "answered" => \E r \in page.responded : r.prompt = p
      BY DEF Asking
    <3> QED
      BY <1>4, <3>1, <3>2, <3>3
  <2>4. \A p, q \in Prompts : p # q /\ Asker[p] = Asker[q] /\ pi'[p] = "open" /\ pi'[q] = "open" => {p, q} \subseteq together'
    <3>1. ASSUME NEW p \in Prompts, NEW q \in Prompts, p # q, Asker[p] = Asker[q], pi'[p] = "open", pi'[q] = "open"
          PROVE  {p, q} \subseteq together'
      <4>1. Open(p) /\ Open(q)
        BY <1>4, <3>1 DEF Open
      <4>2. {p, q} \subseteq together
        BY <3>1, <4>1 DEF Asking
      <4> QED
        BY <4>2
    <3> QED
      BY <3>1
  <2> QED
    BY <2>1, <2>2, <2>3, <2>4 DEF Asking, Open
<1>8. LoneOnes'
  <2>1. ASSUME NEW p \in Prompts, Lone(p)', handled'[p] # 0 PROVE Kept(Page', foreground', p)
    <3>1. Kept(page, foreground', p)
      BY <2>1 DEF Lone, Becomes
    <3> QED
      BY <1>1, <3>1, KeptOnlyBy
  <2> QED
    BY <2>1 DEF LoneOnes, Kept, Sole, LoneCards, Waiting
<1> QED
  BY <1>5, <1>6, <1>7, <1>8 DEF PromptsInvariant

\* A step that leaves the prompts and the cards alone.
LEMMA StillKeeps ==
    ASSUME PromptsInvariant, UNCHANGED <<pi, pageVars, together>>,
           \A i \in DOMAIN link'.wire : pi[link'.wire[i]] # "idle",
           link' \in LinkType,
           app' \in AppType
    PROVE  PromptsInvariant'
<1>1. TypeOK /\ PageOK(Page) /\ Asking /\ LoneOnes
  BY DEF PromptsInvariant
<1>2. Becomes(Page)
  <2>1. pi = [p \in Prompts |-> pi[p]]
    BY <1>1 DEF TypeOK
  <2>2. \A p \in Prompts : p \notin Page.answered
    BY <1>1, PageIs
  <2>3. pi' = [p \in Prompts |-> IF p \in Page.answered THEN "answered" ELSE pi[p]]
    BY <2>1, <2>2
  <2> QED
    BY <1>1, <2>3, PageIs DEF Becomes, pageVars
<1>3. foreground' \in Sessions /\ foreground' = foreground
  BY <1>1 DEF TypeOK, pageVars
<1>4. /\ \A p \in Prompts : Page.handled[p] >= 1 => pi[p] # "idle"
      /\ responded \subseteq Page.responded
  BY <1>1, PageIs DEF Asking
<1>5. \A p \in Prompts :
              /\ p \notin together
              /\ \A q \in Prompts : Asker[q] = Asker[p] => Page.handled[q] <= 1
              /\ Page.handled[p] # 0
              => Kept(Page, foreground', p)
  BY <1>1, <1>3, PageIs DEF LoneOnes, Lone
<1> QED
  BY <1>1, <1>2, <1>3, <1>4, <1>5, BecomesKeeps, PageIs

-----------------------------------------------------------------------------
(* Frames                                                                    *)

LEMMA ReplayedIs ==
    ASSUME TypeOK, NEW sessions
    PROVE  /\ Replayed(sessions) \in Seq(Prompts)
           /\ \A i \in DOMAIN Replayed(sessions) : pi[Replayed(sessions)[i]] # "idle"
<1> DEFINE S == {p \in Prompts : Open(p) /\ Asker[p] \in sessions}
<1>1. IsFiniteSet(S) /\ S \subseteq Prompts /\ \A p \in S : pi[p] # "idle"
  <2>1. S \in SUBSET Prompts
    OBVIOUS
  <2>2. IsFiniteSet(S)
    BY <2>1, FS_Subset, PromptsAssumption
  <2> QED
    BY <2>1, <2>2 DEF Open
<1>2. Replayed(sessions) = SetToSeq(S)
  BY DEF Replayed
<1> HIDE DEF S
<1>3. Cardinality(S) \in Nat /\ ExistsBijection(1 .. Cardinality(S), S)
  BY <1>1, FS_CardinalityType
<1>4. \E f \in [1 .. Cardinality(S) -> S] : IsInjective(f)
  <2>1. PICK f : f \in Bijection(1 .. Cardinality(S), S)
    BY <1>3 DEF ExistsBijection
  <2>2. f \in [1 .. Cardinality(S) -> S]
    BY <2>1 DEF Bijection, Injection, Surjection
  <2>3. \A i, j \in 1 .. Cardinality(S) : f[i] = f[j] => i = j
    BY <2>1 DEF Bijection, Injection, IsInjective
  <2>4. IsInjective(f)
    BY <2>2, <2>3 DEF IsInjective
  <2> QED
    BY <2>2, <2>4
<1>5. SetToSeq(S) \in [1 .. Cardinality(S) -> S]
  BY <1>4 DEF SetToSeq
<1>6. SetToSeq(S) \in Seq(S) /\ DOMAIN SetToSeq(S) = 1 .. Cardinality(S)
  BY <1>3, <1>5
<1>7. \A i \in DOMAIN SetToSeq(S) : SetToSeq(S)[i] \in S
  BY <1>6, SequenceElements
<1>8. SetToSeq(S) \in Seq(Prompts)
  BY <1>1, <1>6
<1> QED
  BY <1>1, <1>2, <1>7, <1>8

LEMMA LinkIs ==
    ASSUME TypeOK
    PROVE  /\ link = [up |-> link.up, subscribed |-> link.subscribed, wire |-> link.wire]
           /\ link.up \in BOOLEAN /\ link.subscribed \in SUBSET Sessions /\ link.wire \in Seq(Prompts)
BY DEF TypeOK, LinkType

\* Every step of the page's navigation keeps its shape.
LEMMA AppKeeps ==
    ASSUME TypeOK,
           \/ \E p \in Prompts : DeliverGap(p)
           \/ \E s \in Sessions : SwitchSession(s)
           \/ DiskRendered \/ DiskFails \/ BootstrapFails \/ Adopt \/ SetForegroundSession
           \/ Hydrate \/ SnapshotFails \/ FlushForegroundQueue
    PROVE  app' \in AppType
<1>1. CASE (\E p \in Prompts : DeliverGap(p)) \/ (\E s \in Sessions : SwitchSession(s))
  <2>1. \/ app' = [app EXCEPT !.asked = @ \cup {app.target}]
        \/ \E s \in Sessions : app' = [app EXCEPT !.to = s, !.at = "loading", !.disk = "reading"]
    BY <1>1 DEF DeliverGap, SwitchSession
  <2>2. CASE app' = [app EXCEPT !.asked = @ \cup {app.target}]
    <3>1. app.asked \cup {app.target} \in SUBSET Sessions
      BY DEF TypeOK, AppType
    <3> QED
      BY <2>2, <3>1 DEF TypeOK, AppType
  <2>3. CASE \E s \in Sessions : app' = [app EXCEPT !.to = s, !.at = "loading", !.disk = "reading"]
    BY <2>3 DEF TypeOK, AppType
  <2> QED
    BY <2>1, <2>2, <2>3
<1>2. CASE DiskRendered
  BY <1>2 DEF TypeOK, AppType, DiskRendered
<1>3. CASE DiskFails \/ BootstrapFails \/ SnapshotFails
  <2>1. \/ app' = [app EXCEPT !.disk = "read"]
        \/ app' = [app EXCEPT !.at = "failed"]
        \/ app' = [app EXCEPT !.at = "failed", !.flush = TRUE]
    BY <1>3 DEF DiskFails, BootstrapFails, SnapshotFails
  <2> QED
    BY <2>1 DEF TypeOK, AppType
<1>4. CASE Adopt
  BY <1>4 DEF TypeOK, AppType, Adopt
<1>5. CASE SetForegroundSession
  BY <1>5 DEF TypeOK, AppType, SetForegroundSession
<1>6. CASE Hydrate
  BY <1>6 DEF TypeOK, AppType, Hydrate
<1>7. CASE FlushForegroundQueue
  BY <1>7 DEF TypeOK, AppType, FlushForegroundQueue, FlushIs
<1> QED
  BY <1>1, <1>2, <1>3, <1>4, <1>5, <1>6, <1>7

LEMMA SubscribedKeeps ==
    ASSUME TypeOK, Asking, NEW s \in Sessions
    PROVE  Subscribed(s) \in LinkType /\ \A i \in DOMAIN Subscribed(s).wire : pi[Subscribed(s).wire[i]] # "idle"
<1> DEFINE told == Replayed({s})
<1>1. told \in Seq(Prompts) /\ \A i \in DOMAIN told : pi[told[i]] # "idle"
  BY ReplayedIs
<1> HIDE DEF told
<1>2. /\ link = [up |-> link.up, subscribed |-> link.subscribed, wire |-> link.wire]
      /\ link.up \in BOOLEAN /\ link.subscribed \in SUBSET Sessions /\ link.wire \in Seq(Prompts)
      /\ \A i \in DOMAIN link.wire : pi[link.wire[i]] # "idle"
  BY LinkIs DEF Asking
<1> DEFINE wire == link.wire
<1> DEFINE both == wire \o told
<1>3. both \in Seq(Prompts) /\ Len(both) = Len(wire) + Len(told)
  BY <1>1, <1>2
<1>4. \A i \in DOMAIN both : pi[both[i]] # "idle"
  <2>1. SUFFICES ASSUME NEW i \in DOMAIN both PROVE pi[both[i]] # "idle"
    OBVIOUS
  <2>2. i \in 1 .. Len(wire) + Len(told) /\ Len(wire) \in Nat /\ Len(told) \in Nat
    BY <1>1, <1>2, <1>3
  <2>3. CASE i <= Len(wire)
    <3>1. i \in DOMAIN wire /\ both[i] = wire[i]
      BY <1>1, <1>2, <2>2, <2>3
    <3> QED
      BY <1>2, <3>1
  <2>4. CASE i > Len(wire)
    <3>1. i - Len(wire) \in DOMAIN told /\ both[i] = told[i - Len(wire)]
      BY <1>1, <1>2, <2>2, <2>4
    <3> QED
      BY <1>1, <3>1
  <2> QED
    BY <2>2, <2>3, <2>4
<1> HIDE DEF both
<1>5. CASE s \in link.subscribed
  <2>1. Subscribed(s) = link
    BY <1>5 DEF Subscribed
  <2> QED
    BY <1>2, <2>1 DEF LinkType
<1>6. CASE s \notin link.subscribed
  <2>1. Subscribed(s) = [up |-> link.up, subscribed |-> link.subscribed \cup {s}, wire |-> IF link.up THEN both ELSE link.wire]
    BY <1>2, <1>6 DEF Subscribed, both, told
  <2>2. CASE link.up
    BY <1>2, <1>3, <1>4, <2>1, <2>2 DEF LinkType
  <2>3. CASE ~link.up
    BY <1>2, <2>1, <2>3 DEF LinkType
  <2> QED
    BY <2>2, <2>3
<1> QED
  BY <1>5, <1>6

LEMMA TakenKeeps ==
    ASSUME TypeOK, Asking, link.wire # <<>>, Taken
    PROVE  /\ link' \in LinkType /\ \A i \in DOMAIN link'.wire : pi[link'.wire[i]] # "idle"
           /\ Head(link.wire) \in Prompts /\ pi[Head(link.wire)] # "idle"
<1>1. /\ link = [up |-> link.up, subscribed |-> link.subscribed, wire |-> link.wire]
      /\ link.up \in BOOLEAN /\ link.subscribed \in SUBSET Sessions /\ link.wire \in Seq(Prompts)
      /\ \A i \in DOMAIN link.wire : pi[link.wire[i]] # "idle"
  BY LinkIs DEF Asking
<1>2. /\ 1 \in DOMAIN link.wire /\ Head(link.wire) = link.wire[1] /\ link.wire[1] \in Prompts
      /\ Tail(link.wire) \in Seq(Prompts)
      /\ \A i \in DOMAIN Tail(link.wire) : i + 1 \in DOMAIN link.wire /\ Tail(link.wire)[i] = link.wire[i + 1]
  BY <1>1, SequenceParts
<1>3. link' = [up |-> link.up, subscribed |-> link.subscribed, wire |-> Tail(link.wire)]
  BY <1>1 DEF Taken
<1> QED
  BY <1>1, <1>2, <1>3 DEF LinkType

\* A prompt is handled: the new request waits.
LEMMA DeliverKeeps ==
    ASSUME PromptsInvariant, NEW p \in Prompts, pi[p] # "idle",
           NEW new \in PageType, PageOK(new), Becomes(new), Elsewhere(Page, new, Asker[p]),
           new.handled = [handled EXCEPT ![p] = @ + 1], new.responded = responded,
           NewRequest(p) \in Waiting(new),
           Sole(new, p) => LoneCards(new, foreground, p),
           link' \in LinkType, \A i \in DOMAIN link'.wire : pi[link'.wire[i]] # "idle",
           app' = app, foreground' = foreground, together' = together
    PROVE  PromptsInvariant'
<1>1. /\ TypeOK /\ PageOK(Page) /\ Asking /\ LoneOnes /\ Page \in PageType
      /\ Page.handled = handled /\ Page.responded = responded
      /\ handled \in [Prompts -> Nat] /\ responded \in SUBSET Request
  BY PageIs DEF PromptsInvariant
<1>2. \A r \in responded : r.prompt \in Prompts /\ r.nth \in Nat \ {0} /\ r.nth <= handled[r.prompt]
  BY <1>1, RequestTypes DEF PageOK, Unanswered
<1>3. /\ \A q \in Prompts : q # p => new.handled[q] = handled[q]
      /\ new.handled[p] = handled[p] + 1
  BY <1>1
<1>4. \A q \in Prompts : pi[q] \in {"idle", "open", "answered"}
  BY <1>1 DEF TypeOK
<1>5. ASSUME NEW q \in Prompts, handled[q] = 0, pi[q] # "idle" PROVE Open(q)
  <2>1. pi[q] # "answered"
    <3>1. SUFFICES ASSUME NEW r \in responded, r.prompt = q PROVE FALSE
      BY <1>1 DEF Asking
    <3> QED
      BY <1>2, <1>5, <3>1
  <2> QED
    BY <1>4, <1>5, <2>1 DEF Open
<1>6. ASSUME NEW q \in Prompts, handled[q] = 1, First(q) \notin responded PROVE Open(q)
  <2>1. pi[q] # "answered"
    <3>1. SUFFICES ASSUME NEW r \in responded, r.prompt = q PROVE FALSE
      BY <1>1 DEF Asking
    <3>2. r.nth = 1 /\ r \in Request
      BY <1>1, <1>2, <1>6, <3>1
    <3>3. r = First(q)
      BY <3>1, <3>2 DEF Request, First
    <3> QED
      BY <1>6, <3>3
  <2>2. pi[q] # "idle"
    BY <1>1, <1>6 DEF Asking
  <2> QED
    BY <1>4, <2>1, <2>2 DEF Open
<1>7. ASSUME NEW q \in Prompts, q \notin together,
             \A o \in Prompts : Asker[o] = Asker[q] => new.handled[o] <= 1, new.handled[q] # 0
      PROVE  Kept(new, foreground, q)
  <2>1. CASE q = p
    <3>1. handled[p] = 0 /\ new.handled[p] = 1
      BY <1>1, <1>3, <1>7, <2>1
    <3>2. NewRequest(p) = First(p)
      BY <3>1 DEF NewRequest, First
    <3>3. First(p) \notin responded
      BY <1>2, <3>1, FirstIs
    <3>4. ASSUME NEW o \in Prompts, Asker[o] = Asker[p], o # p, new.handled[o] = 1
          PROVE  First(o) \in responded
      <4>1. SUFFICES ASSUME First(o) \notin responded PROVE FALSE
        OBVIOUS
      <4>2. Open(o) /\ Open(p)
        BY <1>3, <1>5, <1>6, <3>1, <3>4, <4>1
      <4>3. p \in together
        BY <1>1, <3>4, <4>2 DEF Asking
      <4> QED
        BY <1>7, <2>1, <4>3
    <3>5. Sole(new, p)
      BY <1>7, <2>1, <3>1, <3>2, <3>3, <3>4 DEF Sole
    <3> QED
      BY <2>1, <3>5 DEF Kept
  <2>2. CASE q # p /\ Asker[q] = Asker[p]
    <3>1. handled[q] = 1 /\ handled[p] = 0
      <4>1. new.handled[q] = handled[q] /\ handled[q] <= 1 /\ handled[p] + 1 <= 1
        BY <1>3, <1>7, <2>2
      <4> QED
        BY <1>1, <1>7, <4>1
    <3>2. CASE First(q) \in responded
      BY <3>2 DEF Kept
    <3>3. CASE First(q) \notin responded
      <4>1. Open(q) /\ Open(p)
        BY <1>5, <1>6, <3>1, <3>3
      <4>2. q \in together
        BY <1>1, <2>2, <4>1 DEF Asking
      <4> QED
        BY <1>7, <4>2
    <3> QED
      BY <3>2, <3>3
  <2>3. CASE Asker[q] # Asker[p]
    <3>1. \A o \in Prompts : Asker[o] = Asker[q] => new.handled[o] = handled[o]
      BY <1>3, <2>3
    <3>2. Lone(q) /\ handled[q] # 0
      BY <1>7, <3>1 DEF Lone
    <3>3. Kept(Page, foreground, q)
      BY <1>1, <3>2 DEF LoneOnes
    <3> QED
      BY <1>1, <2>3, <3>3, KeptElsewhere
  <2> QED
    BY <2>1, <2>2, <2>3
<1>8. \A q \in Prompts : new.handled[q] >= 1 => pi[q] # "idle"
  BY <1>1, <1>3 DEF Asking
<1>9. app' \in AppType /\ foreground' \in Sessions
  BY <1>1 DEF TypeOK
<1> QED
  BY <1>1, <1>7, <1>8, <1>9, BecomesKeeps

LEMMA DeliverQueuedKeeps ==
    ASSUME PromptsInvariant, NEW p \in Prompts, DeliverQueued(p)
    PROVE  PromptsInvariant'
<1> DEFINE heard == Handle(Page, p)
<1> DEFINE r == NewRequest(p)
<1> DEFINE queue == Append(heard.queues[Asker[p]], r)
<1> DEFINE new == WithQueue(heard, Asker[p], queue)
<1>1. /\ TypeOK /\ PageOK(Page) /\ Asking /\ Page \in PageType
      /\ Page.handled = handled /\ Page.responded = responded
      /\ handled \in [Prompts -> Nat]
  BY PageIs DEF PromptsInvariant
<1>2. /\ link' \in LinkType /\ \A i \in DOMAIN link'.wire : pi[link'.wire[i]] # "idle"
      /\ pi[p] # "idle"
  BY <1>1, TakenKeeps DEF DeliverQueued
<1>3. Asker[p] \in Sessions
  BY PromptsAssumption
<1>4. /\ heard \in PageType /\ PageOK(heard) /\ Loose(heard, <<r>>) /\ Of(r) = Asker[p]
      /\ heard.queues = Page.queues /\ heard.cards = Page.cards
      /\ heard.slot = Page.slot /\ heard.onPage = Page.onPage
      /\ heard.handled = [Page.handled EXCEPT ![p] = @ + 1]
      /\ heard.responded = Page.responded
  BY <1>1, HandleKeeps
<1>5. Becomes(new)
  BY DEF DeliverQueued, WithQueue
<1> HIDE DEF heard, r
<1>6. /\ r \in Request /\ heard.queues[Asker[p]] \in Seq(Request)
      /\ \A i \in DOMAIN heard.queues[Asker[p]] : heard.queues[Asker[p]][i] # r
  <2>1. 1 \in DOMAIN <<r>> /\ <<r>>[1] = r
    OBVIOUS
  <2> QED
    BY <1>3, <1>4, <2>1, LooseIs, QueueIs
<1>7. Adds(heard.queues[Asker[p]], queue, r)
  BY <1>3, <1>4, <1>6, QueueIs, AddsAtAnEnd
<1> HIDE DEF queue
<1>8. queue \in Seq(Request) /\ \E i \in DOMAIN queue : queue[i] = r
  BY <1>7 DEF Adds
<1>9. PageOK(new) /\ \A q \in Request : q \in Waiting(new) <=> q \in Waiting(heard) \/ q = r
  BY <1>3, <1>4, <1>7, QueueKeeps
<1>10. new \in PageType /\ SameHistory(heard, new) /\ new.queues[Asker[p]] = queue
  BY <1>3, <1>4, <1>8, WithQueueIs
<1>11. Elsewhere(Page, new, Asker[p])
  <2>1. Elsewhere(Page, heard, Asker[p])
    BY <1>1, <1>4 DEF Elsewhere
  <2> QED
    BY <1>3, <1>4, <1>8, <2>1, QueueElsewhere, ElsewhereTwice
<1>12. new.handled = [handled EXCEPT ![p] = @ + 1] /\ new.responded = responded
  BY <1>1, <1>4, <1>10 DEF SameHistory
<1> HIDE DEF new
<1>13. ASSUME Sole(new, p) PROVE LoneCards(new, foreground, p)
  <2>1. r = First(p)
    <3>1. new.handled[p] = 1
      BY <1>13 DEF Sole
    <3>2. handled[p] + 1 = 1
      BY <1>1, <1>12, <3>1
    <3> QED
      BY <3>2 DEF r, NewRequest, First
  <2>2. NoCard(new, p)
    BY <1>3, <1>8, <1>9, <1>10, <1>13, <2>1, QueuedMeans
  <2> QED
    BY <2>2, NoCardMeans
<1>14. r \in Waiting(new)
  BY <1>6, <1>9
<1>15. app' = app /\ foreground' = foreground /\ together' = together
  BY DEF DeliverQueued
<1> QED
  BY <1>2, <1>5, <1>9, <1>10, <1>11, <1>12, <1>13, <1>14, <1>15, DeliverKeeps DEF r, new

LEMMA DeliverShownKeeps ==
    ASSUME PromptsInvariant, NEW p \in Prompts, DeliverShown(p)
    PROVE  PromptsInvariant'
<1> DEFINE heard == Handle(Page, p)
<1> DEFINE r == NewRequest(p)
<1> DEFINE new == Show(heard, <<r>>)
<1>1. /\ TypeOK /\ PageOK(Page) /\ Asking /\ Page \in PageType
      /\ Page.handled = handled /\ Page.responded = responded /\ Page.cards = cards
      /\ handled \in [Prompts -> Nat]
  BY PageIs DEF PromptsInvariant
<1>2. /\ link' \in LinkType /\ \A i \in DOMAIN link'.wire : pi[link'.wire[i]] # "idle"
      /\ pi[p] # "idle"
  BY <1>1, TakenKeeps DEF DeliverShown
<1>3. Asker[p] = foreground /\ \E i \in CardIds : cards[i] = <<>>
  BY DEF DeliverShown, Room
<1>4. /\ heard \in PageType /\ PageOK(heard) /\ Loose(heard, <<r>>) /\ Of(r) = Asker[p]
      /\ heard.queues = Page.queues /\ heard.cards = Page.cards
      /\ heard.slot = Page.slot /\ heard.onPage = Page.onPage
      /\ heard.handled = [Page.handled EXCEPT ![p] = @ + 1]
      /\ heard.responded = Page.responded
  BY <1>1, HandleKeeps
<1>5. Becomes(new)
  BY DEF DeliverShown
<1> HIDE DEF heard, r
<1> DEFINE due == <<r>>
<1>6. due # <<>> /\ 1 \in DOMAIN due /\ due[1] = r /\ Loose(heard, due) /\ due \in Seq(Request)
  BY <1>4 DEF Loose
<1> HIDE DEF due
<1>7. new = Show(heard, due)
  BY DEF due
<1> HIDE DEF new
<1>8. \E i \in CardIds : heard.cards[i] = <<>>
  BY <1>1, <1>3, <1>4
<1>9. /\ new \in PageType /\ PageOK(new) /\ SameHistory(heard, new)
      /\ \A q : q \in Waiting(new) <=> q \in Waiting(heard) \/ \E i \in DOMAIN due : due[i] = q
  BY <1>4, <1>6, <1>7, <1>8, ShowKeeps
<1>10. r \in Waiting(new)
  BY <1>6, <1>9
<1>11. Elsewhere(Page, new, Asker[p])
  <2>1. Elsewhere(Page, heard, Asker[p])
    BY <1>1, <1>4 DEF Elsewhere
  <2> QED
    BY <1>4, <1>6, <1>7, <1>8, <2>1, ShowElsewhere, ElsewhereTwice
<1>12. new.handled = [handled EXCEPT ![p] = @ + 1] /\ new.responded = responded
  BY <1>1, <1>4, <1>9 DEF SameHistory
<1>13. ASSUME Sole(new, p) PROVE LoneCards(new, foreground, p)
  <2>1. due[1] = First(p)
    <3>1. new.handled[p] = 1
      BY <1>13 DEF Sole
    <3>2. handled[p] + 1 = 1
      BY <1>1, <1>12, <3>1
    <3> QED
      BY <1>6, <3>2 DEF r, NewRequest, First
  <2> QED
    BY <1>3, <1>4, <1>6, <1>7, <1>8, <1>13, <2>1, ShownMeans
<1>15. app' = app /\ foreground' = foreground /\ together' = together
  BY DEF DeliverShown
<1> QED
  BY <1>2, <1>5, <1>9, <1>10, <1>11, <1>12, <1>13, <1>15, DeliverKeeps DEF r, new

-----------------------------------------------------------------------------
(* The other actions                                                         *)

\* A step of the page that handles nothing new.
LEMMA OperationKeeps ==
    ASSUME PromptsInvariant, NEW page \in PageType, PageOK(page), Becomes(page),
           page.handled = handled, responded \subseteq page.responded,
           \A p \in Prompts : Kept(Page, foreground, p) => Kept(page, foreground', p),
           link' = link, app' \in AppType, foreground' \in Sessions, together' = together
    PROVE  PromptsInvariant'
<1>1. TypeOK /\ Asking /\ LoneOnes
  BY DEF PromptsInvariant
<1>2. /\ link' \in LinkType /\ \A i \in DOMAIN link'.wire : pi[link'.wire[i]] # "idle"
  BY <1>1 DEF TypeOK, Asking
<1>3. \A p \in Prompts : page.handled[p] >= 1 => pi[p] # "idle"
  BY <1>1 DEF Asking
<1>4. \A p \in Prompts :
              /\ p \notin together
              /\ \A q \in Prompts : Asker[q] = Asker[p] => page.handled[q] <= 1
              /\ page.handled[p] # 0
              => Kept(page, foreground', p)
  BY <1>1 DEF LoneOnes, Lone
<1> QED
  BY <1>1, <1>2, <1>3, <1>4, BecomesKeeps

LEMMA AskKeeps ==
    ASSUME PromptsInvariant, NEW p \in Prompts, Ask(p)
    PROVE  PromptsInvariant'
<1> DEFINE others == {q \in Prompts \ {p} : Open(q) /\ Asker[q] = Asker[p]}
<1>1. /\ TypeOK /\ PageOK(Page) /\ Asking /\ LoneOnes
      /\ pi \in [Prompts -> {"idle", "open", "answered"}]
      /\ app' \in AppType /\ foreground' \in Sessions /\ foreground' = foreground
      /\ together \in SUBSET Prompts
  BY DEF PromptsInvariant, TypeOK, Ask, pageVars
<1>2. /\ pi[p] = "idle" /\ pi' = [pi EXCEPT ![p] = "open"]
      /\ pi' \in [Prompts -> {"idle", "open", "answered"}]
      /\ pi'[p] = "open" /\ \A q \in Prompts : q # p => pi'[q] = pi[q]
  BY <1>1 DEF Ask
<1>3. Page' = Page /\ handled' = handled /\ responded' = responded
  BY DEF Ask, Page, pageVars
<1>4. together' = IF others = {} THEN together ELSE together \cup others \cup {p}
  BY DEF Ask
<1>5. together' \in SUBSET Prompts /\ together \subseteq together'
  <2>1. others \in SUBSET Prompts
    OBVIOUS
  <2> HIDE DEF others
  <2> QED
    BY <1>1, <1>4, <2>1
<1>6. /\ link' \in LinkType /\ \A i \in DOMAIN link'.wire : pi'[link'.wire[i]] # "idle"
  <2>1. /\ link = [up |-> link.up, subscribed |-> link.subscribed, wire |-> link.wire]
        /\ link.up \in BOOLEAN /\ link.subscribed \in SUBSET Sessions /\ link.wire \in Seq(Prompts)
        /\ \A i \in DOMAIN link.wire : pi'[link.wire[i]] # "idle"
    <3>1. link.wire \in Seq(Prompts) /\ \A i \in DOMAIN link.wire : link.wire[i] \in Prompts
      BY <1>1, LinkIs, SequenceElements
    <3> QED
      BY <1>1, <1>2, <3>1, LinkIs DEF Asking
  <2> DEFINE wire == Append(link.wire, p)
  <2>2. wire \in Seq(Prompts) /\ \A i \in DOMAIN wire : pi'[wire[i]] # "idle"
    <3>1. wire \in Seq(Prompts)
      BY <2>1
    <3>2. ASSUME NEW i \in DOMAIN wire PROVE wire[i] = p \/ (i \in DOMAIN link.wire /\ wire[i] = link.wire[i])
      BY <2>1, <3>2
    <3> QED
      BY <1>2, <2>1, <3>1, <3>2
  <2> HIDE DEF wire
  <2>3. CASE Subscribers(p)
    <3>1. link' = [up |-> link.up, subscribed |-> link.subscribed, wire |-> wire]
      BY <2>1, <2>3 DEF Ask, wire
    <3> QED
      BY <2>1, <2>2, <3>1 DEF LinkType
  <2>4. CASE ~Subscribers(p)
    <3>1. link' = link
      BY <2>4 DEF Ask
    <3> QED
      BY <1>1, <2>1, <3>1 DEF TypeOK
  <2> QED
    BY <2>3, <2>4
<1>7. TypeOK'
  BY <1>1, <1>2, <1>3, <1>5, <1>6 DEF TypeOK
<1>8. PageOK(Page)'
  <2>1. \A r \in Page'.responded : r.prompt \in Page'.unsent \/ r.prompt \in Page'.answered \/ pi'[r.prompt] = "answered"
    <3>1. \A r \in Page.responded : r.prompt \in Prompts
      BY <1>1, PageIs, RequestTypes
    <3>2. \A r \in Page.responded : r.prompt \in Page.unsent \/ r.prompt \in Page.answered \/ pi[r.prompt] = "answered"
      BY <1>1 DEF PageOK, Heard
    <3> QED
      BY <1>2, <1>3, <3>1, <3>2
  <2>2. Heard(Page)'
    BY <1>1, <1>3, <2>1 DEF PageOK, Heard
  <2> QED
    BY <1>1, <1>3, <2>2 DEF PageOK, Tidy, Distinct, Unanswered, Waiting
<1>9. Asking'
  <2>1. \A q \in Prompts : handled'[q] >= 1 => pi'[q] # "idle"
    BY <1>1, <1>2, <1>3 DEF Asking
  <2>2. \A q \in Prompts : pi'[q] = "answered" => \E r \in responded' : r.prompt = q
    BY <1>1, <1>2, <1>3 DEF Asking
  <2>3. ASSUME NEW q \in Prompts, NEW o \in Prompts, q # o, Asker[q] = Asker[o], pi'[q] = "open", pi'[o] = "open"
        PROVE  {q, o} \subseteq together'
    <3>1. CASE q # p /\ o # p
      <4>1. Open(q) /\ Open(o)
        BY <1>2, <2>3, <3>1 DEF Open
      <4>2. {q, o} \subseteq together
        BY <1>1, <2>3, <4>1 DEF Asking
      <4> QED
        BY <1>5, <4>2
    <3>2. CASE q = p
      <4>1. o \in others
        BY <1>2, <2>3, <3>2 DEF Open
      <4> QED
        BY <1>4, <3>2, <4>1
    <3>3. CASE o = p
      <4>1. q \in others
        BY <1>2, <2>3, <3>3 DEF Open
      <4> QED
        BY <1>4, <3>3, <4>1
    <3> QED
      BY <3>1, <3>2, <3>3
  <2> QED
    BY <1>6, <2>1, <2>2, <2>3 DEF Asking, Open
<1>10. LoneOnes'
  <2>1. ASSUME NEW q \in Prompts, Lone(q)', handled'[q] # 0 PROVE Kept(Page', foreground', q)
    <3>1. Lone(q) /\ handled[q] # 0
      BY <1>3, <1>5, <2>1 DEF Lone
    <3> QED
      BY <1>1, <1>3, <3>1 DEF LoneOnes
  <2> QED
    BY <2>1 DEF LoneOnes, Kept, Sole, LoneCards, Waiting
<1> QED
  BY <1>7, <1>8, <1>9, <1>10 DEF PromptsInvariant

LEMMA DisconnectKeeps ==
    ASSUME PromptsInvariant, Disconnect \/ Reconnect
    PROVE  PromptsInvariant'
<1>1. /\ TypeOK /\ Asking
      /\ link = [up |-> link.up, subscribed |-> link.subscribed, wire |-> link.wire]
      /\ link.up \in BOOLEAN /\ link.subscribed \in SUBSET Sessions
  BY LinkIs DEF PromptsInvariant
<1>2. PICK wire : /\ wire \in Seq(Prompts) /\ \A i \in DOMAIN wire : pi[wire[i]] # "idle"
                  /\ \E up \in BOOLEAN : link' = [up |-> up, subscribed |-> link.subscribed, wire |-> wire]
  <2>1. CASE Disconnect
    <3>1. <<>> \in Seq(Prompts) /\ DOMAIN <<>> = {}
      OBVIOUS
    <3>2. link' = [up |-> FALSE, subscribed |-> link.subscribed, wire |-> <<>>]
      BY <1>1, <2>1 DEF Disconnect
    <3> QED
      BY <3>1, <3>2
  <2>2. CASE Reconnect
    <3>1. link' = [up |-> TRUE, subscribed |-> link.subscribed, wire |-> Replayed(link.subscribed)]
      BY <1>1, <2>2 DEF Reconnect
    <3> QED
      BY <1>1, <3>1, ReplayedIs
  <2> QED
    BY <2>1, <2>2
<1>3. link' \in LinkType /\ link'.wire = wire
  BY <1>1, <1>2 DEF LinkType
<1>4. UNCHANGED <<pi, pageVars, together>> /\ app' \in AppType
  BY <1>1 DEF Disconnect, Reconnect, TypeOK
<1> QED
  BY <1>2, <1>3, <1>4, StillKeeps

LEMMA SubscribesKeeps ==
    ASSUME PromptsInvariant, NEW s \in Sessions, SidebarSubscribes(s)
    PROVE  PromptsInvariant'
<1>1. TypeOK /\ Asking
  BY DEF PromptsInvariant
<1>2. /\ link' \in LinkType /\ \A i \in DOMAIN link'.wire : pi[link'.wire[i]] # "idle"
  BY <1>1, SubscribedKeeps DEF SidebarSubscribes
<1>3. UNCHANGED <<pi, pageVars, together>> /\ app' \in AppType
  BY <1>1 DEF SidebarSubscribes, TypeOK
<1> QED
  BY <1>2, <1>3, StillKeeps

LEMMA DroppedFrameKeeps ==
    ASSUME PromptsInvariant, NEW p \in Prompts, DeliverBackground(p) \/ DeliverGap(p)
    PROVE  PromptsInvariant'
<1>1. TypeOK /\ Asking
  BY DEF PromptsInvariant
<1>2. /\ link' \in LinkType /\ \A i \in DOMAIN link'.wire : pi[link'.wire[i]] # "idle"
  BY <1>1, TakenKeeps DEF DeliverBackground, DeliverGap
<1>3. UNCHANGED <<pi, pageVars, together>>
  BY DEF DeliverBackground, DeliverGap
<1>4. app' \in AppType
  <2>1. CASE DeliverBackground(p)
    BY <1>1, <2>1 DEF DeliverBackground, TypeOK
  <2>2. CASE DeliverGap(p)
    BY <1>1, <2>2, AppKeeps
  <2> QED
    BY <2>1, <2>2
<1> QED
  BY <1>2, <1>3, <1>4, StillKeeps

\* The steps of the page's navigation that show nothing.
LEMMA NavigationKeeps ==
    ASSUME PromptsInvariant,
           \/ \E s \in Sessions : SwitchSession(s)
           \/ DiskFails \/ BootstrapFails \/ SnapshotFails \/ Adopt
    PROVE  PromptsInvariant'
<1>1. TypeOK /\ Asking
  BY DEF PromptsInvariant
<1>3. UNCHANGED <<pi, pageVars, together>>
  BY DEF SwitchSession, DiskFails, BootstrapFails, SnapshotFails, Adopt
<1>4. app' \in AppType /\ app.to \in Sessions
  BY <1>1, AppKeeps DEF TypeOK, AppType
<1>5. link' \in LinkType /\ \A i \in DOMAIN link'.wire : pi[link'.wire[i]] # "idle"
  <2>1. CASE Adopt
    BY <1>1, <1>4, <2>1, SubscribedKeeps DEF Adopt
  <2>2. CASE ~Adopt
    <3>1. link' = link
      BY <2>2 DEF SwitchSession, DiskFails, BootstrapFails, SnapshotFails
    <3> QED
      BY <1>1, <3>1 DEF TypeOK, Asking
  <2> QED
    BY <2>1, <2>2
<1> QED
  BY <1>3, <1>4, <1>5, StillKeeps

LEMMA AnswerKeeps ==
    ASSUME PromptsInvariant, NEW id \in CardIds, Answer(id)
    PROVE  PromptsInvariant'
<1>1. /\ TypeOK /\ PageOK(Page) /\ Page \in PageType
      /\ Page.handled = handled /\ Page.responded = responded
      /\ app' \in AppType /\ foreground' \in Sessions
      /\ link' = link /\ foreground' = foreground /\ together' = together
  BY PageIs DEF PromptsInvariant, TypeOK, Answer
<1>2. Page.cards[id] # <<>> /\ Becomes(Answered(Page, id))
  BY <1>1, PageIs DEF Answer, PageOK, Tidy
<1>3. /\ Answered(Page, id) \in PageType /\ PageOK(Answered(Page, id))
      /\ Answered(Page, id).handled = Page.handled
      /\ Page.responded \subseteq Answered(Page, id).responded
  BY <1>1, <1>2, AnsweredKeeps DEF Elsewhere
<1>4. \A p \in Prompts : Kept(Page, foreground, p) => Kept(Answered(Page, id), foreground', p)
  BY <1>1, <1>2, AnsweredKept
<1> QED
  BY <1>1, <1>2, <1>3, <1>4, OperationKeeps

LEMMA CancelForegroundKeeps ==
    ASSUME PromptsInvariant, CancelForeground
    PROVE  PromptsInvariant'
<1> DEFINE page == CancelQueue(Page, foreground)
<1> DEFINE id == slot[foreground]
<1>1. /\ TypeOK /\ PageOK(Page) /\ Page \in PageType
      /\ Page.handled = handled /\ Page.responded = responded /\ Page.slot = slot
      /\ app' \in AppType /\ foreground' \in Sessions /\ foreground \in Sessions
      /\ link' = link /\ foreground' = foreground /\ together' = together
  BY PageIs DEF PromptsInvariant, TypeOK, CancelForeground
<1>2. Becomes(IF id = 0 THEN page ELSE Answered(page, id))
  BY DEF CancelForeground
<1>3. /\ page \in PageType /\ PageOK(page) /\ page.handled = Page.handled
      /\ Page.responded \subseteq page.responded /\ page.slot = Page.slot
  BY <1>1, CancelQueueKeeps DEF Elsewhere
<1>4. \A p \in Prompts : Kept(Page, foreground, p) => Kept(page, foreground, p)
  BY <1>1, CancelQueueKept
<1> HIDE DEF page
<1>5. CASE id = 0
  BY <1>1, <1>2, <1>3, <1>4, <1>5, OperationKeeps
<1>6. CASE id # 0
  <2>1. id \in CardIds /\ page.cards[id] # <<>>
    BY <1>1, <1>3, <1>6, SlotIs
  <2>2. /\ Answered(page, id) \in PageType /\ PageOK(Answered(page, id))
        /\ Answered(page, id).handled = page.handled
        /\ page.responded \subseteq Answered(page, id).responded
    BY <1>3, <2>1, AnsweredKeeps DEF Elsewhere
  <2>3. \A p \in Prompts : Kept(page, foreground, p) => Kept(Answered(page, id), foreground, p)
    BY <1>3, <2>1, AnsweredKept
  <2>4. Becomes(Answered(page, id))
    BY <1>2, <1>6
  <2> HIDE DEF id
  <2> QED
    BY <1>1, <1>3, <1>4, <2>2, <2>3, <2>4, OperationKeeps
<1> QED
  BY <1>5, <1>6

LEMMA RenderKeeps ==
    ASSUME PromptsInvariant, DiskRendered \/ Hydrate
    PROVE  PromptsInvariant'
<1>1. /\ TypeOK /\ PageOK(Page) /\ Page \in PageType
      /\ Page.handled = handled /\ Page.responded = responded
      /\ foreground' \in Sessions /\ foreground \in Sessions
      /\ link' = link /\ foreground' = foreground /\ together' = together
  BY PageIs DEF PromptsInvariant, TypeOK, DiskRendered, Hydrate
<1>2. Becomes(Rendered(Page))
  BY DEF DiskRendered, Hydrate
<1>3. /\ Rendered(Page) \in PageType /\ PageOK(Rendered(Page))
      /\ Rendered(Page).handled = Page.handled /\ Rendered(Page).responded = Page.responded
  BY <1>1, RenderedKeeps DEF SameHistory
<1>4. \A p \in Prompts : Kept(Page, foreground, p) => Kept(Rendered(Page), foreground', p)
  BY <1>1, RenderedKeeps
<1>5. app' \in AppType
  BY <1>1, AppKeeps
<1> QED
  BY <1>1, <1>2, <1>3, <1>4, <1>5, OperationKeeps

LEMMA SetForegroundKeeps ==
    ASSUME PromptsInvariant, SetForegroundSession
    PROVE  PromptsInvariant'
<1>1. /\ TypeOK /\ PageOK(Page) /\ Page \in PageType
      /\ Page.handled = handled /\ Page.responded = responded
      /\ foreground \in Sessions
      /\ link' = link /\ together' = together
  BY PageIs DEF PromptsInvariant, TypeOK, SetForegroundSession
<1>2. app.target \in Sessions /\ foreground' = app.target
  BY <1>1 DEF TypeOK, AppType, SetForegroundSession
<1>3. app' \in AppType /\ foreground' \in Sessions /\ foreground' = app.target
  BY <1>1, <1>2, AppKeeps
<1>4. CASE app.target = foreground
  <2>1. Becomes(Page) /\ foreground' = foreground
    BY <1>4 DEF SetForegroundSession
  <2> QED
    BY <1>1, <1>3, <2>1, OperationKeeps
<1>5. CASE app.target # foreground
  <2> DEFINE new == PutBack(Page, foreground)
  <2>1. Becomes(new)
    BY <1>5 DEF SetForegroundSession
  <2>2. /\ new \in PageType /\ PageOK(new)
        /\ new.handled = Page.handled /\ new.responded = Page.responded
    BY <1>1, PutBackKeeps DEF SameHistory
  <2>3. ASSUME NEW p \in Prompts, Kept(Page, foreground, p) PROVE Kept(new, foreground', p)
    BY <1>1, <2>3, PutBackKept, NoCardMeans DEF Kept
  <2> HIDE DEF new
  <2> QED
    BY <1>1, <1>3, <2>1, <2>2, <2>3, OperationKeeps
<1> QED
  BY <1>4, <1>5

LEMMA FlushKeeps ==
    ASSUME PromptsInvariant, FlushForegroundQueue
    PROVE  PromptsInvariant'
<1> DEFINE new == Continue(WithQueue(Page, foreground, <<>>), Page.queues[foreground])
<1>1. /\ TypeOK /\ PageOK(Page) /\ Page \in PageType
      /\ Page.handled = handled /\ Page.responded = responded /\ Page.queues = queues /\ Page.cards = cards
      /\ foreground' \in Sessions /\ foreground \in Sessions
      /\ link' = link /\ foreground' = foreground /\ together' = together
  BY PageIs DEF PromptsInvariant, TypeOK, FlushForegroundQueue
<1>2. Becomes(new)
  BY <1>1 DEF FlushForegroundQueue, WithQueue
<1>3. Page.queues[foreground] # <<>> => \E i \in CardIds : Page.cards[i] = <<>>
  BY <1>1 DEF FlushForegroundQueue, Room
<1>4. /\ new \in PageType /\ PageOK(new) /\ SameHistory(Page, new)
      /\ \A p \in Prompts : Kept(Page, foreground, p) => Kept(new, foreground, p)
  BY <1>1, <1>3, FlushedKept
<1> HIDE DEF new
<1>5. app' \in AppType
  BY <1>1, AppKeeps
<1> QED
  BY <1>1, <1>2, <1>4, <1>5, OperationKeeps DEF SameHistory

-----------------------------------------------------------------------------
(* The theorems                                                              *)

LEMMA PromptsInit ==
    ASSUME Init
    PROVE  PromptsInvariant
<1>1. pi \in [Prompts -> {"idle", "open", "answered"}] /\ together \in SUBSET Prompts
  BY DEF Init
<1>2. link \in LinkType /\ link.wire = <<>>
  BY PromptsAssumption DEF Init, LinkType
<1>3. app \in AppType /\ foreground \in Sessions
  BY PromptsAssumption DEF Init, AppType
<1>4. /\ queues \in [Sessions -> Seq(Request)] /\ slot \in [Sessions -> 0 .. MaxCards]
      /\ cards \in [CardIds -> Seq(Request)] /\ handled \in [Prompts -> Nat]
  <2>1. <<>> \in Seq(Request) /\ 0 \in 0 .. MaxCards
    BY BoundsAssumption
  <2> QED
    BY <2>1 DEF Init
<1>5. Page \in PageType
  BY <1>4 DEF Init, Page, PageType
<1>6. TypeOK
  BY <1>1, <1>2, <1>3, <1>5 DEF TypeOK
<1>7. /\ Page.queues = queues /\ Page.slot = slot /\ Page.cards = cards /\ Page.onPage = {}
      /\ Page.handled = handled /\ Page.responded = {} /\ Page.twice = {}
      /\ Page.answered = {}
  BY <1>6, PageIs DEF Init
<1>8. /\ \A s \in Sessions : queues[s] = <<>> /\ slot[s] = 0
      /\ \A id \in CardIds : cards[id] = <<>>
      /\ DOMAIN <<>> = {}
  BY DEF Init
<1>9. Waiting(Page) = {}
  BY <1>7, <1>8 DEF Waiting
<1>10. PageOK(Page)
  <2>1. Tidy(Page)
    BY <1>7, <1>8 DEF Tidy
  <2>2. Distinct(Page)
    BY <1>7, <1>8 DEF Distinct
  <2>3. Unanswered(Page) /\ Heard(Page)
    BY <1>7, <1>9 DEF Unanswered, Heard
  <2> QED
    BY <2>1, <2>2, <2>3 DEF PageOK
<1>11. Asking
  <2>1. \A p \in Prompts : handled[p] = 0 /\ pi[p] = "idle"
    BY DEF Init
  <2> QED
    BY <1>2, <2>1 DEF Asking, Open
<1>12. LoneOnes
  BY DEF Init, LoneOnes
<1> QED
  BY <1>6, <1>10, <1>11, <1>12 DEF PromptsInvariant

LEMMA PromptsNext ==
    ASSUME PromptsInvariant, [Next]_vars
    PROVE  PromptsInvariant'
<1>1. CASE UNCHANGED vars
  <2>1. TypeOK /\ Asking
    BY DEF PromptsInvariant
  <2>2. UNCHANGED <<pi, pageVars, together>> /\ link' = link /\ app' = app
    BY <1>1 DEF vars
  <2> QED
    BY <2>1, <2>2, StillKeeps DEF TypeOK, Asking
<1>2. CASE \E p \in Prompts : Ask(p)
  BY <1>2, AskKeeps
<1>3. CASE \E p \in Prompts : DeliverBackground(p) \/ DeliverGap(p)
  BY <1>3, DroppedFrameKeeps
<1>4. CASE \E p \in Prompts : DeliverQueued(p)
  BY <1>4, DeliverQueuedKeeps
<1>5. CASE \E p \in Prompts : DeliverShown(p)
  BY <1>5, DeliverShownKeeps
<1>6. CASE \E s \in Sessions : SidebarSubscribes(s)
  BY <1>6, SubscribesKeeps
<1>7. CASE (\E s \in Sessions : SwitchSession(s)) \/ DiskFails \/ BootstrapFails \/ SnapshotFails \/ Adopt
  BY <1>7, NavigationKeeps
<1>8. CASE \E id \in CardIds : Answer(id)
  BY <1>8, AnswerKeeps
<1>9. CASE CancelForeground
  BY <1>9, CancelForegroundKeeps
<1>10. CASE Disconnect \/ Reconnect
  BY <1>10, DisconnectKeeps
<1>11. CASE DiskRendered \/ Hydrate
  BY <1>11, RenderKeeps
<1>12. CASE SetForegroundSession
  BY <1>12, SetForegroundKeeps
<1>13. CASE FlushForegroundQueue
  BY <1>13, FlushKeeps
<1> QED
  BY <1>1, <1>2, <1>3, <1>4, <1>5, <1>6, <1>7, <1>8, <1>9, <1>10, <1>11, <1>12, <1>13 DEF Next

LEMMA PromptsAlways == Spec => []PromptsInvariant
<1>1. Init => PromptsInvariant
  BY PromptsInit
<1>2. PromptsInvariant /\ [Next]_vars => PromptsInvariant'
  BY PromptsNext
<1> QED
  BY <1>1, <1>2, PTL DEF Spec

\* The page's record of queues, cards and slots, the connection and the page's
\* navigation keep their shape.
THEOREM PromptTypes == Spec => []TypeOK
<1>1. PromptsInvariant => TypeOK
  BY DEF PromptsInvariant
<1> QED
  BY <1>1, PromptsAlways, PTL

\* A request is responded to at most once (showAndRespond, requeueInFlight and
\* cancelForeground), whatever the number of prompts, sessions and cards.
THEOREM RespondedOnce == Spec => []OneResponsePerDelivery
<1>1. PromptsInvariant => OneResponsePerDelivery
  BY PageIs DEF PromptsInvariant, PageOK, Unanswered, OneResponsePerDelivery
<1> QED
  BY <1>1, PromptsAlways, PTL

LEMMA HeadIs ==
    ASSUME TypeOK, PageOK(Page), NEW id \in CardIds, cards[id] # <<>>
    PROVE  Head(cards[id]) = cards[id][1] /\ 1 \in DOMAIN cards[id] /\ cards[id][1] \in Request
BY PageIs, SequenceParts

\* Only while the page adopts a session is another one in the foreground, and once
\* the last switch has had its snapshot the history is that of the foreground.
NavigationOK ==
    /\ app.adopting = "none" => foreground = app.target
    /\ app.at = "adopting" => app.adopting # "none"
    /\ app.at \in {"snapshot", "none"} => app.adopting = "none"
    /\ app.at \in {"adopting", "snapshot", "none"} => app.disk # "reading"
    /\ app.at = "none" => app.shown = foreground

LEMMA NavigationNext ==
    ASSUME TypeOK, NavigationOK, [Next]_vars
    PROVE  NavigationOK'
<1>1. CASE app' = app /\ foreground' = foreground
  BY <1>1 DEF NavigationOK
<1>2. CASE (\E p \in Prompts : DeliverGap(p)) \/ (\E s \in Sessions : SwitchSession(s))
  BY <1>2 DEF TypeOK, AppType, NavigationOK, DeliverGap, SwitchSession, pageVars
<1>3. CASE DiskRendered \/ DiskFails
  BY <1>3 DEF TypeOK, AppType, NavigationOK, DiskRendered, DiskFails, pageVars
<1>4. CASE BootstrapFails \/ SnapshotFails
  BY <1>4 DEF TypeOK, AppType, NavigationOK, BootstrapFails, SnapshotFails, pageVars
<1>5. CASE Adopt
  BY <1>5 DEF TypeOK, AppType, NavigationOK, Adopt, pageVars
<1>6. CASE SetForegroundSession
  BY <1>6 DEF TypeOK, AppType, NavigationOK, SetForegroundSession
<1>7. CASE Hydrate
  BY <1>7 DEF TypeOK, AppType, NavigationOK, Hydrate
<1>8. CASE FlushForegroundQueue
  BY <1>8 DEF TypeOK, AppType, NavigationOK, FlushForegroundQueue, FlushIs
<1>9. CASE \E p \in Prompts : Ask(p) \/ DeliverBackground(p) \/ DeliverQueued(p) \/ DeliverShown(p)
  BY <1>1, <1>9 DEF Ask, DeliverBackground, DeliverQueued, DeliverShown, pageVars
<1>10. CASE (\E s \in Sessions : SidebarSubscribes(s)) \/ (\E id \in CardIds : Answer(id))
  BY <1>1, <1>10 DEF SidebarSubscribes, Answer, pageVars
<1>11. CASE CancelForeground \/ Disconnect \/ Reconnect \/ UNCHANGED vars
  BY <1>1, <1>11 DEF CancelForeground, Disconnect, Reconnect, vars, pageVars
<1> QED
  BY <1>2, <1>3, <1>4, <1>5, <1>6, <1>7, <1>8, <1>9, <1>10, <1>11 DEF Next

LEMMA NavigationAlways == Spec => []NavigationOK
<1>1. Init => NavigationOK
  BY DEF Init, NavigationOK
<1>2. PromptsInvariant => TypeOK
  BY DEF PromptsInvariant
<1>3. PromptsInvariant /\ NavigationOK /\ [Next]_vars => NavigationOK'
  BY <1>2, NavigationNext
<1> QED
  BY <1>1, <1>3, PromptsAlways, PTL DEF Spec

\* A card on the page that asks a prompt which is alone in its session belongs
\* to the session in the foreground (setForegroundSession), whose history the page
\* shows once the last switch has had its snapshot.
THEOREM LoneCardsInTheirHistory == Spec => []CardsAreOfTheHistory
<1>1. PromptsInvariant /\ NavigationOK => CardsAreOfTheHistory
  <2>1. SUFFICES ASSUME PromptsInvariant, NavigationOK, NEW id \in onPage, Lone(Head(cards[id]).prompt)
                 PROVE  Of(Head(cards[id])) = foreground
    BY DEF CardsAreOfTheHistory, NavigationOK
  <2>2. TypeOK /\ PageOK(Page) /\ LoneOnes
    BY <2>1 DEF PromptsInvariant
  <2>3. id \in CardIds /\ cards[id] # <<>>
    BY <2>1, <2>2, PageIs DEF PageOK, Tidy
  <2> DEFINE r == cards[id][1]
  <2>4. Head(cards[id]) = r /\ 1 \in DOMAIN cards[id] /\ r \in Request
    BY <2>2, <2>3, HeadIs
  <2>5. r \in Waiting(Page)
    BY <2>2, <2>3, <2>4, WaitingIs, PageIs
  <2>6. /\ r.prompt \in Prompts /\ r.nth \in Nat \ {0}
        /\ handled[r.prompt] \in Nat /\ r.nth <= handled[r.prompt] /\ r \notin responded
    BY <2>2, <2>4, <2>5, RequestTypes, PageIs DEF PageOK, Unanswered
  <2> HIDE DEF r
  <2>7. handled[r.prompt] = 1 /\ r.nth = 1
    BY <2>1, <2>4, <2>6 DEF Lone
  <2>8. r = First(r.prompt)
    BY <2>4, <2>6, <2>7 DEF Request, First
  <2>9. LoneCards(Page, foreground, r.prompt)
    BY <2>1, <2>2, <2>4, <2>6, <2>7, <2>8, PageIs DEF LoneOnes, Kept
  <2>10. Asker[r.prompt] = foreground
    BY <2>2, <2>3, <2>4, <2>9, PageIs DEF LoneCards, r
  <2> QED
    BY <2>4, <2>10 DEF Of
<1> QED
  BY <1>1, PromptsAlways, NavigationAlways, PTL

\* A prompt alone in its session that was handled can still be answered while
\* Pi waits, through every switch and every rendering of the history
\* (requeueForegroundPrompt), unless a response to it got lost.
THEOREM LonePromptsStay == Spec => []LonePromptsAreKept
<1>1. PromptsInvariant => LonePromptsAreKept
  <2>1. SUFFICES ASSUME PromptsInvariant, NEW p \in Prompts, Open(p), handled[p] = 1, Lone(p), p \notin unsent
                 PROVE  Reachable(p)
    BY DEF LonePromptsAreKept
  <2>2. TypeOK /\ PageOK(Page) /\ LoneOnes /\ Page \in PageType
    BY <2>1, PageIs DEF PromptsInvariant
  <2>3. First(p) \notin responded
    BY <2>1, <2>2, FirstIs, PageIs DEF PageOK, Heard, Open
  <2>4. Sole(Page, p) /\ LoneCards(Page, foreground, p)
    BY <2>1, <2>2, <2>3, PageIs DEF LoneOnes, Kept
  <2>5. CASE \E s \in Sessions : \E i \in DOMAIN Page.queues[s] : Page.queues[s][i] = First(p)
    BY <2>2, <2>5, FirstIs, PageIs DEF Reachable, Waits
  <2>6. CASE \E id \in CardIds : \E i \in DOMAIN Page.cards[id] : Page.cards[id][i] = First(p)
    <3>1. PICK id \in CardIds : \E i \in DOMAIN cards[id] : cards[id][i] = First(p)
      BY <2>2, <2>6, PageIs
    <3>2. Waits(p, cards[id]) /\ cards[id] # <<>>
      BY <3>1, FirstIs DEF Waits
    <3>3. Head(cards[id]) = cards[id][1] /\ 1 \in DOMAIN cards[id] /\ cards[id][1] \in Request
      BY <2>2, <3>2, HeadIs
    <3>4. Of(cards[id][1]) = Asker[p]
      BY <2>2, <3>1, FirstIs, PageIs DEF PageOK, Tidy
    <3>5. cards[id][1] \in Waiting(Page)
      BY <2>2, <3>3, WaitingIs, PageIs
    <3>6. cards[id][1] = First(p)
      BY <2>2, <2>4, <3>4, <3>5, SoleMeans
    <3>7. slot[Of(Head(cards[id]))] = id
      <4>1. cards[id][1].prompt = p
        BY <3>6, FirstIs
      <4>2. slot[Asker[p]] = id
        BY <2>2, <2>4, <3>2, <4>1, PageIs DEF LoneCards
      <4> QED
        BY <3>3, <3>4, <4>2
    <3> QED
      BY <3>2, <3>7 DEF Reachable
  <2> QED
    BY <2>4, <2>5, <2>6 DEF Sole, Waiting
<1> QED
  BY <1>1, PromptsAlways, PTL

===============================================================================
