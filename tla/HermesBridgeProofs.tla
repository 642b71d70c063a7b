-------------------------- MODULE HermesBridgeProofs --------------------------
(***************************************************************************)
(* The invariants of HermesBridge and the stability of bindings, for any   *)
(* number of jobs, cards, failed calls and crashes.                        *)
(***************************************************************************)
EXTENDS HermesBridge, SeqOpsProofs

-----------------------------------------------------------------------------
(* The inductive invariant *)

Final == {"done", "archived"}

\* A card that is finished, or has been up for review with its run completed.
Passed(c) == col[c] \in Final \/ c \in reviewed

\* The bridge handles the head of its list; while it creates a card the row
\* has none, and the id it holds is that of a card of the row.
Creating ==
    /\ pc \in {"creating", "created", "fetched"} => todo # <<>>
    /\ pc \in {"creating", "created"} => tid[Head(todo)] = NoCard
    /\ pc # "created" => reply = NoCard
    /\ reply # NoCard => reply \in cards[Head(todo)]

\* The rows listed for mirroring are open and listed once, since the board
\* lists a row once.
Mirroring ==
    /\ NoDup(recent)
    /\ pc \in {"mirror", "fetched"} =>
          NoDup(todo) /\ \A j \in Elems(todo) : status[j] \in Open

\* What kanban show printed may be old, but final columns are final.  A card
\* that was seen to be complete is finished, or has been in review.
Fetched ==
    pc = "fetched" =>
        /\ tid[Head(todo)] # NoCard
        /\ seen.col \in Final \/ seen.outcome = "completed" => Passed(tid[Head(todo)])

\* A card of a job is not an unused id; a completed run ends in done or review.
HermesCards ==
    /\ \A j \in Job : \A c \in cards[j] : col[c] # "none"
    /\ \A c \in Card : outcome[c] = "completed" => Passed(c)
    /\ \A c \in reviewed : col[c] # "none"

Inv == /\ TypeOK /\ Creating /\ Mirroring /\ Fetched /\ HermesCards
       /\ Correlated /\ CardsAccountedFor /\ OkIsFinal

-----------------------------------------------------------------------------
(* Lists of rows *)

\* The rest of a list without repetition does not have its head.
LEMMA HeadTailFacts ==
  ASSUME NEW s \in Seq(Job), s # <<>>
  PROVE  /\ Head(s) \in Elems(s) /\ Head(s) \in Job
         /\ Tail(s) \in Seq(Job) /\ Elems(Tail(s)) \subseteq Elems(s)
         /\ NoDup(s) => NoDup(Tail(s)) /\ Head(s) \notin Elems(Tail(s))
  <1>1. /\ Len(s) \in Nat \ {0} /\ Head(s) = s[1] /\ 1 \in 1 .. Len(s)
        /\ Tail(s) \in Seq(Job) /\ Len(Tail(s)) = Len(s) - 1
        /\ \A k \in 1 .. Len(Tail(s)) : Tail(s)[k] = s[k + 1] /\ k + 1 \in 1 .. Len(s) /\ k + 1 # 1
    OBVIOUS
  <1>2. Head(s) \in Elems(s) /\ Head(s) \in Job
    BY <1>1 DEF Elems
  <1>3. Elems(Tail(s)) \subseteq Elems(s)
    BY <1>1 DEF Elems
  <1>4. NoDup(s) => NoDup(Tail(s)) /\ Head(s) \notin Elems(Tail(s))
    BY <1>1 DEF NoDup, Elems
  <1> QED BY <1>1, <1>2, <1>3, <1>4

\* task_set moves the row to the front.
LEMMA TouchFacts ==
  ASSUME recent \in Seq(Job), NEW j \in Job, Touch(j)
  PROVE  recent' \in Seq(Job) /\ (NoDup(recent) => NoDup(recent'))
  <1> DEFINE f == Filter(recent, Job \ {j})
  <1>1. /\ f \in Seq(Job) /\ \A k \in 1 .. Len(f) : f[k] \in Job \ {j}
        /\ NoDup(recent) => NoDup(f)
    BY FilterFacts
  <1>2. recent' = <<j>> \o f
    BY DEF Touch
  <1> HIDE DEF f
  <1>3. /\ recent' \in Seq(Job) /\ Len(recent') = Len(f) + 1 /\ Len(f) \in Nat
        /\ \A k \in 1 .. Len(recent') : recent'[k] = IF k = 1 THEN j ELSE f[k - 1]
    BY <1>1, <1>2
  <1>4. \A k \in 1 .. Len(recent') : k # 1 => k - 1 \in 1 .. Len(f)
    BY <1>3
  <1>5. ASSUME NoDup(f), NEW a \in 1 .. Len(recent'), NEW b \in 1 .. Len(recent'), a # b
        PROVE  recent'[a] # recent'[b]
    <2>1. CASE a = 1
      BY <1>1, <1>3, <1>4, <1>5, <2>1
    <2>2. CASE b = 1
      BY <1>1, <1>3, <1>4, <1>5, <2>2
    <2>3. CASE a # 1 /\ b # 1
      <3>1. a - 1 \in 1 .. Len(f) /\ b - 1 \in 1 .. Len(f) /\ a - 1 # b - 1
        BY <1>3, <1>5, <2>3
      <3> QED BY <1>3, <1>5, <2>3, <3>1 DEF NoDup
    <2> QED BY <2>1, <2>2, <2>3
  <1> QED BY <1>1, <1>3, <1>5 DEF NoDup

\* task_list returns rows of the wanted status, each once.
LEMMA TaskListFacts ==
  ASSUME recent \in Seq(Job), NEW wanted
  PROVE  /\ TaskList(wanted) \in Seq(Job)
         /\ NoDup(recent) => NoDup(TaskList(wanted))
         /\ \A j \in Elems(TaskList(wanted)) : status[j] \in wanted
  <1> DEFINE n == IF Len(recent) < Limit THEN Len(recent) ELSE Limit
             s == SubSeq(recent, 1, n)
             f == Filter(s, {j \in Job : status[j] \in wanted})
  <1>1. n \in 0 .. Len(recent)
    BY BridgeAssumption
  <1>2. s \in Seq(Job) /\ Len(s) = n /\ \A k \in 1 .. n : s[k] = recent[k]
    BY <1>1
  <1>3. NoDup(recent) => NoDup(s)
    BY <1>1, <1>2 DEF NoDup
  <1>4. TaskList(wanted) = f
    BY DEF TaskList
  <1> HIDE DEF s
  <1>5. /\ f \in Seq(Job) /\ \A k \in 1 .. Len(f) : f[k] \in {j \in Job : status[j] \in wanted}
        /\ NoDup(s) => NoDup(f)
    BY <1>2, FilterFacts
  <1> HIDE DEF f
  <1> QED BY <1>3, <1>4, <1>5 DEF Elems

-----------------------------------------------------------------------------
(* Every step keeps the invariant *)

\* The initial states satisfy the invariant.
LEMMA InitInv == Init => Inv
  <1> SUFFICES ASSUME Init PROVE Inv
    OBVIOUS
  <1>1. recent \in Seq(Job) /\ todo \in Seq(Job) /\ NoDup(recent)
    BY DEF Init, NoDup
  <1>2. fails \in [Card -> Nat] /\ moves \in 0 .. MaxMoves /\ faults \in 0 .. MaxFaults
    BY BridgeAssumption DEF Init
  <1>3. inflight \in [Job -> BOOLEAN]
    BY DEF Init
  <1>4. TypeOK
    BY <1>1, <1>2, <1>3 DEF Init, TypeOK, Statuses, Columns, Outcomes, Nothing
  <1>5. Creating /\ Mirroring /\ Fetched /\ HermesCards
    BY <1>1 DEF Init, Creating, Mirroring, Fetched, HermesCards, Passed, Final
  <1>6. Correlated /\ CardsAccountedFor /\ OkIsFinal
    BY DEF Init, Correlated, CardsAccountedFor, OkIsFinal
  <1> QED BY <1>4, <1>5, <1>6 DEF Inv

\* The bridge's list and the board's order of rows.
LEMMA ListStep ==
  ASSUME TypeOK, Creating, [Next]_vars
  PROVE  /\ recent' \in Seq(Job) /\ (NoDup(recent) => NoDup(recent'))
         /\ todo' \in Seq(Job)
  <1> USE DEF boardVars, hermesVars, bridgeVars
  <1>0. recent \in Seq(Job) /\ todo \in Seq(Job)
    BY DEF TypeOK
  <1> DEFINE R == recent' \in Seq(Job) /\ (NoDup(recent) => NoDup(recent'))
  <1>T. \A j \in Job : Touch(j) => R
    BY <1>0, TouchFacts
  <1>U. UNCHANGED recent => R
    BY <1>0
  <1>H. todo # <<>> => Head(todo) \in Job /\ Tail(todo) \in Seq(Job)
    BY <1>0, HeadTailFacts
  <1> HIDE DEF R
  <1>1. ASSUME NEW j \in Job, Delegate(j) PROVE R /\ todo' \in Seq(Job)
    BY <1>0, <1>1, <1>T DEF Delegate
  <1>2. CASE EnqueueBegin \/ MirrorBegin
    BY <1>0, <1>2, <1>U, TaskListFacts DEF EnqueueBegin, MirrorBegin, R
  <1>3. CASE MarkInflight
    BY <1>0, <1>3, <1>T, <1>H DEF MarkInflight, R
  <1>4. CASE RecordCard \/ RecordError
    BY <1>0, <1>4, <1>T, <1>H DEF RecordCard, RecordError, Creating, R
  <1>5. CASE ApplyPatch
    BY <1>0, <1>5, <1>T, <1>U, <1>H DEF ApplyPatch, Creating, R
  <1>6. CASE EnqueueSkip \/ MirrorSkip \/ FetchFails
    BY <1>6, <1>U, <1>H DEF EnqueueSkip, MirrorSkip, FetchFails, R
  <1>7. CASE CardCreated \/ CardRefused \/ FetchTask \/ MirrorEnd \/ BridgeRestart
    BY <1>0, <1>7, <1>U DEF CardCreated, CardRefused, FetchTask, MirrorEnd, BridgeRestart, R
  <1>8. CASE BridgeCrash
    BY <1>8, <1>U DEF BridgeCrash, R
  <1>9. CASE \E c \in Card : Hermes(c)
    BY <1>0, <1>9, <1>U DEF Hermes, Dispatch, RunEnds, Unblock, Reconsider, Accept, Archive, R
  <1>10. CASE UNCHANGED vars
    BY <1>0, <1>10, <1>U DEF vars, R
  <1> QED
    BY <1>1, <1>2, <1>3, <1>4, <1>5, <1>6, <1>7, <1>8, <1>9, <1>10 DEF Next, Bridge, R

\* The types.
LEMMA TypeStep ==
  ASSUME TypeOK, Creating, [Next]_vars
  PROVE  TypeOK'
  <1> USE DEF boardVars, hermesVars, bridgeVars
  <1> DEFINE Board == /\ status \in [Job -> Statuses] /\ tid \in [Job -> Card \cup {NoCard}]
                      /\ inflight \in [Job -> BOOLEAN]
             Kanban == /\ cards \in [Job -> SUBSET Card] /\ col \in [Card -> Columns]
                       /\ outcome \in [Card -> Outcomes] /\ fails \in [Card -> Nat]
                       /\ moves \in 0 .. MaxMoves /\ reviewed \in SUBSET Card
             Process == /\ pc \in {"down", "sleep", "enqueue", "creating", "created", "mirror", "fetched"}
                        /\ reply \in Card \cup {NoCard} /\ seen \in [col : Columns, outcome : Outcomes]
                        /\ faults \in 0 .. MaxFaults /\ lost \in SUBSET Card
  <1>0. Board /\ Kanban /\ Process
    BY DEF TypeOK
  <1>H. todo # <<>> => Head(todo) \in Job
    BY HeadTailFacts DEF TypeOK
  <1>N. Nothing \in [col : Columns, outcome : Outcomes] /\ \A s : DerivedStatus(s) = NoStatus \/ DerivedStatus(s) \in Statuses
    BY DEF Nothing, Columns, Outcomes, DerivedStatus, MapHermesStatus, MapHermesColumn, Statuses, NoStatus
  <1>1. Board'
    <2>1. ASSUME NEW j \in Job, Delegate(j) PROVE Board'
      BY <1>0, <2>1 DEF Delegate, Statuses
    <2>2. CASE MarkInflight
      BY <1>0, <2>2 DEF MarkInflight
    <2>3. CASE RecordCard
      BY <1>0, <2>3 DEF RecordCard
    <2>4. CASE ApplyPatch
      BY <1>0, <1>N, <2>4 DEF ApplyPatch
    <2>5. CASE UNCHANGED <<status, tid, inflight>>
      BY <1>0, <2>5
    <2>6. CASE EnqueueBegin \/ EnqueueSkip \/ CardCreated \/ CardRefused \/ RecordError \/ MirrorBegin \/ MirrorSkip
               \/ FetchTask \/ FetchFails \/ MirrorEnd \/ BridgeRestart \/ BridgeCrash
               \/ (\E c \in Card : Hermes(c)) \/ UNCHANGED vars
      <3>1. UNCHANGED <<status, tid, inflight>>
        BY <2>6 DEF EnqueueBegin, EnqueueSkip, CardCreated, CardRefused, RecordError, MirrorBegin, MirrorSkip,
                    FetchTask, FetchFails, MirrorEnd, BridgeRestart, BridgeCrash, Hermes, Dispatch, RunEnds,
                    Unblock, Reconsider, Accept, Archive, vars
      <3> QED BY <3>1, <2>5
    <2> QED BY <2>1, <2>2, <2>3, <2>4, <2>6 DEF Next, Bridge
  <1>2. Kanban'
    <2>1. CASE CardCreated
      <3>1. PICK c \in Card : /\ cards' = [cards EXCEPT ![Head(todo)] = @ \cup {c}]
                              /\ col' = [col EXCEPT ![c] = "ready"]
        BY <2>1 DEF CardCreated
      <3>2. cards' \in [Job -> SUBSET Card]
        BY <1>0, <3>1
      <3>3. col' \in [Card -> Columns]
        BY <1>0, <3>1 DEF Columns
      <3> QED BY <1>0, <2>1, <3>2, <3>3 DEF CardCreated
    <2>2. ASSUME NEW c \in Card, Dispatch(c) PROVE Kanban'
      BY <1>0, <2>2 DEF Dispatch, Columns, Outcomes
    <2>3. ASSUME NEW c \in Card, RunEnds(c) PROVE Kanban'
      BY <1>0, <2>3 DEF RunEnds, Columns, Outcomes
    <2>4. ASSUME NEW c \in Card, Unblock(c) \/ Reconsider(c) \/ Accept(c) \/ Archive(c) PROVE Kanban'
      BY <1>0, <2>4, BridgeAssumption DEF Unblock, Reconsider, Accept, Archive, Columns
    <2>5. CASE UNCHANGED hermesVars
      BY <1>0, <2>5
    <2>6. CASE EnqueueBegin \/ EnqueueSkip \/ MarkInflight \/ CardRefused \/ RecordCard \/ RecordError \/ MirrorBegin
               \/ MirrorSkip \/ FetchTask \/ FetchFails \/ ApplyPatch \/ MirrorEnd \/ BridgeRestart \/ BridgeCrash
               \/ (\E j \in Job : Delegate(j)) \/ UNCHANGED vars
      <3>1. UNCHANGED hermesVars
        BY <2>6 DEF EnqueueBegin, EnqueueSkip, MarkInflight, CardRefused, RecordCard, RecordError, MirrorBegin,
                    MirrorSkip, FetchTask, FetchFails, ApplyPatch, MirrorEnd, BridgeRestart, BridgeCrash,
                    Delegate, vars
      <3> QED BY <3>1, <2>5
    <2> QED BY <2>1, <2>2, <2>3, <2>4, <2>6 DEF Next, Bridge, Hermes
  <1>3. Process'
    <2> USE BridgeAssumption
    <2>1. CASE CardCreated \/ CardRefused
      BY <1>0, <2>1 DEF CardCreated, CardRefused
    <2>2. CASE FetchTask
      <3>1. seen' \in [col : Columns, outcome : Outcomes]
        BY <1>0, <1>H, <2>2 DEF FetchTask
      <3> QED BY <1>0, <2>2, <3>1 DEF FetchTask
    <2>3. CASE FetchFails \/ BridgeCrash
      BY <1>0, <1>N, <2>3 DEF FetchFails, BridgeCrash
    <2>4. CASE EnqueueBegin \/ EnqueueSkip \/ MarkInflight \/ RecordCard \/ RecordError \/ MirrorBegin
               \/ MirrorSkip \/ ApplyPatch \/ MirrorEnd \/ BridgeRestart
      BY <1>0, <1>N, <2>4 DEF EnqueueBegin, EnqueueSkip, MarkInflight, RecordCard, RecordError, MirrorBegin,
                    MirrorSkip, ApplyPatch, MirrorEnd, BridgeRestart
    <2>5. CASE (\E j \in Job : Delegate(j)) \/ (\E c \in Card : Hermes(c)) \/ UNCHANGED vars
      BY <1>0, <2>5 DEF Delegate, Hermes, Dispatch, RunEnds, Unblock, Reconsider, Accept, Archive, vars
    <2> QED BY <2>1, <2>2, <2>3, <2>4, <2>5 DEF Next, Bridge
  <1>4. recent' \in Seq(Job) /\ todo' \in Seq(Job)
    BY ListStep
  <1> QED
    BY <1>1, <1>2, <1>3, <1>4 DEF TypeOK

\* What the bridge knows of the row and the card it handles.
LEMMA BridgeStep ==
  ASSUME TypeOK, Creating, Mirroring, Fetched, HermesCards, Correlated, [Next]_vars
  PROVE  (Creating /\ Mirroring /\ Fetched)'
  <1> USE DEF boardVars, hermesVars, bridgeVars
  <1>0. /\ status \in [Job -> Statuses] /\ tid \in [Job -> Card \cup {NoCard}]
        /\ cards \in [Job -> SUBSET Card] /\ NoCard \notin Card
        /\ col \in [Card -> Columns] /\ todo \in Seq(Job)
    BY BridgeAssumption DEF TypeOK
  <1>L. NoDup(recent) /\ NoDup(recent')
    BY ListStep DEF Mirroring
  <1>H. todo # <<>> => /\ Head(todo) \in Job /\ Head(todo) \in Elems(todo)
                       /\ Elems(Tail(todo)) \subseteq Elems(todo)
                       /\ NoDup(todo) => NoDup(Tail(todo)) /\ Head(todo) \notin Elems(Tail(todo))
    BY <1>0, HeadTailFacts
  <1>E. \A j \in Elems(todo) : j \in Job
    BY <1>0 DEF Elems
  <1>1. ASSUME NEW j \in Job, Delegate(j) PROVE (Creating /\ Mirroring /\ Fetched)'
    <2>1. \A k \in Job : status[k] \in Open => status'[k] \in Open
      BY <1>0, <1>1 DEF Delegate, Open
    <2> QED BY <1>L, <1>E, <1>1, <2>1 DEF Delegate, Creating, Mirroring, Fetched, Passed
  <1>2. CASE EnqueueBegin
    BY <1>L, <1>2 DEF EnqueueBegin, Creating, Mirroring, Fetched
  <1>3. CASE EnqueueSkip
    BY <1>L, <1>3 DEF EnqueueSkip, Creating, Mirroring, Fetched
  <1>4. CASE MarkInflight
    BY <1>L, <1>4 DEF MarkInflight, Creating, Mirroring, Fetched
  <1>5. CASE CardCreated
    <2>1. PICK c \in Card : /\ cards' = [cards EXCEPT ![Head(todo)] = @ \cup {c}]
                            /\ reply' = c \/ reply' = NoCard
      BY <1>5 DEF CardCreated
    <2>2. Head(todo) \in Job /\ c \in cards'[Head(todo)]
      BY <1>0, <1>H, <1>5, <2>1 DEF CardCreated, Creating
    <2> QED BY <1>L, <1>5, <2>1, <2>2 DEF CardCreated, Creating, Mirroring, Fetched
  <1>6. CASE CardRefused
    BY <1>L, <1>6 DEF CardRefused, Creating, Mirroring, Fetched
  <1>7. CASE RecordCard
    BY <1>L, <1>7 DEF RecordCard, Creating, Mirroring, Fetched
  <1>8. CASE RecordError
    BY <1>L, <1>8 DEF RecordError, Creating, Mirroring, Fetched
  <1>9. CASE MirrorBegin
    <2>1. NoDup(TaskList(Open)) /\ \A j \in Elems(TaskList(Open)) : status[j] \in Open
      BY <1>L, TaskListFacts DEF TypeOK
    <2> QED BY <1>L, <1>9, <2>1 DEF MirrorBegin, Creating, Mirroring, Fetched
  <1>10. CASE MirrorSkip \/ FetchFails
    BY <1>L, <1>H, <1>10 DEF MirrorSkip, FetchFails, Creating, Mirroring, Fetched
  <1>11. CASE FetchTask
    <2> DEFINE c == tid[Head(todo)]
    <2>1. c \in Card /\ seen'.col = col[c] /\ seen'.outcome = outcome[c]
      BY <1>0, <1>H, <1>11 DEF FetchTask
    <2>2. Fetched'
      BY <1>11, <2>1 DEF FetchTask, Fetched, HermesCards, Passed
    <2> QED BY <1>L, <1>11, <2>2 DEF FetchTask, Creating, Mirroring
  <1>12. CASE ApplyPatch
    <2>1. \A k \in Job : k # Head(todo) => status'[k] = status[k]
      BY <1>0, <1>12 DEF ApplyPatch
    <2>2. Mirroring'
      BY <1>L, <1>H, <1>E, <1>12, <2>1 DEF ApplyPatch, Mirroring, Creating
    <2> QED BY <1>12, <2>2 DEF ApplyPatch, Creating, Fetched
  <1>13. CASE MirrorEnd \/ BridgeRestart \/ BridgeCrash
    BY <1>L, <1>13 DEF MirrorEnd, BridgeRestart, BridgeCrash, Creating, Mirroring, Fetched
  <1>14. ASSUME NEW c \in Card, Hermes(c) PROVE (Creating /\ Mirroring /\ Fetched)'
    <2>1. /\ UNCHANGED <<boardVars, bridgeVars, cards>>
          /\ \A d \in Card : Passed(d) => Passed(d)'
      BY <1>0, <1>14 DEF Hermes, Dispatch, RunEnds, Unblock, Reconsider, Accept, Archive, Final, Passed
    <2>2. pc = "fetched" => tid[Head(todo)] \in Card
      BY <1>0, <1>H DEF Fetched, Creating
    <2> QED BY <2>1, <2>2 DEF Creating, Mirroring, Fetched
  <1>15. CASE UNCHANGED vars
    BY <1>15 DEF vars, Creating, Mirroring, Fetched, Passed
  <1> QED
    BY <1>1, <1>2, <1>3, <1>4, <1>5, <1>6, <1>7, <1>8, <1>9, <1>10, <1>11, <1>12, <1>13, <1>14, <1>15
       DEF Next, Bridge

\* The cards of the jobs and the columns they are in.
LEMMA CardStep ==
  ASSUME Inv, [Next]_vars
  PROVE  (HermesCards /\ Correlated /\ CardsAccountedFor)'
  <1> USE DEF boardVars, hermesVars, bridgeVars
  <1>0. /\ tid \in [Job -> Card \cup {NoCard}] /\ cards \in [Job -> SUBSET Card] /\ NoCard \notin Card
        /\ col \in [Card -> Columns] /\ outcome \in [Card -> Outcomes] /\ todo \in Seq(Job)
        /\ reviewed \in SUBSET Card
        /\ Creating /\ HermesCards /\ Correlated /\ CardsAccountedFor
    BY BridgeAssumption DEF Inv, TypeOK
  <1>H. todo # <<>> => Head(todo) \in Job
    BY <1>0, HeadTailFacts
  <1>1. CASE CardCreated
    <2> DEFINE h == Head(todo)
    <2>1. PICK c \in Card : /\ col[c] = "none"
                            /\ cards' = [cards EXCEPT ![h] = @ \cup {c}]
                            /\ col' = [col EXCEPT ![c] = "ready"]
                            /\ \/ reply' = c /\ UNCHANGED <<faults, lost>>
                               \/ reply' = NoCard /\ lost' = lost \cup {c}
      BY <1>1 DEF CardCreated
    <2>2. h \in Job /\ todo # <<>> /\ tid[h] = NoCard /\ reply = NoCard /\ UNCHANGED <<tid, outcome, todo, reviewed>>
      BY <1>0, <1>1, <1>H DEF CardCreated, Creating
    <2> HIDE DEF h
    <2>3. /\ cards'[h] = cards[h] \cup {c} /\ \A j \in Job : j # h => cards'[j] = cards[j]
          /\ \A j \in Job : c \notin cards[j]
      BY <1>0, <2>1, <2>2 DEF HermesCards
    <2>4. HermesCards'
      <3>1. \A d \in Card : d # c => col'[d] = col[d]
        BY <1>0, <2>1
      <3>2. col'[c] = "ready" /\ outcome[c] # "completed"
        BY <1>0, <2>1 DEF HermesCards, Passed, Final
      <3> QED BY <1>0, <2>2, <2>3, <3>1, <3>2 DEF HermesCards, Passed
    <2>5. Correlated'
      BY <1>0, <2>2, <2>3 DEF Correlated
    <2>6. CardsAccountedFor'
      <3>1. Head(todo) = h /\ lost \subseteq lost' /\ c \in lost' \cup {reply'}
        BY <2>1 DEF h
      <3>2. \A j \in Job : cards[j] \subseteq lost \cup {tid[j]}
        BY <1>0, <2>2 DEF CardsAccountedFor
      <3> QED BY <2>2, <2>3, <3>1, <3>2 DEF CardsAccountedFor
    <2> QED BY <2>4, <2>5, <2>6
  <1>2. CASE RecordCard
    <2>1. /\ Head(todo) \in Job /\ todo # <<>> /\ tid[Head(todo)] = NoCard /\ reply \in cards[Head(todo)]
          /\ reply' = NoCard /\ UNCHANGED <<hermesVars, lost>>
      BY <1>0, <1>2, <1>H DEF RecordCard, Creating
    <2>2. tid'[Head(todo)] = reply /\ \A j \in Job : j # Head(todo) => tid'[j] = tid[j]
      BY <1>0, <1>2, <2>1 DEF RecordCard
    <2> QED BY <1>0, <2>1, <2>2 DEF HermesCards, Passed, Correlated, CardsAccountedFor
  <1>3. CASE EnqueueBegin \/ EnqueueSkip \/ MarkInflight \/ CardRefused \/ MirrorBegin \/ MirrorSkip \/ FetchTask
             \/ FetchFails \/ ApplyPatch \/ MirrorEnd \/ BridgeRestart \/ RecordError
             \/ (\E j \in Job : Delegate(j)) \/ UNCHANGED vars
    <2>1. /\ UNCHANGED <<hermesVars, tid, lost>> /\ reply' = reply
          /\ reply = NoCard \/ UNCHANGED todo
      BY <1>0, <1>3 DEF EnqueueBegin, EnqueueSkip, MarkInflight, CardRefused, MirrorBegin, MirrorSkip, FetchTask,
           FetchFails, ApplyPatch, MirrorEnd, BridgeRestart, RecordError, Delegate, vars, Creating
    <2> QED BY <1>0, <2>1 DEF HermesCards, Passed, Correlated, CardsAccountedFor
  <1>4. CASE BridgeCrash
    <2>1. UNCHANGED <<hermesVars, tid>> /\ lost' = lost \cup ({reply} \ {NoCard})
      BY <1>4 DEF BridgeCrash
    <2> QED BY <1>0, <2>1 DEF HermesCards, Passed, Correlated, CardsAccountedFor
  <1>5. ASSUME NEW c \in Card, Hermes(c)
        PROVE  (HermesCards /\ Correlated /\ CardsAccountedFor)'
    <2>1. UNCHANGED <<boardVars, bridgeVars, cards, lost>>
      BY <1>5 DEF Hermes, Dispatch, RunEnds, Unblock, Reconsider, Accept, Archive
    <2>2. \A d \in Card : col[d] # "none" => col'[d] # "none"
      BY <1>0, <1>5 DEF Hermes, Dispatch, RunEnds, Unblock, Reconsider, Accept, Archive
    <2>3. \A d \in Card : outcome'[d] = "completed" => Passed(d)'
      BY <1>0, <1>5, BridgeAssumption
         DEF Hermes, Dispatch, RunEnds, Unblock, Reconsider, Accept, Archive, Final, Passed, HermesCards
    <2>4. \A d \in reviewed' : col'[d] # "none"
      BY <1>0, <1>5, <2>2 DEF Hermes, Dispatch, RunEnds, Unblock, Reconsider, Accept, Archive, HermesCards
    <2> QED BY <1>0, <2>1, <2>2, <2>3, <2>4 DEF HermesCards, Correlated, CardsAccountedFor
  <1> QED
    BY <1>1, <1>2, <1>3, <1>4, <1>5 DEF Next, Bridge

\* Only a final column, or a completed run, makes a row ok.
LEMMA DerivedOk ==
  ASSUME NEW s, DerivedStatus(s) = "ok"
  PROVE  s.col \in Final \/ s.outcome = "completed"
  BY DEF DerivedStatus, MapHermesStatus, MapHermesColumn, NoStatus, Final

\* Rows that are ok.
LEMMA OkStep ==
  ASSUME Inv, [Next]_vars
  PROVE  OkIsFinal'
  <1> USE DEF boardVars, hermesVars, bridgeVars
  <1>0. /\ tid \in [Job -> Card \cup {NoCard}] /\ status \in [Job -> Statuses] /\ NoCard \notin Card
        /\ col \in [Card -> Columns] /\ todo \in Seq(Job)
        /\ Creating /\ Fetched /\ OkIsFinal
    BY BridgeAssumption DEF Inv, TypeOK
  <1>H. todo # <<>> => Head(todo) \in Job
    BY <1>0, HeadTailFacts
  <1>1. ASSUME NEW j \in Job, Delegate(j) PROVE OkIsFinal'
    BY <1>0, <1>1 DEF Delegate, OkIsFinal
  <1>2. CASE RecordCard
    <2>1. /\ Head(todo) \in Job /\ tid[Head(todo)] = NoCard
          /\ \A j \in Job : j # Head(todo) => tid'[j] = tid[j]
          /\ UNCHANGED <<status, col, reviewed>>
      BY <1>0, <1>2, <1>H DEF RecordCard, Creating
    <2> QED BY <1>0, <2>1 DEF OkIsFinal
  <1>3. CASE ApplyPatch
    <2> DEFINE h == Head(todo)
    <2>1. /\ h \in Job /\ tid[h] # NoCard /\ UNCHANGED <<tid, col, reviewed>>
          /\ DerivedStatus(seen) = "ok" => Passed(tid[h])
      BY <1>0, <1>3, <1>H, DerivedOk DEF ApplyPatch, Creating, Fetched
    <2>2. \A j \in Job : status'[j] = status[j] \/ (j = h /\ status'[j] = DerivedStatus(seen))
      BY <1>0, <1>3 DEF ApplyPatch
    <2> QED BY <1>0, <2>1, <2>2 DEF OkIsFinal, Passed, Final
  <1>4. CASE EnqueueBegin \/ EnqueueSkip \/ MarkInflight \/ CardRefused \/ MirrorBegin \/ MirrorSkip \/ FetchTask
             \/ FetchFails \/ MirrorEnd \/ BridgeRestart \/ BridgeCrash \/ RecordError \/ UNCHANGED vars
    <2>1. UNCHANGED <<status, tid, col, reviewed>>
      BY <1>4 DEF EnqueueBegin, EnqueueSkip, MarkInflight, CardRefused, MirrorBegin, MirrorSkip, FetchTask,
           FetchFails, MirrorEnd, BridgeRestart, BridgeCrash, RecordError, vars
    <2> QED BY <1>0, <2>1 DEF OkIsFinal
  <1>5. CASE CardCreated \/ \E c \in Card : Hermes(c)
    <2>1. UNCHANGED <<status, tid>>
      BY <1>5 DEF CardCreated, Hermes, Dispatch, RunEnds, Unblock, Reconsider, Accept, Archive
    <2>2. \A d \in Card : Passed(d) => Passed(d)'
      BY <1>0, <1>5 DEF CardCreated, Hermes, Dispatch, RunEnds, Unblock, Reconsider, Accept, Archive, Final, Passed
    <2> QED BY <1>0, <2>1, <2>2 DEF OkIsFinal, Passed, Final
  <1> QED
    BY <1>1, <1>2, <1>3, <1>4, <1>5 DEF Next, Bridge

\* The card of a row that has one, and a row that is ok.
LEMMA BindingStep ==
  ASSUME Inv, [Next]_vars
  PROVE  KeepsBindings
  <1> USE DEF boardVars, hermesVars, bridgeVars
  <1>0. /\ tid \in [Job -> Card \cup {NoCard}] /\ status \in [Job -> Statuses]
        /\ todo \in Seq(Job) /\ Creating /\ Mirroring
    BY DEF Inv, TypeOK
  <1>H. todo # <<>> => Head(todo) \in Job /\ Head(todo) \in Elems(todo)
    BY <1>0, HeadTailFacts
  <1>1. ASSUME NEW j \in Job, Delegate(j) PROVE KeepsBindings
    BY <1>0, <1>1 DEF Delegate, KeepsBindings
  <1>2. CASE RecordCard
    BY <1>0, <1>2, <1>H DEF RecordCard, Creating, KeepsBindings
  <1>3. CASE ApplyPatch
    <2>1. status[Head(todo)] \in Open /\ UNCHANGED tid /\ \A j \in Job : j # Head(todo) => status'[j] = status[j]
      BY <1>0, <1>3, <1>H DEF ApplyPatch, Creating, Mirroring
    <2> QED BY <2>1 DEF KeepsBindings, Open
  <1>4. CASE EnqueueBegin \/ EnqueueSkip \/ MarkInflight \/ CardCreated \/ CardRefused \/ MirrorBegin \/ MirrorSkip
             \/ FetchTask \/ FetchFails \/ MirrorEnd \/ BridgeRestart \/ BridgeCrash \/ RecordError
             \/ (\E c \in Card : Hermes(c)) \/ UNCHANGED vars
    <2>1. UNCHANGED <<status, tid>>
      BY <1>4 DEF EnqueueBegin, EnqueueSkip, MarkInflight, CardCreated, CardRefused, MirrorBegin, MirrorSkip,
           FetchTask, FetchFails, MirrorEnd, BridgeRestart, BridgeCrash, RecordError,
           Hermes, Dispatch, RunEnds, Unblock, Reconsider, Accept, Archive, vars
    <2> QED BY <2>1 DEF KeepsBindings
  <1> QED
    BY <1>1, <1>2, <1>3, <1>4 DEF Next, Bridge

-----------------------------------------------------------------------------
(* The theorems *)

\* The invariant holds in every reachable state.
THEOREM Invariance == Spec => []Inv
  <1>1. Inv /\ [Next]_vars => Inv'
    BY TypeStep, BridgeStep, CardStep, OkStep DEF Inv
  <1> QED
    BY InitInv, <1>1, PTL DEF Spec

\* The two boards and the bridge's local state keep their types.
THEOREM TypeCorrect == Spec => []TypeOK
  <1>1. Inv => TypeOK
    BY DEF Inv
  <1> QED
    BY Invariance, <1>1, PTL

\* Whatever calls are lost and wherever the bridge dies, a row's
\* hermes_task_id is a card made for that row and no card serves two rows.
THEOREM CorrelationCorrect == Spec => []Correlated
  <1>1. Inv => Correlated
    BY DEF Inv
  <1> QED
    BY Invariance, <1>1, PTL

\* The bridge creates a second card for a row only where the id of the first
\* was lost to a failed call or a crash.
THEOREM AccountingCorrect == Spec => []CardsAccountedFor
  <1>1. Inv => CardsAccountedFor
    BY DEF Inv
  <1> QED
    BY Invariance, <1>1, PTL

\* A row that says ok points at a card that is finished or that a completed run
\* has left in review, however old the answer of kanban show was when
\* mirror_outcomes wrote it.
THEOREM OkCorrect == Spec => []OkIsFinal
  <1>1. Inv => OkIsFinal
    BY DEF Inv
  <1> QED
    BY Invariance, <1>1, PTL

\* A row is bound to its card for ever, and mirror_outcomes does not reopen a
\* row that says ok.
THEOREM BindingCorrect == Spec => BindingIsForever
  <1>1. Inv /\ [Next]_vars => [KeepsBindings]_vars
    BY BindingStep
  <1> QED
    BY Invariance, <1>1, PTL DEF Spec, BindingIsForever
=============================================================================
