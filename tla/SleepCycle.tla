----------------------------- MODULE SleepCycle -----------------------------
(***************************************************************************)
(* Long-term memory of one profile: chat requests that record turns and    *)
(* distil facts (services/api/server.py), the conversation store           *)
(* (conversations.py), the idle sleep cycle that consolidates undistilled  *)
(* turns into facts (sleep_cycle.py), and the hygiene sweep that drops     *)
(* duplicate and orphaned facts (memory_hygiene.py).                       *)
(*                                                                         *)
(* One action is what a coroutine of the API runs between two awaits.  The *)
(* language model is external: asked to distil turns it answers with some  *)
(* of the facts they state, or fails.  The vector store is external: an    *)
(* add may fail, which ragstore.py swallows.  Of the vectors is kept which *)
(* statements count as similar, a relation that need not be transitive; of *)
(* a fact's ts the order.  The profile is the default one, which is the    *)
(* one the sleep cycle sweeps.                                             *)
(***************************************************************************)
EXTENDS Naturals, Sequences, FiniteSets

CONSTANTS
    Conv,       \* conversation ids
    Fact,       \* what a user can state
    Similar,    \* the pairs of facts whose vectors reach the cosine threshold
    NoFact,     \* a turn that states nothing worth keeping
    NoConv,     \* no conversation_id in a fact's metadata
    Request,    \* slots for concurrent chat requests
    MinTurns,   \* SLEEP_CYCLE_MIN_TURNS
    MaxConvos,  \* SLEEP_CYCLE_MAX_CONVOS
    MaxAsked,   \* bound: requests
    MaxFaults   \* bound: failures of the model, the embedder, the store, the API

ASSUME MemoryAssumption ==
    /\ MinTurns \in Nat \ {0} /\ MaxConvos \in Nat
    /\ MaxAsked \in Nat /\ MaxFaults \in Nat
    /\ NoFact \notin Fact /\ NoConv \notin Conv
    /\ Similar \subseteq SUBSET Fact

VARIABLES
    convs,      \* conversations table: ids that exist
    turns,      \* turns table
    distilled,  \* ids of turns whose distilled flag is set
    lastId,     \* AUTOINCREMENT: the greatest turn id ever given
    facts,      \* vector store: the kind=fact points of the collection
    chat,       \* the chat requests in progress
    asked,      \* requests so far
    quiet,      \* no request has begun for SLEEP_CYCLE_IDLE_S
    pc,         \* the sleep cycle: asleep, or awaiting a distillation
    rest,       \* consolidate(): conversations selected and not yet looked at
    batch,      \* consolidate(): the turns being distilled
    answer,     \* consolidate(): the model's answer to them, when there is one
    at,         \* consolidate(): `now', the ts its facts get
    stored,     \* consolidate(): this pass has counted facts
    skip,       \* _sleep_skip: conversations that distilled to nothing
    faults,     \* failures so far
    read        \* history: turns the model has answered for

tables == <<convs, turns, distilled, lastId>>
requests == <<chat, asked, quiet>>
pass == <<pc, rest, batch, answer, at, stored, skip>>
vars == <<convs, turns, distilled, lastId, facts, chat, asked, quiet, pc, rest,
          batch, answer, at, stored, skip, faults, read>>

Idle == [at |-> "idle", conv |-> NoConv, fact |-> NoFact]
Ids(ts) == {t.id : t \in ts}
Pending(c, done) == {t \in turns : t.conv = c /\ t.id \notin done}
Newest(S) == CHOOSE n \in S : \A m \in S : m <= n
\* The clock, as far as it can be told from the stored facts and `now'.
Now == Newest({p.ts + 1 : p \in facts} \cup {at})
FactsOf(points) == {p.fact : p \in points}

Init ==
    /\ convs = {} /\ turns = {} /\ distilled = {} /\ lastId = 0
    /\ facts = {}
    /\ chat = [r \in Request |-> Idle] /\ asked = 0
    /\ quiet = FALSE
    /\ pc = "asleep" /\ rest = <<>> /\ batch = {} /\ answer = {}
    /\ at = 1 /\ stored = FALSE /\ skip = {}
    /\ faults = 0 /\ read = {}

Fault == faults < MaxFaults /\ faults' = faults + 1
-----------------------------------------------------------------------------
(* Conversations and chat requests.                                         *)

\* add_turn with ids that sqlite takes from the rows present.
AddTurnReusingIds(c, f) ==
    /\ convs' = convs \cup {c}
    /\ lastId' = 1 + Newest(Ids(turns) \cup {0})
    /\ turns' = turns \cup {[id |-> lastId', conv |-> c, fact |-> f]}
    /\ UNCHANGED distilled

\* AddTurn without _ensure_conversation.
AddTurnToTable(c, f) ==
    /\ lastId' = lastId + 1
    /\ turns' = turns \cup {[id |-> lastId', conv |-> c, fact |-> f]}
    /\ UNCHANGED <<convs, distilled>>

\* add_turn: creates the conversation if it is not there.
AddTurn(c, f) ==
    /\ convs' = convs \cup {c}
    /\ lastId' = lastId + 1
    /\ turns' = turns \cup {[id |-> lastId', conv |-> c, fact |-> f]}
    /\ UNCHANGED distilled

\* _persist_turn: an error of the database is swallowed, the turn is not there.
PersistTurn(c, f) == \/ AddTurn(c, f) /\ UNCHANGED faults
                     \/ Fault /\ UNCHANGED tables

\* One more request; _track_activity makes the sleep cycle back off.
Asks == asked < MaxAsked /\ asked' = asked + 1 /\ quiet' = FALSE

\* POST /chat: the user's turn is recorded, then the model is awaited.
ChatBegins(r, c, f) ==
    /\ chat[r] = Idle /\ Asks
    /\ PersistTurn(c, f)
    /\ chat' = [chat EXCEPT ![r] = [at |-> "generate", conv |-> c, fact |-> f]]
    /\ UNCHANGED <<facts, pass, read>>

ChatReplies(r) ==
    /\ chat[r].at = "generate"
    /\ PersistTurn(chat[r].conv, NoFact)
    /\ chat' = [chat EXCEPT ![r].at = "distill"]
    /\ UNCHANGED <<facts, asked, quiet, pass, read>>

\* Generation raises: no assistant turn is recorded.
ChatFails(r) ==
    /\ chat[r].at = "generate" /\ Fault
    /\ chat' = [chat EXCEPT ![r] = Idle]
    /\ UNCHANGED <<tables, facts, asked, quiet, pass, read>>

\* distill_and_store_facts: the exchange's fact is stored without a
\* conversation_id, unless the model finds none or the store drops it.
ChatEnds(r) ==
    /\ chat[r].at = "distill"
    /\ LET f == chat[r].fact
           point == [fact |-> f, conv |-> NoConv, ts |-> Now]
       IN  facts' \in {facts} \cup (IF f = NoFact THEN {} ELSE {facts \cup {point}})
    /\ chat' = [chat EXCEPT ![r] = Idle]
    /\ UNCHANGED <<tables, asked, quiet, pass, faults, read>>

\* DELETE /conversations/{id}.
DeleteConversation(c) ==
    /\ c \in convs /\ Asks
    /\ convs' = convs \ {c}
    /\ turns' = {t \in turns : t.conv # c}
    /\ distilled' = distilled \cap Ids(turns')
    /\ UNCHANGED <<lastId, facts, chat, pass, faults, read>>

\* SLEEP_CYCLE_IDLE_S pass without a new request; one may still be running.
GoesQuiet ==
    /\ ~quiet /\ quiet' = TRUE
    /\ UNCHANGED <<tables, facts, chat, asked, pass, faults, read>>
-----------------------------------------------------------------------------
(* Hygiene.                                                                 *)

Orphan(p) == p.conv # NoConv /\ p.conv \notin convs

\* cosine(vecs[i], vecs[j]) >= threshold; points of one fact have one vector.
Near(f, g) == f = g \/ {f, g} \in Similar

\* cluster_duplicates: union-find joins what a chain of near facts connects.  The
\* cluster of f among the facts F is the least set around f with no near fact
\* outside.
Closed(S, F) == \A g \in S, h \in F : Near(g, h) => h \in S
Cluster(f, F) == {g \in F : \A S \in SUBSET F : f \in S /\ Closed(S, F) => g \in S}

\* The points of f's cluster.
Kin(f, points) == {p \in points : p.fact \in Cluster(f, FactsOf(points))}
NewestOf(kin) == {p \in kin : \A q \in kin : q.ts <= p.ts}

\* SweptStores that drops every member of a cluster.
SweptStoresKeepNone(points) ==
    {{p \in points : ~Orphan(p) /\ Kin(p.fact, points) = {p}}}

\* What memory_hygiene_pass(apply=True) can leave of the points: of each cluster
\* a newest one is kept, the others and every orphan are deleted.
SweptStores(points) ==
    LET Clusters == {Kin(f, points) : f \in FactsOf(points)}
    IN  {{keep[K] : K \in Clusters} \ {p \in points : Orphan(p)} :
            keep \in {k \in [Clusters -> points] : \A K \in Clusters : k[K] \in NewestOf(K)}}

\* The store may refuse the deletion, which ragstore.py swallows.
Sweep(points) == facts' \in {points} \cup SweptStores(points)

\* POST /memory/hygiene?apply=true.
MemoryHygiene ==
    /\ Asks
    /\ Sweep(facts)
    /\ UNCHANGED <<tables, chat, pass, faults, read>>
-----------------------------------------------------------------------------
(* The sleep cycle.                                                         *)

\* updated_at, which add_turn sets: told by the latest turn.
LatestTurn(c) == Newest({t.id : t \in {u \in turns : u.conv = c}})
Candidate == {c \in convs : Cardinality(Pending(c, distilled)) >= MinTurns}

\* conversations_with_undistilled: newest activity first, at most MaxConvos.  The
\* turns of one second count as ordered, so there is one such list.
Selected ==
    LET Newer(c) == {d \in Candidate : LatestTurn(d) > LatestTurn(c)}
        Top == {c \in Candidate : Cardinality(Newer(c)) < MaxConvos}
    IN  {s \in [1 .. Cardinality(Top) -> Top] :
            \A i, j \in DOMAIN s : i < j => LatestTurn(s[i]) > LatestTurn(s[j])}

\* PassGoesOn without the should_continue probe.
PassGoesOnRegardless(list, skipped, done, points, counted) ==
    LET Fit(c) == c \notin skipped /\ Cardinality(Pending(c, done)) >= MinTurns
        First == {i \in DOMAIN list : Fit(list[i]) /\ \A h \in 1 .. i - 1 : ~Fit(list[h])}
    IN  \/ \E i \in First :
              /\ pc' = "distil" /\ batch' = Pending(list[i], done) /\ answer' = {}
              /\ rest' = SubSeq(list, i + 1, Len(list)) /\ stored' = counted
              /\ facts' = points
        \/ /\ First = {}
           /\ pc' = "asleep" /\ batch' = {} /\ answer' = {} /\ rest' = <<>>
           /\ stored' = FALSE
           /\ IF counted THEN Sweep(points) ELSE facts' = points

\* The loop of consolidate() from the top: on to the next selected conversation
\* that is not skipped and still has enough turns, and suspend in its
\* distillation; or, when a request has come in or the list is used up, the end
\* of the pass, with a hygiene sweep if facts were counted.
PassGoesOn(list, skipped, done, points, counted) ==
    LET Fit(c) == c \notin skipped /\ Cardinality(Pending(c, done)) >= MinTurns
        First == {i \in DOMAIN list : Fit(list[i]) /\ \A h \in 1 .. i - 1 : ~Fit(list[h])}
    IN  \/ /\ quiet
           /\ \E i \in First :
              /\ pc' = "distil" /\ batch' = Pending(list[i], done) /\ answer' = {}
              /\ rest' = SubSeq(list, i + 1, Len(list)) /\ stored' = counted
              /\ facts' = points
        \/ /\ ~quiet \/ First = {}
           /\ pc' = "asleep" /\ batch' = {} /\ answer' = {} /\ rest' = <<>>
           /\ stored' = FALSE
           /\ IF counted THEN Sweep(points) ELSE facts' = points

PassBegins ==
    /\ pc = "asleep" /\ quiet
    /\ \E list \in Selected : PassGoesOn(list, skip, distilled, facts, FALSE)
    /\ at' = Now
    /\ UNCHANGED <<tables, requests, skip, faults, read>>

\* The model answers (external).
ModelAnswers ==
    /\ pc = "distil"
    /\ \E E \in SUBSET (FactsOf(batch) \ {NoFact}) : answer' = E
    /\ pc' = "answered" /\ read' = read \cup batch
    /\ UNCHANGED <<tables, facts, requests, rest, batch, at, stored, skip, faults>>

\* The distillation raises: on to the next conversation.
DistilFails ==
    /\ pc = "distil" /\ Fault
    /\ PassGoesOn(rest, skip, distilled, facts, stored)
    /\ UNCHANGED <<tables, requests, at, skip, read>>

\* PassSkips that marks the turns it got nothing from.
PassSkipsAndRetires ==
    /\ pc = "answered" /\ answer = {}
    /\ distilled' = distilled \cup (Ids(batch) \cap Ids(turns))
    /\ PassGoesOn(rest, skip, distilled', facts, stored)
    /\ UNCHANGED <<convs, turns, lastId, requests, at, skip, faults, read>>

\* Nothing came of it: the turns stay undistilled, the conversation is skipped
\* until the API restarts.
PassSkips ==
    /\ pc = "answered" /\ answer = {}
    /\ \E c \in {t.conv : t \in batch} :
          /\ skip' = skip \cup {c}
          /\ PassGoesOn(rest, skip', distilled, facts, stored)
    /\ UNCHANGED <<tables, requests, at, faults, read>>

\* store.add of every fact of the answer, of which the store may silently lose
\* some.
Added(E) == {[fact |-> f, conv |-> (CHOOSE t \in batch : TRUE).conv, ts |-> at] : f \in E}
StoreTakes(E) == \/ E = answer /\ UNCHANGED faults
                 \/ E # answer /\ Fault

\* PassStores that marks all turns the conversation has by now.
PassStoresMarksAll ==
    /\ pc = "answered" /\ answer # {}
    /\ LET c == (CHOOSE t \in batch : TRUE).conv
       IN  distilled' = distilled \cup Ids(Pending(c, {}))
    /\ \E E \in SUBSET answer :
          /\ StoreTakes(E)
          /\ PassGoesOn(rest, skip, distilled', facts \cup Added(E), TRUE)
    /\ UNCHANGED <<convs, turns, lastId, requests, at, skip, read>>

\* The facts are stored, then the turns that were read are marked distilled.
PassStores ==
    /\ pc = "answered" /\ answer # {}
    /\ distilled' = distilled \cup (Ids(batch) \cap Ids(turns))
    /\ \E E \in SUBSET answer :
          /\ StoreTakes(E)
          /\ PassGoesOn(rest, skip, distilled', facts \cup Added(E), TRUE)
    /\ UNCHANGED <<convs, turns, lastId, requests, at, skip, read>>

\* PassBreaks after which the sleep cycle's task is gone.
PassBreaksForGood ==
    /\ pc = "answered" /\ answer # {} /\ Fault
    /\ \E E \in SUBSET answer : facts' = facts \cup Added(E)
    /\ pc' = "dead" /\ rest' = <<>> /\ batch' = {} /\ answer' = {} /\ stored' = FALSE
    /\ UNCHANGED <<tables, requests, at, skip, read>>

\* The embedder raises on one of the facts: the pass is abandoned, the facts
\* before it are stored, and nothing is marked.
PassBreaks ==
    /\ pc = "answered" /\ answer # {} /\ Fault
    /\ \E E \in SUBSET answer : facts' = facts \cup Added(E)
    /\ pc' = "asleep" /\ rest' = <<>> /\ batch' = {} /\ answer' = {} /\ stored' = FALSE
    /\ UNCHANGED <<tables, requests, at, skip, read>>

\* The API process is killed and restarted: requests, the pass and the skip set
\* are gone; what a pass had stored but not marked stays.
ApiRestarts ==
    /\ Fault
    /\ \E E \in SUBSET answer : facts' = facts \cup (IF E = {} THEN {} ELSE Added(E))
    /\ chat' = [r \in Request |-> Idle] /\ quiet' = FALSE /\ skip' = {}
    /\ pc' = "asleep" /\ rest' = <<>> /\ batch' = {} /\ answer' = {} /\ stored' = FALSE
    /\ UNCHANGED <<tables, asked, at, read>>

Sleep == \/ PassBegins \/ ModelAnswers \/ DistilFails \/ PassSkips \/ PassStores
         \/ PassBreaks

Chat(r) == \/ \E c \in Conv, f \in Fact \cup {NoFact} : ChatBegins(r, c, f)
           \/ ChatReplies(r) \/ ChatFails(r) \/ ChatEnds(r)

Next == \/ \E r \in Request : Chat(r)
        \/ \E c \in Conv : DeleteConversation(c)
        \/ GoesQuiet \/ MemoryHygiene \/ Sleep \/ ApiRestarts

\* The event loop runs the sleep cycle's task, the model answers or times out,
\* time passes.  Users need not do anything.
Fairness == WF_vars(Sleep) /\ WF_vars(GoesQuiet)

Spec == Init /\ [][Next]_vars
FairSpec == Spec /\ Fairness
-----------------------------------------------------------------------------
(* Properties.                                                              *)

\* Types of the tables, the store, the requests and the pass.
TypeOK ==
    /\ convs \in SUBSET Conv
    /\ turns \subseteq [id : 1 .. lastId, conv : Conv, fact : Fact \cup {NoFact}]
    /\ lastId \in Nat /\ distilled \subseteq Ids(turns)
    /\ facts \subseteq [fact : Fact, conv : Conv \cup {NoConv}, ts : Nat]
    /\ chat \in [Request -> [at : {"idle", "generate", "distill"},
                             conv : Conv \cup {NoConv}, fact : Fact \cup {NoFact}]]
    /\ asked \in 0 .. MaxAsked /\ quiet \in BOOLEAN
    /\ pc \in {"asleep", "distil", "answered"} /\ rest \in Seq(Conv)
    /\ batch \cup read \subseteq [id : 1 .. lastId, conv : Conv, fact : Fact \cup {NoFact}]
    /\ answer \in SUBSET Fact /\ at \in Nat /\ stored \in BOOLEAN
    /\ skip \in SUBSET Conv /\ faults \in 0 .. MaxFaults

\* The ids identify the turns, and every turn belongs to a conversation, whatever
\* is deleted while a request or a pass still holds ids of the deleted rows.
TablesConsistent ==
    /\ \A t, u \in turns : t.id = u.id => t = u
    /\ \A t \in turns : t.conv \in convs

\* A turn is marked distilled only if the model has answered for it: one that
\* arrives during the distillation of its conversation, or in a conversation
\* deleted and begun again meanwhile, is not retired unread.
OnlyReadTurnsRetired == {t \in turns : t.id \in distilled} \subseteq read

\* Why a fact of the points may be missing after this step: another point of its
\* cluster is there in its stead, or the newest of them was an orphan.
Accounted(f, points) ==
    LET kin == Kin(f, points)
    IN  kin \cap facts' # {} \/ \E p \in NewestOf(kin) : Orphan(p)

\* A step that marks turns has an answer of which every fact is in memory
\* afterwards, or swept for a reason, or was lost by the store in this step.
RetiresForFacts ==
    distilled' \ distilled # {} =>
        /\ answer # {}
        /\ \A f \in answer \ FactsOf(facts') :
              faults' > faults \/ Accounted(f, facts \cup Added(answer))

\* Turns are retired in exchange for facts: consolidate() marks turns only when
\* their distillation gave some, and each of them is in memory afterwards, past
\* the sweep that may end the pass, or stands behind a point of its cluster that
\* is; unless the store silently lost it in this very step or the newest of its
\* cluster is of a deleted conversation.
RetiredForFacts == [][RetiresForFacts]_vars

\* A step that takes up a conversation is one without a new request.
BeginsInQuiet == batch' # batch /\ batch' # {} => quiet

\* server.py:183-184: a request that comes in while a conversation is being
\* distilled lets that one finish and no further one begin.
YieldsToForeground == [][BeginsInQuiet]_vars

\* Every fact that a step removes from memory is accounted for among the points
\* it had and those the step stored.
KeepsClusters ==
    \A f \in FactsOf(facts) \ FactsOf(facts') :
        \E E \in SUBSET answer : Accounted(f, facts \cup Added(E))

\* Deduplication empties no cluster: a fact vanishes from memory only behind a
\* point that stays and that a chain of near-duplicates connects it to, or when
\* the newest point of its cluster is of a deleted conversation.
NoClusterForgotten == [][KeepsClusters]_vars

\* Conversations with newer activity that are set aside fill the list of every
\* pass: skipped ones count against the LIMIT of conversations_with_undistilled.
Crowded(c) ==
    Cardinality({d \in Candidate \cap skip : LatestTurn(d) > LatestTurn(c)}) >= MaxConvos

\* Under quiet, a conversation with enough undistilled turns gets consolidated or
\* is set aside for this process, or those set aside crowd it out: failures,
\* crashes and requests only delay it, and so do conversations still to be done.
EventuallyDistilled ==
    \A c \in Conv : c \in Candidate ~> (c \notin Candidate \/ c \in skip \/ Crowded(c))

\* What sleep_cycle.py:70 says, "For each conversation with >= min_turns un-distilled
\* turns: distill": as EventuallyDistilled, with no conversation crowded out.
EveryConversationDistilled ==
    \A c \in Conv : c \in Candidate ~> (c \notin Candidate \/ c \in skip)

\* What sleep_cycle.py:113 says: turns are marked distilled "once the facts are
\* safely stored": every fact of the answer is then in memory.
RetireAfterStore ==
    [][distilled' \ distilled # {} => answer \subseteq FactsOf(facts')]_vars

\* What server.py:2058 says of the sweep's two parts, "both safe; keeps the
\* newest": a fact with a copy that is no orphan is still there after a sweep.
HygieneKeepsNewest ==
    [][MemoryHygiene => \A p \in facts : ~Orphan(p) => p.fact \in FactsOf(facts')]_vars

\* What memory_hygiene.py:4 says the sweep does, "collapses near-duplicate facts
\* (keeping the newest)": while nothing is orphaned, a fact it drops has a
\* near-duplicate that stays.
CollapsesNearDuplicates ==
    [][MemoryHygiene /\ (\A p \in facts : ~Orphan(p)) =>
          \A f \in FactsOf(facts) \ FactsOf(facts') :
              \E g \in FactsOf(facts') : Near(f, g)]_vars
=============================================================================
