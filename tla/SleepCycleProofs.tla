--------------------------- MODULE SleepCycleProofs ---------------------------
(***************************************************************************)
(* The invariants and action properties of SleepCycle, for any number of   *)
(* conversations, facts, requests and failures.                            *)
(***************************************************************************)
EXTENDS SleepCycle, SeqOpsProofs, FiniteSetTheorems

-----------------------------------------------------------------------------
(* The inductive invariant *)

\* A request under way belongs to a conversation.
ChatHasConv == \A r \in Request : chat[r].at # "idle" => chat[r].conv \in Conv

\* The turns being distilled are some, and once there is an answer they count
\* as read; no answer outlives its batch.
PassState ==
    /\ pc # "asleep" => batch # {}
    /\ pc # "answered" => answer = {}
    /\ pc = "answered" => batch \subseteq read

\* No id is given twice: what the pass holds or has read of a turn is that
\* turn, not another one under its id, whatever was deleted in between.
IdsLast == \A t \in turns : \A b \in batch \cup read : t.id = b.id => t = b

\* There are finitely many conversations, and a latest fact.
Bounded ==
    /\ IsFiniteSet(convs)
    /\ \E b \in Nat : \A p \in facts : p.ts <= b

Inv == /\ TypeOK /\ ChatHasConv /\ PassState /\ IdsLast /\ Bounded
       /\ TablesConsistent /\ OnlyReadTurnsRetired

Turn == [id : 1 .. lastId, conv : Conv, fact : Fact \cup {NoFact}]
Point == [fact : Fact, conv : Conv \cup {NoConv}, ts : Nat]

-----------------------------------------------------------------------------
(* Helpers *)

\* A bounded non-empty set of numbers has a greatest element.
LEMMA NewestIn ==
  ASSUME NEW S \in SUBSET Nat, S # {}, NEW b \in Nat, \A n \in S : n <= b
  PROVE  Newest(S) \in S /\ \A n \in S : n <= Newest(S)
  <1> DEFINE U == {u \in Nat : \A n \in S : n <= u}
  <1>1. PICK u \in U : \A v \in U : ~(v < u)
    <2>1. U \in SUBSET Nat /\ b \in U
      OBVIOUS
    <2> HIDE DEF U
    <2> QED BY <2>1, LeastNat
  <1>2. u \in S
    <2> SUFFICES ASSUME u \notin S PROVE FALSE
      OBVIOUS
    <2>1. \A n \in S : n <= u - 1
      BY <1>1
    <2>2. u - 1 \in Nat
      <3>1. PICK n \in S : TRUE
        OBVIOUS
      <3>2. u \in Nat /\ n \in Nat /\ n <= u - 1
        BY <1>1, <2>1
      <3> QED BY <3>2
    <2> QED BY <1>1, <2>1, <2>2
  <1>3. \E n \in S : \A m \in S : m <= n
    BY <1>1, <1>2
  <1> QED BY <1>3 DEF Newest

\* The clock reads a number.
LEMMA NowType ==
  ASSUME TypeOK, Bounded
  PROVE  Now \in Nat
  <1> DEFINE S == {p.ts + 1 : p \in facts} \cup {at}
  <1>1. PICK b \in Nat : \A p \in facts : p.ts <= b
    BY DEF Bounded
  <1>2. at \in Nat /\ \A p \in facts : p.ts \in Nat
    BY DEF TypeOK
  <1>3. S \in SUBSET Nat /\ S # {} /\ \A n \in S : n <= b + 1 + at
    BY <1>1, <1>2
  <1>4. b + 1 + at \in Nat
    BY <1>1, <1>2
  <1> HIDE DEF S
  <1>5. Newest(S) \in S
    BY <1>3, <1>4, NewestIn
  <1> QED BY <1>3, <1>5 DEF Now, S

\* A sweep leaves some of the points, and accounts for every fact it forgets.
LEMMA SweepFacts ==
  ASSUME NEW points, Sweep(points)
  PROVE  /\ facts' \subseteq points
         /\ \A f \in FactsOf(points) \ FactsOf(facts') : Accounted(f, points)
  <1>1. CASE facts' = points
    BY <1>1
  <1>2. CASE facts' \in SweptStores(points)
    <2> DEFINE Clusters == {Kin(f, points) : f \in FactsOf(points)}
    <2>1. PICK keep \in [Clusters -> points] :
              /\ \A K \in Clusters : keep[K] \in NewestOf(K)
              /\ facts' = {keep[K] : K \in Clusters} \ {p \in points : Orphan(p)}
      BY <1>2 DEF SweptStores
    <2>2. facts' \subseteq points
      BY <2>1
    <2>3. ASSUME NEW f \in FactsOf(points) \ FactsOf(facts')
          PROVE  Accounted(f, points)
      <3> DEFINE K == Kin(f, points)
      <3>1. K \in Clusters
        OBVIOUS
      <3>2. keep[K] \in points /\ keep[K] \in NewestOf(K)
        BY <2>1, <3>1
      <3>3. keep[K] \in K
        BY <3>2 DEF NewestOf
      <3>4. CASE Orphan(keep[K])
        BY <3>2, <3>4 DEF Accounted
      <3>5. CASE ~Orphan(keep[K])
        <4>1. keep[K] \in facts'
          BY <2>1, <3>1, <3>5
        <4> QED BY <3>3, <4>1 DEF Accounted
      <3> QED BY <3>4, <3>5
    <2> QED BY <2>2, <2>3
  <1> QED BY <1>1, <1>2 DEF Sweep

\* The list a pass works through is a sequence of conversations.
LEMMA SelectedType ==
  ASSUME TypeOK, Bounded, NEW list \in Selected
  PROVE  list \in Seq(Conv)
  <1> DEFINE Newer(c) == {d \in Candidate : LatestTurn(d) > LatestTurn(c)}
             Top == {c \in Candidate : Cardinality(Newer(c)) < MaxConvos}
  <1>1. list \in [1 .. Cardinality(Top) -> Top]
    BY DEF Selected
  <1>2. Top \in SUBSET convs /\ Top \subseteq Conv
    BY DEF TypeOK, Candidate
  <1> HIDE DEF Top
  <1>3. Cardinality(Top) \in Nat
    BY <1>2, FS_Subset, FS_CardinalityType DEF Bounded
  <1>4. list \in [1 .. Cardinality(Top) -> Conv]
    BY <1>1, <1>2
  <1> QED BY <1>3, <1>4

\* What the loop of consolidate() may do: take up some undistilled turns, in
\* quiet, or end, possibly with a sweep.
LEMMA PassGoesOnFacts ==
  ASSUME TypeOK, NEW list \in Seq(Conv), NEW skipped, NEW done, NEW points, NEW counted \in BOOLEAN,
         PassGoesOn(list, skipped, done, points, counted)
  PROVE  /\ answer' = {} /\ rest' \in Seq(Conv) /\ stored' \in BOOLEAN
         /\ \/ pc' = "distil" /\ quiet /\ batch' # {} /\ batch' \subseteq turns /\ facts' = points
            \/ pc' = "asleep" /\ batch' = {} /\ (Sweep(points) \/ facts' = points)
  <1> DEFINE Fit(c) == c \notin skipped /\ Cardinality(Pending(c, done)) >= MinTurns
             First == {i \in DOMAIN list : Fit(list[i]) /\ \A h \in 1 .. i - 1 : ~Fit(list[h])}
  <1>1. \/ /\ quiet
           /\ \E i \in First :
              /\ pc' = "distil" /\ batch' = Pending(list[i], done) /\ answer' = {}
              /\ rest' = SubSeq(list, i + 1, Len(list)) /\ stored' = counted
              /\ facts' = points
        \/ /\ pc' = "asleep" /\ batch' = {} /\ answer' = {} /\ rest' = <<>>
           /\ stored' = FALSE
           /\ Sweep(points) \/ facts' = points
    BY DEF PassGoesOn
  <1>2. ASSUME NEW i \in First PROVE Pending(list[i], done) # {} /\ SubSeq(list, i + 1, Len(list)) \in Seq(Conv)
    <2>1. Cardinality(Pending(list[i], done)) >= MinTurns /\ i \in 1 .. Len(list)
      OBVIOUS
    <2>2. Pending(list[i], done) # {}
      <3>1. Cardinality({}) = 0 /\ MinTurns \in Nat \ {0}
        BY FS_EmptySet, MemoryAssumption
      <3>2. ~(0 >= MinTurns)
        BY <3>1
      <3> QED BY <2>1, <3>1, <3>2
    <2>3. SubSeq(list, i + 1, Len(list)) \in Seq(Conv)
      BY <2>1
    <2> QED BY <2>2, <2>3
  <1> HIDE DEF First
  <1>3. \A c : Pending(c, done) \subseteq turns
    BY DEF Pending
  <1>4. ASSUME NEW i \in First, quiet, pc' = "distil", batch' = Pending(list[i], done),
               rest' = SubSeq(list, i + 1, Len(list)), facts' = points
        PROVE  batch' # {} /\ batch' \subseteq turns /\ rest' \in Seq(Conv)
    BY <1>2, <1>3, <1>4
  <1>5. <<>> \in Seq(Conv)
    OBVIOUS
  <1> QED BY <1>1, <1>4, <1>5

-----------------------------------------------------------------------------
(* Every step keeps the invariant *)

\* The initial states satisfy the invariant.
LEMMA InitInv == Init => Inv
  <1> SUFFICES ASSUME Init PROVE Inv
    OBVIOUS
  <1>1. asked \in 0 .. MaxAsked /\ faults \in 0 .. MaxFaults /\ lastId \in Nat /\ at \in Nat
    BY MemoryAssumption DEF Init
  <1>2. chat \in [Request -> [at : {"idle", "generate", "distill"},
                             conv : Conv \cup {NoConv}, fact : Fact \cup {NoFact}]]
    BY DEF Init, Idle
  <1>3. rest \in Seq(Conv) /\ pc \in {"asleep", "distil", "answered"}
    BY DEF Init
  <1>7. quiet \in BOOLEAN /\ stored \in BOOLEAN
    BY DEF Init
  <1>4. TypeOK
    BY <1>1, <1>2, <1>3, <1>7 DEF Init, TypeOK, Ids
  <1>5. ChatHasConv /\ PassState /\ IdsLast /\ TablesConsistent /\ OnlyReadTurnsRetired
    BY DEF Init, Idle, ChatHasConv, PassState, IdsLast, TablesConsistent, OnlyReadTurnsRetired
  <1>6. Bounded
    BY FS_EmptySet DEF Init, Bounded
  <1> QED BY <1>4, <1>5, <1>6 DEF Inv

\* What a step may do to the tables.
TableRules ==
    /\ lastId' \in Nat /\ lastId <= lastId'
    /\ convs' \subseteq Conv /\ IsFiniteSet(convs')
    /\ \A t \in turns' : \/ t \in turns
                         \/ /\ lastId' = lastId + 1 /\ t.id = lastId'
                            /\ t \in [id : 1 .. lastId', conv : Conv, fact : Fact \cup {NoFact}]
    /\ \A t, u \in turns' : t.id = u.id => t = u
    /\ \A t \in turns' : t.conv \in convs'
    /\ distilled' \subseteq Ids(turns')
    /\ \A t \in turns' : t.id \in distilled' =>
          t \in turns /\ (t.id \in distilled \/ (pc = "answered" /\ t.id \in Ids(batch)))

\* add_turn obeys the rules: the id it gives is new.
LEMMA AddTurnRules ==
  ASSUME Inv, NEW c \in Conv, NEW f \in Fact \cup {NoFact}, AddTurn(c, f)
  PROVE  TableRules
  <1>0. /\ lastId \in Nat /\ convs \subseteq Conv /\ IsFiniteSet(convs)
        /\ turns \subseteq Turn /\ distilled \subseteq Ids(turns) /\ TablesConsistent
    BY DEF Inv, TypeOK, Turn, Bounded
  <1> DEFINE new == [id |-> lastId + 1, conv |-> c, fact |-> f]
  <1>1. /\ lastId' = lastId + 1 /\ convs' = convs \cup {c} /\ turns' = turns \cup {new} /\ distilled' = distilled
        /\ new.id = lastId + 1 /\ new.conv = c
        /\ new \in [id : 1 .. lastId', conv : Conv, fact : Fact \cup {NoFact}]
    BY <1>0 DEF AddTurn
  <1>2. \A t \in turns : t.id \in 1 .. lastId /\ t.id # lastId + 1
    BY <1>0 DEF Turn
  <1>3. IsFiniteSet(convs')
    BY <1>0, <1>1, FS_AddElement
  <1> HIDE DEF new
  <1>4. lastId' \in Nat /\ lastId <= lastId' /\ convs' \subseteq Conv
    BY <1>0, <1>1
  <1>5. \A t, u \in turns' : t.id = u.id => t = u
    BY <1>0, <1>1, <1>2 DEF TablesConsistent
  <1>6. \A t \in turns' : t.conv \in convs'
    BY <1>0, <1>1 DEF TablesConsistent
  <1>7. distilled' \subseteq Ids(turns')
    BY <1>0, <1>1 DEF Ids
  <1>8. new.id \notin distilled
    BY <1>0, <1>1, <1>2 DEF Ids
  <1> QED BY <1>1, <1>3, <1>4, <1>5, <1>6, <1>7, <1>8 DEF TableRules

\* Leaving the tables alone obeys the rules, and so does marking the turns
\* the model has read.
LEMMA SameTurnsRules ==
  ASSUME Inv, UNCHANGED <<convs, turns, lastId>>,
         \/ distilled' = distilled
         \/ pc = "answered" /\ distilled' = distilled \cup (Ids(batch) \cap Ids(turns))
  PROVE  TableRules
  <1>0. /\ lastId \in Nat /\ convs \subseteq Conv /\ IsFiniteSet(convs)
        /\ distilled \subseteq Ids(turns) /\ TablesConsistent
    BY DEF Inv, TypeOK, Bounded
  <1> QED BY <1>0 DEF TableRules, TablesConsistent

\* Every step obeys the rules.
LEMMA TableStep ==
  ASSUME Inv, [Next]_vars
  PROVE  TableRules
  <1> USE DEF tables, requests, pass
  <1>P. \A c \in Conv, f \in Fact \cup {NoFact} : AddTurn(c, f) => TableRules
    BY AddTurnRules
  <1>U. UNCHANGED tables => TableRules
    BY SameTurnsRules
  <1>1. ASSUME NEW r \in Request, NEW c \in Conv, NEW f \in Fact \cup {NoFact}, ChatBegins(r, c, f)
        PROVE  TableRules
    BY <1>1, <1>P, <1>U DEF ChatBegins, PersistTurn
  <1>2. ASSUME NEW r \in Request, ChatReplies(r) PROVE TableRules
    <2>1. chat[r].conv \in Conv
      BY <1>2 DEF ChatReplies, Inv, ChatHasConv
    <2>2. NoFact \in Fact \cup {NoFact}
      OBVIOUS
    <2>3. AddTurn(chat[r].conv, NoFact) \/ UNCHANGED tables
      BY <1>2 DEF ChatReplies, PersistTurn
    <2> QED BY <1>P, <1>U, <2>1, <2>2, <2>3
  <1>3. ASSUME NEW r \in Request, ChatFails(r) \/ ChatEnds(r) PROVE TableRules
    BY <1>3, <1>U DEF ChatFails, ChatEnds
  <1>4. ASSUME NEW c \in Conv, DeleteConversation(c) PROVE TableRules
    <2>0. /\ lastId \in Nat /\ convs \subseteq Conv /\ IsFiniteSet(convs)
          /\ distilled \subseteq Ids(turns) /\ TablesConsistent
      BY DEF Inv, TypeOK, Bounded
    <2>1. /\ convs' = convs \ {c} /\ turns' = {t \in turns : t.conv # c} /\ lastId' = lastId
          /\ distilled' = distilled \cap Ids(turns')
      BY <1>4 DEF DeleteConversation
    <2>2. IsFiniteSet(convs')
      BY <2>0, <2>1, FS_Subset
    <2> QED BY <2>0, <2>1, <2>2 DEF TableRules, TablesConsistent
  <1>5. CASE PassStores
    BY <1>5, SameTurnsRules DEF PassStores
  <1>6. CASE GoesQuiet \/ MemoryHygiene \/ PassBegins \/ ModelAnswers \/ DistilFails \/ PassSkips \/ PassBreaks
             \/ ApiRestarts \/ UNCHANGED vars
    BY <1>6, <1>U DEF GoesQuiet, MemoryHygiene, PassBegins, ModelAnswers, DistilFails, PassSkips, PassBreaks,
         ApiRestarts, vars
  <1> QED
    BY <1>1, <1>2, <1>3, <1>4, <1>5, <1>6 DEF Next, Chat, Sleep

\* The chat requests.
LEMMA ChatStep ==
  ASSUME TypeOK, ChatHasConv, [Next]_vars
  PROVE  /\ chat' \in [Request -> [at : {"idle", "generate", "distill"},
                                  conv : Conv \cup {NoConv}, fact : Fact \cup {NoFact}]]
         /\ ChatHasConv' /\ asked' \in 0 .. MaxAsked /\ quiet' \in BOOLEAN /\ faults' \in 0 .. MaxFaults
  <1> USE DEF tables, requests, pass
  <1> DEFINE CT == [at : {"idle", "generate", "distill"}, conv : Conv \cup {NoConv}, fact : Fact \cup {NoFact}]
             Goal == chat' \in [Request -> CT] /\ ChatHasConv'
  <1>0. chat \in [Request -> CT] /\ ChatHasConv /\ Idle \in CT /\ Idle.at = "idle"
    BY DEF TypeOK, Idle
  <1>1. ASSUME NEW r \in Request, NEW c \in Conv, NEW f \in Fact \cup {NoFact}, ChatBegins(r, c, f)
        PROVE  Goal
    <2> DEFINE new == [at |-> "generate", conv |-> c, fact |-> f]
    <2>1. new \in CT /\ new.conv \in Conv /\ chat' = [chat EXCEPT ![r] = new]
      BY <1>1 DEF ChatBegins
    <2> HIDE DEF new
    <2> QED BY <1>0, <2>1 DEF ChatHasConv
  <1>2. ASSUME NEW r \in Request, ChatReplies(r) PROVE Goal
    <2>1. chat[r] \in CT /\ chat[r].at = "generate" /\ chat[r].conv \in Conv
          /\ chat' = [chat EXCEPT ![r].at = "distill"]
      BY <1>0, <1>2 DEF ChatReplies, ChatHasConv
    <2> DEFINE new == [chat[r] EXCEPT !.at = "distill"]
    <2>2. new \in CT /\ new.conv \in Conv /\ chat' = [chat EXCEPT ![r] = new]
      BY <2>1
    <2> HIDE DEF new
    <2> QED BY <1>0, <2>2 DEF ChatHasConv
  <1>3. ASSUME NEW r \in Request, ChatFails(r) \/ ChatEnds(r) PROVE Goal
    <2>1. chat' = [chat EXCEPT ![r] = Idle]
      BY <1>3 DEF ChatFails, ChatEnds
    <2> QED BY <1>0, <2>1 DEF ChatHasConv
  <1>4. ASSUME ApiRestarts PROVE Goal
    <2>1. chat' = [r \in Request |-> Idle]
      BY <1>4 DEF ApiRestarts
    <2> QED BY <1>0, <2>1 DEF ChatHasConv
  <1>5. ASSUME (\E c \in Conv : DeleteConversation(c)) \/ GoesQuiet \/ MemoryHygiene \/ Sleep \/ UNCHANGED vars
        PROVE  Goal
    <2>1. chat' = chat
      BY <1>5 DEF DeleteConversation, GoesQuiet, MemoryHygiene, Sleep, PassBegins, ModelAnswers, DistilFails,
           PassSkips, PassStores, PassBreaks, vars
    <2> QED BY <1>0, <2>1 DEF ChatHasConv
  <1>6. Goal
    BY <1>1, <1>2, <1>3, <1>4, <1>5 DEF Next, Chat
  <1>7. /\ asked' = asked \/ Asks
        /\ quiet' = quiet \/ quiet' = TRUE \/ quiet' = FALSE
        /\ faults' = faults \/ Fault
    BY DEF Next, Chat, ChatBegins, ChatReplies, ChatFails, ChatEnds, PersistTurn, DeleteConversation, GoesQuiet,
           MemoryHygiene, Sleep, PassBegins, ModelAnswers, DistilFails, PassSkips, PassStores, StoreTakes,
           PassBreaks, ApiRestarts, vars, Asks
  <1>8. asked' \in 0 .. MaxAsked /\ faults' \in 0 .. MaxFaults
    BY <1>7, MemoryAssumption DEF TypeOK, Asks, Fault
  <1>9. quiet' \in BOOLEAN
    BY <1>7 DEF TypeOK
  <1> QED BY <1>6, <1>8, <1>9

\* The points consolidate() adds for facts of the model's answer.
LEMMA AddedType ==
  ASSUME Inv, NEW E \in SUBSET answer, answer # {}
  PROVE  /\ batch # {} /\ (CHOOSE t \in batch : TRUE) \in batch
         /\ \A p \in Added(E) : p \in Point /\ p.ts = at /\ p.conv = (CHOOSE t \in batch : TRUE).conv
         /\ FactsOf(Added(E)) = E
  <1>1. pc = "answered" /\ batch # {} /\ at \in Nat /\ E \subseteq Fact
    BY DEF Inv, PassState, TypeOK
  <1> DEFINE c == (CHOOSE t \in batch : TRUE).conv
  <1>2. (CHOOSE t \in batch : TRUE) \in batch
    BY <1>1
  <1>3. c \in Conv
    BY <1>2 DEF Inv, TypeOK
  <1>4. Added(E) = {[fact |-> f, conv |-> c, ts |-> at] : f \in E}
    BY DEF Added
  <1> HIDE DEF c
  <1>5. \A p \in Added(E) : p \in Point /\ p.ts = at /\ p.conv = c
    BY <1>1, <1>3, <1>4 DEF Point
  <1>6. FactsOf(Added(E)) = E
    <2>1. \A f \in E : [fact |-> f, conv |-> c, ts |-> at] \in Added(E) /\ [fact |-> f, conv |-> c, ts |-> at].fact = f
      BY <1>4
    <2>2. \A p \in Added(E) : p.fact \in E
      BY <1>4
    <2> QED BY <2>1, <2>2 DEF FactsOf
  <1> QED BY <1>1, <1>2, <1>5, <1>6 DEF c

\* What a step may do to the pass and to what it has read.
PassRules ==
    /\ pc' \in {"asleep", "distil", "answered"} /\ rest' \in Seq(Conv)
    /\ answer' \subseteq Fact /\ stored' \in BOOLEAN /\ at' \in Nat /\ skip' \subseteq Conv
    /\ PassState'
    /\ batch' \cup read' \subseteq batch \cup read \cup turns /\ read \subseteq read'

\* Leaving the pass alone obeys the rules, and so does ending it.
LEMMA PassQuiescent ==
  ASSUME Inv, read' = read, skip' \subseteq Conv, at' \in Nat,
         \/ UNCHANGED pass
         \/ pc' = "asleep" /\ rest' = <<>> /\ batch' = {} /\ answer' = {} /\ stored' = FALSE
  PROVE  PassRules
  <1>0. /\ pc \in {"asleep", "distil", "answered"} /\ rest \in Seq(Conv) /\ answer \subseteq Fact
        /\ PassState
    BY DEF Inv, TypeOK
  <1>1. stored \in BOOLEAN /\ <<>> \in Seq(Conv)
    BY DEF Inv, TypeOK
  <1>2. stored' \in BOOLEAN
    BY <1>1 DEF pass
  <1> QED BY <1>0, <1>1, <1>2 DEF PassRules, PassState, pass

\* The loop of consolidate() obeys the rules.
LEMMA PassLoop ==
  ASSUME Inv, NEW list \in Seq(Conv), NEW skipped, NEW done, NEW points, NEW counted \in BOOLEAN,
         PassGoesOn(list, skipped, done, points, counted),
         read' = read, skip' \subseteq Conv, at' \in Nat
  PROVE  PassRules
  <1>1. /\ answer' = {} /\ rest' \in Seq(Conv) /\ stored' \in BOOLEAN
        /\ \/ pc' = "distil" /\ batch' # {} /\ batch' \subseteq turns
           \/ pc' = "asleep" /\ batch' = {}
    <2>1. TypeOK
      BY DEF Inv
    <2> QED BY <2>1, PassGoesOnFacts
  <1> QED BY <1>1 DEF PassRules, PassState

\* Every step obeys the rules.
LEMMA PassStep ==
  ASSUME Inv, [Next]_vars
  PROVE  PassRules
  <1> USE DEF tables, requests
  <1>0. /\ TypeOK /\ Bounded /\ skip \subseteq Conv /\ at \in Nat /\ rest \in Seq(Conv) /\ PassState
        /\ answer \subseteq Fact
    BY DEF Inv, TypeOK
  <1>B. stored \in BOOLEAN /\ FALSE \in BOOLEAN /\ TRUE \in BOOLEAN
    BY <1>0 DEF TypeOK
  <1>U. UNCHANGED pass /\ UNCHANGED read => PassRules
    BY <1>0, PassQuiescent DEF pass
  <1>1. CASE (\E r \in Request : Chat(r)) \/ (\E c \in Conv : DeleteConversation(c)) \/ GoesQuiet \/ MemoryHygiene
             \/ UNCHANGED vars
    <2>1. UNCHANGED pass /\ UNCHANGED read
      BY <1>1 DEF Chat, ChatBegins, ChatReplies, ChatFails, ChatEnds, DeleteConversation, GoesQuiet, MemoryHygiene,
           vars, pass
    <2> QED BY <2>1, <1>U
  <1>2. CASE PassBegins
    <2>1. PICK list \in Selected : PassGoesOn(list, skip, distilled, facts, FALSE)
      BY <1>2 DEF PassBegins
    <2>2. list \in Seq(Conv) /\ read' = read /\ skip' \subseteq Conv /\ at' \in Nat
      BY <1>0, <1>2, SelectedType, NowType DEF PassBegins
    <2> QED BY <1>B, <2>1, <2>2, PassLoop
  <1>3. CASE ModelAnswers
    <2>1. FactsOf(batch) \ {NoFact} \subseteq Fact
      BY DEF Inv, TypeOK, FactsOf
    <2>2. /\ pc' = "answered" /\ pc = "distil" /\ read' = read \cup batch /\ UNCHANGED <<rest, batch, at, stored, skip>>
          /\ answer' \subseteq Fact
      BY <1>3, <2>1 DEF ModelAnswers
    <2>3. stored' \in BOOLEAN
      BY <1>B, <2>2
    <2> QED BY <1>0, <2>2, <2>3 DEF PassRules, PassState
  <1>4. CASE DistilFails
    <2>1. PassGoesOn(rest, skip, distilled, facts, stored) /\ read' = read /\ skip' \subseteq Conv /\ at' \in Nat
      BY <1>0, <1>4 DEF DistilFails
    <2> QED BY <1>0, <1>B, <2>1, PassLoop
  <1>5. CASE PassSkips
    <2>1. PICK c \in {t.conv : t \in batch} : skip' = skip \cup {c} /\ PassGoesOn(rest, skip', distilled, facts, stored)
      BY <1>5 DEF PassSkips
    <2>2. c \in Conv
      BY <1>0 DEF TypeOK
    <2>3. read' = read /\ skip' \subseteq Conv /\ at' \in Nat
      BY <1>0, <1>5, <2>1, <2>2 DEF PassSkips
    <2> QED BY <1>0, <1>B, <2>1, <2>3, PassLoop
  <1>6. CASE PassStores
    <2>1. PICK E \in SUBSET answer : PassGoesOn(rest, skip, distilled', facts \cup Added(E), TRUE)
      BY <1>6 DEF PassStores
    <2>2. read' = read /\ skip' \subseteq Conv /\ at' \in Nat
      BY <1>0, <1>6 DEF PassStores
    <2> QED BY <1>0, <1>B, <2>1, <2>2, PassLoop
  <1>7. CASE PassBreaks \/ ApiRestarts
    <2>1. /\ read' = read /\ skip' \subseteq Conv /\ at' \in Nat
          /\ pc' = "asleep" /\ rest' = <<>> /\ batch' = {} /\ answer' = {} /\ stored' = FALSE
      BY <1>0, <1>7 DEF PassBreaks, ApiRestarts
    <2> QED BY <2>1, PassQuiescent
  <1> QED
    BY <1>1, <1>2, <1>3, <1>4, <1>5, <1>6, <1>7 DEF Next, Sleep

\* What a step may do to the store: new points are of now, and what is
\* forgotten is accounted for.
StoreRules ==
    /\ \A p \in facts' : p \in facts \/ (p \in Point /\ p.ts \in {Now, at})
    /\ KeepsClusters

\* A step that stores nothing accounts for what it forgets among the points
\* there were.
LEMMA NothingAdded ==
  ASSUME \A f \in FactsOf(facts) \ FactsOf(facts') : Accounted(f, facts)
  PROVE  KeepsClusters
  <1>1. facts \cup Added({}) = facts
    BY DEF Added
  <1>2. {} \in SUBSET answer
    OBVIOUS
  <1> QED BY <1>1, <1>2 DEF KeepsClusters

\* The loop of consolidate(), entered with no new points.
LEMMA LoopKeeps ==
  ASSUME TypeOK, NEW list \in Seq(Conv), NEW skipped, NEW counted \in BOOLEAN,
         PassGoesOn(list, skipped, distilled, facts, counted)
  PROVE  StoreRules
  <1>1. Sweep(facts) \/ facts' = facts
    BY PassGoesOnFacts
  <1>2. /\ facts' \subseteq facts
        /\ \A f \in FactsOf(facts) \ FactsOf(facts') : Accounted(f, facts)
    BY <1>1, SweepFacts
  <1> QED BY <1>2, NothingAdded DEF StoreRules

\* consolidate() stores facts of the answer and goes on.
LEMMA LoopStores ==
  ASSUME Inv, answer # {}, NEW E \in SUBSET answer, NEW done,
         PassGoesOn(rest, skip, done, facts \cup Added(E), TRUE)
  PROVE  /\ StoreRules
         /\ \A f \in E \ FactsOf(facts') : Accounted(f, facts \cup Added(E))
  <1> DEFINE points == facts \cup Added(E)
  <1>0. TypeOK /\ rest \in Seq(Conv) /\ TRUE \in BOOLEAN
    BY DEF Inv, TypeOK
  <1>1. Sweep(points) \/ facts' = points
    BY <1>0, PassGoesOnFacts
  <1>2. /\ facts' \subseteq points
        /\ \A f \in FactsOf(points) \ FactsOf(facts') : Accounted(f, points)
    BY <1>1, SweepFacts
  <1>3. /\ \A p \in Added(E) : p \in Point /\ p.ts = at
        /\ FactsOf(Added(E)) = E
    BY AddedType
  <1>4. FactsOf(points) = FactsOf(facts) \cup E
    BY <1>3 DEF FactsOf
  <1> HIDE DEF points
  <1>5. \A f \in (FactsOf(facts) \cup E) \ FactsOf(facts') : Accounted(f, points)
    BY <1>2, <1>4
  <1>6. KeepsClusters
    BY <1>5 DEF KeepsClusters, points
  <1>7. \A p \in facts' : p \in facts \/ (p \in Point /\ p.ts \in {Now, at})
    BY <1>2, <1>3 DEF points
  <1> QED BY <1>5, <1>6, <1>7 DEF StoreRules, points

\* Every step obeys the rules of the store.
LEMMA StoreStep ==
  ASSUME Inv, [Next]_vars
  PROVE  StoreRules
  <1> USE DEF tables, requests, pass
  <1>0. TypeOK /\ Bounded /\ rest \in Seq(Conv)
    BY DEF Inv, TypeOK
  <1>B. stored \in BOOLEAN /\ FALSE \in BOOLEAN
    BY <1>0 DEF TypeOK
  <1>G. ASSUME facts \subseteq facts' PROVE KeepsClusters
    BY <1>G DEF KeepsClusters, FactsOf
  <1>U. ASSUME facts' = facts PROVE StoreRules
    BY <1>U, <1>G DEF StoreRules
  <1>1. ASSUME NEW r \in Request, ChatEnds(r) PROVE StoreRules
    <2> DEFINE f == chat[r].fact
               point == [fact |-> f, conv |-> NoConv, ts |-> Now]
    <2>1. facts' = facts \/ (f # NoFact /\ facts' = facts \cup {point})
      BY <1>1 DEF ChatEnds
    <2>2. CASE facts' = facts
      BY <1>U, <2>2
    <2>3. CASE f # NoFact /\ facts' = facts \cup {point}
      <3>1. f \in Fact
        BY <1>0, <2>3 DEF TypeOK
      <3>2. point \in Point /\ point.ts = Now
        BY <1>0, <3>1, NowType DEF Point
      <3> HIDE DEF point
      <3> QED BY <1>G, <2>3, <3>2 DEF StoreRules
    <2> QED BY <2>1, <2>2, <2>3
  <1>2. CASE MemoryHygiene
    <2>1. /\ facts' \subseteq facts
          /\ \A f \in FactsOf(facts) \ FactsOf(facts') : Accounted(f, facts)
      BY <1>2, SweepFacts DEF MemoryHygiene
    <2> QED BY <2>1, NothingAdded DEF StoreRules
  <1>3. CASE PassBegins
    <2>1. PICK list \in Selected : PassGoesOn(list, skip, distilled, facts, FALSE)
      BY <1>3 DEF PassBegins
    <2>2. list \in Seq(Conv)
      BY <1>0, SelectedType
    <2> QED BY <1>0, <1>B, <2>1, <2>2, LoopKeeps
  <1>4. CASE DistilFails
    BY <1>0, <1>B, <1>4, LoopKeeps DEF DistilFails
  <1>5. CASE PassSkips
    <2>1. PassGoesOn(rest, skip', distilled, facts, stored)
      BY <1>5 DEF PassSkips
    <2> QED BY <1>0, <1>B, <2>1, LoopKeeps
  <1>6. CASE PassStores
    <2>1. answer # {} /\ \E E \in SUBSET answer : PassGoesOn(rest, skip, distilled', facts \cup Added(E), TRUE)
      BY <1>6 DEF PassStores
    <2> QED BY <2>1, LoopStores
  <1>7. CASE PassBreaks \/ ApiRestarts
    <2>1. PICK E \in SUBSET answer : \/ answer # {} /\ facts' = facts \cup Added(E)
                                    \/ facts' = facts
      BY <1>7 DEF PassBreaks, ApiRestarts
    <2>2. CASE facts' = facts
      BY <1>U, <2>2
    <2>3. CASE answer # {} /\ facts' = facts \cup Added(E)
      <3>1. \A p \in Added(E) : p \in Point /\ p.ts = at
        BY <2>3, AddedType
      <3> QED BY <1>G, <2>3, <3>1 DEF StoreRules
    <2> QED BY <2>1, <2>2, <2>3
  <1>8. CASE (\E r \in Request : \/ \E c \in Conv, f \in Fact \cup {NoFact} : ChatBegins(r, c, f)
                                 \/ ChatReplies(r) \/ ChatFails(r))
             \/ (\E c \in Conv : DeleteConversation(c)) \/ GoesQuiet \/ ModelAnswers \/ UNCHANGED vars
    <2>1. facts' = facts
      BY <1>8 DEF ChatBegins, ChatReplies, ChatFails, DeleteConversation, GoesQuiet, ModelAnswers, vars
    <2> QED BY <1>U, <2>1
  <1> QED
    BY <1>1, <1>2, <1>3, <1>4, <1>5, <1>6, <1>7, <1>8 DEF Next, Chat, Sleep

\* The steps that mark turns, and those that take up a conversation.
LEMMA RetireStep ==
  ASSUME Inv, [Next]_vars
  PROVE  RetiresForFacts /\ BeginsInQuiet
  <1> USE DEF tables, requests, pass
  <1>0. TypeOK /\ Bounded /\ rest \in Seq(Conv) /\ faults \in Nat
    BY DEF Inv, TypeOK
  <1>B. stored \in BOOLEAN /\ FALSE \in BOOLEAN /\ TRUE \in BOOLEAN
    BY <1>0 DEF TypeOK
  <1>L. ASSUME NEW list \in Seq(Conv), NEW skipped, NEW done, NEW points, NEW counted \in BOOLEAN,
               PassGoesOn(list, skipped, done, points, counted)
        PROVE  BeginsInQuiet
    <2>1. batch' = {} \/ quiet
      BY <1>0, <1>L, PassGoesOnFacts
    <2> QED BY <2>1 DEF BeginsInQuiet
  <1>D. ASSUME distilled' \subseteq distilled PROVE RetiresForFacts
    BY <1>D DEF RetiresForFacts
  <1>1. CASE PassBegins
    <2>1. PICK list \in Selected : PassGoesOn(list, skip, distilled, facts, FALSE)
      BY <1>1 DEF PassBegins
    <2>2. list \in Seq(Conv)
      BY <1>0, SelectedType
    <2> QED BY <1>1, <1>B, <1>D, <1>L, <2>1, <2>2 DEF PassBegins
  <1>2. CASE DistilFails
    BY <1>0, <1>2, <1>B, <1>D, <1>L DEF DistilFails
  <1>3. CASE PassSkips
    <2>1. PassGoesOn(rest, skip', distilled, facts, stored) /\ distilled' = distilled
      BY <1>3 DEF PassSkips
    <2> QED BY <1>0, <1>B, <1>D, <1>L, <2>1
  <1>4. CASE PassStores
    <2>1. PICK E \in SUBSET answer : StoreTakes(E) /\ PassGoesOn(rest, skip, distilled', facts \cup Added(E), TRUE)
      BY <1>4 DEF PassStores
    <2>2. BeginsInQuiet
      BY <1>0, <1>B, <1>L, <2>1
    <2>3. answer # {}
      BY <1>4 DEF PassStores
    <2>4. \A f \in E \ FactsOf(facts') : Accounted(f, facts \cup Added(E))
      BY <2>1, <2>3, LoopStores
    <2>5. E = answer \/ faults' > faults
      BY <1>0, <2>1 DEF StoreTakes, Fault
    <2> QED BY <2>2, <2>3, <2>4, <2>5 DEF RetiresForFacts
  <1>5. CASE (\E r \in Request : Chat(r)) \/ (\E c \in Conv : DeleteConversation(c)) \/ GoesQuiet \/ MemoryHygiene
             \/ ModelAnswers \/ PassBreaks \/ ApiRestarts \/ UNCHANGED vars
    <2>1. batch' = batch \/ batch' = {}
      BY <1>5 DEF Chat, ChatBegins, ChatReplies, ChatFails, ChatEnds, DeleteConversation, GoesQuiet, MemoryHygiene,
           ModelAnswers, PassBreaks, ApiRestarts, vars
    <2>2. distilled' \subseteq distilled
      BY <1>5 DEF Chat, ChatBegins, ChatReplies, ChatFails, ChatEnds, PersistTurn, AddTurn, DeleteConversation,
           GoesQuiet, MemoryHygiene, ModelAnswers, PassBreaks, ApiRestarts, vars
    <2> QED BY <1>D, <2>1, <2>2 DEF BeginsInQuiet
  <1> QED
    BY <1>1, <1>2, <1>3, <1>4, <1>5 DEF Next, Sleep

-----------------------------------------------------------------------------
(* The theorems *)

\* Every step keeps the invariant.
LEMMA InvStep ==
  ASSUME Inv, [Next]_vars
  PROVE  Inv'
  <1>1. TableRules /\ PassRules /\ StoreRules
    BY TableStep, PassStep, StoreStep
  <1>2. lastId \in Nat /\ turns \cup batch \cup read \subseteq Turn /\ facts \subseteq Point
    BY DEF Inv, TypeOK, Turn, Point
  <1>3. lastId' \in Nat /\ lastId <= lastId'
    BY <1>1 DEF TableRules
  <1> DEFINE Turn2 == [id : 1 .. lastId', conv : Conv, fact : Fact \cup {NoFact}]
  <1>4. Turn \subseteq Turn2
    BY <1>2, <1>3 DEF Turn
  <1>5. turns' \subseteq Turn2 /\ batch' \cup read' \subseteq Turn2
    BY <1>1, <1>2, <1>4 DEF TableRules, PassRules
  <1>6. facts' \subseteq Point
    BY <1>1, <1>2 DEF StoreRules
  <1>7. TypeOK' /\ ChatHasConv'
    <2>1. /\ chat' \in [Request -> [at : {"idle", "generate", "distill"},
                                    conv : Conv \cup {NoConv}, fact : Fact \cup {NoFact}]]
          /\ ChatHasConv' /\ asked' \in 0 .. MaxAsked /\ quiet' \in BOOLEAN /\ faults' \in 0 .. MaxFaults
      BY ChatStep DEF Inv
    <2>2. /\ pc' \in {"asleep", "distil", "answered"} /\ rest' \in Seq(Conv)
          /\ answer' \subseteq Fact /\ stored' \in BOOLEAN /\ at' \in Nat /\ skip' \subseteq Conv
      BY <1>1 DEF PassRules
    <2>3. convs' \subseteq Conv /\ distilled' \subseteq Ids(turns')
      BY <1>1 DEF TableRules
    <2>4. Ids(turns') = Ids(turns)'
      BY DEF Ids
    <2> QED BY <1>3, <1>5, <1>6, <2>1, <2>2, <2>3, <2>4 DEF TypeOK, Point
  <1>8. TablesConsistent'
    BY <1>1 DEF TableRules, TablesConsistent
  <1>9. IdsLast'
    <2> SUFFICES ASSUME NEW t \in turns', NEW b \in batch' \cup read', t.id = b.id PROVE t = b
      BY DEF IdsLast
    <2>1. b \in turns \cup batch \cup read /\ b.id \in 1 .. lastId
      BY <1>1, <1>2 DEF PassRules, Turn
    <2>2. t \in turns
      BY <1>1, <1>2, <2>1 DEF TableRules
    <2> QED BY <2>1, <2>2 DEF Inv, IdsLast, TablesConsistent
  <1>10. OnlyReadTurnsRetired'
    <2> SUFFICES ASSUME NEW t \in turns', t.id \in distilled' PROVE t \in read'
      BY DEF OnlyReadTurnsRetired
    <2>1. t \in turns /\ (t.id \in distilled \/ (pc = "answered" /\ t.id \in Ids(batch)))
      BY <1>1 DEF TableRules
    <2>2. t \in read
      BY <2>1 DEF Inv, OnlyReadTurnsRetired, PassState, IdsLast, Ids
    <2> QED BY <1>1, <2>2 DEF PassRules
  <1>11. Bounded'
    <2>1. PICK b \in Nat : \A p \in facts : p.ts <= b
      BY DEF Inv, Bounded
    <2>2. Now \in Nat /\ at \in Nat
      BY NowType DEF Inv, TypeOK
    <2> DEFINE n == b + Now + at
    <2>3. n \in Nat /\ b <= n /\ Now <= n /\ at <= n
      BY <2>1, <2>2
    <2>4. \A p \in facts : p.ts \in Nat
      BY <1>2 DEF Point
    <2> HIDE DEF n
    <2>5. \A p \in facts' : p.ts <= n
      BY <1>1, <2>1, <2>2, <2>3, <2>4 DEF StoreRules
    <2> QED BY <1>1, <2>3, <2>5 DEF Bounded, TableRules
  <1>12. PassState'
    BY <1>1 DEF PassRules
  <1> QED BY <1>7, <1>8, <1>9, <1>10, <1>11, <1>12 DEF Inv

\* The invariant holds in every reachable state.
THEOREM Invariance == Spec => []Inv
  BY InitInv, InvStep, PTL DEF Spec

\* Tables, store, requests and pass keep their types.
THEOREM TypeCorrect == Spec => []TypeOK
  <1>1. Inv => TypeOK
    BY DEF Inv
  <1> QED
    BY Invariance, <1>1, PTL

\* Turn ids identify turns and every turn has its conversation, whatever is
\* deleted while requests and a pass are under way.
THEOREM TablesCorrect == Spec => []TablesConsistent
  <1>1. Inv => TablesConsistent
    BY DEF Inv
  <1> QED
    BY Invariance, <1>1, PTL

\* consolidate() marks no turn the model has not answered for.
THEOREM RetirementCorrect == Spec => []OnlyReadTurnsRetired
  <1>1. Inv => OnlyReadTurnsRetired
    BY DEF Inv
  <1> QED
    BY Invariance, <1>1, PTL

\* Turns are marked distilled in exchange for facts.
THEOREM ExchangeCorrect == Spec => RetiredForFacts
  <1>1. Inv /\ [Next]_vars => [RetiresForFacts]_vars
    BY RetireStep
  <1> QED
    BY Invariance, <1>1, PTL DEF Spec, RetiredForFacts

\* consolidate() takes up no conversation after a request has come in.
THEOREM YieldCorrect == Spec => YieldsToForeground
  <1>1. Inv /\ [Next]_vars => [BeginsInQuiet]_vars
    BY RetireStep
  <1> QED
    BY Invariance, <1>1, PTL DEF Spec, YieldsToForeground

\* A fact is forgotten only behind a point of its cluster that stays, or when the
\* newest point of its cluster is of a deleted conversation; for any similarity.
THEOREM MemoryCorrect == Spec => NoClusterForgotten
  <1>1. Inv /\ [Next]_vars => [KeepsClusters]_vars
    BY StoreStep DEF StoreRules
  <1> QED
    BY Invariance, <1>1, PTL DEF Spec, NoClusterForgotten
=============================================================================
