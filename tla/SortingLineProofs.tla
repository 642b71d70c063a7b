--------------------------- MODULE SortingLineProofs ---------------------------
(***************************************************************************)
(* The invariants of SortingLine, for any number of files and of faults.   *)
(***************************************************************************)
EXTENDS SortingLine, SeqOpsProofs, FiniteSetTheorems

-----------------------------------------------------------------------------
(* The inductive invariant *)

Ids == {pt.id : pt \in prov \cup mature}

\* What belongs to a call is empty unless that call runs; the listed files
\* are in the inbox; no point is promoted twice by one call.
Calls ==
    /\ mode # "promote" => promo = {} /\ promoted = {}
    /\ mode \in {"ingest", "move"} <=> todo # {}
    /\ \A f \in todo : place[f] = "inbox"
    /\ promo \cap promoted = {}

\* The store has finitely many points, each with an id of its own: delete, by
\* ids in the code, deletes the points promote has tried.
UniqueIds ==
    /\ IsFiniteSet(Ids)
    /\ \A p, q \in prov \cup mature : p.id = q.id => p = q
    /\ prov \cap mature = {}

Lost(f) == f \in swallowed

\* Before a file is moved to processed its point is there, and before a
\* promoted point is deleted the mature one is, unless the store lost them.
Safe ==
    /\ mode = "move" /\ ok => Stored(Min(todo)) \/ Lost(Min(todo))
    /\ \A pt \in promoted : (\E q \in mature : q.file = pt.file) \/ Lost(pt.file)
    /\ OnlySwallowedLost

Live == (prov \ promoted) \cup mature

\* Without a fault no file has two points, and a file that is still in the
\* inbox has none unless it has just been ingested.
Single ==
    faults = 0 =>
        /\ \A p, q \in Live : p.file = q.file => p = q
        /\ \A p \in Live : \/ place[p.file] \in {"processed", "failed"}
                           \/ mode = "move" /\ p.file = Min(todo)

Inv == TypeOK /\ Calls /\ UniqueIds /\ Safe /\ Single

-----------------------------------------------------------------------------
(* Helpers *)

\* The minimum of a non-empty set of numbers is one of them.
LEMMA MinIn ==
  ASSUME NEW S \in SUBSET Nat, S # {}
  PROVE  Min(S) \in S
  <1>1. \E x \in S : \A y \in S : ~(y < x)
    BY LeastNat
  <1>2. \E x \in S : \A y \in S : x =< y
    BY <1>1
  <1> QED BY <1>2 DEF Min

\* uuid4's stand-in is a number no point of the store has for its id.
LEMMA FreshIdFresh ==
  ASSUME IsFiniteSet(Ids)
  PROVE  FreshId \in Nat /\ FreshId \notin Ids
  <1> DEFINE n == Cardinality(Ids)
             S == (0 .. n) \ Ids
  <1>1. n \in Nat
    BY FS_CardinalityType
  <1> HIDE DEF n
  <1>2. S # {}
    <2> SUFFICES ASSUME 0 .. n \subseteq Ids PROVE FALSE
      OBVIOUS
    <2>1. Cardinality(0 .. n) <= n
      BY FS_Subset DEF n
    <2>2. Cardinality(0 .. n) = n + 1
      BY <1>1, FS_Interval
    <2> QED BY <1>1, <2>1, <2>2
  <1>3. S \in SUBSET Nat
    BY <1>1
  <1>4. FreshId = Min(S)
    BY DEF FreshId, n, Ids
  <1> HIDE DEF S
  <1>5. Min(S) \in S
    BY <1>2, <1>3, MinIn
  <1> QED BY <1>4, <1>5, <1>3 DEF S

\* The file at hand in a pass.
LEMMA MinTodo ==
  ASSUME TypeOK, todo # {}
  PROVE  Min(todo) \in todo /\ Min(todo) \in File
  <1>1. todo \in SUBSET Nat
    BY DEF TypeOK, File
  <1> QED BY <1>1, MinIn DEF TypeOK

-----------------------------------------------------------------------------
(* Every step keeps the invariant *)

\* The initial states satisfy the invariant.
LEMMA InitInv == Init => Inv
  <1> SUFFICES ASSUME Init PROVE Inv
    OBVIOUS
  <1>0. faults \in 0 .. MaxFaults
    BY SortingAssumption DEF Init
  <1>1. TypeOK
    BY <1>0 DEF Init, TypeOK
  <1>2. Calls /\ Safe /\ Single
    BY DEF Init, Calls, Safe, Single, Live, OnlySwallowedLost
  <1>3. Ids = {}
    BY DEF Init, Ids
  <1>4. UniqueIds
    BY <1>3, FS_EmptySet DEF Init, UniqueIds
  <1> QED BY <1>1, <1>2, <1>4 DEF Inv

\* A step that adds a point to neither collection keeps the ids unique.
LEMMA NoNewPoint ==
  ASSUME UniqueIds, prov' \subseteq prov, mature' \subseteq mature
  PROVE  UniqueIds'
  <1>1. Ids' \in SUBSET Ids
    BY DEF Ids
  <1>2. IsFiniteSet(Ids')
    BY <1>1, FS_Subset DEF UniqueIds
  <1> QED BY <1>2 DEF UniqueIds

\* A new point with a fresh id keeps them unique.
LEMMA NewPoint ==
  ASSUME UniqueIds, NEW f, NEW b, NEW pt, pt = [id |-> FreshId, file |-> f, whole |-> b],
         \/ prov' = prov \cup {pt} /\ mature' = mature
         \/ mature' = mature \cup {pt} /\ prov' = prov
  PROVE  UniqueIds'
  <1>1. FreshId \notin Ids /\ IsFiniteSet(Ids)
    BY FreshIdFresh DEF UniqueIds
  <1>0. prov' \cup mature' = (prov \cup mature) \cup {pt}
    OBVIOUS
  <1>2. Ids' = Ids \cup {FreshId}
    BY <1>0 DEF Ids
  <1>3. IsFiniteSet(Ids')
    BY <1>1, <1>2, FS_AddElement
  <1>4. \A p \in prov \cup mature : p.id # pt.id
    BY <1>1 DEF Ids
  <1>5. prov' \cap mature' = {}
    BY <1>4 DEF UniqueIds
  <1> QED BY <1>0, <1>3, <1>4, <1>5 DEF UniqueIds

\* The types.
LEMMA TypeStep ==
  ASSUME TypeOK, Calls, UniqueIds, [Next]_vars
  PROVE  TypeOK'
  <1> USE SortingAssumption DEF inboxVars, promoVars, storeVars
  <1>0. MaxFaults \in Nat /\ FreshId \in Nat
    BY FreshIdFresh DEF UniqueIds
  <1>F. ASSUME Fault PROVE faults' \in 0 .. MaxFaults
    BY <1>F DEF Fault, TypeOK
  <1>1. CASE StartPass
    BY <1>1 DEF StartPass, TypeOK
  <1>2. CASE IngestFile
    <2> DEFINE f == Min(todo)
               pt == [id |-> FreshId, file |-> f, whole |-> f \in whole]
    <2>1. f \in File /\ pt \in Point
      BY <1>0, <1>2, MinTodo DEF IngestFile, Point
    <2>2. /\ prov' = prov \/ prov' = prov \cup {pt}
          /\ swallowed' = swallowed \/ swallowed' = swallowed \cup {f}
          /\ faults' = faults \/ Fault
      BY <1>2 DEF IngestFile, Add
    <2>3. faults' \in 0 .. MaxFaults
      BY <2>2, <1>F DEF TypeOK
    <2> HIDE DEF f, pt
    <2>4. prov' \subseteq Point /\ swallowed' \subseteq File /\ promo \subseteq prov' /\ promoted \subseteq prov'
      BY <2>1, <2>2 DEF TypeOK
    <2> QED BY <1>2, <2>3, <2>4 DEF IngestFile, TypeOK
  <1>3. CASE EmbedRaises
    BY <1>3, <1>F DEF EmbedRaises, TypeOK, Calls
  <1>4. CASE MoveFile
    <2>1. faults' \in 0 .. MaxFaults
      BY <1>4, <1>F DEF MoveFile, TypeOK
    <2>2. place' \in [File -> {"absent", "inbox", "processed", "failed"}]
      BY <1>4 DEF MoveFile, TypeOK
    <2> QED BY <1>4, <2>1, <2>2 DEF MoveFile, TypeOK, Calls
  <1>5. CASE StartPromote
    BY <1>5 DEF StartPromote, TypeOK
  <1>6. CASE PromotePoint
    <2>1. PICK pt \in promo : /\ Add(mature, pt.file, pt.whole)
                              /\ promo' = promo \ {pt} /\ promoted' = promoted \cup {pt}
      BY <1>6 DEF PromotePoint
    <2> DEFINE new == [id |-> FreshId, file |-> pt.file, whole |-> pt.whole]
    <2>2. new \in Point /\ pt.file \in File /\ pt \in prov
      BY <1>0, <2>1 DEF TypeOK, Point
    <2>3. /\ mature' = mature \/ mature' = mature \cup {new}
          /\ swallowed' = swallowed \/ swallowed' = swallowed \cup {pt.file}
          /\ faults' = faults \/ Fault
      BY <2>1 DEF Add
    <2>4. faults' \in 0 .. MaxFaults
      BY <2>3, <1>F DEF TypeOK
    <2> HIDE DEF new
    <2>5. mature' \subseteq Point /\ swallowed' \subseteq File
      BY <2>2, <2>3 DEF TypeOK
    <2> QED BY <1>6, <2>1, <2>2, <2>4, <2>5 DEF PromotePoint, TypeOK
  <1>7. CASE DeletePromoted
    BY <1>7, <1>F DEF DeletePromoted, TypeOK, Calls
  <1>8. CASE Crash
    BY <1>8, <1>F DEF Crash, TypeOK
  <1>9. ASSUME NEW f \in File, Drop(f) PROVE TypeOK'
    BY <1>9 DEF Drop, TypeOK
  <1>10. ASSUME NEW f \in File, FinishCopy(f) PROVE TypeOK'
    BY <1>10 DEF FinishCopy, TypeOK
  <1>11. CASE UNCHANGED vars
    BY <1>11 DEF vars, TypeOK
  <1> QED
    BY <1>1, <1>2, <1>3, <1>4, <1>5, <1>6, <1>7, <1>8, <1>9, <1>10, <1>11 DEF Next, Pass, Promotion

\* Calls.
LEMMA CallsStep ==
  ASSUME TypeOK, Calls, [Next]_vars
  PROVE  Calls'
  <1> USE DEF inboxVars, promoVars, storeVars
  <1>1. CASE StartPass
    BY <1>1 DEF StartPass, TypeOK, Calls
  <1>2. CASE IngestFile
    BY <1>2 DEF IngestFile, Calls
  <1>3. CASE EmbedRaises
    BY <1>3 DEF EmbedRaises, Calls
  <1>4. CASE MoveFile
    <2>1. \A f \in todo' : place'[f] = place[f]
      BY <1>4 DEF MoveFile, TypeOK
    <2> QED BY <1>4, <2>1 DEF MoveFile, Calls
  <1>5. CASE StartPromote
    BY <1>5 DEF StartPromote, TypeOK, Calls
  <1>6. CASE PromotePoint
    BY <1>6 DEF PromotePoint, Calls
  <1>7. CASE DeletePromoted
    BY <1>7 DEF DeletePromoted, Calls
  <1>8. CASE Crash
    BY <1>8 DEF Crash, Calls
  <1>9. ASSUME NEW f \in File, Drop(f) PROVE Calls'
    <2>1. \A g \in todo' : place'[g] = "inbox"
      BY <1>9 DEF Drop, TypeOK, Calls
    <2> QED BY <1>9, <2>1 DEF Drop, Calls
  <1>10. ASSUME NEW f \in File, FinishCopy(f) PROVE Calls'
    BY <1>10 DEF FinishCopy, Calls
  <1>11. CASE UNCHANGED vars
    BY <1>11 DEF vars, Calls
  <1> QED
    BY <1>1, <1>2, <1>3, <1>4, <1>5, <1>6, <1>7, <1>8, <1>9, <1>10, <1>11 DEF Next, Pass, Promotion

\* UniqueIds.
LEMMA UniqueIdsStep ==
  ASSUME TypeOK, UniqueIds, [Next]_vars
  PROVE  UniqueIds'
  <1> USE DEF inboxVars, promoVars, storeVars
  <1>1. CASE IngestFile
    <2> DEFINE f == Min(todo)
    <2>1. CASE UNCHANGED prov
      BY <1>1, <2>1, NoNewPoint DEF IngestFile
    <2>2. CASE prov' = prov \cup {[id |-> FreshId, file |-> f, whole |-> f \in whole]}
      <3>1. mature' = mature
        BY <1>1 DEF IngestFile
      <3> QED BY <2>2, <3>1, NewPoint
    <2> QED BY <1>1, <2>1, <2>2 DEF IngestFile, Add
  <1>2. CASE PromotePoint
    <2>1. PICK pt \in promo : Add(mature, pt.file, pt.whole)
      BY <1>2 DEF PromotePoint
    <2>2. CASE UNCHANGED mature
      BY <1>2, <2>2, NoNewPoint DEF PromotePoint
    <2>3. CASE mature' = mature \cup {[id |-> FreshId, file |-> pt.file, whole |-> pt.whole]}
      <3>1. prov' = prov
        BY <1>2 DEF PromotePoint
      <3> QED BY <2>3, <3>1, NewPoint
    <2> QED BY <2>1, <2>2, <2>3 DEF Add
  <1>3. CASE StartPass \/ EmbedRaises \/ MoveFile \/ StartPromote \/ DeletePromoted \/ Crash
              \/ (\E f \in File : Drop(f) \/ FinishCopy(f)) \/ UNCHANGED vars
    <2>1. prov' \subseteq prov /\ mature' \subseteq mature
      BY <1>3 DEF StartPass, EmbedRaises, MoveFile, StartPromote, DeletePromoted, Crash, Drop, FinishCopy, vars
    <2> QED BY <2>1, NoNewPoint
  <1> QED
    BY <1>1, <1>2, <1>3 DEF Next, Pass, Promotion

\* Safe.
LEMMA SafeStep ==
  ASSUME TypeOK, Calls, Safe, [Next]_vars
  PROVE  Safe'
  <1> USE DEF inboxVars, promoVars, storeVars, Lost, Stored, OnlySwallowedLost
  <1>1. CASE StartPass
    BY <1>1 DEF StartPass, Safe
  <1>2. CASE IngestFile
    <2> DEFINE f == Min(todo)
    <2>1. prov \subseteq prov' /\ swallowed \subseteq swallowed' /\ mature' = mature
      BY <1>2 DEF IngestFile, Add
    <2>2. ASSUME ok' PROVE (\E pt \in prov' : pt.file = f) \/ f \in swallowed'
      <3>1. Add(prov, f, f \in whole)
        BY <1>2, <2>2 DEF IngestFile
      <3> DEFINE pt == [id |-> FreshId, file |-> f, whole |-> f \in whole]
      <3>2. pt.file = f /\ (pt \in prov' \/ f \in swallowed')
        BY <3>1 DEF Add
      <3> QED BY <3>2
    <2> QED BY <1>2, <2>1, <2>2 DEF IngestFile, Safe
  <1>3. CASE EmbedRaises
    BY <1>3 DEF EmbedRaises, Safe
  <1>4. CASE MoveFile
    <2> DEFINE f == Min(todo)
    <2>1. \A g \in File : place'[g] = "processed" => place[g] = "processed" \/ (g = f /\ ok)
      BY <1>4 DEF MoveFile, TypeOK
    <2> QED BY <1>4, <2>1 DEF MoveFile, Safe
  <1>5. CASE StartPromote
    BY <1>5 DEF StartPromote, Safe
  <1>6. CASE PromotePoint
    <2>1. PICK pt \in promo : Add(mature, pt.file, pt.whole) /\ promoted' = promoted \cup {pt}
      BY <1>6 DEF PromotePoint
    <2>2. /\ mature \subseteq mature' /\ swallowed \subseteq swallowed'
          /\ (\E q \in mature' : q.file = pt.file) \/ pt.file \in swallowed'
      <3> DEFINE new == [id |-> FreshId, file |-> pt.file, whole |-> pt.whole]
      <3>1. new.file = pt.file /\ (new \in mature' \/ pt.file \in swallowed')
        BY <2>1 DEF Add
      <3>2. mature \subseteq mature' /\ swallowed \subseteq swallowed'
        BY <2>1 DEF Add
      <3> QED BY <3>1, <3>2
    <2> QED BY <1>6, <2>1, <2>2 DEF PromotePoint, Safe
  <1>7. CASE DeletePromoted
    <2>1. \A pt \in prov \cup mature : (\E q \in prov' \cup mature' : q.file = pt.file) \/ pt.file \in swallowed'
      BY <1>7 DEF DeletePromoted, Safe
    <2> QED BY <1>7, <2>1 DEF DeletePromoted, Safe
  <1>8. CASE Crash
    BY <1>8 DEF Crash, Safe
  <1>9. ASSUME NEW f \in File, Drop(f) PROVE Safe'
    <2>1. \A g \in File : place'[g] = "processed" => place[g] = "processed"
      BY <1>9 DEF Drop, TypeOK
    <2> QED BY <1>9, <2>1 DEF Drop, Safe
  <1>10. ASSUME NEW f \in File, FinishCopy(f) PROVE Safe'
    BY <1>10 DEF FinishCopy, Safe
  <1>11. CASE UNCHANGED vars
    BY <1>11 DEF vars, Safe
  <1> QED
    BY <1>1, <1>2, <1>3, <1>4, <1>5, <1>6, <1>7, <1>8, <1>9, <1>10, <1>11 DEF Next, Pass, Promotion

\* Single.
LEMMA SingleStep ==
  ASSUME TypeOK, Calls, UniqueIds, Single, [Next]_vars
  PROVE  Single'
  <1> USE DEF inboxVars, promoVars, storeVars
  <1>0. faults \in Nat /\ \A p \in Live : p.file \in File
    BY DEF TypeOK, Live, Point
  <1>F. ASSUME Fault PROVE Single'
    <2>1. faults' # 0
      BY <1>0, <1>F DEF Fault
    <2> QED BY <2>1 DEF Single
  <1> SUFFICES ASSUME ~Fault PROVE Single'
    BY <1>F
  <1>1. CASE StartPass
    BY <1>1 DEF StartPass, Single, Live
  <1>2. CASE IngestFile
    <2> DEFINE f == Min(todo)
               pt == [id |-> FreshId, file |-> f, whole |-> f \in whole]
    <2>1. f \in todo /\ place[f] = "inbox" /\ promoted = {} /\ promoted' = {}
      BY <1>2, MinTodo DEF IngestFile, Calls
    <2>2. prov' = prov \/ prov' = prov \cup {pt}
      BY <1>2 DEF IngestFile, Add
    <2>3. pt.file = f
      OBVIOUS
    <2> HIDE DEF pt
    <2>4. Live' \subseteq Live \cup {pt} /\ faults' = faults /\ mode = "ingest" /\ mode' = "move" /\ UNCHANGED <<place, todo>>
      BY <1>2, <2>1, <2>2 DEF Live, IngestFile, Add
    <2>5. ASSUME faults = 0 PROVE \A p \in Live : p.file # f
      BY <2>1, <2>4, <2>5 DEF Single
    <2>6. ASSUME faults = 0 PROVE \A p, q \in Live' : p.file = q.file => p = q
      BY <2>3, <2>4, <2>5, <2>6 DEF Single
    <2>7. ASSUME faults = 0, NEW p \in Live'
          PROVE  place[p.file] \in {"processed", "failed"} \/ p.file = f
      BY <2>3, <2>4, <2>7 DEF Single
    <2> QED BY <2>4, <2>6, <2>7 DEF Single
  <1>3. CASE EmbedRaises
    BY <1>3 DEF EmbedRaises
  <1>4. CASE MoveFile
    <2> DEFINE f == Min(todo)
    <2>1. f \in File /\ faults' = faults /\ Live' = Live
      BY <1>4, MinTodo DEF MoveFile, Calls, Live
    <2>2. \A g \in File : place'[g] \in {"processed", "failed"} \/ (g # f /\ place'[g] = place[g])
      BY <1>4 DEF MoveFile, TypeOK
    <2> QED BY <1>0, <1>4, <2>1, <2>2 DEF MoveFile, Single
  <1>5. CASE StartPromote
    <2>1. Live' = Live
      BY <1>5 DEF StartPromote, Live, TypeOK
    <2> QED BY <1>5, <2>1 DEF StartPromote, Single
  <1>6. CASE PromotePoint
    <2>1. PICK pt \in promo : Add(mature, pt.file, pt.whole) /\ promoted' = promoted \cup {pt}
      BY <1>6 DEF PromotePoint
    <2> DEFINE new == [id |-> FreshId, file |-> pt.file, whole |-> pt.whole]
    <2>2. mature' = mature \cup {new} /\ faults' = faults /\ mode = "promote" /\ UNCHANGED <<place, prov, mode, todo>>
      BY <1>6, <2>1 DEF PromotePoint, Add
    <2>3. new.file = pt.file
      OBVIOUS
    <2> HIDE DEF new
    <2>4. pt \in Live /\ \A p \in Live' : p = new \/ (p \in Live /\ p # pt)
      BY <2>1, <2>2 DEF Live, TypeOK, Calls, UniqueIds
    <2> QED BY <2>2, <2>3, <2>4 DEF Single
  <1>7. CASE DeletePromoted
    <2>1. Live' = Live
      BY <1>7 DEF DeletePromoted, Live
    <2> QED BY <1>7, <2>1 DEF DeletePromoted, Single
  <1>8. CASE Crash
    BY <1>8 DEF Crash
  <1>9. ASSUME NEW f \in File, Drop(f) PROVE Single'
    <2>1. \A g \in File : place[g] \in {"processed", "failed"} => place'[g] = place[g]
      BY <1>9 DEF Drop, TypeOK
    <2>2. Live' = Live
      BY <1>9 DEF Drop, Live
    <2> QED BY <1>0, <1>9, <2>1, <2>2 DEF Drop, Single
  <1>10. ASSUME NEW f \in File, FinishCopy(f) PROVE Single'
    BY <1>10 DEF FinishCopy, Single, Live
  <1>11. CASE UNCHANGED vars
    BY <1>11 DEF vars, Single, Live
  <1> QED
    BY <1>1, <1>2, <1>3, <1>4, <1>5, <1>6, <1>7, <1>8, <1>9, <1>10, <1>11 DEF Next, Pass, Promotion

-----------------------------------------------------------------------------
(* The theorems *)

\* The invariant holds in every reachable state.
THEOREM Invariance == Spec => []Inv
  <1>1. Inv /\ [Next]_vars => Inv'
    BY TypeStep, CallsStep, UniqueIdsStep, SafeStep, SingleStep DEF Inv
  <1> QED
    BY InitInv, <1>1, PTL DEF Spec

\* The variables keep their types, and a free event loop has nothing left of
\* a pass or a promotion.
THEOREM TypeCorrect == Spec => []TypeOK
  <1>1. Inv => TypeOK
    BY DEF Inv
  <1> QED
    BY Invariance, <1>1, PTL

\* Deaths, failed renames and deletes and aborted passes of process_inbox and
\* promote lose no document: a processed file has a point, unless the store
\* swallowed one of its adds.
THEOREM LossCorrect == Spec => []OnlySwallowedLost
  <1>1. Inv => OnlySwallowedLost
    BY DEF Inv, Safe
  <1> QED
    BY Invariance, <1>1, PTL

\* Without a fault process_inbox and promote leave at most one point of a
\* file.
THEOREM OneCopyCorrect == Spec => []OneCopy
  <1>1. ASSUME Inv PROVE OneCopy
    <2> SUFFICES ASSUME faults = 0, NEW f \in File
                 PROVE  Cardinality({pt \in Live : pt.file = f}) <= 1
      BY DEF OneCopy, Live
    <2> DEFINE S == {pt \in Live : pt.file = f}
    <2>1. \A p, q \in S : p = q
      BY <1>1 DEF Inv, Single
    <2>2. CASE S = {}
      BY <2>2, FS_EmptySet
    <2>3. CASE S # {}
      <3>1. PICK p : p \in S
        BY <2>3
      <3> HIDE DEF S
      <3>2. S = {p}
        BY <2>1, <3>1
      <3>3. Cardinality(S) = 1
        BY <3>2, FS_Singleton
      <3> QED BY <3>3 DEF S
    <2> QED BY <2>2, <2>3
  <1> QED
    BY Invariance, <1>1, PTL
=============================================================================
