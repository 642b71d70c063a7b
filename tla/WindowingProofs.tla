---------------------------- MODULE WindowingProofs ----------------------------
(***************************************************************************)
(* The invariants of Windowing, for every conversation and all settings.   *)
(***************************************************************************)
EXTENDS Windowing, SeqOpsProofs

-----------------------------------------------------------------------------
(* The inductive invariant *)

\* From the start of the loop on, the kept turns are those after i, clipped
\* and in order, and used is their sum; each run of newest turns up to them
\* fits.
Window ==
    pc # "idle" =>
        /\ turns # <<>> /\ i <= Len(turns)
        /\ Len(recent) = Len(turns) - i
        /\ \A k \in 1..Len(recent) : recent[k] = TruncateTurn(turns[i + k])
        /\ used = SuffixTokens[i + 1]
        /\ \A k \in (i + 1)..Len(turns) : Fits(k)

\* When the loop has ended, the turn before the kept ones does not fit.
Cut ==
    /\ pc = "loop" => older = 0
    /\ pc = "done" => older = i /\ i < Len(turns) /\ (i > 0 => ~Fits(i))

\* What was folded once did not fit then, and does not fit now.
FoldedMisfit == folded > 0 => folded < Len(turns) /\ ~Fits(folded)

Inv == TypeOK /\ Window /\ Cut /\ FoldedMisfit

-----------------------------------------------------------------------------
(* Sizes *)

\* The larger of two numbers is what the name says.
LEMMA MaxPair ==
  ASSUME NEW a \in Nat, NEW b \in Nat
  PROVE  Max({a, b}) \in {a, b} /\ Max({a, b}) >= a /\ Max({a, b}) >= b
  <1>1. \E x \in {a, b} : \A y \in {a, b} : x >= y
    OBVIOUS
  <1> QED BY <1>1 DEF Max

\* estimate_tokens is a natural number.
LEMMA EstimateType ==
  ASSUME NEW chars \in Nat
  PROVE  EstimateTokens(chars) \in Nat
  <1>1. chars \div CharsPerToken \in Nat
    BY WindowingAssumption
  <1> QED BY <1>1, MaxPair DEF EstimateTokens

\* The types of the settings.
LEMMA SettingsType ==
  ASSUME TypeOK
  PROVE  set.budget \in Nat /\ set.minRecent \in Nat /\ set.cap \in Nat /\ set.maxTurn \in Nat
  BY WindowingAssumption DEF TypeOK

\* The length of a clipped turn, and the tokens of one, are natural numbers.
LEMMA TruncateType ==
  ASSUME TypeOK, NEW chars \in Nat
  PROVE  TruncateTurn(chars) \in Nat /\ Half \in Nat
  <1>1. (set.maxTurn * CharsPerToken) \div 2 \in Nat
    BY SettingsType, WindowingAssumption
  <1>2. Half \in Nat
    BY <1>1, MaxPair DEF Half
  <1> QED BY <1>2, WindowingAssumption DEF TruncateTurn

\* The tokens of the turns, as the sequence SuffixTokens sums up.
LEMMA CostType ==
  ASSUME TypeOK
  PROVE  /\ \A k \in 1..Len(turns) : turns[k] \in Nat /\ Tok(k) \in Nat
         /\ [k \in 1..Len(turns) |-> Tok(k)] \in Seq(Nat)
         /\ Len([k \in 1..Len(turns) |-> Tok(k)]) = Len(turns)
  <1>1. Len(turns) \in Nat /\ \A k \in 1..Len(turns) : turns[k] \in Nat
    <2>1. turns \in Seq(TurnChars)
      BY DEF TypeOK
    <2>2. Len(turns) \in Nat /\ \A k \in 1..Len(turns) : turns[k] \in TurnChars
      BY <2>1
    <2>3. TurnChars \subseteq Nat
      BY WindowingAssumption
    <2> QED BY <2>2, <2>3
  <1>2. \A k \in 1..Len(turns) : Tok(k) \in Nat
    BY <1>1, TruncateType, EstimateType DEF Tok
  <1> QED BY <1>1, <1>2

\* The equations of SuffixTokens, and that longer suffixes cost more.
LEMMA SuffixFacts ==
  ASSUME TypeOK
  PROVE  /\ \A k \in 1..(Len(turns) + 1) : SuffixTokens[k] \in Nat
         /\ SuffixTokens[Len(turns) + 1] = 0
         /\ \A k \in 1..Len(turns) : SuffixTokens[k] = Tok(k) + SuffixTokens[k + 1]
         /\ \A k \in 1..(Len(turns) + 1) : \A j \in 1..k : SuffixTokens[j] >= SuffixTokens[k]
  <1> DEFINE w == [k \in 1..Len(turns) |-> Tok(k)]
  <1>1. w \in Seq(Nat) /\ Len(w) = Len(turns) /\ \A k \in 1..Len(turns) : w[k] = Tok(k)
    BY CostType
  <1> HIDE DEF w
  <1>2. SuffixTokens = SuffixSums(w)
    BY DEF SuffixTokens, w
  <1> QED BY <1>1, <1>2, SuffixSumsDef, SuffixSumsMonotone

\* A run of turns longer than one that does not fit does not fit.
LEMMA MisfitGrows ==
  ASSUME TypeOK, NEW k \in 1..Len(turns), ~Fits(k), NEW j \in 1..k
  PROVE  ~Fits(j)
  <1>1. Len(turns) \in Nat
    BY DEF TypeOK
  <1>2. SuffixTokens[j] \in Nat /\ SuffixTokens[k] \in Nat /\ SuffixTokens[j] >= SuffixTokens[k]
    BY <1>1, SuffixFacts
  <1> QED BY <1>1, <1>2, SettingsType DEF Fits

\* Once there is a kept turn, the loop stops exactly at a turn that does not
\* fit; the newest turn always fits.
LEMMA StopsMisfit ==
  ASSUME TypeOK, Window, pc = "loop", i > 0
  PROVE  Stops <=> ~Fits(i)
  <1>1. i \in 1..Len(turns) /\ Len(turns) \in Nat /\ Len(recent) = Len(turns) - i
    BY DEF TypeOK, Window
  <1>2. Tok(i) \in Nat /\ used \in Nat /\ SuffixTokens[i] = Tok(i) + used
    BY <1>1, CostType, SuffixFacts DEF TypeOK, Window
  <1>3. recent # <<>> <=> i # Len(turns)
    BY <1>1 DEF TypeOK
  <1> QED
    BY <1>1, <1>2, <1>3, SettingsType DEF Stops, OverHard, OverBudget, Fits

-----------------------------------------------------------------------------
(* The invariant is inductive *)

\* The definitions that depend on the conversation and the settings alone
\* keep their values when both do.
LEMMA SameConversation ==
  ASSUME UNCHANGED <<set, turns>>
  PROVE  /\ \A c : TruncateTurn(c)' = TruncateTurn(c)
         /\ SuffixTokens' = SuffixTokens
         /\ \A k : Fits(k)' = Fits(k)
  <1>1. \A c : TruncateTurn(c)' = TruncateTurn(c)
    BY DEF TruncateTurn, Half
  <1>2. SuffixTokens' = SuffixTokens
    BY DEF SuffixTokens, Tok, TruncateTurn, Half
  <1> QED BY <1>1, <1>2 DEF Fits

\* What does not fit does not fit either when the conversation has gone on.
LEMMA MisfitStays ==
  ASSUME TypeOK, UNCHANGED set, NEW chars \in TurnChars, turns' = Append(turns, chars),
         NEW k \in 1..Len(turns), k < Len(turns), ~Fits(k)
  PROVE  ~Fits(k)'
  <1> DEFINE L == Len(turns)
             w == [n \in 1..L |-> Tok(n)]
             v == [n \in 1..(L + 1) |-> Tok(n)']
  <1>1. w \in Seq(Nat) /\ Len(w) = L /\ L \in Nat /\ SuffixTokens = SuffixSums(w)
    BY CostType DEF SuffixTokens, TypeOK
  <1>2. Len(turns') = L + 1 /\ turns'[L + 1] = chars /\ \A n \in 1..L : turns'[n] = turns[n]
    BY DEF TypeOK
  <1>3. \A n \in 1..(L + 1) : turns'[n] \in Nat
    <2>1. \A n \in 1..(L + 1) : n \in 1..L \/ n = L + 1
      BY <1>1
    <2>2. chars \in Nat
      BY WindowingAssumption
    <2> QED BY <1>2, <2>1, <2>2, CostType
  <1>4. \A n \in 1..(L + 1) : Tok(n)' = EstimateTokens(TruncateTurn(turns'[n]))
    BY DEF Tok, TruncateTurn, Half
  <1>5. \A n \in 1..(L + 1) : Tok(n)' \in Nat
    BY <1>3, <1>4, TruncateType, EstimateType
  <1>6. v \in Seq(Nat) /\ Len(v) = L + 1
    BY <1>1, <1>5
  <1>7. \A n \in 1..L : v[n] = w[n]
    BY <1>1, <1>2, <1>4 DEF Tok
  <1>8. SuffixTokens' = SuffixSums(v)
    BY <1>2 DEF SuffixTokens
  <1> HIDE DEF L, w, v
  <1>9. SuffixTokens[k] \in Nat /\ SuffixTokens'[k] \in Nat /\ SuffixTokens'[k] >= SuffixTokens[k]
    <2>1. k \in 1..L + 1 /\ k \in 1..L + 1 + 1
      BY <1>1 DEF L
    <2>2. SuffixSums(w)[k] \in Nat
      BY <2>1, <1>1, SuffixSumsDef
    <2>3. SuffixSums(v)[k] \in Nat
      BY <2>1, <1>6, SuffixSumsDef
    <2>4. SuffixSums(v)[k] >= SuffixSums(w)[k]
      <3>1. Len(w) <= Len(v) /\ \A n \in 1 .. Len(w) : v[n] = w[n]
        <4>1. Len(w) = L /\ Len(v) = L + 1 /\ L \in Nat
          BY <1>1, <1>6
        <4>2. Len(w) <= Len(v)
          BY <4>1
        <4>3. \A n \in 1 .. Len(w) : v[n] = w[n]
          BY <4>1, <1>7
        <4> QED BY <4>2, <4>3
      <3>2. \A n \in 1 .. Len(w) + 1 : SuffixSums(v)[n] >= SuffixSums(w)[n]
        BY <3>1, <1>1, <1>6, SuffixSumsGrow
      <3> QED BY <3>2, <2>1, <1>1
    <2> QED BY <2>2, <2>3, <2>4, <1>1, <1>8
  <1>10. set.budget \in Nat /\ set.minRecent \in Nat /\ set.cap \in Nat /\ set' = set
    BY SettingsType
  <1>11. k \in Nat /\ L \in Nat /\ k < L /\ Len(turns') = L + 1
    BY <1>1, <1>2 DEF L
  <1>12. /\ k # L
         /\ \/ set.cap # 0 /\ ~(SuffixTokens[k] <= set.cap)
            \/ ~(SuffixTokens[k] <= set.budget) /\ ~(L - k + 1 <= set.minRecent)
    BY DEF Fits, L
  <1>13. /\ k # Len(turns')
         /\ \/ set'.cap # 0 /\ ~(SuffixTokens'[k] <= set'.cap)
            \/ ~(SuffixTokens'[k] <= set'.budget) /\ ~(Len(turns') - k + 1 <= set'.minRecent)
    BY <1>9, <1>10, <1>11, <1>12
  <1> QED
    BY <1>13 DEF Fits

\* The initial states satisfy the invariant.
LEMMA InitInv == Init => Inv
  <1> SUFFICES ASSUME Init PROVE Inv
    OBVIOUS
  <1>1. TypeOK
    BY WindowingAssumption DEF Init, TypeOK
  <1> QED BY <1>1 DEF Init, Inv, Window, Cut, FoldedMisfit

\* Every step keeps the types.
LEMMA TypeStep ==
  ASSUME TypeOK, Window, [Next]_vars
  PROVE  TypeOK'
  <1> USE WindowingAssumption
  <1>1. CASE Begin
    BY <1>1 DEF TypeOK, Begin
  <1>2. CASE Keep
    <2>1. i \in 1..Len(turns) /\ i - 1 \in 0..MaxTurns /\ Len(recent) + 1 <= MaxTurns
      BY <1>2 DEF TypeOK, Window, Keep
    <2>2. turns[i] \in Nat /\ Tok(i) \in Nat
      BY <2>1, CostType
    <2>3. TruncateTurn(turns[i]) \in Nat
      BY <2>2, TruncateType
    <2>4. recent' \in Seq(Nat) /\ Len(recent') = Len(recent) + 1
      BY <1>2, <2>3 DEF TypeOK, Keep
    <2> QED
      BY <1>2, <2>1, <2>2, <2>4 DEF TypeOK, Keep
  <1>3. CASE Fold
    BY <1>3 DEF TypeOK, Fold
  <1>4. CASE Exhausted
    BY <1>4 DEF TypeOK, Exhausted
  <1>5. ASSUME NEW chars \in TurnChars, AddTurn(chars) PROVE TypeOK'
    <2>1. turns' \in Seq(TurnChars) /\ Len(turns') <= MaxTurns
      BY <1>5 DEF TypeOK, AddTurn
    <2> QED
      BY <1>5, <2>1 DEF TypeOK, AddTurn
  <1>6. CASE UNCHANGED vars
    BY <1>6 DEF TypeOK, vars
  <1> QED
    BY <1>1, <1>2, <1>3, <1>4, <1>5, <1>6 DEF Next

\* Every step keeps the other parts of the invariant.
LEMMA WindowStep ==
  ASSUME Inv, [Next]_vars
  PROVE  (Window /\ Cut /\ FoldedMisfit)'
  <1>0. TypeOK /\ Window /\ Cut /\ FoldedMisfit /\ Len(turns) \in Nat /\ i \in Nat
    BY DEF Inv, TypeOK
  <1>1. CASE Begin
    <2>1. /\ \A k : Fits(k)' = Fits(k)
          /\ SuffixTokens' = SuffixTokens /\ Len(recent') = 0
      BY <1>1, SameConversation DEF Begin
    <2>2. Window'
      BY <1>0, <1>1, <2>1, SuffixFacts DEF Begin, Window
    <2>3. Cut' /\ FoldedMisfit'
      BY <1>0, <1>1, <2>1 DEF Begin, Cut, FoldedMisfit
    <2> QED BY <2>2, <2>3
  <1>2. CASE Keep
    <2>1. /\ \A k : Fits(k)' = Fits(k)
          /\ \A c : TruncateTurn(c)' = TruncateTurn(c)
          /\ SuffixTokens' = SuffixTokens
      BY <1>2, SameConversation DEF Keep
    <2>2. i \in 1..Len(turns) /\ i' = i - 1 /\ turns' = turns /\ pc = "loop" /\ pc' = "loop"
      BY <1>0, <1>2 DEF Keep, Window
    <2>3. Fits(i)
      BY <1>0, <1>2, <2>2, StopsMisfit DEF Keep
    <2>4. \A k \in (i' + 1)..Len(turns') : Fits(k)'
      <3>1. \A k \in i..Len(turns) : k = i \/ k \in (i + 1)..Len(turns)
        BY <1>0
      <3> QED BY <1>0, <2>1, <2>2, <2>3, <3>1 DEF Window
    <2>5. /\ Len(recent') = Len(recent) + 1 /\ recent'[1] = TruncateTurn(turns[i])
          /\ \A k \in 1..Len(recent) : recent'[k + 1] = recent[k]
      <3>1. turns[i] \in Nat
        BY <1>0, <2>2, CostType
      <3>2. TruncateTurn(turns[i]) \in Nat
        BY <1>0, <3>1, TruncateType
      <3> QED BY <1>0, <1>2, <3>2 DEF Keep, TypeOK
    <2>6. Len(recent) \in Nat /\ Len(recent) = Len(turns) - i
      BY <1>0, <2>2 DEF Window
    <2>7. ASSUME NEW k \in 1..Len(recent') PROVE recent'[k] = TruncateTurn(turns[i' + k])
      <3>1. CASE k = 1
        BY <1>0, <2>2, <2>5, <3>1
      <3>2. CASE k # 1
        <4>1. k - 1 \in 1..Len(recent) /\ (k - 1) + 1 = k /\ i + (k - 1) = i' + k
          BY <1>0, <2>2, <2>5, <2>6, <3>2
        <4>2. recent[k - 1] = TruncateTurn(turns[i + (k - 1)])
          BY <1>0, <2>2, <4>1 DEF Window
        <4> QED BY <2>5, <4>1, <4>2
      <3> QED BY <3>1, <3>2
    <2>8. used' = SuffixTokens[i' + 1]
      <3>1. SuffixTokens[i] = Tok(i) + SuffixTokens[i + 1] /\ Tok(i) \in Nat /\ used = SuffixTokens[i + 1]
        BY <1>0, <2>2, SuffixFacts, CostType DEF Window
      <3>2. i' + 1 = i /\ used \in Nat
        BY <1>0, <2>2 DEF TypeOK
      <3> QED BY <1>2, <3>1, <3>2 DEF Keep
    <2>9. Window'
      BY <1>0, <2>1, <2>2, <2>4, <2>5, <2>6, <2>7, <2>8 DEF Window
    <2>10. Cut' /\ FoldedMisfit'
      BY <1>0, <1>2, <2>1 DEF Keep, Cut, FoldedMisfit
    <2> QED BY <2>9, <2>10
  <1>3. CASE Fold
    <2>1. /\ \A k : Fits(k)' = Fits(k)
          /\ \A c : TruncateTurn(c)' = TruncateTurn(c)
          /\ SuffixTokens' = SuffixTokens
      BY <1>3, SameConversation DEF Fold
    <2>2. ~Fits(i)
      BY <1>0, <1>3, StopsMisfit DEF Fold
    <2>3. i < Len(turns)
      BY <1>0, <1>3, <2>2 DEF Fold, Window, Fits
    <2>4. Window'
      BY <1>0, <1>3, <2>1 DEF Fold, Window
    <2> QED
      BY <1>0, <1>3, <2>1, <2>2, <2>3, <2>4 DEF Fold, Cut, FoldedMisfit
  <1>4. CASE Exhausted
    <2>1. /\ \A k : Fits(k)' = Fits(k)
          /\ \A c : TruncateTurn(c)' = TruncateTurn(c)
          /\ SuffixTokens' = SuffixTokens
      BY <1>4, SameConversation DEF Exhausted
    <2>2. 0 < Len(turns)
      BY <1>0, <1>4 DEF Exhausted, Window, TypeOK
    <2>4. Window'
      BY <1>0, <1>4, <2>1 DEF Exhausted, Window
    <2> QED
      BY <1>0, <1>4, <2>1, <2>2, <2>4 DEF Exhausted, Cut, FoldedMisfit
  <1>5. ASSUME NEW chars \in TurnChars, AddTurn(chars)
        PROVE  (Window /\ Cut /\ FoldedMisfit)'
    <2>1. Window' /\ Cut'
      BY <1>5 DEF AddTurn, Window, Cut
    <2>2. folded' > 0 => folded' \in 1..Len(turns) /\ folded' < Len(turns) /\ ~Fits(folded')
      BY <1>0, <1>5 DEF AddTurn, Cut, FoldedMisfit, TypeOK
    <2>3. Len(turns') = Len(turns) + 1 /\ UNCHANGED set /\ turns' = Append(turns, chars)
      BY <1>5 DEF AddTurn, Inv, TypeOK
    <2>4. ASSUME folded' > 0 PROVE ~Fits(folded)'
      <3> DEFINE k == folded'
      <3>1. k \in 1..Len(turns) /\ k < Len(turns) /\ ~Fits(k)
        BY <2>2, <2>4
      <3>2. \A n \in 1..Len(turns) : n < Len(turns) /\ ~Fits(n) => ~Fits(n)'
        BY <1>0, <2>3, MisfitStays
      <3> QED BY <3>1, <3>2 DEF Fits
    <2> QED BY <1>0, <2>1, <2>2, <2>3, <2>4 DEF FoldedMisfit
  <1>6. CASE UNCHANGED vars
    <2>1. /\ \A k : Fits(k)' = Fits(k)
          /\ \A c : TruncateTurn(c)' = TruncateTurn(c)
          /\ SuffixTokens' = SuffixTokens
      BY <1>6, SameConversation DEF vars
    <2> QED
      BY <1>0, <1>6, <2>1 DEF vars, Window, Cut, FoldedMisfit
  <1> QED
    BY <1>1, <1>2, <1>3, <1>4, <1>5, <1>6 DEF Next

-----------------------------------------------------------------------------
(* The theorems *)

\* The invariant holds in every reachable state.
THEOREM Invariance == Spec => []Inv
  <1>1. Inv /\ [Next]_vars => Inv'
    BY TypeStep, WindowStep DEF Inv
  <1> QED
    BY InitInv, <1>1, PTL DEF Spec

\* The settings, the conversation and the loop's variables keep their types.
THEOREM TypeCorrect == Spec => []TypeOK
  <1>1. Inv => TypeOK
    BY DEF Inv
  <1> QED
    BY Invariance, <1>1, PTL

\* window_turns loses no turn between the summary and the kept turns, keeps
\* none twice and keeps them in order.
THEOREM PartitionCorrect == Spec => []Partition
  <1>1. Inv => Partition
    BY DEF Inv, Window, Cut, Partition, TypeOK
  <1> QED
    BY Invariance, <1>1, PTL

\* window_turns, which stops at the first turn that does not fit, keeps the
\* longest run of newest turns that fits.
THEOREM LongestFitCorrect == Spec => []LongestFit
  <1>1. ASSUME Inv PROVE LongestFit
    <2> SUFFICES ASSUME pc = "done" PROVE older + 1 = Min({k \in 1..Len(turns) : Fits(k)})
      BY DEF LongestFit
    <2> DEFINE F == {k \in 1..Len(turns) : Fits(k)}
    <2>1. /\ TypeOK /\ Len(turns) \in Nat /\ older \in Nat /\ older < Len(turns)
          /\ \A k \in (older + 1)..Len(turns) : Fits(k)
          /\ older > 0 => ~Fits(older)
      BY <1>1 DEF Inv, TypeOK, Window, Cut
    <2>2. older + 1 \in F
      BY <2>1
    <2>3. \A k \in F : k \in Nat /\ older + 1 <= k
      <3> SUFFICES ASSUME NEW k \in F, ~(older + 1 <= k) PROVE FALSE
        OBVIOUS
      <3>1. older \in 1..Len(turns) /\ k \in 1..older /\ ~Fits(older)
        BY <2>1
      <3>2. ~Fits(k)
        BY <2>1, <3>1, MisfitGrows
      <3> QED BY <3>2
    <2> HIDE DEF F
    <2>4. \A x \in F : (\A y \in F : x <= y) => x = older + 1
      BY <2>1, <2>2, <2>3
    <2>5. Min(F) = older + 1
      BY <2>2, <2>3, <2>4 DEF Min
    <2> QED BY <2>5 DEF F
  <1> QED
    BY Invariance, <1>1, PTL

\* Clipping and the hard cap bound the block that window_turns returns.
THEOREM BoundedBlockCorrect == Spec => []BoundedBlock
  <1>1. ASSUME Inv PROVE BoundedBlock
    <2> DEFINE E == EstimateTokens(2 * Half + Marker)
               B == {set.cap, set.maxTurn, E}
    <2> SUFFICES ASSUME pc = "done", set.maxTurn # 0, set.cap # 0 PROVE used <= Max(B)
      BY DEF BoundedBlock
    <2>1. /\ TypeOK /\ i \in Nat /\ Len(turns) \in Nat /\ i + 1 \in 1..Len(turns)
          /\ Fits(i + 1) /\ used = SuffixTokens[i + 1] /\ used \in Nat
      BY <1>1 DEF Inv, TypeOK, Window, Cut
    <2>2. E \in Nat /\ set.cap \in Nat /\ set.maxTurn \in Nat
      <3>1. Half \in Nat
        <4>1. 0 \in Nat
          OBVIOUS
        <4> QED BY <2>1, <4>1, TruncateType
      <3>2. 2 * Half + Marker \in Nat
        BY <3>1, WindowingAssumption
      <3> QED BY <2>1, <3>2, EstimateType, SettingsType
    <2>3. Max(B) \in Nat /\ \A x \in B : x <= Max(B)
      <3>1. \E x \in B : \A y \in B : x >= y
        BY <2>2
      <3> QED BY <2>2, <3>1 DEF Max
    <2>4. \E x \in B : x \in Nat /\ used <= x
      <3>1. CASE i + 1 # Len(turns)
        BY <2>1, <2>2, <3>1 DEF Fits
      <3>2. CASE i + 1 = Len(turns)
        <4>1. used = Tok(i + 1) /\ Tok(i + 1) \in Nat
          BY <2>1, <3>2, SuffixFacts, CostType
        <4>2. Tok(i + 1) <= set.maxTurn \/ Tok(i + 1) = E
          BY DEF Tok, TruncateTurn
        <4> QED BY <4>1, <4>2, <2>2
      <3> QED BY <3>1, <3>2
    <2> HIDE DEF B
    <2> QED BY <2>1, <2>3, <2>4
  <1> QED
    BY Invariance, <1>1, PTL

\* A turn that one call has folded into the summary stays folded.
THEOREM StaysFoldedCorrect == Spec => []StaysFolded
  <1>1. Inv => StaysFolded
    BY DEF Inv, TypeOK, Window, Cut, FoldedMisfit, StaysFolded
  <1> QED
    BY Invariance, <1>1, PTL
=============================================================================
