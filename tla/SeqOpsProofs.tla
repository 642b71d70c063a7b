----------------------------- MODULE SeqOpsProofs -----------------------------
(***************************************************************************)
(* What the recursive functions of SeqOps compute, for every sequence.     *)
(* The provers cannot use the library's induction theorems, whose          *)
(* predicate is an operator; they can use the theorem that a non-empty set *)
(* has a minimal element in a well-founded order, from which               *)
(* BoundedInduction, induction as a statement about sets, follows.         *)
(***************************************************************************)
EXTENDS SeqOps, TLAPS, SequenceTheorems, WellFoundedInduction

Elems(s) == {s[k] : k \in 1 .. Len(s)}
NoDup(s) == \A i, j \in 1 .. Len(s) : i # j => s[i] # s[j]

\* A non-empty set of natural numbers has a least element.
LEMMA LeastNat ==
  ASSUME NEW T \in SUBSET Nat, T # {}
  PROVE  \E x \in T : \A y \in T : ~(y < x)
  <1>1. IsWellFoundedOn(OpToRel(<, Nat), Nat)
    BY NatLessThanWellFounded
  <1>2. \E x \in T : \A y \in T : ~(<<y, x>> \in OpToRel(<, Nat))
    BY <1>1, WFMin
  <1> QED
    BY <1>2 DEF OpToRel

\* Induction up to a bound, as a statement about sets.
LEMMA BoundedInduction ==
  ASSUME NEW N \in Nat, NEW T, 0 \in T,
         \A n \in 0 .. N - 1 : n \in T => n + 1 \in T
  PROVE  0 .. N \subseteq T
  <1> DEFINE U == (0 .. N) \ T
  <1>1. SUFFICES ASSUME U # {} PROVE FALSE
    OBVIOUS
  <1>2. \E x \in U : \A y \in U : ~(y < x)
    <2>1. U \in SUBSET Nat
      OBVIOUS
    <2> HIDE DEF U
    <2> QED
      BY <1>1, <2>1, LeastNat
  <1>3. PICK x \in U : \A y \in U : ~(y < x)
    BY <1>2
  <1>4. x # 0 /\ x - 1 \in 0 .. N - 1 /\ x - 1 \notin U
    BY <1>3
  <1> QED
    BY <1>3, <1>4

\* The equations that define SuffixSums have a solution, hence hold of it.
LEMMA SuffixSumsDef ==
  ASSUME NEW w \in Seq(Nat)
  PROVE  /\ SuffixSums(w) \in [1 .. Len(w) + 1 -> Nat]
         /\ SuffixSums(w)[Len(w) + 1] = 0
         /\ \A k \in 1 .. Len(w) : SuffixSums(w)[k] = w[k] + SuffixSums(w)[k + 1]
  <1> DEFINE L == Len(w)
             Val(g, k) == IF k > L THEN 0 ELSE w[k] + g[k + 1]
             Dom(n) == (L + 1 - n) .. (L + 1)
             P(n) == \E g \in [Dom(n) -> Nat] : \A k \in Dom(n) : g[k] = Val(g, k)
             T == {n \in 0 .. L : P(n)}
  <1>0. L \in Nat /\ \A k \in 1 .. L : w[k] \in Nat
    OBVIOUS
  <1> HIDE DEF L
  <1>1. 0 \in T
    <2> DEFINE g == [k \in Dom(0) |-> 0]
    <2>1. g \in [Dom(0) -> Nat] /\ \A k \in Dom(0) : g[k] = Val(g, k)
      BY <1>0
    <2> HIDE DEF g, Val, Dom
    <2>2. P(0)
      BY <2>1
    <2> HIDE DEF P
    <2> QED
      BY <2>2, <1>0
  <1>2. ASSUME NEW n \in 0 .. L - 1, n \in T
        PROVE  n + 1 \in T
    <2>1. PICK g \in [Dom(n) -> Nat] : \A k \in Dom(n) : g[k] = Val(g, k)
      <3> HIDE DEF Dom, Val
      <3> QED BY <1>2
    <2>2. L - n \in 1 .. L /\ Dom(n + 1) = Dom(n) \cup {L - n} /\ L - n + 1 \in Dom(n)
      BY <1>0
    <2> DEFINE h == [k \in Dom(n + 1) |-> IF k = L - n THEN w[k] + g[k + 1] ELSE g[k]]
    <2>3. h \in [Dom(n + 1) -> Nat]
      <3>1. w[L - n] + g[L - n + 1] \in Nat
        BY <1>0, <2>1, <2>2
      <3> HIDE DEF Dom
      <3> QED BY <3>1, <2>1, <2>2
    <2>4. ASSUME NEW k \in Dom(n + 1) PROVE h[k] = Val(h, k)
      <3>1. CASE k = L - n
        BY <1>0, <2>2, <3>1
      <3>2. CASE k # L - n
        <4>1. k \in Dom(n) /\ g[k] = Val(g, k) /\ h[k] = g[k]
          BY <1>0, <2>1, <2>2, <3>2
        <4>2. CASE k > L
          BY <4>1, <4>2
        <4>3. CASE ~(k > L)
          BY <1>0, <4>1, <4>3
        <4> QED BY <4>2, <4>3
      <3> QED BY <3>1, <3>2
    <2> HIDE DEF h, Dom, Val
    <2>5. P(n + 1)
      BY <2>3, <2>4
    <2> HIDE DEF P
    <2> QED
      BY <2>5, <1>0
  <1>3. L \in T
    <2> HIDE DEF T
    <2>1. 0 .. L \subseteq T
      BY <1>0, <1>1, <1>2, BoundedInduction
    <2> QED
      BY <2>1, <1>0
  <1>4. Dom(L) = 1 .. L + 1
    BY <1>0
  <1>5. PICK g \in [1 .. L + 1 -> Nat] : \A k \in 1 .. L + 1 : g[k] = Val(g, k)
    <2>1. P(L)
      <3> HIDE DEF P
      <3> QED BY <1>3
    <2> HIDE DEF Val, Dom
    <2> QED BY <2>1, <1>4
  <1> DEFINE Eq(f) == f = [k \in 1 .. L + 1 |-> Val(f, k)]
  <1>6. Eq(g)
    <2> HIDE DEF Val
    <2> QED BY <1>5
  <1>7. SuffixSums(w) = CHOOSE f : Eq(f)
    BY DEF SuffixSums, L
  <1>8. Eq(CHOOSE f : Eq(f))
    <2> HIDE DEF Eq
    <2> QED BY <1>6
  <1> DEFINE f == SuffixSums(w)
  <1>9. \A k \in 1 .. L + 1 : f[k] = Val(f, k)
    <2>1. Eq(f)
      <3> HIDE DEF Eq
      <3> QED BY <1>7, <1>8
    <2> HIDE DEF Val, f
    <2> QED BY <2>1
  <1> HIDE DEF f
  <1> DEFINE U == {n \in 0 .. L : f[L + 1 - n] \in Nat}
  <1>10. 0 \in U
    BY <1>0, <1>9
  <1>11. ASSUME NEW n \in 0 .. L - 1, n \in U PROVE n + 1 \in U
    <2>1. L - n \in 1 .. L + 1 /\ ~(L - n > L) /\ L - n \in 1 .. L
      BY <1>0
    <2>2. f[L - n] = w[L - n] + f[L - n + 1]
      BY <2>1, <1>9
    <2> QED BY <2>1, <2>2, <1>11, <1>0
  <1>12. \A n \in 0 .. L : f[L + 1 - n] \in Nat
    <2>1. 0 .. L \subseteq U
      <3> HIDE DEF U
      <3> QED BY <1>0, <1>10, <1>11, BoundedInduction
    <2> QED BY <2>1
  <1>13. \A k \in 1 .. L + 1 : f[k] \in Nat
    <2> TAKE k \in 1 .. L + 1
    <2>1. L + 1 - k \in 0 .. L /\ L + 1 - (L + 1 - k) = k
      BY <1>0
    <2> QED BY <2>1, <1>12
  <1>14. f = [k \in 1 .. L + 1 |-> f[k]]
    <2>1. Eq(f)
      <3> HIDE DEF Eq
      <3> QED BY <1>7, <1>8 DEF f
    <2> HIDE DEF Val
    <2> QED BY <2>1
  <1>15. f \in [1 .. L + 1 -> Nat]
    BY <1>13, <1>14
  <1>16. f[L + 1] = 0 /\ \A k \in 1 .. L : f[k] = w[k] + f[k + 1]
    BY <1>9, <1>0
  <1> QED
    BY <1>15, <1>16 DEF L, f

\* A longer suffix has at least the sum of a shorter one.
LEMMA SuffixSumsMonotone ==
  ASSUME NEW w \in Seq(Nat), NEW k \in 1 .. Len(w) + 1
  PROVE  \A j \in 1 .. k : SuffixSums(w)[j] >= SuffixSums(w)[k]
  <1> DEFINE f == SuffixSums(w)
             L == Len(w)
             T == {n \in 0 .. k - 1 : f[k - n] >= f[k]}
  <1>1. L \in Nat /\ f \in [1 .. L + 1 -> Nat] /\ \A n \in 1 .. L : f[n] = w[n] + f[n + 1] /\ w[n] \in Nat
    BY SuffixSumsDef
  <1> HIDE DEF f, L
  <1>2. k \in 1 .. L + 1
    BY DEF L
  <1>3. 0 \in T
    BY <1>1, <1>2
  <1>4. ASSUME NEW n \in 0 .. (k - 1) - 1, n \in T PROVE n + 1 \in T
    <2>1. k - n - 1 \in 1 .. L /\ f[k - n - 1] = w[k - n - 1] + f[k - n] /\ w[k - n - 1] \in Nat
      BY <1>1, <1>2
    <2> QED BY <2>1, <1>1, <1>2, <1>4
  <1>5. 0 .. k - 1 \subseteq T
    <2>1. k - 1 \in Nat
      BY <1>1, <1>2
    <2> HIDE DEF T
    <2> QED BY <2>1, <1>3, <1>4, BoundedInduction
  <1> SUFFICES ASSUME NEW j \in 1 .. k PROVE f[j] >= f[k]
    BY DEF f
  <1>6. k - j \in 0 .. k - 1 /\ k - (k - j) = j
    BY <1>1, <1>2
  <1> QED
    BY <1>5, <1>6

\* A sequence that goes on after w has at least the sums of w.
LEMMA SuffixSumsGrow ==
  ASSUME NEW w \in Seq(Nat), NEW v \in Seq(Nat), Len(w) <= Len(v),
         \A k \in 1 .. Len(w) : v[k] = w[k]
  PROVE  \A j \in 1 .. Len(w) + 1 : SuffixSums(v)[j] >= SuffixSums(w)[j]
  <1> DEFINE f == SuffixSums(w)
             g == SuffixSums(v)
             L == Len(w)
             T == {n \in 0 .. L : g[L + 1 - n] >= f[L + 1 - n]}
  <1>1. /\ L \in Nat /\ f[L + 1] = 0
        /\ \A n \in 1 .. L + 1 : f[n] \in Nat /\ g[n] \in Nat
        /\ \A n \in 1 .. L : f[n] = w[n] + f[n + 1] /\ g[n] = w[n] + g[n + 1] /\ w[n] \in Nat
    <2>1. f \in [1 .. L + 1 -> Nat] /\ f[L + 1] = 0 /\ \A n \in 1 .. L : f[n] = w[n] + f[n + 1]
      BY SuffixSumsDef
    <2>2. g \in [1 .. Len(v) + 1 -> Nat] /\ \A n \in 1 .. Len(v) : g[n] = v[n] + g[n + 1]
      BY SuffixSumsDef
    <2>3. L \in Nat /\ Len(v) \in Nat /\ L <= Len(v) /\ \A n \in 1 .. L : w[n] \in Nat /\ v[n] = w[n]
      OBVIOUS
    <2> HIDE DEF f, g, L
    <2>4. \A n \in 1 .. L + 1 : f[n] \in Nat /\ g[n] \in Nat
      <3>1. \A n \in 1 .. L + 1 : n \in 1 .. Len(v) + 1
        BY <2>3
      <3> QED BY <3>1, <2>1, <2>2
    <2>5. \A n \in 1 .. L : g[n] = w[n] + g[n + 1]
      BY <2>2, <2>3
    <2> QED BY <2>1, <2>3, <2>4, <2>5
  <1> HIDE DEF f, g, L
  <1>2. 0 \in T
    BY <1>1
  <1>3. ASSUME NEW n \in 0 .. L - 1, n \in T PROVE n + 1 \in T
    <2>1. /\ L - n \in 1 .. L /\ L - n + 1 \in 1 .. L + 1 /\ w[L - n] \in Nat
          /\ f[L - n] = w[L - n] + f[L - n + 1] /\ g[L - n] = w[L - n] + g[L - n + 1]
      BY <1>1
    <2> QED BY <2>1, <1>1, <1>3
  <1>4. 0 .. L \subseteq T
    <2> HIDE DEF T
    <2> QED BY <1>1, <1>2, <1>3, BoundedInduction
  <1> SUFFICES ASSUME NEW j \in 1 .. L + 1 PROVE g[j] >= f[j]
    BY DEF f, g, L
  <1>5. L + 1 - j \in 0 .. L /\ L + 1 - (L + 1 - j) = j
    BY <1>1
  <1> QED
    BY <1>4, <1>5

\* The equations that define FilterUpTo have a solution, hence hold of it.
LEMMA FilterUpToDef ==
  ASSUME NEW S, NEW s \in Seq(S), NEW T
  PROVE  /\ FilterUpTo(s, T)[0] = <<>>
         /\ \A n \in 1 .. Len(s) :
               FilterUpTo(s, T)[n] = IF s[n] \in T THEN Append(FilterUpTo(s, T)[n - 1], s[n])
                                                  ELSE FilterUpTo(s, T)[n - 1]
  <1> DEFINE L == Len(s)
             Val(g, k) == IF k = 0 THEN <<>>
                          ELSE IF s[k] \in T THEN Append(g[k - 1], s[k]) ELSE g[k - 1]
             P(n) == \E g : \A k \in 0 .. n : g[k] = Val(g, k)
             U == {n \in 0 .. L : P(n)}
  <1>0. L \in Nat
    OBVIOUS
  <1> HIDE DEF L
  <1>1. 0 \in U
    <2> DEFINE g == [k \in 0 .. 0 |-> <<>>]
    <2>1. \A k \in 0 .. 0 : g[k] = Val(g, k)
      OBVIOUS
    <2> HIDE DEF g, Val
    <2>2. P(0)
      BY <2>1
    <2> HIDE DEF P
    <2> QED
      BY <2>2, <1>0
  <1>2. ASSUME NEW n \in 0 .. L - 1, n \in U
        PROVE  n + 1 \in U
    <2>1. PICK g : \A k \in 0 .. n : g[k] = Val(g, k)
      <3> HIDE DEF Val
      <3> QED BY <1>2
    <2> DEFINE h == [k \in 0 .. n + 1 |-> IF k = n + 1 THEN Val(g, n + 1) ELSE g[k]]
    <2>2. ASSUME NEW k \in 0 .. n + 1 PROVE h[k] = Val(h, k)
      <3>1. CASE k = n + 1
        BY <1>0, <3>1
      <3>2. CASE k # n + 1
        <4>1. k \in 0 .. n /\ g[k] = Val(g, k) /\ h[k] = g[k]
          BY <1>0, <2>1, <3>2
        <4>2. CASE k = 0
          BY <4>1, <4>2
        <4>3. CASE k # 0
          <5>1. h[k - 1] = g[k - 1]
            BY <1>0, <4>1, <4>3
          <5> HIDE DEF h
          <5> QED BY <4>1, <4>3, <5>1
        <4> QED BY <4>2, <4>3
      <3> QED BY <3>1, <3>2
    <2> HIDE DEF h, Val
    <2>3. P(n + 1)
      BY <2>2
    <2> HIDE DEF P
    <2> QED
      BY <2>3, <1>0
  <1>3. L \in U
    <2> HIDE DEF U
    <2>1. 0 .. L \subseteq U
      BY <1>0, <1>1, <1>2, BoundedInduction
    <2> QED
      BY <2>1, <1>0
  <1>4. PICK g : \A k \in 0 .. L : g[k] = Val(g, k)
    <2> HIDE DEF Val
    <2> QED BY <1>3
  <1> DEFINE Eq(f) == f = [k \in 0 .. L |-> Val(f, k)]
             h == [k \in 0 .. L |-> g[k]]
  <1>5. Eq(h)
    <2>1. \A k \in 0 .. L : Val(h, k) = Val(g, k)
      BY <1>0
    <2> HIDE DEF Val
    <2> QED BY <2>1, <1>4
  <1>6. FilterUpTo(s, T) = CHOOSE f : Eq(f)
    BY DEF FilterUpTo, L
  <1>7. Eq(CHOOSE f : Eq(f))
    <2> HIDE DEF Eq, h
    <2> QED BY <1>5
  <1> DEFINE f == FilterUpTo(s, T)
  <1>8. Eq(f)
    <2> HIDE DEF Eq
    <2> QED BY <1>6, <1>7
  <1>9. \A k \in 0 .. L : f[k] = Val(f, k)
    <2> HIDE DEF Val, f
    <2> QED BY <1>8
  <1> HIDE DEF f
  <1>10. f[0] = <<>> /\ \A n \in 1 .. L : f[n] = IF s[n] \in T THEN Append(f[n - 1], s[n]) ELSE f[n - 1]
    BY <1>9, <1>0
  <1> QED
    BY <1>10 DEF f, L

\* What Filter returns: a sequence of the elements of s that are in T, all
\* of them, and without repetition if s has none.
LEMMA FilterFacts ==
  ASSUME NEW S, NEW s \in Seq(S), NEW T
  PROVE  /\ Filter(s, T) \in Seq(S)
         /\ \A i \in 1 .. Len(Filter(s, T)) : Filter(s, T)[i] \in T
         /\ \A i \in 1 .. Len(Filter(s, T)) : \E k \in 1 .. Len(s) : Filter(s, T)[i] = s[k]
         /\ \A k \in 1 .. Len(s) :
               s[k] \in T => \E i \in 1 .. Len(Filter(s, T)) : Filter(s, T)[i] = s[k]
         /\ NoDup(s) => NoDup(Filter(s, T))
  <1> DEFINE f == FilterUpTo(s, T)
             L == Len(s)
             P(n) == /\ f[n] \in Seq(S)
                     /\ \A i \in 1 .. Len(f[n]) : f[n][i] \in T
                     /\ \A i \in 1 .. Len(f[n]) : \E k \in 1 .. n : f[n][i] = s[k]
                     /\ \A k \in 1 .. n : s[k] \in T => \E i \in 1 .. Len(f[n]) : f[n][i] = s[k]
                     /\ NoDup(s) => NoDup(f[n])
             U == {n \in 0 .. L : P(n)}
  <1> USE DEF NoDup
  <1>0. L \in Nat /\ \A k \in 1 .. L : s[k] \in S
    OBVIOUS
  <1>1. /\ f[0] = <<>>
        /\ \A n \in 1 .. L : f[n] = IF s[n] \in T THEN Append(f[n - 1], s[n]) ELSE f[n - 1]
    BY FilterUpToDef
  <1> HIDE DEF f
  <1>2. 0 \in U
    <2>1. P(0)
      <3>1. f[0] \in Seq(S) /\ Len(f[0]) = 0 /\ 1 .. 0 = {}
        BY <1>1
      <3> QED BY <3>1
    <2> HIDE DEF P
    <2> QED BY <2>1, <1>0
  <1>3. ASSUME NEW n \in 0 .. L - 1, n \in U
        PROVE  n + 1 \in U
    <2> DEFINE p == f[n]
               q == f[n + 1]
               e == s[n + 1]
    <2>0. P(n) /\ n + 1 \in 1 .. L /\ n + 1 \in 0 .. L /\ e \in S
      BY <1>0, <1>3
    <2>1. q = IF e \in T THEN Append(p, e) ELSE p
      BY <1>0, <1>1
    <2>2. CASE e \notin T
      <3>1. q = p /\ \A k \in 1 .. n + 1 : k \in 1 .. n \/ k = n + 1
        BY <2>1, <2>2, <1>0
      <3>2. /\ \A i \in 1 .. Len(p) : \E k \in 1 .. n + 1 : p[i] = s[k]
            /\ \A k \in 1 .. n + 1 : s[k] \in T => \E i \in 1 .. Len(p) : p[i] = s[k]
        <4>1. \A k \in 1 .. n : k \in 1 .. n + 1
          BY <1>0
        <4> HIDE DEF L
        <4> QED BY <3>1, <2>0, <2>2, <4>1
      <3>3. P(n + 1)
        BY <3>1, <3>2, <2>0
      <3> HIDE DEF P
      <3> QED BY <3>3, <2>0
    <2>3. CASE e \in T
      <3> HIDE DEF p, q, e, L
      <3>1. p \in Seq(S) /\ Len(p) \in Nat
        BY <2>0 DEF p
      <3>2. /\ q \in Seq(S) /\ Len(q) = Len(p) + 1 /\ q[Len(p) + 1] = e
            /\ \A i \in 1 .. Len(p) : q[i] = p[i]
        BY <2>0, <2>1, <2>3, <3>1
      <3>3. \A i \in 1 .. Len(q) : i \in 1 .. Len(p) \/ i = Len(p) + 1
        BY <3>1, <3>2
      <3>4. \A i \in 1 .. Len(q) : q[i] \in T
        BY <2>0, <2>3, <3>2, <3>3 DEF p
      <3>5. \A i \in 1 .. Len(q) : \E k \in 1 .. n + 1 : q[i] = s[k]
        <4> TAKE i \in 1 .. Len(q)
        <4>1. CASE i = Len(p) + 1
          BY <4>1, <3>2, <2>0 DEF e
        <4>2. CASE i \in 1 .. Len(p)
          <5>1. PICK k \in 1 .. n : p[i] = s[k]
            BY <4>2, <2>0 DEF p
          <5>2. k \in 1 .. n + 1 /\ q[i] = s[k]
            BY <5>1, <4>2, <3>2
          <5> QED BY <5>2
        <4> QED BY <4>1, <4>2, <3>3
      <3>6. \A k \in 1 .. n + 1 : s[k] \in T => \E i \in 1 .. Len(q) : q[i] = s[k]
        <4> SUFFICES ASSUME NEW k \in 1 .. n + 1, s[k] \in T PROVE \E i \in 1 .. Len(q) : q[i] = s[k]
          OBVIOUS
        <4>1. CASE k = n + 1
          <5>1. Len(p) + 1 \in 1 .. Len(q) /\ q[Len(p) + 1] = s[k]
            BY <4>1, <3>1, <3>2 DEF e
          <5> QED BY <5>1
        <4>2. CASE k \in 1 .. n
          <5>1. PICK i \in 1 .. Len(p) : p[i] = s[k]
            BY <4>2, <2>0 DEF p
          <5>2. i \in 1 .. Len(q) /\ q[i] = s[k]
            BY <5>1, <3>1, <3>2
          <5> QED BY <5>2
        <4> QED BY <4>1, <4>2
      <3>7. ASSUME NoDup(s) PROVE NoDup(q)
        <4>1. \A i \in 1 .. Len(p) : p[i] # e
          <5> TAKE i \in 1 .. Len(p)
          <5>1. PICK k \in 1 .. n : p[i] = s[k]
            BY <2>0 DEF p
          <5>2. k \in 1 .. Len(s) /\ n + 1 \in 1 .. Len(s) /\ k # n + 1
            BY <2>0, <1>0 DEF L
          <5> QED BY <5>1, <5>2, <3>7 DEF e
        <4>2. NoDup(p)
          BY <2>0, <3>7 DEF p
        <4> QED BY <4>1, <4>2, <3>1, <3>2, <3>3
      <3>8. P(n + 1)
        BY <3>2, <3>4, <3>5, <3>6, <3>7 DEF q
      <3> HIDE DEF P
      <3> QED BY <3>8, <2>0
    <2> QED BY <2>2, <2>3
  <1>4. P(L)
    <2> HIDE DEF U, P
    <2>1. 0 .. L \subseteq U
      BY <1>0, <1>2, <1>3, BoundedInduction
    <2> QED BY <2>1, <1>0 DEF U
  <1> QED
    BY <1>4 DEF f, Filter

\* Filter keeps the order: the elements it returns are those at increasing
\* positions of s.
LEMMA FilterOrder ==
  ASSUME NEW S, NEW s \in Seq(S), NEW T
  PROVE  \E h \in [1 .. Len(Filter(s, T)) -> 1 .. Len(s)] :
            /\ \A a \in 1 .. Len(Filter(s, T)) : Filter(s, T)[a] = s[h[a]]
            /\ \A a, b \in 1 .. Len(Filter(s, T)) : a < b => h[a] < h[b]
  <1> DEFINE f == FilterUpTo(s, T)
             L == Len(s)
             Maps(h, n) == /\ h \in [1 .. Len(f[n]) -> 1 .. n]
                           /\ \A a \in 1 .. Len(f[n]) : f[n][a] = s[h[a]]
                           /\ \A a, b \in 1 .. Len(f[n]) : a < b => h[a] < h[b]
             P(n) == f[n] \in Seq(S) /\ \E h : Maps(h, n)
             U == {n \in 0 .. L : P(n)}
  <1>0. L \in Nat /\ \A k \in 1 .. L : s[k] \in S
    OBVIOUS
  <1>1. /\ f[0] = <<>>
        /\ \A n \in 1 .. L : f[n] = IF s[n] \in T THEN Append(f[n - 1], s[n]) ELSE f[n - 1]
    BY FilterUpToDef
  <1> HIDE DEF f
  <1>2. 0 \in U
    <2>1. f[0] \in Seq(S) /\ Len(f[0]) = 0 /\ 1 .. 0 = {}
      BY <1>1
    <2>2. Maps([a \in {} |-> a], 0)
      BY <2>1
    <2> HIDE DEF Maps
    <2>3. P(0)
      BY <2>1, <2>2
    <2> HIDE DEF P
    <2> QED BY <2>3, <1>0
  <1>3. ASSUME NEW n \in 0 .. L - 1, n \in U
        PROVE  n + 1 \in U
    <2> DEFINE p == f[n]
               q == f[n + 1]
               e == s[n + 1]
    <2>0. n + 1 \in 1 .. L /\ n + 1 \in 0 .. L /\ n \in Nat /\ e \in S
      BY <1>0, <1>3
    <2>1. PICK h : Maps(h, n)
      <3> HIDE DEF Maps
      <3> QED BY <1>3
    <2>2. p \in Seq(S) /\ Len(p) \in Nat
      BY <1>3
    <2>3. q = IF e \in T THEN Append(p, e) ELSE p
      BY <1>0, <1>1
    <2>4. CASE e \notin T
      <3>1. q = p
        BY <2>3, <2>4
      <3>2. \A k \in 1 .. n : k \in 1 .. n + 1
        BY <2>0
      <3>3. Maps(h, n + 1)
        BY <2>1, <3>1, <3>2
      <3> HIDE DEF Maps
      <3>4. P(n + 1)
        BY <2>2, <3>1, <3>3
      <3> HIDE DEF P
      <3> QED BY <3>4, <2>0
    <2>5. CASE e \in T
      <3> DEFINE g == [a \in 1 .. Len(q) |-> IF a = Len(p) + 1 THEN n + 1 ELSE h[a]]
      <3>1. /\ q \in Seq(S) /\ Len(q) = Len(p) + 1 /\ q[Len(p) + 1] = e
            /\ \A a \in 1 .. Len(p) : q[a] = p[a]
        <4> HIDE DEF p, q, e, L
        <4> QED BY <2>0, <2>2, <2>3, <2>5
      <3>2. /\ \A a \in 1 .. Len(p) : h[a] \in 1 .. n /\ p[a] = s[h[a]]
            /\ \A a, b \in 1 .. Len(p) : a < b => h[a] < h[b]
        BY <2>1
      <3> HIDE DEF p, q
      <3>3. \A a \in 1 .. Len(q) : (a \in 1 .. Len(p) /\ a # Len(p) + 1) \/ a = Len(p) + 1
        BY <2>2, <3>1
      <3>4. g \in [1 .. Len(q) -> 1 .. n + 1]
        BY <3>2, <3>3, <2>0
      <3>5. \A a \in 1 .. Len(q) : q[a] = s[g[a]]
        <4> TAKE a \in 1 .. Len(q)
        <4>1. CASE a = Len(p) + 1
          BY <4>1, <3>1
        <4>2. CASE a # Len(p) + 1
          BY <4>2, <3>1, <3>2, <3>3
        <4> QED BY <4>1, <4>2
      <3>6. \A a, b \in 1 .. Len(q) : a < b => g[a] < g[b]
        <4> SUFFICES ASSUME NEW a \in 1 .. Len(q), NEW b \in 1 .. Len(q), a < b PROVE g[a] < g[b]
          OBVIOUS
        <4>1. a \in 1 .. Len(p) /\ g[a] = h[a] /\ h[a] \in 1 .. n
          BY <2>2, <3>1, <3>2, <3>3
        <4>2. CASE b = Len(p) + 1
          BY <4>1, <4>2, <2>0
        <4>3. CASE b # Len(p) + 1
          BY <4>1, <4>3, <3>2, <3>3
        <4> QED BY <4>2, <4>3
      <3> HIDE DEF g
      <3>7. Maps(g, n + 1)
        BY <3>4, <3>5, <3>6 DEF q
      <3> HIDE DEF Maps
      <3>8. P(n + 1)
        BY <3>1, <3>7 DEF q
      <3> HIDE DEF P
      <3> QED BY <3>8, <2>0
    <2> QED BY <2>4, <2>5
  <1>4. P(L)
    <2> HIDE DEF U, P
    <2>1. 0 .. L \subseteq U
      BY <1>0, <1>2, <1>3, BoundedInduction
    <2> QED BY <2>1, <1>0 DEF U
  <1> QED
    BY <1>4 DEF f, Filter
=============================================================================
