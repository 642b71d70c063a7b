--------------------------- MODULE LlamaServerProofs ---------------------------
(***************************************************************************)
(* The invariants of LlamaServer for any number of requests, slots and     *)
(* tokens: a task is in one place, is not lost while somebody waits for    *)
(* it, and leaves no result behind.                                        *)
(***************************************************************************)
EXTENDS LlamaServer, SeqOpsProofs, FiniteSetTheorems

-----------------------------------------------------------------------------
(* Where a task can be *)

Queued == {t \in TaskId : Run(t) \in Elems(queue)}
Parked == Elems(deferred)
InHand == {t \in TaskId : hand = Run(t)}
Unlaunched == Queued \cup Parked \cup InHand
Running == {t \in TaskId : \E s \in Slot : slot[s].task = t}
EndedIn(s) == {t \in TaskId : \E x \in Elems(s) : x.id = t /\ x.kind # "partial"}
Ended == EndedIn(results)
Done == {t \in TaskId : t \in rd[t[1]].got}

Runs == {Run(t) : t \in TaskId}

\* An element of T is in s at most once.
Once(s, T) == \A i, j \in 1 .. Len(s) : s[i] = s[j] /\ s[i] \in T => i = j

\* Nothing follows the final or error result of a task.
EndsLast(s) ==
    \A i, j \in 1 .. Len(s) : s[i].id = s[j].id /\ s[i].kind # "partial" => j <= i

-----------------------------------------------------------------------------
(* The inductive invariant *)

\* The main thread holds an entry exactly while it processes one, and a slot
\* has a task exactly while it is in use.
MainState ==
    /\ pc = "handle" <=> hand # None
    /\ \A s \in Slot : slot[s].st = "idle" <=> slot[s].task = None

\* No queue holds a task twice, the places before a slot exclude each other,
\* and no two slots have the same task.
Lists ==
    /\ Once(queue, Runs) /\ Once(deferred, TaskId)
    /\ Queued \cap Parked = {} /\ Queued \cap InHand = {} /\ Parked \cap InHand = {}
    /\ \A a, b \in Slot : slot[a].task = slot[b].task /\ slot[a].task # None => a = b

\* Cancel tasks are for requests that are over.
Cancels ==
    \A t \in TaskId :
        Cancel(t) \in Elems(queue) \/ hand = Cancel(t) => rd[t[1]].pc = "closed"

\* A request has its shape, and its ids are waited for from post_tasks until
\* stop(); nothing of it is anywhere before it is posted.
Readers ==
    /\ \A r \in Request : rd[r].pc # "new" => rd[r].shape \in Shapes[r]
    /\ \A t \in TaskId :
          t \in waiting <=> rd[t[1]].pc \in {"read", "stop"} /\ t \in Ids(t[1])
    /\ \A t \in Unlaunched \cup Running \cup Done :
          rd[t[1]].pc \notin {"new", "gate", "prepare"}

\* A task is not launched, running, ended or done, and only one of these.  A
\* child is launched with its parent, and is nowhere before.
Stages ==
    /\ Unlaunched \cap Running = {} /\ Unlaunched \cap Ended = {}
    /\ Unlaunched \cap Done = {} /\ Running \cap Ended = {}
    /\ Running \cap Done = {} /\ Ended \cap Done = {}
    /\ \A t \in Unlaunched :
          t[2] = 0 /\ <<t[1], 1>> \notin Running \cup Ended \cup Done

\* The queued results: of tasks whose reader is not gone and has not got the
\* final one, which comes last.
Awaited(s) ==
    /\ EndsLast(s)
    /\ \A x \in Elems(s) :
          /\ x.id \notin Done /\ x.id \in Ids(x.id[1])
          /\ rd[x.id[1]].pc \in {"read", "stop", "cancel"}
Outbox == Awaited(results)

\* What a reader waits for is in play or on its way.
InPlay ==
    \A r \in Request : rd[r].pc = "read" =>
        \A t \in Ids(r) \ rd[r].got :
            \/ t \in Unlaunched \cup Running \cup Ended
            \/ \E x \in Elems(results) : x.id \in Ids(r) /\ x.kind = "error"
            \/ t[2] = 1 /\ <<r, 0>> \in Unlaunched

Inv == /\ TypeOK /\ MainState /\ Lists /\ Cancels
       /\ Readers /\ Stages /\ Outbox /\ InPlay
-----------------------------------------------------------------------------
(* Queues *)

\* The least element of a set of natural numbers.
LEMMA MinFacts ==
  ASSUME NEW N \in SUBSET Nat, N # {}
  PROVE  Min(N) \in N /\ \A y \in N : Min(N) <= y
  <1>1. \E x \in N : \A y \in N : x =< y
    <2>1. PICK x \in N : \A y \in N : ~(y < x)
      BY LeastNat
    <2> QED BY <2>1
  <1> QED BY <1>1 DEF Min

\* An element is added at the end.
LEMMA AppendFacts ==
  ASSUME NEW S, NEW s \in Seq(S), NEW e \in S
  PROVE  /\ Append(s, e) \in Seq(S) /\ Elems(Append(s, e)) = Elems(s) \cup {e}
         /\ \A T : Once(s, T) /\ (e \in T => e \notin Elems(s)) => Once(Append(s, e), T)
  <1> DEFINE u == Append(s, e)
  <1>1. /\ u \in Seq(S) /\ Len(s) \in Nat /\ Len(u) = Len(s) + 1 /\ u[Len(u)] = e
        /\ \A k \in 1 .. Len(s) : u[k] = s[k] /\ k \in 1 .. Len(u)
    OBVIOUS
  <1> HIDE DEF u
  <1>2. Len(u) \in 1 .. Len(u) /\ \A k \in 1 .. Len(u) : k \in 1 .. Len(s) \/ k = Len(u)
    BY <1>1
  <1>3. Elems(u) = Elems(s) \cup {e}
    BY <1>1, <1>2 DEF Elems
  <1>4. ASSUME NEW T, Once(s, T), e \in T => e \notin Elems(s)
        PROVE  Once(u, T)
    BY <1>1, <1>2, <1>4 DEF Once, Elems
  <1> QED BY <1>1, <1>3, <1>4 DEF u

\* An element is added in front.
LEMMA FrontFacts ==
  ASSUME NEW S, NEW s \in Seq(S), NEW e \in S
  PROVE  /\ <<e>> \o s \in Seq(S) /\ Elems(<<e>> \o s) = Elems(s) \cup {e}
         /\ \A T : Once(s, T) /\ (e \in T => e \notin Elems(s)) => Once(<<e>> \o s, T)
  <1> DEFINE u == <<e>> \o s
  <1>1. /\ u \in Seq(S) /\ Len(s) \in Nat /\ Len(u) = Len(s) + 1 /\ u[1] = e
        /\ \A k \in 2 .. Len(u) : u[k] = s[k - 1]
    OBVIOUS
  <1> HIDE DEF u
  <1>2. /\ 1 \in 1 .. Len(u) /\ \A k \in 1 .. Len(s) : k + 1 \in 1 .. Len(u) /\ u[k + 1] = s[k]
        /\ \A k \in 1 .. Len(u) : k # 1 => k - 1 \in 1 .. Len(s) /\ u[k] = s[k - 1]
    BY <1>1
  <1>3. Elems(u) = Elems(s) \cup {e}
    <2>1. \A x \in Elems(u) : x = e \/ x \in Elems(s)
      BY <1>1, <1>2 DEF Elems
    <2>2. \A x \in Elems(s) : x \in Elems(u)
      BY <1>1, <1>2 DEF Elems
    <2>3. e \in Elems(u)
      BY <1>1, <1>2 DEF Elems
    <2> QED BY <2>1, <2>2, <2>3
  <1>4. ASSUME NEW T, Once(s, T), e \in T => e \notin Elems(s),
               NEW i \in 1 .. Len(u), NEW j \in 1 .. Len(u), u[i] = u[j], u[i] \in T
        PROVE  i = j
    <2>1. CASE i = 1
      BY <1>1, <1>2, <1>4, <2>1 DEF Elems
    <2>2. CASE j = 1
      BY <1>1, <1>2, <1>4, <2>2 DEF Elems
    <2>3. CASE i # 1 /\ j # 1
      <3>1. i - 1 = j - 1
        BY <1>2, <1>4, <2>3 DEF Once
      <3> QED BY <3>1
    <2> QED BY <2>1, <2>2, <2>3
  <1> QED BY <1>1, <1>3, <1>4 DEF u, Once

\* The first element is taken.
LEMMA HeadFacts ==
  ASSUME NEW S, NEW s \in Seq(S), s # <<>>
  PROVE  /\ Head(s) \in S /\ Tail(s) \in Seq(S)
         /\ Elems(s) = Elems(Tail(s)) \cup {Head(s)}
         /\ \A T : Once(s, T) => /\ Once(Tail(s), T)
                                 /\ Head(s) \in T => Head(s) \notin Elems(Tail(s))
  <1> DEFINE u == Tail(s)
  <1>1. /\ Len(s) \in Nat \ {0} /\ Head(s) = s[1] /\ 1 \in 1 .. Len(s) /\ s[1] \in S
        /\ u \in Seq(S) /\ Len(u) = Len(s) - 1
        /\ \A k \in 1 .. Len(u) : u[k] = s[k + 1] /\ k + 1 \in 1 .. Len(s) /\ k + 1 # 1
    OBVIOUS
  <1> HIDE DEF u
  <1>2. \A k \in 1 .. Len(s) : k # 1 => k - 1 \in 1 .. Len(u) /\ s[k] = u[k - 1]
    BY <1>1
  <1>3. Elems(s) = Elems(u) \cup {Head(s)}
    <2>1. \A k \in 1 .. Len(s) : s[k] = Head(s) \/ s[k] \in Elems(u)
      BY <1>1, <1>2 DEF Elems
    <2>2. \A k \in 1 .. Len(u) : u[k] \in Elems(s)
      BY <1>1 DEF Elems
    <2>3. Head(s) \in Elems(s)
      BY <1>1 DEF Elems
    <2> QED BY <2>1, <2>2, <2>3 DEF Elems
  <1>4. ASSUME NEW T, Once(s, T)
        PROVE  Once(u, T) /\ (Head(s) \in T => Head(s) \notin Elems(u))
    <2>1. Head(s) \in T => Head(s) \notin Elems(u)
      BY <1>1, <1>4 DEF Once, Elems
    <2>2. ASSUME NEW i \in 1 .. Len(u), NEW j \in 1 .. Len(u), u[i] = u[j], u[i] \in T
          PROVE  i = j
      <3>1. i + 1 = j + 1
        BY <1>1, <1>4, <2>2 DEF Once
      <3> QED BY <3>1
    <2> QED BY <2>1, <2>2 DEF Once
  <1> QED BY <1>1, <1>3, <1>4 DEF u

\* The sequence without its i-th element.
LEMMA RemoveAtDef ==
  ASSUME NEW S, NEW s \in Seq(S), NEW i \in 1 .. Len(s)
  PROVE  /\ RemoveAt(s, i) \in Seq(S) /\ Len(RemoveAt(s, i)) = Len(s) - 1
         /\ \A k \in 1 .. Len(s) - 1 :
               RemoveAt(s, i)[k] = s[IF k < i THEN k ELSE k + 1]
  <1> DEFINE a == SubSeq(s, 1, i - 1)
             b == SubSeq(s, i + 1, Len(s))
  <1>1. Len(s) \in Nat /\ RemoveAt(s, i) = a \o b
    BY DEF RemoveAt
  <1>2. a \in Seq(S) /\ Len(a) = i - 1 /\ \A k \in 1 .. i - 1 : a[k] = s[k]
    OBVIOUS
  <1>3. b \in Seq(S) /\ Len(b) = Len(s) - i /\ \A k \in 1 .. Len(s) - i : b[k] = s[i + k]
    OBVIOUS
  <1> HIDE DEF a, b
  <1>4. a \o b \in Seq(S) /\ Len(a \o b) = Len(s) - 1
    <2>1. a \o b \in Seq(S) /\ Len(a \o b) = Len(a) + Len(b)
      BY <1>2, <1>3, ConcatProperties
    <2> QED BY <2>1, <1>1, <1>2, <1>3
  <1>5. ASSUME NEW k \in 1 .. Len(s) - 1
        PROVE  (a \o b)[k] = s[IF k < i THEN k ELSE k + 1]
    <2>1. CASE k < i
      BY <2>1, <1>1, <1>2, <1>3
    <2>2. CASE ~(k < i)
      <3>1. k - (i - 1) \in 1 .. Len(s) - i /\ i + (k - (i - 1)) = k + 1
        BY <2>2, <1>1
      <3>2. (a \o b)[k] = b[k - (i - 1)]
        BY <2>2, <1>1, <1>2, <1>3
      <3>3. b[k - (i - 1)] = s[i + (k - (i - 1))]
        BY <3>1, <1>3
      <3> QED BY <2>2, <3>1, <3>2, <3>3
    <2> QED BY <2>1, <2>2
  <1> QED BY <1>1, <1>4, <1>5

\* An element is removed from the middle.
LEMMA RemoveAtFacts ==
  ASSUME NEW S, NEW s \in Seq(S), NEW i \in 1 .. Len(s)
  PROVE  /\ RemoveAt(s, i) \in Seq(S)
         /\ Elems(s) = Elems(RemoveAt(s, i)) \cup {s[i]}
         /\ \A T : Once(s, T) => /\ Once(RemoveAt(s, i), T)
                                 /\ s[i] \in T => s[i] \notin Elems(RemoveAt(s, i))
  <1> DEFINE u == RemoveAt(s, i)
             at(k) == IF k < i THEN k ELSE k + 1
  <1>1. /\ u \in Seq(S) /\ Len(u) = Len(s) - 1 /\ Len(s) \in Nat
        /\ \A k \in 1 .. Len(u) : u[k] = s[at(k)]
    <2>1. /\ u \in Seq(S) /\ Len(u) = Len(s) - 1
          /\ \A k \in 1 .. Len(s) - 1 : u[k] = s[at(k)]
      BY RemoveAtDef
    <2> QED BY <2>1
  <1> HIDE DEF u
  <1>2. /\ \A k \in 1 .. Len(u) : at(k) \in 1 .. Len(s) /\ at(k) # i
        /\ \A j, k \in 1 .. Len(u) : at(j) = at(k) => j = k
    BY <1>1
  <1>3. \A k \in 1 .. Len(s) : k # i => \E j \in 1 .. Len(u) : at(j) = k
    <2> SUFFICES ASSUME NEW k \in 1 .. Len(s), k # i PROVE \E j \in 1 .. Len(u) : at(j) = k
      OBVIOUS
    <2>1. CASE k < i
      <3>1. k \in 1 .. Len(u) /\ at(k) = k
        BY <1>1, <2>1
      <3> QED BY <3>1
    <2>2. CASE ~(k < i)
      <3>1. k - 1 \in 1 .. Len(u) /\ at(k - 1) = k
        BY <1>1, <2>2
      <3> QED BY <3>1
    <2> QED BY <2>1, <2>2
  <1> HIDE DEF at
  <1>4. Elems(s) = Elems(u) \cup {s[i]}
    <2>1. \A k \in 1 .. Len(s) : s[k] = s[i] \/ s[k] \in Elems(u)
      BY <1>1, <1>3 DEF Elems
    <2>2. \A k \in 1 .. Len(u) : u[k] \in Elems(s)
      BY <1>1, <1>2 DEF Elems
    <2>3. s[i] \in Elems(s)
      BY DEF Elems
    <2> QED BY <2>1, <2>2, <2>3 DEF Elems
  <1>5. ASSUME NEW T, Once(s, T)
        PROVE  Once(u, T) /\ (s[i] \in T => s[i] \notin Elems(u))
    BY <1>1, <1>2, <1>5 DEF Once, Elems
  <1> QED BY <1>1, <1>4, <1>5 DEF u

\* The elements outside a set are erased.
LEMMA EraseFacts ==
  ASSUME NEW S, NEW s \in Seq(S), NEW T
  PROVE  /\ Filter(s, T) \in Seq(S) /\ Elems(Filter(s, T)) = Elems(s) \cap T
         /\ \A R : Once(s, R) => Once(Filter(s, T), R)
  <1> DEFINE u == Filter(s, T)
  <1>1. /\ u \in Seq(S) /\ \A i \in 1 .. Len(u) : u[i] \in T
        /\ \A i \in 1 .. Len(u) : \E k \in 1 .. Len(s) : u[i] = s[k]
        /\ \A k \in 1 .. Len(s) : s[k] \in T => \E i \in 1 .. Len(u) : u[i] = s[k]
    BY FilterFacts
  <1>2. PICK h \in [1 .. Len(u) -> 1 .. Len(s)] :
            /\ \A a \in 1 .. Len(u) : u[a] = s[h[a]]
            /\ \A a, b \in 1 .. Len(u) : a < b => h[a] < h[b]
    BY FilterOrder
  <1> HIDE DEF u
  <1>3. Elems(u) = Elems(s) \cap T
    <2>1. \A i \in 1 .. Len(u) : u[i] \in Elems(s) \cap T
      BY <1>1 DEF Elems
    <2>2. \A k \in 1 .. Len(s) : s[k] \in T => s[k] \in Elems(u)
      BY <1>1 DEF Elems
    <2> QED BY <2>1, <2>2 DEF Elems
  <1>4. \A a, b \in 1 .. Len(u) : h[a] = h[b] => a = b
    BY <1>2
  <1>5. ASSUME NEW R, Once(s, R) PROVE Once(u, R)
    BY <1>2, <1>4, <1>5 DEF Once
  <1> QED BY <1>1, <1>3, <1>5 DEF u

\* Entries outside T are put in front.
LEMMA ConcatFacts ==
  ASSUME NEW S, NEW a \in Seq(S), NEW s \in Seq(S)
  PROVE  /\ a \o s \in Seq(S) /\ Elems(a \o s) = Elems(a) \cup Elems(s)
         /\ \A T : Once(s, T) /\ Elems(a) \cap T = {} => Once(a \o s, T)
  <1> DEFINE u == a \o s
  <1>1. /\ u \in Seq(S) /\ Len(a) \in Nat /\ Len(s) \in Nat /\ Len(u) = Len(a) + Len(s)
        /\ \A k \in 1 .. Len(u) : u[k] = IF k <= Len(a) THEN a[k] ELSE s[k - Len(a)]
    OBVIOUS
  <1> HIDE DEF u
  <1>2. /\ \A k \in 1 .. Len(a) : k \in 1 .. Len(u) /\ u[k] = a[k]
        /\ \A k \in 1 .. Len(s) : k + Len(a) \in 1 .. Len(u) /\ u[k + Len(a)] = s[k]
        /\ \A k \in 1 .. Len(u) : \/ k \in 1 .. Len(a) /\ u[k] = a[k]
                                  \/ k - Len(a) \in 1 .. Len(s) /\ u[k] = s[k - Len(a)]
    BY <1>1
  <1>3. Elems(u) = Elems(a) \cup Elems(s)
    <2>1. \A k \in 1 .. Len(u) : u[k] \in Elems(a) \cup Elems(s)
      BY <1>2 DEF Elems
    <2>2. \A k \in 1 .. Len(a) : a[k] \in Elems(u)
      BY <1>2 DEF Elems
    <2>3. \A k \in 1 .. Len(s) : s[k] \in Elems(u)
      BY <1>2 DEF Elems
    <2> QED BY <2>1, <2>2, <2>3 DEF Elems
  <1>4. ASSUME NEW T, Once(s, T), Elems(a) \cap T = {},
               NEW i \in 1 .. Len(u), NEW j \in 1 .. Len(u), u[i] = u[j], u[i] \in T
        PROVE  i = j
    <2>1. \A k \in 1 .. Len(a) : a[k] \notin T
      BY <1>4 DEF Elems
    <2>2. i - Len(a) = j - Len(a)
      BY <1>2, <1>4, <2>1 DEF Once
    <2> QED BY <2>2, <1>1
  <1> QED BY <1>1, <1>3, <1>4 DEF u, Once

-----------------------------------------------------------------------------
(* Results *)

\* A result is added: the last one of its task, if that has not ended.
LEMMA EndsAppend ==
  ASSUME NEW s \in Seq(Result), NEW x \in Result, EndsLast(s), x.id \notin EndedIn(s)
  PROVE  EndsLast(Append(s, x))
  <1> DEFINE u == Append(s, x)
  <1>1. /\ Len(s) \in Nat /\ Len(u) = Len(s) + 1 /\ u[Len(u)] = x
        /\ \A k \in 1 .. Len(s) : u[k] = s[k]
    OBVIOUS
  <1>2. \A k \in 1 .. Len(s) : s[k].id = x.id => s[k].kind = "partial"
    BY DEF EndedIn, Elems, Result
  <1> HIDE DEF u
  <1>3. \A k \in 1 .. Len(u) : k \in 1 .. Len(s) \/ k = Len(u)
    BY <1>1
  <1>4. ASSUME NEW i \in 1 .. Len(u), NEW j \in 1 .. Len(u),
               u[i].id = u[j].id, u[i].kind # "partial"
        PROVE  j <= i
    <2>1. CASE i = Len(u)
      BY <2>1, <1>1
    <2>2. CASE i \in 1 .. Len(s) /\ j = Len(u)
      BY <2>2, <1>1, <1>2, <1>4
    <2>3. CASE i \in 1 .. Len(s) /\ j \in 1 .. Len(s)
      BY <2>3, <1>1, <1>4 DEF EndsLast
    <2> QED BY <2>1, <2>2, <2>3, <1>3
  <1> QED BY <1>4 DEF EndsLast, u

\* A result is taken out of the queue.
LEMMA EndsRemove ==
  ASSUME NEW s \in Seq(Result), NEW i \in 1 .. Len(s), EndsLast(s)
  PROVE  EndsLast(RemoveAt(s, i))
  <1> DEFINE u == RemoveAt(s, i)
             at(k) == IF k < i THEN k ELSE k + 1
  <1>1. /\ Len(u) = Len(s) - 1 /\ Len(s) \in Nat
        /\ \A k \in 1 .. Len(u) : u[k] = s[at(k)]
    <2>1. /\ Len(u) = Len(s) - 1
          /\ \A k \in 1 .. Len(s) - 1 : u[k] = s[at(k)]
      BY RemoveAtDef
    <2> QED BY <2>1
  <1> HIDE DEF u
  <1>2. /\ \A k \in 1 .. Len(u) : at(k) \in 1 .. Len(s)
        /\ \A j, k \in 1 .. Len(u) : at(j) <= at(k) => j <= k
    BY <1>1
  <1> HIDE DEF at
  <1>3. EndsLast(u)
    BY <1>1, <1>2 DEF EndsLast
  <1> QED BY <1>3 DEF u

\* Results are erased.
LEMMA EndsErase ==
  ASSUME NEW s \in Seq(Result), NEW T, EndsLast(s)
  PROVE  EndsLast(Filter(s, T))
  <1> DEFINE u == Filter(s, T)
  <1>1. PICK h \in [1 .. Len(u) -> 1 .. Len(s)] :
            /\ \A a \in 1 .. Len(u) : u[a] = s[h[a]]
            /\ \A a, b \in 1 .. Len(u) : a < b => h[a] < h[b]
    BY FilterOrder
  <1> HIDE DEF u
  <1>2. \A a, b \in 1 .. Len(u) : h[a] <= h[b] => a <= b
    BY <1>1
  <1>3. EndsLast(u)
    BY <1>1, <1>2 DEF EndsLast
  <1> QED BY <1>3 DEF u

\* server_response::send keeps the queue of results as readers expect it.
LEMMA SendFacts ==
  ASSUME Readers, NEW s \in Seq(Result), NEW t \in TaskId,
         NEW kind \in {"partial", "final", "error"}
  PROVE  /\ Send(t, kind, waiting, s) \in Seq(Result)
         /\ Elems(Send(t, kind, waiting, s)) =
               Elems(s) \cup (IF t \in waiting THEN {[id |-> t, kind |-> kind]} ELSE {})
         /\ EndedIn(Send(t, kind, waiting, s)) =
               EndedIn(s) \cup (IF t \in waiting /\ kind # "partial" THEN {t} ELSE {})
         /\ Awaited(s) /\ t \notin EndedIn(s) \cup Done => Awaited(Send(t, kind, waiting, s))
  <1> DEFINE x == [id |-> t, kind |-> kind]
             u == Send(t, kind, waiting, s)
  <1>1. x \in Result /\ x.id = t /\ x.kind = kind
    BY DEF Result
  <1> HIDE DEF x
  <1>2. CASE t \notin waiting
    <2>1. u = s
      BY <1>2 DEF Send
    <2> QED BY <1>2, <2>1
  <1>3. CASE t \in waiting
    <2>1. u = Append(s, x)
      BY <1>3 DEF Send, x
    <2>2. u \in Seq(Result) /\ Elems(u) = Elems(s) \cup {x}
      BY <1>1, <2>1, AppendFacts
    <2>3. EndedIn(u) = EndedIn(s) \cup (IF kind # "partial" THEN {t} ELSE {})
      BY <1>1, <2>2 DEF EndedIn
    <2>4. ASSUME Awaited(s), t \notin EndedIn(s) \cup Done PROVE Awaited(u)
      <3>1. EndsLast(u)
        BY <1>1, <2>1, <2>4, EndsAppend DEF Awaited
      <3>2. t \in Ids(t[1]) /\ rd[t[1]].pc \in {"read", "stop"}
        BY <1>3 DEF Readers
      <3> QED BY <1>1, <2>2, <2>4, <3>1, <3>2 DEF Awaited
    <2> HIDE DEF u
    <2> QED BY <1>3, <2>2, <2>3, <2>4 DEF u, x
  <1> QED BY <1>2, <1>3

-----------------------------------------------------------------------------
(* What the main thread does to the tasks: it moves one at a time *)

\* Tasks only change their place before a slot.
Shuffles ==
    Unlaunched' = Unlaunched /\ Running' = Running /\ results' = results
\* A task and its child get their slots.
Launches ==
    \E t \in Unlaunched : /\ Unlaunched' = Unlaunched \ {t}
                          /\ Running' = Running \cup Ids(t[1])
                          /\ results' = results
\* A task is answered without a slot: with an error, or it has no child.
Refuses ==
    \E t \in Unlaunched, kind \in {"final", "error"} : \E u \in Ids(t[1]) :
        /\ kind = "error" \/ Ids(t[1]) = {t}
        /\ Unlaunched' = Unlaunched \ {t} /\ Running' = Running
        /\ results' = Send(u, kind, waiting, results)
\* A task ends, perhaps after one more token.
Finishes ==
    \E t \in Running, kind \in {"final", "error"} :
    \E out \in {results, Send(t, "partial", waiting, results)} :
        /\ Unlaunched' = Unlaunched /\ Running' = Running \ {t}
        /\ results' = Send(t, kind, waiting, out)
\* A task goes on, and sends a token.
Streams ==
    \E t \in Running : /\ Unlaunched' = Unlaunched /\ Running' = Running
                       /\ results' = Send(t, "partial", waiting, results)
\* A task that nobody wants is stopped.
Drops ==
    \E t \in Running : /\ rd[t[1]].pc = "closed"
                       /\ Unlaunched' = Unlaunched /\ Running' = Running \ {t}
                       /\ results' = results

Moves == Shuffles \/ Launches \/ Refuses \/ Finishes \/ Streams \/ Drops

\* The ids of a request are its task and perhaps the child.
LEMMA IdsFacts ==
  ASSUME TypeOK, Readers, NEW r \in Request, rd[r].pc # "new"
  PROVE  /\ rd[r].shape \in Shapes[r] /\ rd[r].shape \in ShapeType
         /\ Ids(r) = IF rd[r].shape.kids = 1 THEN {<<r, 0>>, <<r, 1>>} ELSE {<<r, 0>>}
         /\ Ids(r) \subseteq TaskId /\ <<r, 0>> \in Ids(r)
         /\ \A t \in Ids(r) : t[1] = r /\ t[2] \in {0, 1}
  <1>1. rd[r].shape \in Shapes[r] /\ rd[r].shape \in ShapeType
    BY ShapesAssumption DEF Readers
  <1>2. rd[r].shape.kids \in {0, 1}
    BY <1>1 DEF ShapeType
  <1>3. CASE rd[r].shape.kids = 1
    <2>1. 0 .. 1 = {0, 1}
      OBVIOUS
    <2>2. Ids(r) = {<<r, 0>>, <<r, 1>>}
      BY <1>3, <2>1 DEF Ids, Shape
    <2> QED BY <1>1, <1>3, <2>2 DEF TaskId
  <1>4. CASE rd[r].shape.kids = 0
    <2>1. 0 .. 0 = {0}
      OBVIOUS
    <2>2. Ids(r) = {<<r, 0>>}
      BY <1>4, <2>1 DEF Ids, Shape
    <2> QED BY <1>1, <1>4, <2>2 DEF TaskId
  <1> QED BY <1>2, <1>3, <1>4

\* A task id is the pair of its request and 0 or 1.
LEMMA TaskIdFacts ==
  ASSUME NEW t \in TaskId
  PROVE  t[1] \in Request /\ t[2] \in {0, 1} /\ t = <<t[1], t[2]>>
  BY DEF TaskId

\* The sets of task ids.
LEMMA PlaceFacts ==
  ASSUME TypeOK
  PROVE  /\ Queued \subseteq TaskId /\ Parked \subseteq TaskId /\ InHand \subseteq TaskId
         /\ Unlaunched \subseteq TaskId /\ Running \subseteq TaskId
         /\ Ended \subseteq TaskId /\ Done \subseteq TaskId
         /\ results \in Seq(Result) /\ Elems(results) \subseteq Result
         /\ \A x \in Elems(results) : x.id \in TaskId
         /\ rd \in [Request ->
                      [pc : {"new", "gate", "prepare", "read", "stop", "cancel", "closed"},
                       shape : ShapeType \cup {None}, got : SUBSET TaskId]]
  <1>1. Parked \subseteq TaskId
    BY DEF TypeOK, Parked, Elems
  <1>2. results \in Seq(Result)
    BY DEF TypeOK
  <1>3. Elems(results) \subseteq Result
    BY <1>2 DEF Elems
  <1>4. \A x \in Elems(results) : x.id \in TaskId
    BY <1>3 DEF Result
  <1>5. /\ Queued \subseteq TaskId /\ InHand \subseteq TaskId /\ Running \subseteq TaskId
        /\ Ended \subseteq TaskId /\ Done \subseteq TaskId
    BY DEF Queued, InHand, Running, Ended, EndedIn, Done
  <1> QED BY <1>1, <1>2, <1>3, <1>4, <1>5 DEF Unlaunched, TypeOK

\* Every move keeps the stages of the tasks, the results and what is waited for.
LEMMA MovesInv ==
  ASSUME Inv, Moves, UNCHANGED <<rd, waiting>>
  PROVE  Readers' /\ Stages' /\ Outbox' /\ InPlay'
  <1> USE DEF Inv
  <1>0. Done' = Done /\ \A r : Ids(r)' = Ids(r)
    BY DEF Done, Ids, Shape
  <1>1. \A t \in Unlaunched \cup Running \cup Done :
            /\ t \in TaskId /\ rd[t[1]].pc # "new"
            /\ Ids(t[1]) \subseteq TaskId
            /\ \A u \in Ids(t[1]) : u[1] = t[1]
    BY PlaceFacts, IdsFacts, TaskIdFacts DEF Readers
  <1>2. \A t \in Unlaunched :
            /\ t \in Ids(t[1]) /\ Ids(t[1]) \subseteq {t, <<t[1], 1>>}
            /\ Ids(t[1]) \cap (Running \cup Ended \cup Done) = {}
    <2> TAKE t \in Unlaunched
    <2>1. t \in TaskId /\ t[2] = 0 /\ t = <<t[1], 0>> /\ t[1] \in Request /\ rd[t[1]].pc # "new"
      BY <1>1, PlaceFacts, TaskIdFacts DEF Stages
    <2>2. t \in Ids(t[1]) /\ Ids(t[1]) \subseteq {t, <<t[1], 1>>}
      BY <2>1, IdsFacts
    <2> QED BY <2>2 DEF Stages
  <1>3. ASSUME NEW out, results' = out, Awaited(out) PROVE Outbox'
    BY <1>0, <1>3 DEF Outbox, Awaited
  <1>4. ASSUME NEW out, results' = out PROVE Ended' = EndedIn(out)
    BY <1>4 DEF Ended, EndedIn
  <1>5. ASSUME \A t \in Unlaunched' \cup Running' :
                   rd[t[1]].pc \notin {"new", "gate", "prepare"}
        PROVE  Readers'
    BY <1>0, <1>5 DEF Readers
  <1>6. CASE Shuffles
    <2>1. Ended' = Ended /\ Elems(results') = Elems(results)
      BY <1>4, <1>6 DEF Shuffles, Ended
    <2>2. Readers'
      BY <1>5, <1>6 DEF Shuffles, Readers
    <2>3. Outbox'
      BY <1>3, <1>6 DEF Shuffles, Outbox
    <2>4. Stages'
      BY <1>0, <1>6, <2>1 DEF Shuffles, Stages
    <2>5. InPlay'
      BY <1>0, <1>6, <2>1 DEF Shuffles, InPlay
    <2> QED BY <2>2, <2>3, <2>4, <2>5
  <1>7. CASE Launches
    <2>0. PICK t \in Unlaunched : /\ Unlaunched' = Unlaunched \ {t}
                                  /\ Running' = Running \cup Ids(t[1])
                                  /\ results' = results
      BY <1>7 DEF Launches
    <2>1. Ended' = Ended /\ Elems(results') = Elems(results)
      BY <1>4, <2>0 DEF Ended
    <2>2. Readers'
      BY <1>1, <1>5, <2>0 DEF Readers
    <2>3. Outbox'
      BY <1>3, <2>0 DEF Outbox
    <2>4. Stages'
      <3>1. \A u \in Unlaunched : u # t => u \notin Ids(t[1]) /\ <<u[1], 1>> \notin Ids(t[1])
        <4> SUFFICES ASSUME NEW u \in Unlaunched, u # t
                     PROVE  u \notin Ids(t[1]) /\ <<u[1], 1>> \notin Ids(t[1])
          OBVIOUS
        <4>1. /\ u[2] = 0 /\ u = <<u[1], u[2]>> /\ t[2] = 0 /\ t = <<t[1], t[2]>>
              /\ t \in TaskId
          BY PlaceFacts, TaskIdFacts DEF Stages
        <4>2. u[1] # t[1]
          BY <4>1
        <4>3. \A v \in Ids(t[1]) : v[1] = t[1]
          BY <1>1
        <4> QED BY <4>2, <4>3
      <3> QED BY <1>0, <1>2, <2>0, <2>1, <3>1 DEF Stages
    <2>5. InPlay'
      <3> SUFFICES ASSUME NEW r \in Request, rd[r].pc = "read", NEW u \in Ids(r) \ rd[r].got
                   PROVE  \/ u \in Unlaunched' \cup Running' \cup Ended'
                          \/ \E x \in Elems(results') : x.id \in Ids(r) /\ x.kind = "error"
                          \/ u[2] = 1 /\ <<r, 0>> \in Unlaunched'
        BY <1>0 DEF InPlay
      <3>1. CASE u[2] = 1 /\ <<r, 0>> = t
        BY <2>0, <3>1
      <3> QED BY <1>2, <2>0, <2>1, <3>1 DEF InPlay
    <2> QED BY <2>2, <2>3, <2>4, <2>5
  <1>8. CASE Refuses
    <2>a. PICK t \in Unlaunched, kind \in {"final", "error"} : \E u \in Ids(t[1]) :
              /\ kind = "error" \/ Ids(t[1]) = {t}
              /\ Unlaunched' = Unlaunched \ {t} /\ Running' = Running
              /\ results' = Send(u, kind, waiting, results)
      BY <1>8 DEF Refuses
    <2>0. PICK u \in Ids(t[1]) :
              /\ kind = "error" \/ Ids(t[1]) = {t}
              /\ Unlaunched' = Unlaunched \ {t} /\ Running' = Running
              /\ results' = Send(u, kind, waiting, results)
      BY <2>a
    <2>1. u \in TaskId /\ u \notin Running \cup Ended \cup Done /\ u[1] = t[1]
      BY <1>1, <1>2
    <2>2. /\ Elems(results') = Elems(results) \cup
                 (IF u \in waiting THEN {[id |-> u, kind |-> kind]} ELSE {})
          /\ Ended' = Ended \cup (IF u \in waiting THEN {u} ELSE {})
          /\ Awaited(results) => Awaited(Send(u, kind, waiting, results))
      BY <1>4, <2>0, <2>1, SendFacts, PlaceFacts DEF Ended
    <2>3. Outbox'
      BY <1>3, <2>0, <2>2 DEF Outbox
    <2>4. Readers'
      BY <1>5, <2>0 DEF Readers
    <2>5. \A v \in Unlaunched : v # t => v # u /\ <<v[1], 1>> # u
      <3> SUFFICES ASSUME NEW v \in Unlaunched, v # t PROVE v # u /\ <<v[1], 1>> # u
        OBVIOUS
      <3>1. v[2] = 0 /\ v = <<v[1], v[2]>> /\ t[2] = 0 /\ t = <<t[1], t[2]>>
        BY PlaceFacts, TaskIdFacts DEF Stages
      <3>2. v[1] # t[1]
        BY <3>1
      <3> QED BY <2>1, <3>2
    <2>6. Stages'
      BY <1>0, <2>0, <2>1, <2>2, <2>5 DEF Stages
    <2>7. InPlay'
      <3> SUFFICES ASSUME NEW r \in Request, rd[r].pc = "read", NEW v \in Ids(r) \ rd[r].got
                   PROVE  \/ v \in Unlaunched' \cup Running' \cup Ended'
                          \/ \E x \in Elems(results') : x.id \in Ids(r) /\ x.kind = "error"
                          \/ v[2] = 1 /\ <<r, 0>> \in Unlaunched'
        BY <1>0 DEF InPlay
      <3>1. CASE r = t[1]
        <4>1. u \in waiting
          BY <3>1, <2>1 DEF Readers
        <4>2. CASE kind = "error"
          <5>1. [id |-> u, kind |-> kind] \in Elems(results')
            BY <4>1, <2>2
          <5> QED BY <5>1, <4>2, <3>1
        <4>3. CASE Ids(t[1]) = {t}
          BY <4>1, <4>3, <3>1, <2>2
        <4> QED BY <4>2, <4>3, <2>0
      <3>2. CASE r # t[1]
        <4>1. v # t /\ <<r, 0>> # t
          <5>1. v[1] = r /\ <<r, 0>>[1] = r
            BY IdsFacts
          <5> QED BY <3>2, <5>1
        <4> QED BY <4>1, <2>0, <2>2 DEF InPlay
      <3> QED BY <3>1, <3>2
    <2> QED BY <2>3, <2>4, <2>6, <2>7
  <1>9. CASE Finishes
    <2>a. PICK t \in Running, kind \in {"final", "error"} :
              \E out \in {results, Send(t, "partial", waiting, results)} :
                /\ Unlaunched' = Unlaunched /\ Running' = Running \ {t}
                /\ results' = Send(t, kind, waiting, out)
      BY <1>9 DEF Finishes
    <2>0. PICK out \in {results, Send(t, "partial", waiting, results)} :
              /\ Unlaunched' = Unlaunched /\ Running' = Running \ {t}
              /\ results' = Send(t, kind, waiting, out)
      BY <2>a
    <2>1. t \in TaskId /\ t \notin Unlaunched \cup Ended \cup Done
      BY PlaceFacts DEF Stages
    <2>2. /\ out \in Seq(Result) /\ Elems(results) \subseteq Elems(out)
          /\ EndedIn(out) = Ended /\ Awaited(out)
      <3>1. CASE out = results
        BY <3>1, PlaceFacts DEF Ended, Outbox
      <3>2. CASE out = Send(t, "partial", waiting, results)
        <4>1. results \in Seq(Result) /\ Awaited(results) /\ t \notin EndedIn(results) \cup Done
          BY <2>1, PlaceFacts DEF Outbox, Ended
        <4>2. /\ out \in Seq(Result) /\ Elems(results) \subseteq Elems(out)
              /\ EndedIn(out) = EndedIn(results) /\ Awaited(out)
          BY <3>2, <4>1, <2>1, SendFacts
        <4> QED BY <4>2 DEF Ended
      <3> QED BY <3>1, <3>2, <2>0
    <2>3. /\ Elems(results') = Elems(out) \cup
                 (IF t \in waiting THEN {[id |-> t, kind |-> kind]} ELSE {})
          /\ Ended' = Ended \cup (IF t \in waiting THEN {t} ELSE {})
          /\ Awaited(Send(t, kind, waiting, out))
      BY <1>4, <2>0, <2>1, <2>2, SendFacts
    <2>4. Outbox'
      BY <1>3, <2>0, <2>3
    <2>5. Readers'
      BY <1>5, <2>0 DEF Readers
    <2>6. Stages'
      BY <1>0, <2>0, <2>1, <2>3, PlaceFacts DEF Stages
    <2>7. InPlay'
      <3> SUFFICES ASSUME NEW r \in Request, rd[r].pc = "read", NEW v \in Ids(r) \ rd[r].got
                   PROVE  \/ v \in Unlaunched' \cup Running' \cup Ended'
                          \/ \E x \in Elems(results') : x.id \in Ids(r) /\ x.kind = "error"
                          \/ v[2] = 1 /\ <<r, 0>> \in Unlaunched'
        BY <1>0 DEF InPlay
      <3>1. CASE v = t
        <4>1. t \in waiting
          BY <3>1, <2>1, IdsFacts DEF Readers
        <4> QED BY <4>1, <3>1, <2>3
      <3>2. CASE v # t
        BY <3>2, <2>0, <2>2, <2>3 DEF InPlay
      <3> QED BY <3>1, <3>2
    <2> QED BY <2>4, <2>5, <2>6, <2>7
  <1>10. CASE Streams
    <2>0. PICK t \in Running : /\ Unlaunched' = Unlaunched /\ Running' = Running
                               /\ results' = Send(t, "partial", waiting, results)
      BY <1>10 DEF Streams
    <2>1. t \in TaskId /\ t \notin Unlaunched \cup Ended \cup Done
      BY PlaceFacts DEF Stages
    <2>2. /\ Elems(results) \subseteq Elems(results') /\ Ended' = Ended
          /\ Awaited(Send(t, "partial", waiting, results))
      BY <1>4, <2>0, <2>1, SendFacts, PlaceFacts DEF Ended, Outbox
    <2>3. Outbox'
      BY <1>3, <2>0, <2>2
    <2>4. Readers'
      BY <1>5, <2>0 DEF Readers
    <2>5. Stages'
      BY <1>0, <2>0, <2>2 DEF Stages
    <2>6. InPlay'
      BY <1>0, <2>0, <2>2 DEF InPlay
    <2> QED BY <2>3, <2>4, <2>5, <2>6
  <1>11. CASE Drops
    <2>0. PICK t \in Running : /\ rd[t[1]].pc = "closed"
                               /\ Unlaunched' = Unlaunched /\ Running' = Running \ {t}
                               /\ results' = results
      BY <1>11 DEF Drops
    <2>1. Ended' = Ended /\ Elems(results') = Elems(results)
      BY <1>4, <2>0 DEF Ended
    <2>2. Readers'
      BY <1>5, <2>0 DEF Readers
    <2>3. Outbox'
      BY <1>3, <2>0 DEF Outbox
    <2>4. Stages'
      BY <1>0, <2>0, <2>1 DEF Stages
    <2>5. InPlay'
      <3>1. \A r \in Request : rd[r].pc = "read" => t \notin Ids(r)
        BY <2>0, IdsFacts
      <3> QED BY <1>0, <2>0, <2>1, <3>1 DEF InPlay
    <2> QED BY <2>2, <2>3, <2>4, <2>5
  <1> QED BY <1>6, <1>7, <1>8, <1>9, <1>10, <1>11 DEF Moves

-----------------------------------------------------------------------------
(* The steps of the main thread *)

SlotRec == [st : {"idle", "started", "wait_other", "done_prompt", "generating"},
            task : TaskId \cup {None}, n : 0 .. MaxTokens - 1]

\* What a step of the main thread is to be shown to keep and to do.
MainKeeps ==
    TypeOK' /\ MainState' /\ Lists' /\ Cancels' /\ Moves /\ UNCHANGED <<rd, waiting>>

\* Entries for different tasks and of different types are different, and None is none.
LEMMA EntryFacts ==
  /\ \A t, u : Run(t) = Run(u) => t = u
  /\ \A t, u : Cancel(t) = Cancel(u) => t = u
  /\ \A t, u : Run(t) # Cancel(u) /\ Run(t) # NextResponse /\ Cancel(t) # NextResponse
  /\ \A t \in TaskId : /\ Run(t) \in Entry /\ Cancel(t) \in Entry
                       /\ Run(t) # None /\ Cancel(t) # None /\ t # None
  /\ NextResponse \in Entry /\ NextResponse # None
  <1>1. \A t, u : Run(t) = Run(u) => t = u
    <2>1. \A t : Run(t).id = t
      BY DEF Run
    <2> QED BY <2>1
  <1>2. \A t, u : Cancel(t) = Cancel(u) => t = u
    <2>1. \A t : Cancel(t).id = t
      BY DEF Cancel
    <2> QED BY <2>1
  <1>3. \A t, u : Run(t) # Cancel(u) /\ Run(t) # NextResponse /\ Cancel(t) # NextResponse
    <2>1. \A t : Run(t).type = "run" /\ Cancel(t).type = "cancel" /\ NextResponse.type = "next"
      BY DEF Run, Cancel, NextResponse
    <2>2. "run" # "cancel" /\ "run" # "next" /\ "cancel" # "next"
      OBVIOUS
    <2> QED BY <2>1, <2>2
  <1>4. \A t \in TaskId : Run(t) \in Entry /\ Cancel(t) \in Entry
    BY DEF Run, Cancel, Entry
  <1>5. NextResponse \in Entry
    BY DEF Entry
  <1> QED BY <1>1, <1>2, <1>3, <1>4, <1>5, NoneAssumption

\* The entry the main thread holds.
LEMMA HandFacts ==
  ASSUME TypeOK, MainState
  PROVE  /\ pc # "handle" => hand = None /\ InHand = {}
         /\ pc = "handle" => hand \in Entry
         /\ pc = "handle" /\ hand.type = "run" =>
               hand.id \in TaskId /\ hand = Run(hand.id) /\ InHand = {hand.id}
         /\ pc = "handle" /\ hand.type = "cancel" =>
               hand.id \in TaskId /\ hand = Cancel(hand.id) /\ InHand = {}
         /\ pc = "handle" /\ hand.type = "next" => hand = NextResponse /\ InHand = {}
  <1>1. pc # "handle" => hand = None /\ InHand = {}
    BY EntryFacts DEF MainState, InHand
  <1>2. pc = "handle" => hand \in Entry
    BY DEF TypeOK, MainState
  <1>3. ASSUME NEW e \in Entry
        PROVE  /\ e.type = "run" => e.id \in TaskId /\ e = Run(e.id)
               /\ e.type = "cancel" => e.id \in TaskId /\ e = Cancel(e.id)
               /\ e.type = "next" => e = NextResponse
    <2>1. CASE e \in [type : {"run", "cancel"}, id : TaskId]
      BY <2>1 DEF Run, Cancel
    <2>2. CASE e = NextResponse
      BY <2>2 DEF NextResponse
    <2> QED BY <2>1, <2>2 DEF Entry
  <1>4. pc = "handle" /\ hand.type = "run" =>
            hand.id \in TaskId /\ hand = Run(hand.id) /\ InHand = {hand.id}
    BY <1>2, <1>3, EntryFacts DEF InHand
  <1>5. pc = "handle" /\ hand.type = "cancel" =>
            hand.id \in TaskId /\ hand = Cancel(hand.id) /\ InHand = {}
    BY <1>2, <1>3, EntryFacts DEF InHand
  <1>6. pc = "handle" /\ hand.type = "next" => hand = NextResponse /\ InHand = {}
    BY <1>2, <1>3, EntryFacts DEF InHand
  <1> QED BY <1>1, <1>2, <1>4, <1>5, <1>6

\* A release takes the task out of the slot and moves at most one deferred
\* task to the queue.
LEMMA ReleaseFacts ==
  ASSUME TypeOK, MainState, Lists, NEW s \in Slot, Release(s)
  PROVE  /\ queue' \in Seq(Entry) /\ deferred' \in Seq(TaskId) /\ slot' \in [Slot -> SlotRec]
         /\ \A x \in Slot : slot'[x].st = "idle" <=> slot'[x].task = None
         /\ \A a, b \in Slot : slot'[a].task = slot'[b].task /\ slot'[a].task # None => a = b
         /\ Running' = Running \ {slot[s].task}
         /\ Queued' \cup Parked' = Queued \cup Parked /\ Queued' \cap Parked' = {}
         /\ Once(queue', Runs) /\ Once(deferred', TaskId)
         /\ \A t : Cancel(t) \in Elems(queue') => Cancel(t) \in Elems(queue)
  <1>1. slot \in [Slot -> SlotRec] /\ queue \in Seq(Entry) /\ deferred \in Seq(TaskId)
    BY DEF TypeOK, SlotRec
  <1>2. IdleSlot \in SlotRec /\ IdleSlot.st = "idle" /\ IdleSlot.task = None
    BY ShapesAssumption DEF IdleSlot, SlotRec
  <1>3. slot' = [slot EXCEPT ![s] = IdleSlot]
    BY DEF Release
  <1>4. /\ slot' \in [Slot -> SlotRec] /\ slot'[s] = IdleSlot
        /\ \A x \in Slot : x # s => slot'[x] = slot[x]
    BY <1>1, <1>2, <1>3
  <1>5. /\ \A x \in Slot : slot'[x].st = "idle" <=> slot'[x].task = None
        /\ \A a, b \in Slot : slot'[a].task = slot'[b].task /\ slot'[a].task # None => a = b
    BY <1>2, <1>4 DEF MainState, Lists
  <1>6. Running' = Running \ {slot[s].task}
    <2>1. \A t \in TaskId : t # None
      BY EntryFacts
    <2>2. \A t \in TaskId : (\E x \in Slot : slot'[x].task = t)
                              <=> (\E x \in Slot : slot[x].task = t) /\ t # slot[s].task
      BY <1>2, <1>4, <2>1 DEF Lists
    <2> QED BY <2>2 DEF Running
  <1>7. CASE deferred = <<>>
    <2>1. queue' = queue /\ deferred' = deferred
      BY <1>7 DEF Release
    <2> QED BY <1>1, <1>4, <1>5, <1>6, <2>1 DEF Lists, Queued, Parked
  <1>8. CASE deferred # <<>>
    <2> DEFINE i == PopIndex(s)
               d == deferred[i]
    <2>1. i \in 1 .. Len(deferred)
      <3> DEFINE named == {k \in DOMAIN deferred : IdSlot(deferred[k]) = s}
      <3>1. DOMAIN deferred = 1 .. Len(deferred) /\ 1 \in 1 .. Len(deferred)
        BY <1>1, <1>8
      <3>2. named \in SUBSET Nat
        BY <3>1
      <3>3. named # {} => Min(named) \in named
        <4> HIDE DEF named
        <4> QED BY <3>2, MinFacts
      <3> QED BY <3>1, <3>3 DEF PopIndex
    <2>2. queue' = <<Run(d)>> \o queue /\ deferred' = RemoveAt(deferred, i)
      BY <1>8 DEF Release
    <2> HIDE DEF i
    <2>3. d \in TaskId /\ d \in Elems(deferred) /\ Run(d) \in Entry
      BY <1>1, <2>1, EntryFacts DEF Elems
    <2>4. Run(d) \notin Elems(queue) /\ d \notin InHand
      BY <2>3 DEF Lists, Queued, Parked
    <2>5. /\ deferred' \in Seq(TaskId) /\ Elems(deferred) = Elems(deferred') \cup {d}
          /\ Once(deferred', TaskId) /\ d \notin Elems(deferred')
      BY <1>1, <2>1, <2>2, <2>3, RemoveAtFacts DEF Lists
    <2>6. /\ queue' \in Seq(Entry) /\ Elems(queue') = Elems(queue) \cup {Run(d)}
          /\ Once(queue', Runs)
      BY <1>1, <2>2, <2>3, <2>4, FrontFacts DEF Lists
    <2> HIDE DEF d
    <2>7. Queued' = Queued \cup {d} /\ Parked' = Parked \ {d} /\ d \in Parked
      BY <2>3, <2>5, <2>6, EntryFacts DEF Queued, Parked
    <2>8. \A t : Cancel(t) \in Elems(queue') => Cancel(t) \in Elems(queue)
      BY <2>6, EntryFacts
    <2> QED BY <1>4, <1>5, <1>6, <2>5, <2>6, <2>7, <2>8 DEF Lists
  <1> QED BY <1>7, <1>8

\* Taking, deferring and skipping entries, and the steps between: tasks change
\* their place before a slot only.
LEMMA ShufflesInv ==
  ASSUME Inv, \/ TakeTask \/ DeferTask \/ SkipNextResponse \/ UpdateSlots \/ Decode
              \/ Wait \/ FallAsleep \/ WakeUp
  PROVE  MainKeeps
  <1> USE DEF Inv
  <1>0. /\ queue \in Seq(Entry) /\ deferred \in Seq(TaskId) /\ slot \in [Slot -> SlotRec]
        /\ 1 \in 1 .. NSlots + 1
    BY ShapesAssumption DEF TypeOK, SlotRec
  <1>1. ASSUME slot' = slot \/ Decode PROVE Running' = Running
    <2>1. CASE slot' = slot
      BY <2>1 DEF Running
    <2>2. CASE Decode
      <3>1. \A s \in Slot : slot'[s].task = slot[s].task
        BY <1>0, <2>2 DEF Decode, SlotRec
      <3> QED BY <3>1 DEF Running
    <2> QED BY <1>1, <2>1, <2>2
  <1>2. ASSUME UNCHANGED <<queue, deferred, hand>>
        PROVE  /\ Unlaunched' = Unlaunched /\ Queued' = Queued /\ Parked' = Parked
               /\ InHand' = InHand
    BY <1>2 DEF Unlaunched, Queued, Parked, InHand
  <1>3. ASSUME UNCHANGED <<queue, deferred, hand, slot, results, rd, waiting, cursor>>,
               pc # "handle", pc' # "handle",
               pc' \in {"take", "handle", "update", "prompt", "fail", "sample", "wait", "asleep"},
               sleeping' \in BOOLEAN, reqStop' \in BOOLEAN
        PROVE  MainKeeps
    <2>1. TypeOK'
      BY <1>3 DEF TypeOK
    <2>2. MainState'
      BY <1>3 DEF MainState
    <2>3. Lists' /\ Cancels' /\ Moves
      BY <1>1, <1>2, <1>3 DEF Lists, Cancels, Moves, Shuffles
    <2> QED BY <1>3, <2>1, <2>2, <2>3 DEF MainKeeps
  <1>4. CASE TakeTask
    <2> USE DEF TakeTask, resultVars
    <2>1. CASE queue = <<>>
      BY <1>3, <1>4, <2>1 DEF TypeOK
    <2>2. CASE queue # <<>>
      <3>1. hand' = Head(queue) /\ queue' = Tail(queue) /\ pc' = "handle" /\ pc = "take"
        BY <1>4, <2>2
      <3>2. /\ Head(queue) \in Entry /\ Tail(queue) \in Seq(Entry)
            /\ Elems(queue) = Elems(queue') \cup {hand'}
            /\ Once(queue', Runs) /\ (hand' \in Runs => hand' \notin Elems(queue'))
        BY <1>0, <2>2, <3>1, HeadFacts DEF Lists
      <3>3. hand = None /\ InHand = {}
        BY <3>1, HandFacts
      <3>4. InHand' \cup Queued' = Queued /\ InHand' \cap Queued' = {} /\ Parked' = Parked
        BY <1>4, <3>2 DEF InHand, Queued, Parked, Runs
      <3>5. TypeOK'
        BY <1>4, <3>1, <3>2 DEF TypeOK
      <3>6. MainState'
        BY <1>4, <3>1, <3>2, NoneAssumption DEF MainState
      <3>7. Lists' /\ Moves
        BY <1>1, <1>4, <3>2, <3>3, <3>4 DEF Lists, Moves, Shuffles, Unlaunched
      <3>8. Cancels'
        BY <1>4, <3>2 DEF Cancels
      <3> QED BY <1>4, <3>5, <3>6, <3>7, <3>8 DEF MainKeeps
    <2> QED BY <2>1, <2>2
  <1>5. CASE DeferTask
    <2> USE DEF DeferTask, Handled, resultVars
    <2>1. /\ hand.id \in TaskId /\ hand = Run(hand.id) /\ InHand = {hand.id}
          /\ hand.id \notin Parked
      BY <1>5, HandFacts DEF Lists
    <2>2. /\ deferred' \in Seq(TaskId) /\ Elems(deferred') = Elems(deferred) \cup {hand.id}
          /\ Once(deferred', TaskId)
      BY <1>0, <1>5, <2>1, AppendFacts DEF Lists, Parked
    <2>3. InHand' = {} /\ Parked' = Parked \cup {hand.id} /\ Queued' = Queued
      BY <1>5, <2>2, EntryFacts DEF InHand, Parked, Queued
    <2>4. TypeOK'
      BY <1>5, <2>2 DEF TypeOK
    <2>5. MainState'
      BY <1>5 DEF MainState
    <2>6. Lists' /\ Moves
      BY <1>1, <1>5, <2>1, <2>2, <2>3 DEF Lists, Moves, Shuffles, Unlaunched
    <2>7. Cancels'
      BY <1>5, EntryFacts DEF Cancels
    <2> QED BY <1>5, <2>4, <2>5, <2>6, <2>7 DEF MainKeeps
  <1>6. CASE SkipNextResponse
    <2> USE DEF SkipNextResponse, Handled, resultVars
    <2>1. InHand = {} /\ InHand' = {} /\ Parked' = Parked /\ Queued' = Queued
      BY <1>6, HandFacts, EntryFacts DEF InHand, Parked, Queued
    <2>2. TypeOK'
      BY <1>6 DEF TypeOK
    <2>3. MainState'
      BY <1>6 DEF MainState
    <2>4. Lists' /\ Moves
      BY <1>1, <1>6, <2>1 DEF Lists, Moves, Shuffles, Unlaunched
    <2>5. Cancels'
      BY <1>6, EntryFacts DEF Cancels
    <2> QED BY <1>6, <2>2, <2>3, <2>4, <2>5 DEF MainKeeps
  <1>7. CASE UpdateSlots
    <2> USE DEF UpdateSlots, resultVars
    <2>1. CASE Idle = Slot
      BY <1>3, <1>7, <2>1 DEF TypeOK
    <2>2. CASE Idle # Slot
      <3>1. queue' = Append(queue, NextResponse) /\ pc' = "prompt"
        BY <1>7, <2>2
      <3>2. NextResponse \notin Runs
        BY EntryFacts DEF Runs
      <3>3. /\ queue' \in Seq(Entry) /\ Elems(queue') = Elems(queue) \cup {NextResponse}
            /\ Once(queue', Runs)
        BY <1>0, <3>1, <3>2, AppendFacts, EntryFacts DEF Lists
      <3>4. Queued' = Queued /\ Parked' = Parked /\ InHand' = InHand
        BY <1>7, <3>3, EntryFacts DEF Queued, Parked, InHand
      <3>5. TypeOK'
        BY <1>7, <3>1, <3>3 DEF TypeOK
      <3>6. MainState'
        BY <1>7, <3>1 DEF MainState
      <3>7. Lists' /\ Moves
        BY <1>1, <1>7, <3>3, <3>4 DEF Lists, Moves, Shuffles, Unlaunched
      <3>8. Cancels'
        BY <1>7, <3>3, EntryFacts DEF Cancels
      <3> QED BY <1>7, <3>5, <3>6, <3>7, <3>8 DEF MainKeeps
    <2> QED BY <2>1, <2>2
  <1>8. CASE Decode
    <2> USE DEF Decode, resultVars, tasksVars
    <2>1. /\ slot' \in [Slot -> SlotRec]
          /\ \A s \in Slot : slot'[s].task = slot[s].task /\ (slot'[s].st = "idle" <=> slot[s].st = "idle")
      <3>1. CASE slot' = slot
        BY <1>0, <3>1
      <3>2. CASE slot' = [s \in Slot |->
                     IF slot[s].st = "wait_other" /\ ParentDone(s)
                     THEN [slot[s] EXCEPT !.st = "done_prompt"] ELSE slot[s]]
        <4>1. ASSUME NEW s \in Slot
              PROVE  /\ slot'[s] \in SlotRec /\ slot'[s].task = slot[s].task
                     /\ slot'[s].st = "idle" <=> slot[s].st = "idle"
          <5>1. CASE slot[s].st = "wait_other" /\ ParentDone(s)
            <6>1. slot'[s] = [slot[s] EXCEPT !.st = "done_prompt"]
              BY <3>2, <5>1
            <6> QED BY <1>0, <5>1, <6>1 DEF SlotRec
          <5>2. CASE ~(slot[s].st = "wait_other" /\ ParentDone(s))
            <6>1. slot'[s] = slot[s]
              BY <3>2, <5>2
            <6> QED BY <1>0, <6>1
          <5> QED BY <5>1, <5>2
        <4> QED BY <3>2, <4>1
      <3> QED BY <1>8, <3>1, <3>2
    <2>2. pc = "prompt" /\ pc' \in {"wait", "sample", "fail"} /\ cursor' = 1
      BY <1>8
    <2>3. TypeOK'
      BY <1>0, <1>8, <2>1, <2>2 DEF TypeOK, SlotRec
    <2>4. MainState'
      BY <1>8, <2>1, <2>2 DEF MainState
    <2>5. Lists' /\ Moves
      BY <1>1, <1>2, <1>8, <2>1 DEF Lists, Moves, Shuffles
    <2>6. Cancels'
      BY <1>8 DEF Cancels
    <2> QED BY <1>8, <2>3, <2>4, <2>5, <2>6 DEF MainKeeps
  <1>9. CASE Wait
    BY <1>3, <1>9 DEF Wait, tasksVars, resultVars, TypeOK
  <1>10. CASE FallAsleep
    BY <1>3, <1>10 DEF FallAsleep, resultVars
  <1>11. CASE WakeUp
    BY <1>3, <1>11 DEF WakeUp, resultVars
  <1> QED BY <1>4, <1>5, <1>6, <1>7, <1>8, <1>9, <1>10, <1>11

\* The task the main thread processes, and its request.
LEMMA HandTask ==
  ASSUME Inv, pc = "handle", hand.type = "run"
  PROVE  /\ hand.id \in TaskId /\ hand.id[1] \in Request /\ hand.id = <<hand.id[1], 0>>
         /\ InHand = {hand.id} /\ hand.id \in Unlaunched
         /\ Unlaunched \ {hand.id} = Queued \cup Parked
         /\ rd[hand.id[1]].pc # "new" /\ Shape(Owner(hand.id)) = rd[hand.id[1]].shape
         /\ rd[hand.id[1]].shape \in Shapes[hand.id[1]] /\ rd[hand.id[1]].shape \in ShapeType
         /\ Ids(hand.id[1]) = IF rd[hand.id[1]].shape.kids = 1
                              THEN {hand.id, <<hand.id[1], 1>>} ELSE {hand.id}
         /\ Ids(hand.id[1]) \cap Running = {} /\ hand.id # <<hand.id[1], 1>>
  <1> USE DEF Inv
  <1>1. hand.id \in TaskId /\ InHand = {hand.id}
    BY HandFacts
  <1>2. hand.id \in Unlaunched /\ Unlaunched \ {hand.id} = Queued \cup Parked
    BY <1>1 DEF Unlaunched, Lists
  <1>3. hand.id[1] \in Request /\ hand.id = <<hand.id[1], 0>> /\ hand.id # <<hand.id[1], 1>>
    BY <1>1, <1>2, TaskIdFacts DEF Stages
  <1>4. rd[hand.id[1]].pc # "new"
    BY <1>2 DEF Readers
  <1> DEFINE r == hand.id[1]
  <1>5. /\ rd[r].shape \in Shapes[r] /\ rd[r].shape \in ShapeType
        /\ Ids(r) = IF rd[r].shape.kids = 1 THEN {<<r, 0>>, <<r, 1>>} ELSE {<<r, 0>>}
    BY <1>3, <1>4, IdsFacts
  <1>6. Shape(Owner(hand.id)) = rd[r].shape
    BY DEF Shape, Owner
  <1>7. hand.id \notin Running /\ <<hand.id[1], 1>> \notin Running
    BY <1>2 DEF Stages
  <1> QED BY <1>1, <1>2, <1>3, <1>4, <1>5, <1>6, <1>7

\* The slot a task is to be launched in is idle, and so is the one for its child.
LEMMA CandidateFacts ==
  ASSUME Inv, pc = "handle", hand.type = "run", NEW s \in Candidates(hand.id)
  PROVE  /\ s \in Slot /\ slot[s].task = None
         /\ rd[hand.id[1]].shape.kids = 1 =>
               LET k == Min(Idle \ {s}) IN k \in Slot /\ k # s /\ slot[k].task = None
  <1> USE DEF Inv
  <1>1. /\ s \in Idle /\ Shape(Owner(hand.id)).kids <= Cardinality(Idle \ {s})
        /\ Shape(Owner(hand.id)) = rd[hand.id[1]].shape
    BY HandTask DEF Candidates
  <1>2. \A x \in Idle : x \in Slot /\ slot[x].task = None
    BY DEF Idle, Processing, MainState
  <1>3. ASSUME rd[hand.id[1]].shape.kids = 1
        PROVE  Min(Idle \ {s}) \in Idle \ {s}
    <2>1. Idle \ {s} # {}
      <3>1. Cardinality({}) = 0
        BY FS_EmptySet
      <3> QED BY <1>1, <1>3, <3>1
    <2>2. Idle \ {s} \in SUBSET Nat
      BY ShapesAssumption DEF Idle, Slot
    <2> QED BY <2>1, <2>2, MinFacts
  <1> QED BY <1>1, <1>2, <1>3

\* What is left of the processed entry.
LEMMA HandledFacts ==
  ASSUME Inv, pc = "handle", Handled
  PROVE  /\ InHand' = {} /\ hand' = None /\ pc' = "take" /\ rd' = rd
         /\ \A t \in TaskId : hand' # Cancel(t)
  <1>1. \A t \in TaskId : None # Run(t) /\ None # Cancel(t)
    BY EntryFacts
  <1> QED BY <1>1 DEF Handled, InHand

\* A launch gives the task, and its child, an idle slot.
LEMMA LaunchInv ==
  ASSUME Inv, Launch
  PROVE  MainKeeps
  <1> USE DEF Inv
  <1> DEFINE t == hand.id
             r == t[1]
             sh == rd[r].shape
  <1>0. pc = "handle" /\ hand.type = "run" /\ Handled /\ UNCHANGED <<queue, deferred, resultVars>>
    BY DEF Launch
  <1>1. /\ t \in TaskId /\ r \in Request /\ t = <<r, 0>> /\ t \in Unlaunched
        /\ Unlaunched \ {t} = Queued \cup Parked /\ t # <<r, 1>>
        /\ Shape(Owner(t)) = sh /\ sh \in ShapeType
        /\ Ids(r) = IF sh.kids = 1 THEN {t, <<r, 1>>} ELSE {t}
        /\ Ids(r) \cap Running = {}
    BY <1>0, HandTask
  <1>2. PICK s \in Candidates(t) :
          LET kid == IF Shape(Owner(t)).kids = 1 THEN Min(Idle \ {s}) ELSE 0
          IN  slot' = [x \in Slot |->
                 CASE x = s   -> [st |-> "started", task |-> t, n |-> 0]
                   [] x = kid -> [st |-> "wait_other", task |-> <<Owner(t), 1>>, n |-> 0]
                   [] OTHER   -> slot[x]]
    BY Zenon DEF Launch
  <1> DEFINE kid == IF sh.kids = 1 THEN Min(Idle \ {s}) ELSE 0
  <1>3. /\ s \in Slot /\ slot[s].task = None
        /\ sh.kids = 1 => kid \in Slot /\ kid # s /\ slot[kid].task = None
    BY <1>0, CandidateFacts
  <1>4. 0 \notin Slot /\ Slot \subseteq Nat
    BY ShapesAssumption DEF Slot
  <1>5. /\ slot \in [Slot -> SlotRec] /\ <<r, 1>> \in TaskId /\ 0 \in 0 .. MaxTokens - 1
        /\ \A u \in TaskId : u # None
    BY <1>1, ShapesAssumption, EntryFacts DEF TypeOK, SlotRec, TaskId
  <1>6. /\ slot'[s] = [st |-> "started", task |-> t, n |-> 0]
        /\ sh.kids = 1 => slot'[kid] = [st |-> "wait_other", task |-> <<r, 1>>, n |-> 0]
        /\ \A x \in Slot : x # s /\ (sh.kids = 1 => x # kid) => slot'[x] = slot[x]
    BY <1>1, <1>2, <1>3, <1>4 DEF Owner
  <1> HIDE DEF kid, sh, r, t
  <1>7. \A x \in Slot : slot'[x] \in SlotRec
    <2>1. /\ [st |-> "started", task |-> t, n |-> 0] \in SlotRec
          /\ [st |-> "wait_other", task |-> <<r, 1>>, n |-> 0] \in SlotRec
      BY <1>1, <1>5 DEF SlotRec
    <2> QED BY <1>5, <1>6, <2>1
  <1>8. slot' \in [Slot -> SlotRec]
    <2>1. slot' = [x \in Slot |-> slot'[x]]
      BY <1>2
    <2> QED BY <1>7, <2>1
  <1>9. /\ slot'[s].task = t /\ slot'[s].st = "started"
        /\ sh.kids = 1 => slot'[kid].task = <<r, 1>> /\ slot'[kid].st = "wait_other"
    BY <1>6
  <1>10. \A u \in TaskId : u \in Running => u # t /\ (sh.kids = 1 => u # <<r, 1>>)
    BY <1>1
  <1>11. \A x \in Slot : slot[x].task # None => slot[x].task \in Running
    BY <1>5 DEF Running, SlotRec
  <1>12. Running' = Running \cup Ids(r)
    <2>1. \A u \in Running' : u \in Running \cup Ids(r)
      BY <1>1, <1>6, <1>9 DEF Running
    <2>2. \A u \in Running : u \in Running'
      BY <1>3, <1>5, <1>6 DEF Running
    <2>3. \A u \in Ids(r) : u \in Running'
      BY <1>1, <1>3, <1>5, <1>9 DEF Running
    <2> QED BY <2>1, <2>2, <2>3
  <1>13. \A a, b \in Slot : slot'[a].task = slot'[b].task /\ slot'[a].task # None => a = b
    <2> SUFFICES ASSUME NEW a \in Slot, NEW b \in Slot,
                        slot'[a].task = slot'[b].task, slot'[a].task # None
                 PROVE  a = b
      OBVIOUS
    <2>1. CASE slot'[a].task \in Running
      <3>1. slot'[a] = slot[a] /\ slot'[b] = slot[b]
        BY <2>1, <1>1, <1>6, <1>9
      <3> QED BY <3>1 DEF Lists
    <2>2. CASE slot'[a].task \notin Running
      BY <2>2, <1>1, <1>6, <1>9, <1>11
    <2> QED BY <2>1, <2>2
  <1>14. \A x \in Slot : slot'[x].st = "idle" <=> slot'[x].task = None
    BY <1>1, <1>5, <1>6, <1>9 DEF MainState
  <1>15. InHand' = {} /\ hand' = None /\ pc' = "take" /\ rd' = rd /\ \A u \in TaskId : hand' # Cancel(u)
    BY <1>0, HandledFacts
  <1>16. Queued' = Queued /\ Parked' = Parked
    BY <1>0 DEF Queued, Parked
  <1>17. TypeOK'
    BY <1>0, <1>8, <1>15 DEF TypeOK, SlotRec, Handled, resultVars
  <1>18. MainState'
    BY <1>14, <1>15 DEF MainState
  <1>19. Lists'
    BY <1>0, <1>13, <1>15, <1>16 DEF Lists
  <1>20. Cancels'
    BY <1>0, <1>15 DEF Cancels
  <1>21. Moves
    BY <1>0, <1>1, <1>12, <1>15, <1>16 DEF Moves, Launches, Unlaunched, resultVars, r
  <1> QED BY <1>0, <1>15, <1>17, <1>18, <1>19, <1>20, <1>21 DEF MainKeeps, resultVars

\* A refused launch and a slot operation answer the task without a slot.
LEMMA RefusesInv ==
  ASSUME Inv, LaunchFails \/ SlotOperation
  PROVE  MainKeeps
  <1> USE DEF Inv
  <1> DEFINE t == hand.id
             r == t[1]
             sh == rd[r].shape
  <1>0. /\ pc = "handle" /\ hand.type = "run" /\ Handled /\ waiting' = waiting
    BY DEF LaunchFails, SlotOperation
  <1>1. /\ t \in TaskId /\ t \in Unlaunched /\ Unlaunched \ {t} = Queued \cup Parked
        /\ Shape(Owner(t)) = sh /\ sh \in ShapeType /\ sh \in Shapes[r] /\ r \in Request
        /\ Ids(r) = IF sh.kids = 1 THEN {t, <<r, 1>>} ELSE {t}
        /\ <<Owner(t), 1>> = <<r, 1>> /\ <<r, 1>> \in TaskId
    BY <1>0, HandTask DEF Owner, TaskId
  <1>2. InHand' = {} /\ hand' = None /\ pc' = "take" /\ rd' = rd /\ \A u \in TaskId : hand' # Cancel(u)
    BY <1>0, HandledFacts
  <1>3. ASSUME NEW u \in Ids(r), NEW kind \in {"final", "error"},
               kind = "error" \/ Ids(r) = {t},
               results' = Send(u, kind, waiting, results),
               Running' = Running, Queued' \cup Parked' = Queued \cup Parked
        PROVE  Moves /\ results' \in Seq(Result)
    <2>1. Unlaunched' = Unlaunched \ {t}
      BY <1>1, <1>2, <1>3 DEF Unlaunched
    <2>2. u \in TaskId
      BY <1>1
    <2>3. results' \in Seq(Result)
      BY <1>3, <2>2, SendFacts, PlaceFacts
    <2>4. \E k \in {"final", "error"} : \E v \in Ids(t[1]) :
            /\ k = "error" \/ Ids(t[1]) = {t}
            /\ Unlaunched' = Unlaunched \ {t} /\ Running' = Running
            /\ results' = Send(v, k, waiting, results)
      BY <1>3, <2>1
    <2>5. Refuses
      BY <1>1, <2>4 DEF Refuses
    <2> QED BY <2>3, <2>5 DEF Moves
  <1>4. ASSUME UNCHANGED <<queue, deferred, slot>>, Moves, results' \in Seq(Result)
        PROVE  MainKeeps
    <2>1. TypeOK'
      BY <1>0, <1>2, <1>4 DEF TypeOK, Handled
    <2>2. MainState'
      BY <1>2, <1>4 DEF MainState
    <2>3. Lists'
      BY <1>2, <1>4 DEF Lists, Queued, Parked
    <2>4. Cancels'
      BY <1>2, <1>4 DEF Cancels
    <2> QED BY <1>0, <1>2, <1>4, <2>1, <2>2, <2>3, <2>4 DEF MainKeeps
  <1>5. ASSUME UNCHANGED <<queue, deferred, slot>>
        PROVE  Running' = Running /\ Queued' \cup Parked' = Queued \cup Parked
    BY <1>5 DEF Running, Queued, Parked
  <1>6. CASE SlotOperation
    <2>1. /\ sh.kids = 0 /\ UNCHANGED <<queue, deferred, slot>>
          /\ \E kind \in {"final", "error"} : results' = Send(t, kind, waiting, results)
      BY <1>1, <1>6, ShapesAssumption DEF SlotOperation
    <2>2. PICK kind \in {"final", "error"} : results' = Send(t, kind, waiting, results)
      BY <2>1
    <2>3. Ids(r) = {t}
      BY <1>1, <2>1
    <2> QED BY <1>3, <1>4, <1>5, <2>1, <2>2, <2>3
  <1>7. CASE LaunchFails
    <2>1. PICK s \in Candidates(t) :
            \/ /\ sh.kids = 0
               /\ results' = Send(t, "error", waiting, results)
               /\ UNCHANGED <<queue, deferred, slot>>
            \/ /\ sh.kids = 1
               /\ results' = Send(<<r, 1>>, "error", waiting, results)
               /\ UNCHANGED <<queue, deferred, slot>>
            \/ /\ sh.kids = 1
               /\ results' = Send(t, "error", waiting, results)
               /\ Release(Min(Idle \ {s}))
      BY <1>1, <1>7 DEF LaunchFails
    <2>2. CASE UNCHANGED <<queue, deferred, slot>>
      <3>1. \E u \in Ids(r) : results' = Send(u, "error", waiting, results)
        BY <1>1, <2>1
      <3> HIDE DEF t, r, sh
      <3> QED BY <1>3, <1>4, <1>5, <2>2, <3>1
    <2>3. CASE sh.kids = 1 /\ results' = Send(t, "error", waiting, results)
               /\ Release(Min(Idle \ {s}))
      <3> DEFINE k == Min(Idle \ {s})
      <3>1. k \in Slot /\ slot[k].task = None
        BY <1>0, <2>3, CandidateFacts
      <3>2. /\ queue' \in Seq(Entry) /\ deferred' \in Seq(TaskId) /\ slot' \in [Slot -> SlotRec]
            /\ \A x \in Slot : slot'[x].st = "idle" <=> slot'[x].task = None
            /\ \A a, b \in Slot : slot'[a].task = slot'[b].task /\ slot'[a].task # None => a = b
            /\ Running' = Running \ {None}
            /\ Queued' \cup Parked' = Queued \cup Parked /\ Queued' \cap Parked' = {}
            /\ Once(queue', Runs) /\ Once(deferred', TaskId)
            /\ \A u : Cancel(u) \in Elems(queue') => Cancel(u) \in Elems(queue)
        BY <2>3, <3>1, ReleaseFacts
      <3>3. None \notin Running
        BY NoneAssumption DEF Running
      <3>4. Moves /\ results' \in Seq(Result)
        BY <1>1, <1>3, <2>3, <3>2, <3>3
      <3>5. TypeOK'
        BY <1>0, <1>2, <3>2, <3>4 DEF TypeOK, Handled, SlotRec
      <3>6. MainState'
        BY <1>2, <3>2 DEF MainState
      <3>7. Lists'
        BY <1>2, <3>2 DEF Lists
      <3>8. Cancels'
        BY <1>2, <3>2 DEF Cancels
      <3> QED BY <1>0, <1>2, <3>4, <3>5, <3>6, <3>7, <3>8 DEF MainKeeps
    <2> QED BY <2>1, <2>2, <2>3
  <1> QED BY <1>6, <1>7

\* A cancel task stops a task whose request is over.
LEMMA CancelInv ==
  ASSUME Inv, CancelTask
  PROVE  MainKeeps
  <1> USE DEF Inv
  <1>0. /\ pc = "handle" /\ hand.type = "cancel" /\ Handled /\ UNCHANGED <<waiting, results>>
    BY DEF CancelTask, resultVars
  <1>1. hand.id \in TaskId /\ hand = Cancel(hand.id) /\ InHand = {} /\ rd[hand.id[1]].pc = "closed"
    BY <1>0, HandFacts DEF Cancels
  <1>2. InHand' = {} /\ hand' = None /\ pc' = "take" /\ rd' = rd /\ \A u \in TaskId : hand' # Cancel(u)
    BY <1>0, HandledFacts
  <1>3. CASE UNCHANGED <<queue, deferred, slot>>
    <2>1. Running' = Running /\ Queued' = Queued /\ Parked' = Parked
      BY <1>3 DEF Running, Queued, Parked
    <2>2. TypeOK'
      BY <1>0, <1>2, <1>3 DEF TypeOK, Handled
    <2>3. MainState'
      BY <1>2, <1>3 DEF MainState
    <2>4. Lists' /\ Moves
      BY <1>0, <1>1, <1>2, <1>3, <2>1 DEF Lists, Moves, Shuffles, Unlaunched
    <2>5. Cancels'
      BY <1>2, <1>3 DEF Cancels
    <2> QED BY <1>0, <1>2, <2>2, <2>3, <2>4, <2>5 DEF MainKeeps
  <1>4. CASE \E s \in Slot : slot[s].task = hand.id /\ Release(s)
    <2>1. PICK s \in Slot : slot[s].task = hand.id /\ Release(s)
      BY <1>4
    <2>2. /\ queue' \in Seq(Entry) /\ deferred' \in Seq(TaskId) /\ slot' \in [Slot -> SlotRec]
          /\ \A x \in Slot : slot'[x].st = "idle" <=> slot'[x].task = None
          /\ \A a, b \in Slot : slot'[a].task = slot'[b].task /\ slot'[a].task # None => a = b
          /\ Running' = Running \ {hand.id}
          /\ Queued' \cup Parked' = Queued \cup Parked /\ Queued' \cap Parked' = {}
          /\ Once(queue', Runs) /\ Once(deferred', TaskId)
          /\ \A u : Cancel(u) \in Elems(queue') => Cancel(u) \in Elems(queue)
      BY <2>1, ReleaseFacts
    <2>3. hand.id \in Running
      BY <1>1, <2>1 DEF Running
    <2>4. Drops
      BY <1>0, <1>1, <1>2, <2>2, <2>3 DEF Drops, Unlaunched
    <2>5. TypeOK'
      BY <1>0, <1>2, <2>2 DEF TypeOK, Handled, SlotRec
    <2>6. MainState'
      BY <1>2, <2>2 DEF MainState
    <2>7. Lists'
      BY <1>2, <2>2 DEF Lists
    <2>8. Cancels'
      BY <1>2, <2>2 DEF Cancels
    <2> QED BY <1>0, <1>2, <2>4, <2>5, <2>6, <2>7, <2>8 DEF MainKeeps, Moves
  <1> QED BY <1>3, <1>4 DEF CancelTask

\* Inside update_slots a slot is released with the last result of its task.
LEMMA FinishInv ==
  ASSUME Inv, pc # "handle", NEW s \in Slot, slot[s].st # "idle",
         NEW out \in {results, Send(slot[s].task, "partial", waiting, results)},
         NEW kind \in {"final", "error"},
         results' = Send(slot[s].task, kind, waiting, out), Release(s),
         cursor' = s + 1, UNCHANGED <<waiting, pc, sleeping, reqStop, hand, rd>>
  PROVE  MainKeeps
  <1> USE DEF Inv
  <1> DEFINE t == slot[s].task
  <1>0. hand = None /\ InHand = {} /\ InHand' = {}
    BY HandFacts DEF InHand
  <1>1. t \in TaskId /\ t \in Running
    BY DEF MainState, TypeOK, Running
  <1>2. /\ queue' \in Seq(Entry) /\ deferred' \in Seq(TaskId) /\ slot' \in [Slot -> SlotRec]
        /\ \A x \in Slot : slot'[x].st = "idle" <=> slot'[x].task = None
        /\ \A a, b \in Slot : slot'[a].task = slot'[b].task /\ slot'[a].task # None => a = b
        /\ Running' = Running \ {t}
        /\ Queued' \cup Parked' = Queued \cup Parked /\ Queued' \cap Parked' = {}
        /\ Once(queue', Runs) /\ Once(deferred', TaskId)
        /\ \A u : Cancel(u) \in Elems(queue') => Cancel(u) \in Elems(queue)
    BY ReleaseFacts
  <1> HIDE DEF t
  <1>3. out \in {results, Send(t, "partial", waiting, results)}
        /\ results' = Send(t, kind, waiting, out)
    BY DEF t
  <1>4. results' \in Seq(Result)
    <2>1. out \in Seq(Result)
      BY <1>1, <1>3, SendFacts, PlaceFacts
    <2>2. kind \in {"partial", "final", "error"}
      OBVIOUS
    <2>3. Send(t, kind, waiting, out) \in Seq(Result)
      BY <1>1, <2>1, <2>2, SendFacts
    <2> QED BY <1>3, <2>3
  <1>5. Moves
    <2>1. Unlaunched' = Unlaunched
      BY <1>0, <1>2 DEF Unlaunched
    <2>2. Finishes
      BY <1>1, <1>2, <1>3, <2>1 DEF Finishes
    <2> QED BY <2>2 DEF Moves
  <1>6. s + 1 \in 1 .. NSlots + 1
    BY ShapesAssumption DEF Slot
  <1>7. TypeOK'
    BY <1>2, <1>4, <1>6 DEF TypeOK, SlotRec
  <1>8. MainState'
    BY <1>0, <1>2 DEF MainState
  <1>9. Lists'
    BY <1>0, <1>2 DEF Lists
  <1>10. Cancels'
    BY <1>2 DEF Cancels
  <1> QED BY <1>5, <1>7, <1>8, <1>9, <1>10 DEF MainKeeps

\* Inside update_slots a slot goes on with its task.
LEMMA GoOnInv ==
  ASSUME Inv, pc # "handle", NEW s \in Slot, slot[s].st # "idle",
         NEW st \in {"done_prompt", "generating"}, NEW n \in 0 .. MaxTokens - 1,
         slot' = [slot EXCEPT ![s] = [slot[s] EXCEPT !.st = st, !.n = n]],
         results' \in {results, Send(slot[s].task, "partial", waiting, results)},
         cursor' = s + 1,
         UNCHANGED <<queue, deferred, waiting, pc, sleeping, reqStop, hand, rd>>
  PROVE  MainKeeps
  <1> USE DEF Inv
  <1> DEFINE t == slot[s].task
  <1>1. t \in TaskId /\ t \in Running
    BY DEF MainState, TypeOK, Running
  <1>2. slot \in [Slot -> SlotRec]
    BY DEF TypeOK, SlotRec
  <1>3. /\ slot' \in [Slot -> SlotRec]
        /\ \A x \in Slot : /\ slot'[x].task = slot[x].task
                           /\ slot'[x].st = "idle" <=> slot[x].st = "idle"
    <2>1. /\ [slot[s] EXCEPT !.st = st, !.n = n] \in SlotRec
          /\ [slot[s] EXCEPT !.st = st, !.n = n].task = t
          /\ [slot[s] EXCEPT !.st = st, !.n = n].st = st /\ st # "idle"
      BY <1>2 DEF SlotRec
    <2>2. slot'[s] = [slot[s] EXCEPT !.st = st, !.n = n] /\ \A x \in Slot : x # s => slot'[x] = slot[x]
      BY <1>2
    <2>3. slot' \in [Slot -> SlotRec]
      BY <1>2, <2>1
    <2> QED BY <2>1, <2>2, <2>3
  <1>4. /\ Running' = Running /\ Queued' = Queued /\ Parked' = Parked /\ InHand' = InHand
        /\ Unlaunched' = Unlaunched
    BY <1>3 DEF Running, Queued, Parked, InHand, Unlaunched
  <1> HIDE DEF t
  <1>5. results' \in {results, Send(t, "partial", waiting, results)}
    BY DEF t
  <1>6. results' \in Seq(Result)
    BY <1>1, <1>5, SendFacts, PlaceFacts
  <1>7. Moves
    BY <1>1, <1>4, <1>5 DEF Moves, Shuffles, Streams
  <1>8. s + 1 \in 1 .. NSlots + 1
    BY ShapesAssumption DEF Slot
  <1>9. TypeOK'
    BY <1>3, <1>6, <1>8 DEF TypeOK, SlotRec
  <1>10. MainState' /\ Lists' /\ Cancels'
    BY <1>3, <1>4 DEF MainState, Lists, Cancels
  <1> QED BY <1>7, <1>9, <1>10 DEF MainKeeps

\* update_slots, slot by slot.
LEMMA UpdateInv ==
  ASSUME Inv, StartPrompt \/ FailSlot \/ SampleSlot
  PROVE  MainKeeps
  <1> USE DEF Inv
  <1>0. Slot \subseteq Nat /\ 1 \in 1 .. NSlots + 1 /\ slot \in [Slot -> SlotRec]
    BY ShapesAssumption DEF Slot, TypeOK, SlotRec
  <1>1. ASSUME pc # "handle", pc' = "wait", cursor' = 1,
               UNCHANGED <<queue, deferred, waiting, results, slot, sleeping, reqStop, hand, rd>>
        PROVE  MainKeeps
    <2>1. /\ Running' = Running /\ Queued' = Queued /\ Parked' = Parked /\ InHand' = InHand
          /\ Unlaunched' = Unlaunched
      BY <1>1 DEF Running, Queued, Parked, InHand, Unlaunched
    <2>2. TypeOK'
      BY <1>0, <1>1 DEF TypeOK
    <2>3. MainState' /\ Lists' /\ Cancels' /\ Moves
      BY <1>1, <2>1 DEF MainState, Lists, Cancels, Moves, Shuffles
    <2> QED BY <1>1, <2>2, <2>3 DEF MainKeeps
  <1>2. ASSUME NEW sts, From(sts) # {}
        PROVE  LET s == Min(From(sts)) IN s \in Slot /\ slot[s].st \in sts
    <2>1. From(sts) \in SUBSET Nat
      BY <1>0 DEF From
    <2>2. Min(From(sts)) \in From(sts)
      BY <1>2, <2>1, MinFacts
    <2> QED BY <2>2 DEF From
  <1>3. CASE StartPrompt
    <2> DEFINE s == Min(From({"started"}))
    <2>1. /\ pc # "handle" /\ s \in Slot /\ slot[s].st # "idle" /\ cursor' = s + 1
          /\ UNCHANGED <<sleeping, reqStop, pc, hand, rd>>
          /\ \/ /\ slot' = [slot EXCEPT ![s].st = "done_prompt"]
                /\ UNCHANGED <<queue, deferred, resultVars>>
             \/ Finish(s, "final")
             \/ Finish(s, "error")
      BY <1>2, <1>3 DEF StartPrompt
    <2> HIDE DEF s
    <2>2. CASE slot' = [slot EXCEPT ![s].st = "done_prompt"] /\ UNCHANGED <<queue, deferred, resultVars>>
      <3>1. slot[s] \in SlotRec /\ slot[s].n \in 0 .. MaxTokens - 1
        BY <1>0, <2>1 DEF SlotRec
      <3>2. slot' = [slot EXCEPT ![s] = [slot[s] EXCEPT !.st = "done_prompt", !.n = slot[s].n]]
        <4>1. [slot[s] EXCEPT !.st = "done_prompt"]
                 = [slot[s] EXCEPT !.st = "done_prompt", !.n = slot[s].n]
          BY <3>1 DEF SlotRec
        <4> QED BY <2>2, <4>1
      <3> QED BY <2>1, <2>2, <3>1, <3>2, GoOnInv DEF resultVars
    <2>3. CASE \E kind \in {"final", "error"} : Finish(s, kind)
      BY <2>1, <2>3, FinishInv DEF Finish
    <2> QED BY <2>1, <2>2, <2>3
  <1>4. CASE FailSlot
    <2> DEFINE busy == {x \in Slot : x >= cursor /\ Processing(x)}
               s == Min(busy)
    <2>1. CASE busy = {}
      BY <1>1, <1>4, <2>1 DEF FailSlot, resultVars
    <2>2. CASE busy # {}
      <3>1. busy \in SUBSET Nat
        BY <1>0
      <3>2. s \in busy
        <4> HIDE DEF busy
        <4> QED BY <2>2, <3>1, MinFacts
      <3>3. /\ pc # "handle" /\ s \in Slot /\ slot[s].st # "idle" /\ cursor' = s + 1
            /\ UNCHANGED <<sleeping, reqStop, pc, hand, rd>> /\ Finish(s, "error")
        BY <1>4, <2>2, <3>2 DEF FailSlot, Processing
      <3> HIDE DEF s
      <3> QED BY <3>3, FinishInv DEF Finish
    <2> QED BY <2>1, <2>2
  <1>5. CASE SampleSlot
    <2> DEFINE sts == {"done_prompt", "generating"}
               s == Min(From(sts))
               t == slot[s].task
    <2>1. CASE From(sts) = {}
      BY <1>1, <1>5, <2>1 DEF SampleSlot
    <2>2. CASE From(sts) # {}
      <3>1. s \in Slot /\ slot[s].st \in sts /\ slot[s].st # "idle"
        BY <1>2, <2>2
      <3>2. /\ pc # "handle" /\ cursor' = s + 1
            /\ UNCHANGED <<sleeping, reqStop, waiting, pc, hand, rd>>
            /\ \E out \in (IF Shape(Owner(t)).stream
                           THEN {results, Send(t, "partial", waiting, results)} ELSE {results}) :
                  \/ results' = Send(t, "final", waiting, out) /\ Release(s)
                  \/ /\ slot[s].n + 1 < MaxTokens
                     /\ slot' = [slot EXCEPT ![s].st = "generating", ![s].n = @ + 1]
                     /\ results' = out
                     /\ UNCHANGED <<queue, deferred>>
        BY <1>5, <2>2 DEF SampleSlot
      <3> HIDE DEF s, sts
      <3>3. PICK out \in {results, Send(t, "partial", waiting, results)} :
                  \/ results' = Send(t, "final", waiting, out) /\ Release(s)
                  \/ /\ slot[s].n + 1 < MaxTokens
                     /\ slot' = [slot EXCEPT ![s].st = "generating", ![s].n = @ + 1]
                     /\ results' = out
                     /\ UNCHANGED <<queue, deferred>>
        BY <3>2
      <3>4. CASE results' = Send(t, "final", waiting, out) /\ Release(s)
        BY <3>1, <3>2, <3>3, <3>4, FinishInv
      <3>5. CASE /\ slot[s].n + 1 < MaxTokens
                 /\ slot' = [slot EXCEPT ![s].st = "generating", ![s].n = @ + 1]
                 /\ results' = out
                 /\ UNCHANGED <<queue, deferred>>
        <4>1. slot[s] \in SlotRec /\ slot[s].n \in 0 .. MaxTokens - 1
          BY <1>0, <3>1 DEF SlotRec
        <4>2. slot[s].n + 1 \in 0 .. MaxTokens - 1
          BY <3>5, <4>1, ShapesAssumption
        <4>3. slot' = [slot EXCEPT ![s] = [slot[s] EXCEPT !.st = "generating", !.n = slot[s].n + 1]]
          BY <1>0, <3>1, <3>5 DEF SlotRec
        <4> QED BY <3>1, <3>2, <3>3, <3>5, <4>2, <4>3, GoOnInv
      <3> QED BY <3>3, <3>4, <3>5
    <2> QED BY <2>1, <2>2
  <1> QED BY <1>3, <1>4, <1>5

\* Every step of the main thread keeps the queues in order and moves at most
\* one task.
LEMMA MainInv ==
  ASSUME Inv, MainStep \/ FallAsleep
  PROVE  MainKeeps
  BY ShufflesInv, LaunchInv, RefusesInv, CancelInv, UpdateInv DEF MainStep

-----------------------------------------------------------------------------
(* The steps of the HTTP threads *)

ReaderPc == {"new", "gate", "prepare", "read", "stop", "cancel", "closed"}

\* A reader that goes on keeps its shape and what it has got.
LEMMA ReaderFacts ==
  ASSUME TypeOK, NEW r \in Request, NEW p \in ReaderPc, rd' = [rd EXCEPT ![r].pc = p]
  PROVE  /\ rd' \in [Request -> [pc : ReaderPc, shape : ShapeType \cup {None},
                                 got : SUBSET TaskId]]
         /\ rd'[r].pc = p /\ \A q \in Request : q # r => rd'[q] = rd[q]
         /\ \A q \in Request : rd'[q].shape = rd[q].shape /\ rd'[q].got = rd[q].got
         /\ Done' = Done /\ \A q \in Request : Ids(q)' = Ids(q)
  <1>1. rd \in [Request -> [pc : ReaderPc, shape : ShapeType \cup {None}, got : SUBSET TaskId]]
    BY DEF TypeOK, ReaderPc
  <1>2. rd' \in [Request -> [pc : ReaderPc, shape : ShapeType \cup {None}, got : SUBSET TaskId]]
    BY <1>1
  <1>3. rd'[r].pc = p /\ \A q \in Request : q # r => rd'[q] = rd[q]
    BY <1>1
  <1>4. \A q \in Request : rd'[q].shape = rd[q].shape /\ rd'[q].got = rd[q].got
    BY <1>1
  <1>5. Done' = Done
    BY <1>4, TaskIdFacts DEF Done
  <1>6. \A q \in Request : Ids(q)' = Ids(q)
    BY <1>4 DEF Ids, Shape
  <1> QED BY <1>2, <1>3, <1>4, <1>5, <1>6

\* Steps that leave the two queues of tasks alone.
LEMMA QueuesKept ==
  ASSUME Inv, UNCHANGED <<queue, deferred, mainVars>>,
         \A q \in Request : rd[q].pc = "closed" => rd'[q].pc = "closed"
  PROVE  /\ Unlaunched' = Unlaunched /\ Running' = Running
         /\ MainState' /\ Lists' /\ Cancels'
  <1> USE DEF Inv, mainVars
  <1>1. /\ Queued' = Queued /\ Parked' = Parked /\ InHand' = InHand
        /\ Unlaunched' = Unlaunched /\ Running' = Running
    BY DEF Queued, Parked, InHand, Unlaunched, Running
  <1>2. Cancels'
    BY TaskIdFacts DEF Cancels
  <1> QED BY <1>1, <1>2 DEF MainState, Lists

\* A request arrives.
LEMMA ArriveInv ==
  ASSUME Inv, NEW r \in Request, Arrive(r)
  PROVE  Inv'
  <1> USE DEF Inv
  <1>0. rd[r].pc = "new" /\ UNCHANGED <<queue, deferred, sleeping, waiting, results, mainVars>>
    BY DEF Arrive, resultVars
  <1>1. PICK sh \in Shapes[r] :
          rd' = [rd EXCEPT ![r] = [pc |-> IF sleeping THEN "gate" ELSE "prepare",
                                   shape |-> sh, got |-> {}]]
    BY DEF Arrive
  <1>2. rd \in [Request -> [pc : ReaderPc, shape : ShapeType \cup {None}, got : SUBSET TaskId]]
    BY DEF TypeOK, ReaderPc
  <1>3. sh \in ShapeType
    BY ShapesAssumption
  <1>4. /\ rd'[r].pc \in {"gate", "prepare"} /\ rd'[r].shape = sh /\ rd'[r].got = {}
        /\ \A q \in Request : q # r => rd'[q] = rd[q]
        /\ rd' \in [Request -> [pc : ReaderPc, shape : ShapeType \cup {None}, got : SUBSET TaskId]]
    <2>1. [pc |-> IF sleeping THEN "gate" ELSE "prepare", shape |-> sh, got |-> {}]
             \in [pc : ReaderPc, shape : ShapeType \cup {None}, got : SUBSET TaskId]
      BY <1>3 DEF ReaderPc
    <2> QED BY <1>1, <1>2, <2>1
  <1>5. \A q \in Request : q # r => Ids(q)' = Ids(q)
    BY <1>4 DEF Ids, Shape
  <1>6. Done' = Done
    <2>1. \A t \in TaskId : t[1] = r => t \notin Done /\ t \notin Done'
      BY <1>0, <1>4 DEF Readers, Done
    <2>2. \A t \in TaskId : t[1] # r => (t \in Done <=> t \in Done')
      BY <1>4, TaskIdFacts DEF Done
    <2> QED BY <2>1, <2>2 DEF Done
  <1>7. /\ Unlaunched' = Unlaunched /\ Running' = Running
        /\ MainState' /\ Lists' /\ Cancels'
    <2>1. \A q \in Request : rd[q].pc = "closed" => rd'[q].pc = "closed"
      BY <1>0, <1>4
    <2> QED BY <1>0, <2>1, QueuesKept
  <1>8. TypeOK'
    <2>1. reqStop' \in BOOLEAN
      BY DEF Arrive, TypeOK
    <2> QED BY <1>0, <1>4, <2>1 DEF TypeOK, mainVars, ReaderPc
  <1>9. Ended' = Ended
    BY <1>0 DEF Ended
  <1>10. \A t \in TaskId : t[1] = r => t \notin waiting /\ t \notin Unlaunched \cup Running \cup Done
    BY <1>0 DEF Readers
  <1>11. Readers'
    <2>1. \A q \in Request : rd'[q].pc # "new" => rd'[q].shape \in Shapes[q]
      BY <1>4 DEF Readers
    <2>2. \A t \in TaskId :
             t \in waiting' <=> rd'[t[1]].pc \in {"read", "stop"} /\ t \in Ids(t[1])'
      BY <1>0, <1>4, <1>5, <1>10, TaskIdFacts DEF Readers
    <2>3. \A t \in Unlaunched \cup Running \cup Done :
             rd'[t[1]].pc \notin {"new", "gate", "prepare"}
      BY <1>4, <1>10, PlaceFacts, TaskIdFacts DEF Readers
    <2> QED BY <1>6, <1>7, <2>1, <2>2, <2>3 DEF Readers
  <1>12. Stages'
    BY <1>6, <1>7, <1>9 DEF Stages
  <1>13. Outbox'
    <2>1. \A x \in Elems(results) : x.id \in TaskId /\ x.id[1] \in Request /\ x.id[1] # r
      BY <1>0, PlaceFacts, TaskIdFacts DEF Outbox, Awaited
    <2> QED BY <1>0, <1>4, <1>5, <1>6, <2>1 DEF Outbox, Awaited
  <1>14. InPlay'
    <2>1. \A q \in Request : rd'[q].pc = "read" => q # r
      BY <1>4
    <2> QED BY <1>0, <1>4, <1>5, <1>7, <1>9, <2>1 DEF InPlay
  <1> QED BY <1>7, <1>8, <1>11, <1>12, <1>13, <1>14

\* The gate opens; the client goes away.
LEMMA PassGateInv ==
  ASSUME Inv, NEW r \in Request, PassGate(r) \/ ClientGone(r)
  PROVE  Inv'
  <1> USE DEF Inv
  <1>0. UNCHANGED <<queue, deferred, sleeping, reqStop, waiting, results, mainVars>>
    BY DEF PassGate, ClientGone, resultVars, tasksVars
  <1>1. PICK p \in {"prepare", "stop"} :
          /\ rd' = [rd EXCEPT ![r].pc = p]
          /\ IF p = "prepare" THEN rd[r].pc = "gate" ELSE rd[r].pc = "read"
    BY DEF PassGate, ClientGone
  <1>2. p \in ReaderPc
    BY DEF ReaderPc
  <1>3. /\ rd' \in [Request -> [pc : ReaderPc, shape : ShapeType \cup {None},
                                got : SUBSET TaskId]]
        /\ rd'[r].pc = p /\ \A q \in Request : q # r => rd'[q] = rd[q]
        /\ \A q \in Request : rd'[q].shape = rd[q].shape /\ rd'[q].got = rd[q].got
        /\ Done' = Done /\ \A q \in Request : Ids(q)' = Ids(q)
    BY <1>1, <1>2, ReaderFacts
  <1>4. /\ Unlaunched' = Unlaunched /\ Running' = Running
        /\ MainState' /\ Lists' /\ Cancels'
    <2>1. \A q \in Request : rd[q].pc = "closed" => rd'[q].pc = "closed"
      BY <1>1, <1>3
    <2> QED BY <1>0, <2>1, QueuesKept
  <1>5. TypeOK'
    BY <1>0, <1>3 DEF TypeOK, mainVars, ReaderPc
  <1>6. Ended' = Ended
    BY <1>0 DEF Ended
  <1>7. Readers'
    <2>1. \A q \in Request : rd'[q].pc # "new" => rd'[q].shape \in Shapes[q]
      BY <1>1, <1>3 DEF Readers
    <2>2. \A t \in TaskId :
             t \in waiting' <=> rd'[t[1]].pc \in {"read", "stop"} /\ t \in Ids(t[1])'
      BY <1>0, <1>1, <1>3, TaskIdFacts DEF Readers
    <2>3. \A t \in Unlaunched \cup Running \cup Done :
             rd'[t[1]].pc \notin {"new", "gate", "prepare"}
      BY <1>1, <1>3, PlaceFacts, TaskIdFacts DEF Readers
    <2> QED BY <1>3, <1>4, <2>1, <2>2, <2>3 DEF Readers
  <1>8. Stages'
    BY <1>3, <1>4, <1>6 DEF Stages
  <1>9. Outbox'
    <2>1. \A x \in Elems(results) :
             /\ x.id[1] \in Request /\ x.id \in Ids(x.id[1])'
             /\ rd'[x.id[1]].pc \in {"read", "stop", "cancel"}
      BY <1>1, <1>3, PlaceFacts, TaskIdFacts DEF Outbox, Awaited
    <2> QED BY <1>0, <1>3, <2>1 DEF Outbox, Awaited
  <1>10. InPlay'
    <2>1. \A q \in Request : rd'[q].pc = "read" => rd[q].pc = "read"
      BY <1>1, <1>3
    <2> QED BY <1>0, <1>3, <1>4, <1>6, <2>1 DEF InPlay
  <1> QED BY <1>4, <1>5, <1>7, <1>8, <1>9, <1>10

\* A request posts its task.
LEMMA PostInv ==
  ASSUME Inv, NEW r \in Request, Post(r)
  PROVE  Inv'
  <1> USE DEF Inv
  <1> DEFINE t == <<r, 0>>
  <1>0. /\ rd[r].pc = "prepare" /\ rd' = [rd EXCEPT ![r].pc = "read"]
        /\ waiting' = waiting \cup Ids(r) /\ queue' = Append(queue, Run(t))
        /\ UNCHANGED <<deferred, sleeping, reqStop, results, mainVars>>
    BY DEF Post
  <1>1. /\ rd' \in [Request -> [pc : ReaderPc, shape : ShapeType \cup {None},
                                got : SUBSET TaskId]]
        /\ rd'[r].pc = "read" /\ \A q \in Request : q # r => rd'[q] = rd[q]
        /\ \A q \in Request : rd'[q].shape = rd[q].shape /\ rd'[q].got = rd[q].got
        /\ Done' = Done /\ \A q \in Request : Ids(q)' = Ids(q)
    <2>1. "read" \in ReaderPc
      BY DEF ReaderPc
    <2> QED BY <1>0, <2>1, ReaderFacts
  <1>2. /\ Ids(r) \subseteq TaskId /\ t \in Ids(r) /\ t \in TaskId
        /\ \A u \in Ids(r) : u[1] = r /\ u[2] \in {0, 1}
        /\ Ids(r) \subseteq {t, <<r, 1>>}
    BY <1>0, IdsFacts
  <1>3. \A u \in TaskId : u[1] = r =>
           u \notin waiting /\ u \notin Unlaunched \cup Running \cup Done \cup Ended
    <2>1. \A u \in Ended : rd[u[1]].pc \in {"read", "stop", "cancel"}
      BY DEF Outbox, Awaited, Ended, EndedIn
    <2> QED BY <1>0, <2>1 DEF Readers
  <1>4. t[1] = r /\ t[2] = 0
    OBVIOUS
  <1> HIDE DEF t
  <1>5. /\ queue' \in Seq(Entry) /\ Elems(queue') = Elems(queue) \cup {Run(t)}
        /\ Once(queue', Runs) /\ Run(t) \notin Elems(queue)
    <2>1. queue \in Seq(Entry) /\ Run(t) \in Entry
      BY <1>2, EntryFacts DEF TypeOK
    <2>2. Run(t) \notin Elems(queue)
      BY <1>2, <1>3, <1>4 DEF Unlaunched, Queued
    <2> QED BY <1>0, <2>1, <2>2, AppendFacts DEF Lists
  <1>6. /\ Queued' = Queued \cup {t} /\ Parked' = Parked /\ InHand' = InHand
        /\ Unlaunched' = Unlaunched \cup {t} /\ Running' = Running
    <2>1. Queued' = Queued \cup {t}
      BY <1>2, <1>5, EntryFacts DEF Queued
    <2> QED BY <1>0, <2>1 DEF Parked, InHand, Unlaunched, Running, mainVars
  <1>7. TypeOK'
    BY <1>0, <1>1, <1>2, <1>5 DEF TypeOK, mainVars, ReaderPc
  <1>8. MainState'
    BY <1>0 DEF MainState, mainVars
  <1>9. Lists'
    <2>1. t \notin Parked /\ t \notin InHand
      BY <1>2, <1>3, <1>4 DEF Unlaunched
    <2> QED BY <1>0, <1>5, <1>6, <2>1 DEF Lists, mainVars
  <1>10. Cancels'
    BY <1>0, <1>1, <1>5, EntryFacts, TaskIdFacts DEF Cancels, mainVars
  <1>11. Ended' = Ended
    BY <1>0 DEF Ended
  <1>12. Readers'
    <2>1. \A q \in Request : rd'[q].pc # "new" => rd'[q].shape \in Shapes[q]
      BY <1>0, <1>1 DEF Readers
    <2>2. \A u \in TaskId :
             u \in waiting' <=> rd'[u[1]].pc \in {"read", "stop"} /\ u \in Ids(u[1])'
      BY <1>0, <1>1, <1>2, <1>3, TaskIdFacts DEF Readers
    <2>3. \A u \in Unlaunched \cup {t} \cup Running \cup Done :
             rd'[u[1]].pc \notin {"new", "gate", "prepare"}
      BY <1>1, <1>2, <1>4, PlaceFacts, TaskIdFacts DEF Readers
    <2> QED BY <1>1, <1>6, <2>1, <2>2, <2>3 DEF Readers
  <1>13. Stages'
    <2>1. t \notin Unlaunched \cup Running \cup Done \cup Ended
      BY <1>2, <1>3, <1>4
    <2>2. <<t[1], 1>> \notin Running \cup Ended \cup Done
      <3>1. <<r, 1>> \in TaskId /\ <<r, 1>>[1] = r
        BY DEF TaskId
      <3> QED BY <3>1, <1>3, <1>4
    <2> QED BY <1>1, <1>4, <1>6, <1>11, <2>1, <2>2 DEF Stages
  <1>14. Outbox'
    <2>1. \A x \in Elems(results) :
             /\ x.id[1] \in Request /\ x.id \in Ids(x.id[1])'
             /\ rd'[x.id[1]].pc \in {"read", "stop", "cancel"}
      BY <1>1, PlaceFacts, TaskIdFacts DEF Outbox, Awaited
    <2> QED BY <1>0, <1>1, <2>1 DEF Outbox, Awaited
  <1>15. InPlay'
    <2> SUFFICES ASSUME NEW q \in Request, rd'[q].pc = "read", NEW u \in Ids(q) \ rd[q].got
                 PROVE  \/ u \in Unlaunched' \cup Running' \cup Ended'
                        \/ \E x \in Elems(results') : x.id \in Ids(q) /\ x.kind = "error"
                        \/ u[2] = 1 /\ <<q, 0>> \in Unlaunched'
      BY <1>1 DEF InPlay
    <2>1. CASE q = r
      <3>1. u = t \/ (u[2] = 1 /\ <<q, 0>> = t)
        BY <2>1, <1>2 DEF t
      <3> QED BY <3>1, <1>6
    <2>2. CASE q # r
      BY <2>2, <1>0, <1>1, <1>6, <1>11 DEF InPlay
    <2> QED BY <2>1, <2>2
  <1> QED BY <1>7, <1>8, <1>9, <1>10, <1>12, <1>13, <1>14, <1>15

\* A reader takes its oldest result.
LEMMA ReceiveInv ==
  ASSUME Inv, NEW r \in Request, Receive(r)
  PROVE  Inv'
  <1> USE DEF Inv
  <1> DEFINE i == Min(Pending(r))
             res == results[i]
             g == IF res.kind = "final" THEN rd[r].got \cup {res.id} ELSE rd[r].got
             p == IF res.kind = "error" \/ g = Ids(r) THEN "stop" ELSE "read"
  <1>0. /\ rd[r].pc = "read" /\ Pending(r) # {} /\ results' = RemoveAt(results, i)
        /\ rd' = [rd EXCEPT ![r].got = g, ![r].pc = p]
        /\ UNCHANGED <<queue, deferred, sleeping, reqStop, waiting, mainVars>>
    BY DEF Receive, tasksVars
  <1>1. results \in Seq(Result) /\ DOMAIN results = 1 .. Len(results) /\ Len(results) \in Nat
    BY PlaceFacts
  <1>2. i \in Pending(r) /\ \A j \in Pending(r) : i <= j
    <2>1. Pending(r) \in SUBSET Nat
      BY <1>1 DEF Pending
    <2> QED BY <1>0, <2>1, MinFacts
  <1>3. /\ i \in 1 .. Len(results) /\ res \in Result /\ res \in Elems(results)
        /\ res.id \in TaskId /\ res.id \in Ids(r)
    <2> HIDE DEF i
    <2>1. i \in 1 .. Len(results) /\ res.id \in Ids(r)
      BY <1>1, <1>2 DEF Pending
    <2>2. res \in Result /\ res \in Elems(results)
      BY <1>1, <2>1 DEF Elems
    <2> QED BY <2>1, <2>2 DEF Result
  <1>4. res.id[1] = r
    BY <1>0, <1>3, IdsFacts
  <1>5. /\ results' \in Seq(Result) /\ Elems(results) = Elems(results') \cup {res}
        /\ EndsLast(results')
    BY <1>0, <1>1, <1>3, RemoveAtFacts, EndsRemove DEF Outbox, Awaited
  <1>6. ASSUME res.kind # "partial", NEW x \in Elems(results') PROVE x.id # res.id
    <2>1. \A j \in 1 .. Len(results) : results[j].id = res.id => j = i
      <3> SUFFICES ASSUME NEW j \in 1 .. Len(results), results[j].id = res.id PROVE j = i
        OBVIOUS
      <3>1. j \in Pending(r)
        BY <1>1, <1>3 DEF Pending
      <3>2. i <= j /\ j <= i /\ i \in Nat /\ j \in Nat
        BY <1>1, <1>2, <1>3, <1>6, <3>1 DEF Outbox, Awaited, EndsLast
      <3> QED BY <3>2
    <2>2. PICK k \in 1 .. Len(results') : x = results'[k]
      BY <1>6 DEF Elems
    <2>3. /\ Len(results') = Len(results) - 1
          /\ \A m \in 1 .. Len(results) - 1 : results'[m] = results[IF m < i THEN m ELSE m + 1]
      BY <1>0, <1>1, <1>3, RemoveAtDef
    <2>4. \E j \in 1 .. Len(results) : j # i /\ x = results[j]
      <3>1. CASE k < i
        BY <1>1, <1>3, <2>2, <2>3, <3>1
      <3>2. CASE ~(k < i)
        BY <1>1, <1>3, <2>2, <2>3, <3>2
      <3> QED BY <3>1, <3>2
    <2> QED BY <2>1, <2>4
  <1> HIDE DEF i, res
  <1>7. rd \in [Request -> [pc : ReaderPc, shape : ShapeType \cup {None}, got : SUBSET TaskId]]
    BY DEF TypeOK, ReaderPc
  <1>8. g \in SUBSET TaskId /\ p \in {"stop", "read"} /\ p \in ReaderPc
    BY <1>3, <1>7 DEF ReaderPc
  <1> HIDE DEF g, p
  <1>9. /\ rd' \in [Request -> [pc : ReaderPc, shape : ShapeType \cup {None}, got : SUBSET TaskId]]
        /\ rd'[r].pc = p /\ rd'[r].got = g /\ rd'[r].shape = rd[r].shape
        /\ \A q \in Request : q # r => rd'[q] = rd[q]
    BY <1>0, <1>7, <1>8
  <1>10. \A q \in Request : Ids(q)' = Ids(q)
    BY <1>9 DEF Ids, Shape
  <1>11. Done' = IF res.kind = "final" THEN Done \cup {res.id} ELSE Done
    <2>1. \A t \in TaskId : t[1] # r => t # res.id /\ (t \in Done' <=> t \in Done)
      BY <1>4, <1>9, TaskIdFacts DEF Done
    <2>2. \A t \in TaskId : t[1] = r => (t \in Done' <=> t \in g) /\ (t \in Done <=> t \in rd[r].got)
      BY <1>9 DEF Done
    <2>3. Done' \subseteq TaskId /\ Done \subseteq TaskId
      BY DEF Done
    <2> QED BY <1>3, <2>1, <2>2, <2>3 DEF g
  <1>12. /\ Ended' = IF res.kind = "partial" THEN Ended ELSE Ended \ {res.id}
         /\ res.kind # "partial" => res.id \in Ended
    BY <1>3, <1>5, <1>6 DEF Ended, EndedIn
  <1>13. /\ Unlaunched' = Unlaunched /\ Running' = Running
         /\ MainState' /\ Lists' /\ Cancels'
    <2>1. \A q \in Request : rd[q].pc = "closed" => rd'[q].pc = "closed"
      BY <1>0, <1>9
    <2> QED BY <1>0, <2>1, QueuesKept
  <1>14. TypeOK'
    BY <1>0, <1>5, <1>9 DEF TypeOK, mainVars, ReaderPc
  <1>15. Readers'
    <2>1. \A q \in Request : rd'[q].pc # "new" => rd'[q].shape \in Shapes[q]
      BY <1>0, <1>9 DEF Readers
    <2>2. \A t \in TaskId :
             t \in waiting' <=> rd'[t[1]].pc \in {"read", "stop"} /\ t \in Ids(t[1])'
      BY <1>0, <1>8, <1>9, <1>10, TaskIdFacts DEF Readers
    <2>3. \A t \in Unlaunched \cup Running \cup Done' :
             rd'[t[1]].pc \notin {"new", "gate", "prepare"}
      BY <1>4, <1>8, <1>9, <1>11, PlaceFacts, TaskIdFacts DEF Readers
    <2> QED BY <1>13, <2>1, <2>2, <2>3 DEF Readers
  <1>16. Stages'
    BY <1>11, <1>12, <1>13 DEF Stages
  <1>17. Outbox'
    <2>1. \A x \in Elems(results') :
             /\ x.id[1] \in Request /\ x.id \in Ids(x.id[1])' /\ x.id \notin Done'
             /\ rd'[x.id[1]].pc \in {"read", "stop", "cancel"}
      <3> TAKE x \in Elems(results')
      <3>1. /\ x \in Elems(results) /\ x.id[1] \in Request /\ x.id \in Ids(x.id[1])
            /\ x.id \notin Done /\ rd[x.id[1]].pc \in {"read", "stop", "cancel"}
        BY <1>5, PlaceFacts, TaskIdFacts DEF Outbox, Awaited
      <3>2. x.id \notin Done'
        BY <1>6, <1>11, <3>1
      <3> QED BY <1>8, <1>9, <1>10, <3>1, <3>2
    <2> QED BY <1>5, <2>1 DEF Outbox, Awaited
  <1>18. InPlay'
    <2> SUFFICES ASSUME NEW q \in Request, rd'[q].pc = "read", NEW u \in Ids(q) \ rd'[q].got
                 PROVE  \/ u \in Unlaunched' \cup Running' \cup Ended'
                        \/ \E x \in Elems(results') : x.id \in Ids(q) /\ x.kind = "error"
                        \/ u[2] = 1 /\ <<q, 0>> \in Unlaunched'
      BY <1>10 DEF InPlay
    <2>1. CASE q = r
      <3>1. res.kind # "error" /\ u \notin rd[r].got /\ (res.kind = "final" => u # res.id)
        BY <1>9, <2>1 DEF p, g
      <3>2. u \in Ended => u \in Ended'
        BY <1>3, <1>12, <3>1 DEF Result
      <3>3. \A x \in Elems(results) : x.kind = "error" => x \in Elems(results')
        BY <1>5, <3>1
      <3> QED BY <1>0, <1>13, <2>1, <3>1, <3>2, <3>3 DEF InPlay
    <2>2. CASE q # r
      <3>1. rd[q].pc = "read" /\ u \in Ids(q) \ rd[q].got
        BY <1>9, <2>2
      <3>2. \A v \in Ids(q) : v # res.id
        BY <1>4, <2>2, <3>1, IdsFacts
      <3>3. u \in Ended => u \in Ended'
        BY <1>12, <3>1, <3>2
      <3>4. \A x \in Elems(results) : x.id \in Ids(q) => x \in Elems(results')
        BY <1>5, <3>2
      <3> QED BY <1>13, <3>1, <3>3, <3>4 DEF InPlay
    <2> QED BY <2>1, <2>2
  <1> QED BY <1>13, <1>14, <1>15, <1>16, <1>17, <1>18

\* stop(), first half.  A reader that has got everything has no result left.
LEMMA StopForgetInv ==
  ASSUME Inv, NEW r \in Request, StopForget(r)
  PROVE  Inv'
  <1> USE DEF Inv
  <1> DEFINE p == IF rd[r].got = Ids(r) THEN "closed" ELSE "cancel"
  <1>0. /\ rd[r].pc = "stop" /\ waiting' = waiting \ Ids(r) /\ rd' = [rd EXCEPT ![r].pc = p]
        /\ UNCHANGED <<queue, deferred, sleeping, reqStop, results, mainVars>>
    BY DEF StopForget, tasksVars
  <1>1. p \in {"closed", "cancel"} /\ p \in ReaderPc
    BY DEF ReaderPc
  <1>2. /\ rd' \in [Request -> [pc : ReaderPc, shape : ShapeType \cup {None},
                                got : SUBSET TaskId]]
        /\ rd'[r].pc = p /\ \A q \in Request : q # r => rd'[q] = rd[q]
        /\ \A q \in Request : rd'[q].shape = rd[q].shape /\ rd'[q].got = rd[q].got
        /\ Done' = Done /\ \A q \in Request : Ids(q)' = Ids(q)
    BY <1>0, <1>1, ReaderFacts
  <1>3. /\ Unlaunched' = Unlaunched /\ Running' = Running
        /\ MainState' /\ Lists' /\ Cancels'
    <2>1. \A q \in Request : rd[q].pc = "closed" => rd'[q].pc = "closed"
      BY <1>0, <1>2
    <2> QED BY <1>0, <2>1, QueuesKept
  <1>4. TypeOK'
    BY <1>0, <1>2 DEF TypeOK, mainVars, ReaderPc
  <1>5. Ended' = Ended
    BY <1>0 DEF Ended
  <1>6. Readers'
    <2>1. \A q \in Request : rd'[q].pc # "new" => rd'[q].shape \in Shapes[q]
      BY <1>0, <1>2 DEF Readers
    <2>2. \A t \in TaskId : t \in Ids(r) => t[1] = r
      BY <1>0, IdsFacts
    <2>3. \A t \in TaskId :
             t \in waiting' <=> rd'[t[1]].pc \in {"read", "stop"} /\ t \in Ids(t[1])'
      BY <1>0, <1>1, <1>2, <2>2, TaskIdFacts DEF Readers
    <2>4. \A t \in Unlaunched \cup Running \cup Done :
             rd'[t[1]].pc \notin {"new", "gate", "prepare"}
      BY <1>1, <1>2, PlaceFacts, TaskIdFacts DEF Readers
    <2> QED BY <1>2, <1>3, <2>1, <2>3, <2>4 DEF Readers
  <1>7. Stages'
    BY <1>2, <1>3, <1>5 DEF Stages
  <1>8. Outbox'
    <2>1. ASSUME NEW x \in Elems(results), x.id[1] = r PROVE p = "cancel"
      <3>1. x.id \in TaskId /\ x.id \notin Done /\ x.id \in Ids(r)
        BY <2>1, PlaceFacts DEF Outbox, Awaited
      <3>2. x.id \notin rd[r].got
        BY <2>1, <3>1 DEF Done
      <3> QED BY <3>1, <3>2
    <2> HIDE DEF p
    <2>2. \A x \in Elems(results) :
             /\ x.id[1] \in Request /\ x.id \in Ids(x.id[1])'
             /\ rd'[x.id[1]].pc \in {"read", "stop", "cancel"}
      BY <1>2, <2>1, PlaceFacts, TaskIdFacts DEF Outbox, Awaited
    <2> QED BY <1>0, <1>2, <2>2 DEF Outbox, Awaited
  <1>9. InPlay'
    <2>1. \A q \in Request : rd'[q].pc = "read" => rd[q].pc = "read"
      BY <1>1, <1>2
    <2> QED BY <1>0, <1>2, <1>3, <1>5, <2>1 DEF InPlay
  <1> QED BY <1>3, <1>4, <1>6, <1>7, <1>8, <1>9

\* stop(), second half: what is left of the request's tasks and results goes.
LEMMA StopCancelInv ==
  ASSUME Inv, NEW r \in Request, StopCancel(r)
  PROVE  Inv'
  <1> USE DEF Inv
  <1> DEFINE C == {Cancel(t) : t \in Ids(r)}
             kept == Filter(queue, Entry \ {Run(t) : t \in Ids(r)})
  <1>0. /\ rd[r].pc = "cancel" /\ rd' = [rd EXCEPT ![r].pc = "closed"]
        /\ results' = Filter(results, {res \in Result : res.id \notin Ids(r)})
        /\ deferred' = Filter(deferred, TaskId \ Ids(r))
        /\ \E order \in SetToSeqs(C) : queue' = order \o kept
        /\ UNCHANGED <<sleeping, reqStop, waiting, mainVars>>
    BY DEF StopCancel
  <1>1. PICK order \in SetToSeqs(C) : queue' = order \o kept
    BY <1>0
  <1>2. /\ Ids(r) \subseteq TaskId /\ \A t \in Ids(r) : t[1] = r
        /\ \A q \in Request : rd[q].pc # "new" /\ q # r => Ids(q) \cap Ids(r) = {}
    <2>1. Ids(r) \subseteq TaskId /\ \A t \in Ids(r) : t[1] = r
      BY <1>0, IdsFacts
    <2>2. \A q \in Request : rd[q].pc # "new" => \A t \in Ids(q) : t[1] = q
      BY IdsFacts
    <2> QED BY <2>1, <2>2
  <1>3. order \in Seq(Entry) /\ Elems(order) \subseteq C
    <2>1. Cardinality(C) \in Nat
      <3>1. C = {Cancel(<<r, 0>>)} \/ C = {Cancel(<<r, 0>>)} \cup {Cancel(<<r, 1>>)}
        <4>1. Ids(r) = {<<r, 0>>} \/ Ids(r) = {<<r, 0>>, <<r, 1>>}
          BY <1>0, IdsFacts
        <4>2. CASE Ids(r) = {<<r, 0>>}
          BY <4>2
        <4>3. CASE Ids(r) = {<<r, 0>>, <<r, 1>>}
          BY <4>3
        <4> QED BY <4>1, <4>2, <4>3
      <3>2. IsFiniteSet({Cancel(<<r, 0>>)})
        BY FS_Singleton
      <3>3. IsFiniteSet({Cancel(<<r, 0>>)} \cup {Cancel(<<r, 1>>)})
        BY <3>2, FS_AddElement
      <3> QED BY <3>1, <3>2, <3>3, FS_CardinalityType
    <2>2. order \in [1 .. Cardinality(C) -> C]
      BY DEF SetToSeqs
    <2>3. C \subseteq Entry
      BY <1>2, EntryFacts
    <2> HIDE DEF C
    <2>4. order \in [1 .. Cardinality(C) -> Entry]
      BY <2>2, <2>3
    <2>5. order \in Seq(Entry) /\ Len(order) = Cardinality(C)
      BY <2>1, <2>4, IsASeq, LenProperties
    <2>6. \A k \in 1 .. Len(order) : order[k] \in C
      BY <2>2, <2>5
    <2> QED BY <2>5, <2>6 DEF Elems
  <1>4. /\ kept \in Seq(Entry) /\ Once(kept, Runs)
        /\ Elems(kept) = Elems(queue) \cap (Entry \ {Run(t) : t \in Ids(r)})
    BY EraseFacts DEF TypeOK, Lists
  <1> HIDE DEF kept
  <1>5. /\ queue' \in Seq(Entry) /\ Once(queue', Runs) /\ Elems(queue') = Elems(order) \cup Elems(kept)
    <2>1. Elems(order) \cap Runs = {}
      BY <1>3, EntryFacts DEF Runs
    <2> QED BY <1>1, <1>3, <1>4, <2>1, ConcatFacts
  <1>6. Queued' = Queued \ Ids(r)
    <2>1. \A t \in TaskId : Run(t) \in Elems(queue') <=> Run(t) \in Elems(queue) /\ t \notin Ids(r)
      BY <1>3, <1>4, <1>5, EntryFacts
    <2> QED BY <2>1 DEF Queued
  <1>7. deferred' \in Seq(TaskId) /\ Once(deferred', TaskId) /\ Parked' = Parked \ Ids(r)
    <2>1. deferred \in Seq(TaskId)
      BY DEF TypeOK
    <2>2. /\ deferred' \in Seq(TaskId) /\ Once(deferred', TaskId)
          /\ Elems(deferred') = Elems(deferred) \cap (TaskId \ Ids(r))
      BY <1>0, <2>1, EraseFacts DEF Lists
    <2>3. Elems(deferred) \subseteq TaskId
      BY PlaceFacts DEF Parked
    <2> QED BY <2>2, <2>3 DEF Parked
  <1>8. /\ results' \in Seq(Result) /\ EndsLast(results')
        /\ Elems(results') = {x \in Elems(results) : x.id \notin Ids(r)}
    <2>1. /\ results' \in Seq(Result)
          /\ Elems(results') = Elems(results) \cap {x \in Result : x.id \notin Ids(r)}
      BY <1>0, EraseFacts, PlaceFacts
    <2>2. EndsLast(results')
      BY <1>0, EndsErase, PlaceFacts DEF Outbox, Awaited
    <2> QED BY <2>1, <2>2, PlaceFacts
  <1>9. Ended' = Ended \ Ids(r)
    BY <1>8 DEF Ended, EndedIn
  <1>10. /\ rd' \in [Request -> [pc : ReaderPc, shape : ShapeType \cup {None},
                                 got : SUBSET TaskId]]
         /\ rd'[r].pc = "closed" /\ \A q \in Request : q # r => rd'[q] = rd[q]
         /\ \A q \in Request : rd'[q].shape = rd[q].shape /\ rd'[q].got = rd[q].got
         /\ Done' = Done /\ \A q \in Request : Ids(q)' = Ids(q)
    <2>1. "closed" \in ReaderPc
      BY DEF ReaderPc
    <2> QED BY <1>0, <2>1, ReaderFacts
  <1>11. /\ InHand' = InHand /\ Running' = Running
         /\ Unlaunched' \subseteq Unlaunched /\ Unlaunched \ Ids(r) \subseteq Unlaunched'
    BY <1>0, <1>6, <1>7 DEF InHand, Running, Unlaunched, mainVars
  <1>12. TypeOK'
    BY <1>0, <1>5, <1>7, <1>8, <1>10 DEF TypeOK, mainVars, ReaderPc
  <1>13. MainState'
    BY <1>0 DEF MainState, mainVars
  <1>14. Lists'
    BY <1>0, <1>5, <1>6, <1>7, <1>11 DEF Lists, mainVars
  <1>15. Cancels'
    <2> SUFFICES ASSUME NEW t \in TaskId, Cancel(t) \in Elems(queue') \/ hand = Cancel(t)
                 PROVE  rd'[t[1]].pc = "closed"
      BY <1>0 DEF Cancels, mainVars
    <2>1. CASE Cancel(t) \in C
      <3>1. t \in Ids(r)
        BY <2>1, EntryFacts
      <3> QED BY <3>1, <1>2, <1>10
    <2>2. CASE Cancel(t) \notin C
      <3>1. Cancel(t) \in Elems(queue) \/ hand = Cancel(t)
        BY <1>3, <1>4, <1>5, <2>2
      <3>2. rd[t[1]].pc = "closed" /\ t[1] \in Request
        BY <3>1, TaskIdFacts DEF Cancels
      <3> QED BY <3>2, <1>10
    <2> QED BY <2>1, <2>2
  <1>16. Readers'
    <2>1. \A q \in Request : rd'[q].pc # "new" => rd'[q].shape \in Shapes[q]
      BY <1>0, <1>10 DEF Readers
    <2>2. \A t \in TaskId :
             t \in waiting' <=> rd'[t[1]].pc \in {"read", "stop"} /\ t \in Ids(t[1])'
      BY <1>0, <1>10, TaskIdFacts DEF Readers
    <2>3. \A t \in Unlaunched \cup Running \cup Done :
             rd'[t[1]].pc \notin {"new", "gate", "prepare"}
      BY <1>10, PlaceFacts, TaskIdFacts DEF Readers
    <2> QED BY <1>10, <1>11, <2>1, <2>2, <2>3 DEF Readers
  <1>17. Stages'
    BY <1>9, <1>10, <1>11 DEF Stages
  <1>18. Outbox'
    <2>1. \A x \in Elems(results') :
             /\ x.id[1] \in Request /\ x.id \in Ids(x.id[1])' /\ x.id \notin Done
             /\ rd'[x.id[1]].pc \in {"read", "stop", "cancel"}
      BY <1>8, <1>10, PlaceFacts, TaskIdFacts DEF Outbox, Awaited
    <2> QED BY <1>8, <1>10, <2>1 DEF Outbox, Awaited
  <1>19. InPlay'
    <2> SUFFICES ASSUME NEW q \in Request, rd'[q].pc = "read", NEW u \in Ids(q) \ rd[q].got
                 PROVE  \/ u \in Unlaunched' \cup Running' \cup Ended'
                        \/ \E x \in Elems(results') : x.id \in Ids(q) /\ x.kind = "error"
                        \/ u[2] = 1 /\ <<q, 0>> \in Unlaunched'
      BY <1>10 DEF InPlay
    <2>1. q # r /\ rd[q].pc = "read"
      BY <1>10
    <2>2. Ids(q) \cap Ids(r) = {} /\ <<q, 0>> \in Ids(q)
      BY <1>2, <2>1, IdsFacts
    <2> QED BY <1>8, <1>9, <1>11, <2>1, <2>2 DEF InPlay
  <1> QED BY <1>12, <1>13, <1>14, <1>15, <1>16, <1>17, <1>18, <1>19

-----------------------------------------------------------------------------
(* Theorems *)

\* The initial states satisfy the invariant.
LEMMA InitInv == Init => Inv
  <1> SUFFICES ASSUME Init PROVE Inv
    OBVIOUS
  <1>1. /\ queue = <<>> /\ deferred = <<>> /\ results = <<>> /\ hand = None /\ waiting = {}
        /\ pc = "take" /\ cursor = 1 /\ sleeping = FALSE /\ reqStop = FALSE
        /\ \A s \in Slot : slot[s] = IdleSlot
        /\ \A r \in Request : rd[r].pc = "new" /\ rd[r].got = {}
    BY DEF Init
  <1>2. /\ Elems(queue) = {} /\ Elems(deferred) = {} /\ Elems(results) = {}
        /\ \A T : Once(queue, T) /\ Once(deferred, T)
        /\ EndsLast(results)
    <2>1. Len(<<>>) = 0 /\ 1 .. 0 = {}
      OBVIOUS
    <2> QED BY <1>1, <2>1 DEF Elems, Once, EndsLast
  <1>3. IdleSlot.st = "idle" /\ IdleSlot.task = None /\ IdleSlot \in SlotRec
    BY ShapesAssumption DEF IdleSlot, SlotRec
  <1>4. Queued = {} /\ Parked = {} /\ InHand = {} /\ Unlaunched = {}
    BY <1>1, <1>2, EntryFacts DEF Queued, Parked, InHand, Unlaunched
  <1>5. Running = {} /\ Ended = {} /\ Done = {}
    BY <1>1, <1>2, <1>3, EntryFacts, TaskIdFacts DEF Running, Ended, EndedIn, Done
  <1>6. TypeOK
    <2>1. queue \in Seq(Entry) /\ deferred \in Seq(TaskId) /\ results \in Seq(Result)
      BY <1>1
    <2>2. slot \in [Slot -> SlotRec] /\ cursor \in 1 .. NSlots + 1
      BY <1>1, <1>3, ShapesAssumption DEF Init
    <2>3. rd \in [Request -> [pc : ReaderPc, shape : ShapeType \cup {None}, got : SUBSET TaskId]]
      BY DEF Init, ReaderPc
    <2> QED BY <1>1, <2>1, <2>2, <2>3 DEF TypeOK, SlotRec, ReaderPc
  <1>7. MainState
    BY <1>1, <1>3 DEF MainState
  <1>8. Lists
    BY <1>1, <1>2, <1>3, <1>4 DEF Lists
  <1>9. Cancels
    BY <1>1, <1>2, EntryFacts DEF Cancels
  <1>10. Readers
    BY <1>1, <1>4, <1>5, TaskIdFacts DEF Readers
  <1>11. Stages
    BY <1>4, <1>5 DEF Stages
  <1>12. Outbox /\ InPlay
    BY <1>1, <1>2 DEF Outbox, Awaited, InPlay
  <1> QED BY <1>6, <1>7, <1>8, <1>9, <1>10, <1>11, <1>12 DEF Inv

\* Every step keeps the invariant.
LEMMA NextInv == Inv /\ [Next]_vars => Inv'
  <1> SUFFICES ASSUME Inv, [Next]_vars PROVE Inv'
    OBVIOUS
  <1>1. CASE MainStep \/ FallAsleep
    BY <1>1, MainInv, MovesInv DEF MainKeeps, Inv
  <1>2. ASSUME NEW r \in Request, Arrive(r) \/ ClientGone(r) \/ ReaderStep(r)
        PROVE  Inv'
    BY <1>2, ArriveInv, PassGateInv, PostInv, ReceiveInv, StopForgetInv, StopCancelInv
       DEF ReaderStep
  <1>3. CASE UNCHANGED vars
    <2> USE <1>3 DEF vars, Inv
    <2>1. /\ Queued' = Queued /\ Parked' = Parked /\ InHand' = InHand
          /\ Unlaunched' = Unlaunched /\ Running' = Running /\ Ended' = Ended /\ Done' = Done
          /\ \A r : Ids(r)' = Ids(r)
      BY DEF Queued, Parked, InHand, Unlaunched, Running, Ended, Done, Ids, Shape
    <2>2. TypeOK'
      BY DEF TypeOK
    <2>3. MainState' /\ Lists' /\ Cancels'
      BY <2>1 DEF MainState, Lists, Cancels
    <2>4. Readers' /\ Stages' /\ Outbox' /\ InPlay'
      BY <2>1 DEF Readers, Stages, Outbox, Awaited, InPlay
    <2> QED BY <2>2, <2>3, <2>4
  <1> QED BY <1>1, <1>2, <1>3 DEF Next

\* The inductive invariant holds in every reachable state.
THEOREM Invariance == Spec => []Inv
  BY InitInv, NextInv, PTL DEF Spec

\* The queues, slots, results and readers keep their types: the cursor stays
\* inside the slot loop and no slot exceeds its token budget.
THEOREM TypeCorrect == Spec => []TypeOK
  <1>1. Inv => TypeOK
    BY DEF Inv
  <1> QED BY <1>1, Invariance, PTL

\* A reader that is gone leaves no result in queue_results, whatever is sent
\* between the two halves of its stop().
THEOREM NoStrayCorrect == Spec => []NoStrayResults
  <1>1. Inv => NoStrayResults
    <2> SUFFICES ASSUME Inv, NEW i \in DOMAIN results
                 PROVE  rd[Owner(results[i].id)].pc \in {"read", "stop", "cancel"}
      BY DEF NoStrayResults
    <2>1. results[i] \in Elems(results)
      BY PlaceFacts DEF Inv, Elems
    <2> QED BY <2>1 DEF Inv, Outbox, Awaited, Owner
  <1> QED BY <1>1, Invariance, PTL

\* A task somebody waits for is in play, or its answer is on its way: no
\* cancel, release, deferral or refusal loses it.
THEOREM NothingLostCorrect == Spec => []NothingLost
  <1>1. Inv => NothingLost
    <2> SUFFICES ASSUME Inv, NEW r \in Request, rd[r].pc = "read", NEW t \in Ids(r) \ rd[r].got
                 PROVE  \/ Places(t) # {} \/ Ends(t) # {}
                        \/ \E u \in Ids(r), i \in DOMAIN results :
                              results[i] = [id |-> u, kind |-> "error"]
                        \/ IsChild(t) /\ {pl \in Places(<<r, 0>>) : pl[1] # "slot"} # {}
      BY DEF NothingLost
    <2>0. /\ DOMAIN queue = 1 .. Len(queue) /\ DOMAIN deferred = 1 .. Len(deferred)
          /\ DOMAIN results = 1 .. Len(results) /\ results \in Seq(Result)
      BY DEF Inv, TypeOK
    <2>1. ASSUME NEW u \in Unlaunched
          PROVE  {pl \in Places(u) : pl[1] # "slot"} # {}
      <3>1. CASE Run(u) \in Elems(queue)
        <4>1. PICK k \in DOMAIN queue : queue[k] = Run(u)
          BY <3>1, <2>0 DEF Elems
        <4>2. <<"queue", k>> \in Places(u) /\ <<"queue", k>>[1] # "slot"
          BY <4>1 DEF Places
        <4> QED BY <4>2
      <3>2. CASE u \in Elems(deferred)
        <4>1. PICK k \in DOMAIN deferred : deferred[k] = u
          BY <3>2, <2>0 DEF Elems
        <4>2. <<"deferred", k>> \in Places(u) /\ <<"deferred", k>>[1] # "slot"
          BY <4>1 DEF Places
        <4> QED BY <4>2
      <3>3. CASE hand = Run(u)
        <4>1. <<"hand", 1>> \in Places(u) /\ <<"hand", 1>>[1] # "slot"
          BY <3>3 DEF Places
        <4> QED BY <4>1
      <3> QED BY <3>1, <3>2, <3>3 DEF Unlaunched, Queued, Parked, InHand
    <2>2. t \in Running => Places(t) # {}
      <3> SUFFICES ASSUME t \in Running PROVE Places(t) # {}
        OBVIOUS
      <3>1. PICK s \in Slot : slot[s].task = t
        BY DEF Running
      <3>2. <<"slot", s>> \in Places(t)
        BY <3>1 DEF Places
      <3> QED BY <3>2
    <2>3. t \in Ended => Ends(t) # {}
      BY <2>0 DEF Ended, EndedIn, Ends, Elems
    <2>4. ASSUME NEW x \in Elems(results), x.id \in Ids(r), x.kind = "error"
          PROVE  \E u \in Ids(r), i \in DOMAIN results : results[i] = [id |-> u, kind |-> "error"]
      <3>1. PICK i \in DOMAIN results : results[i] = x
        BY <2>0, <2>4 DEF Elems
      <3>2. x \in Result
        BY <2>0, <3>1
      <3>3. x = [id |-> x.id, kind |-> "error"]
        BY <3>2, <2>4 DEF Result
      <3> QED BY <2>4, <3>1, <3>3
    <2>5. \/ t \in Unlaunched \cup Running \cup Ended
          \/ \E x \in Elems(results) : x.id \in Ids(r) /\ x.kind = "error"
          \/ t[2] = 1 /\ <<r, 0>> \in Unlaunched
      BY DEF Inv, InPlay
    <2> QED BY <2>1, <2>2, <2>3, <2>4, <2>5 DEF IsChild
  <1> QED BY <1>1, Invariance, PTL

\* A set without two different elements has at most one.
LEMMA AtMostOne ==
  ASSUME NEW A, \A x, y \in A : x = y
  PROVE  Cardinality(A) \in {0, 1} /\ (A = {} => Cardinality(A) = 0)
  <1>1. CASE A = {}
    BY <1>1, FS_EmptySet
  <1>2. CASE A # {}
    <2>1. PICK x \in A : TRUE
      BY <1>2
    <2>2. A = {x}
      BY <2>1
    <2> QED BY <1>2, <2>2, FS_Singleton
  <1> QED BY <1>1, <1>2

\* A task is in one place or over: it is never run twice and never ends twice.
THEOREM RunsOnceCorrect == Spec => []RunsOnce
  <1>1. Inv => RunsOnce
    <2> SUFFICES ASSUME Inv, NEW t \in TaskId
                 PROVE  Cardinality(Places(t)) + Cardinality(Ends(t))
                          + (IF t \in rd[Owner(t)].got THEN 1 ELSE 0) <= 1
      BY DEF RunsOnce
    <2> USE DEF Inv
    <2>0. /\ DOMAIN queue = 1 .. Len(queue) /\ DOMAIN deferred = 1 .. Len(deferred)
          /\ DOMAIN results = 1 .. Len(results) /\ Len(results) \in Nat
      BY DEF TypeOK
    <2>1. ASSUME NEW x \in Places(t)
          PROVE  \/ \E i \in 1 .. Len(queue) : x = <<"queue", i>> /\ queue[i] = Run(t) /\ t \in Queued
                 \/ \E i \in 1 .. Len(deferred) : x = <<"deferred", i>> /\ deferred[i] = t /\ t \in Parked
                 \/ x = <<"hand", 1>> /\ t \in InHand
                 \/ \E s \in Slot : x = <<"slot", s>> /\ slot[s].task = t /\ t \in Running
      BY <2>0, <2>1 DEF Places, Queued, Parked, InHand, Running, Elems
    <2>2. Places(t) # {} => t \in Unlaunched \cup Running
      BY <2>1 DEF Unlaunched
    <2>3. \A x, y \in Places(t) : x = y
      <3> SUFFICES ASSUME NEW x \in Places(t), NEW y \in Places(t) PROVE x = y
        OBVIOUS
      <3>1. CASE t \in Queued
        <4>1. t \notin Parked /\ t \notin InHand /\ t \notin Running
          BY <3>1 DEF Lists, Stages, Unlaunched
        <4>2. \A i, j \in 1 .. Len(queue) : queue[i] = Run(t) /\ queue[j] = Run(t) => i = j
          BY DEF Lists, Once, Runs
        <4> QED BY <2>1, <4>1, <4>2
      <3>2. CASE t \in Parked
        <4>1. t \notin Queued /\ t \notin InHand /\ t \notin Running
          BY <3>2 DEF Lists, Stages, Unlaunched
        <4>2. \A i, j \in 1 .. Len(deferred) : deferred[i] = t /\ deferred[j] = t => i = j
          BY DEF Lists, Once
        <4> QED BY <2>1, <4>1, <4>2
      <3>3. CASE t \in InHand
        <4>1. t \notin Queued /\ t \notin Parked /\ t \notin Running
          BY <3>3 DEF Lists, Stages, Unlaunched
        <4> QED BY <2>1, <4>1
      <3>4. CASE t \in Running
        <4>1. t \notin Queued /\ t \notin Parked /\ t \notin InHand
          BY <3>4 DEF Lists, Stages, Unlaunched
        <4>2. \A a, b \in Slot : slot[a].task = t /\ slot[b].task = t => a = b
          BY EntryFacts DEF Lists
        <4> QED BY <2>1, <4>1, <4>2
      <3> QED BY <2>2, <3>1, <3>2, <3>3, <3>4 DEF Unlaunched
    <2>4. \A x, y \in Ends(t) : x = y
      <3> SUFFICES ASSUME NEW x \in Ends(t), NEW y \in Ends(t) PROVE x = y
        OBVIOUS
      <3>1. /\ x \in 1 .. Len(results) /\ results[x].id = t /\ results[x].kind # "partial"
            /\ y \in 1 .. Len(results) /\ results[y].id = t /\ results[y].kind # "partial"
        BY <2>0 DEF Ends
      <3>2. x <= y /\ y <= x
        BY <3>1 DEF Outbox, Awaited, EndsLast
      <3> QED BY <2>0, <3>1, <3>2
    <2>5. Ends(t) # {} => t \in Ended
      BY <2>0 DEF Ends, Ended, EndedIn, Elems
    <2>6. t \in rd[Owner(t)].got => t \in Done
      BY DEF Done, Owner
    <2>7. /\ Places(t) # {} => Ends(t) = {} /\ t \notin Done
          /\ Ends(t) # {} => t \notin Done
      BY <2>2, <2>5 DEF Stages
    <2>8. /\ Cardinality(Places(t)) \in {0, 1} /\ (Places(t) = {} => Cardinality(Places(t)) = 0)
          /\ Cardinality(Ends(t)) \in {0, 1} /\ (Ends(t) = {} => Cardinality(Ends(t)) = 0)
      BY <2>3, <2>4, AtMostOne
    <2> QED BY <2>6, <2>7, <2>8
  <1> QED BY <1>1, Invariance, PTL
=============================================================================
