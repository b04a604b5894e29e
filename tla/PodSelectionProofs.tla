------------------------- MODULE PodSelectionProofs -------------------------
(***************************************************************************)
(* The properties of MCPodSelection for lists of any length, of any pods   *)
(* with distinct names.                                                    *)
(*                                                                         *)
(* The comparator is unfolded into the chain of comparisons it is in       *)
(* sort.go (LessIsChain).  Sort and Keep are folds over a list: FoldExists *)
(* shows that the recursion behind a fold has a solution, and SortByLess,  *)
(* SortByAge and KeepSteps turn it into a sequence of steps F[0], F[1],    *)
(* ..., about which UpTo, induction from the least-number principle,       *)
(* proves that the result rearranges the list (SortingRearranges), puts it *)
(* in order (SortingSorts), brings one group of pods to the front          *)
(* (SortingGroups) or keeps the accepted pods (KeepElements).              *)
(***************************************************************************)
EXTENDS MCPodSelection, FiniteSetTheorems, SequenceTheorems, WellFoundedInduction, TLAPS

-----------------------------------------------------------------------------
(* The comparator *)

(* Any pod of a NodeSet, not only the ones of the universes TLC enumerates. *)
AnyPod ==
    [name : Nat, assigned : BOOLEAN, phase : {"Pending", "Running", "Succeeded", "Failed", "Unknown"},
     ready : BOOLEAN, term : BOOLEAN, cost : Int, deadline : Nat, cordon : BOOLEAN,
     ordinal : Int, readyTime : Nat, created : Nat, updated : BOOLEAN]

(* Less, written as the chain of comparisons it is in sort.go. *)
LessChain(p, q) ==
    IF p.assigned # q.assigned THEN ~p.assigned
    ELSE IF podPhaseToWeight(p) # podPhaseToWeight(q)
         THEN podPhaseToWeight(p) < podPhaseToWeight(q)
    ELSE IF p.ready # q.ready THEN ~p.ready
    ELSE IF p.cost # q.cost THEN p.cost < q.cost
    ELSE IF p.deadline # q.deadline THEN p.deadline < q.deadline
    ELSE IF p.cordon \/ q.cordon THEN p.cordon
    ELSE IF p.ordinal # q.ordinal THEN p.ordinal > q.ordinal
    ELSE IF p.ready /\ q.ready /\ podReadyTime(p) # podReadyTime(q)
         THEN afterOrZero(podReadyTime(p), podReadyTime(q))
    ELSE p.created # q.created /\ afterOrZero(p.created, q.created)

(* The least element of a set of numbers, once it is known. *)
LEMMA MinIs ==
  ASSUME NEW S \in SUBSET Int, NEW m \in S, \A y \in S : m <= y
  PROVE  Min(S) = m
<1>1. \E x \in S : \A y \in S : x =< y
  OBVIOUS
<1>2. Min(S) \in S /\ \A y \in S : Min(S) =< y
  BY <1>1, Zenon DEF Min
<1>3. PICK x \in S : x = Min(S)
  BY <1>2
<1>4. x =< m /\ m =< x /\ x \in Int /\ m \in Int
  BY <1>2, <1>3
<1>5. x = m
  BY <1>4
<1> QED
  BY <1>3, <1>5

LEMMA MaxIs ==
  ASSUME NEW S \in SUBSET Int, NEW m \in S, \A y \in S : m >= y
  PROVE  Max(S) = m
<1>1. \E x \in S : \A y \in S : x >= y
  OBVIOUS
<1>2. Max(S) \in S /\ \A y \in S : Max(S) >= y
  BY <1>1, Zenon DEF Max
<1>3. PICK x \in S : x = Max(S)
  BY <1>2
<1>4. x >= m /\ m >= x /\ x \in Int /\ m \in Int
  BY <1>2, <1>3
<1>5. x = m
  BY <1>4
<1> QED
  BY <1>3, <1>5

LEMMA LessIsChain ==
  ASSUME NEW p \in AnyPod, NEW q \in AnyPod
  PROVE  Less(p, q) <=> LessChain(p, q)
<1> DEFINE c == Criteria(p, q)
           deciding == { i \in DOMAIN c : c[i].decides }
<1>1. DOMAIN c = 1..9
  BY DEF Criteria
<1>2. Less(p, q) <=> deciding # {} /\ c[Min(deciding)].first
  BY DEF Less
<1>3. /\ c[1].decides <=> p.assigned # q.assigned
      /\ c[1].first <=> ~p.assigned
  BY DEF Criteria
<1>4. /\ c[2].decides <=> podPhaseToWeight(p) # podPhaseToWeight(q)
      /\ c[2].first <=> podPhaseToWeight(p) < podPhaseToWeight(q)
  BY DEF Criteria
<1>5. /\ c[3].decides <=> p.ready # q.ready
      /\ c[3].first <=> ~p.ready
  BY DEF Criteria
<1>6. /\ c[4].decides <=> p.cost # q.cost
      /\ c[4].first <=> p.cost < q.cost
  BY DEF Criteria
<1>7. /\ c[5].decides <=> p.deadline # q.deadline
      /\ c[5].first <=> p.deadline < q.deadline
  BY DEF Criteria
<1>8. /\ c[6].decides <=> (p.cordon \/ q.cordon)
      /\ c[6].first <=> p.cordon
  BY DEF Criteria, CordonCriterion
<1>9. /\ c[7].decides <=> p.ordinal # q.ordinal
      /\ c[7].first <=> p.ordinal > q.ordinal
  BY DEF Criteria
<1>10. /\ c[8].decides <=> (p.ready /\ q.ready /\ podReadyTime(p) # podReadyTime(q))
       /\ c[8].first <=> afterOrZero(podReadyTime(p), podReadyTime(q))
  BY DEF Criteria
<1>11. /\ c[9].decides <=> p.created # q.created
       /\ c[9].first <=> afterOrZero(p.created, q.created)
  BY DEF Criteria
<1> HIDE DEF c
<1>12. ASSUME NEW i \in 1..9, c[i].decides, \A j \in 1..9 : j < i => ~c[j].decides
       PROVE  Less(p, q) <=> c[i].first
  <2>1. deciding \in SUBSET Int /\ i \in deciding /\ \A y \in deciding : i <= y
    BY <1>1, <1>12
  <2>2. Min(deciding) = i
    BY <2>1, MinIs
  <2> QED
    BY <1>2, <2>1, <2>2
<1>13. (\A i \in 1..9 : ~c[i].decides) => ~Less(p, q)
  BY <1>1, <1>2
<1>14. ASSUME NEW i \in 1..9, c[i].decides, \A j \in 1..9 : j < i => ~c[j].decides
       PROVE  Less(p, q) <=> LessChain(p, q)
  <2>1. Less(p, q) <=> c[i].first
    BY <1>12, <1>14
  <2>2. i = 1 \/ i = 2 \/ i = 3 \/ i = 4 \/ i = 5 \/ i = 6 \/ i = 7 \/ i = 8 \/ i = 9
    OBVIOUS
  <2>3. CASE i = 1
    BY <1>14, <2>1, <2>3, <1>3 DEF LessChain
  <2>4. CASE i = 2
    BY <1>14, <2>1, <2>4, <1>3, <1>4 DEF LessChain
  <2>5. CASE i = 3
    BY <1>14, <2>1, <2>5, <1>3, <1>4, <1>5 DEF LessChain
  <2>6. CASE i = 4
    BY <1>14, <2>1, <2>6, <1>3, <1>4, <1>5, <1>6 DEF LessChain
  <2>7. CASE i = 5
    BY <1>14, <2>1, <2>7, <1>3, <1>4, <1>5, <1>6, <1>7 DEF LessChain
  <2>8. CASE i = 6
    BY <1>14, <2>1, <2>8, <1>3, <1>4, <1>5, <1>6, <1>7, <1>8 DEF LessChain
  <2>9. CASE i = 7
    BY <1>14, <2>1, <2>9, <1>3, <1>4, <1>5, <1>6, <1>7, <1>8, <1>9 DEF LessChain
  <2>10. CASE i = 8
    BY <1>14, <2>1, <2>10, <1>3, <1>4, <1>5, <1>6, <1>7, <1>8, <1>9, <1>10 DEF LessChain
  <2>11. CASE i = 9
    BY <1>14, <2>1, <2>11, <1>3, <1>4, <1>5, <1>6, <1>7, <1>8, <1>9, <1>10, <1>11 DEF LessChain
  <2> QED
    BY <2>2, <2>3, <2>4, <2>5, <2>6, <2>7, <2>8, <2>9, <2>10, <2>11
<1>15. CASE \A i \in 1..9 : ~c[i].decides
  BY <1>13, <1>15, <1>3, <1>4, <1>5, <1>6, <1>7, <1>8, <1>9, <1>10, <1>11 DEF LessChain
<1>16. ASSUME ~(\A i \in 1..9 : ~c[i].decides)
       PROVE  \E i \in 1..9 : c[i].decides /\ \A j \in 1..9 : j < i => ~c[j].decides
  BY <1>16
<1> QED
  BY <1>14, <1>15, <1>16

(* Each criterion compares numbers: the zero time comes before every other  *)
(* time, and a later time before an earlier one.                            *)
LEMMA TimesOrdered ==
  /\ \A s, t \in Nat : s # t => (afterOrZero(s, t) <=> ~afterOrZero(t, s))
  /\ \A s, t, u \in Nat : s # t /\ t # u /\ s # u /\ afterOrZero(s, t) /\ afterOrZero(t, u)
                            => afterOrZero(s, u)
BY DEF afterOrZero

LEMMA WeightType ==
  ASSUME NEW p \in AnyPod
  PROVE  podPhaseToWeight(p) \in Nat /\ podReadyTime(p) \in Nat
BY DEF podPhaseToWeight, podReadyTime, AnyPod

(* Two pods of which at most one is cordoned are not each less than the other, *)
(* and one of them is less when their ordinals differ.                         *)
LEMMA LessAsymmetric ==
  ASSUME NEW p \in AnyPod, NEW q \in AnyPod, ~(p.cordon /\ q.cordon)
  PROVE  /\ ~(Less(p, q) /\ Less(q, p))
         /\ p.ordinal # q.ordinal => Less(p, q) \/ Less(q, p)
<1> DEFINE wp == podPhaseToWeight(p)  wq == podPhaseToWeight(q)
           tp == podReadyTime(p)  tq == podReadyTime(q)
<1>1. wp \in Nat /\ wq \in Nat /\ tp \in Nat /\ tq \in Nat
  BY WeightType
<1>2. /\ p.cost \in Int /\ q.cost \in Int /\ p.deadline \in Int /\ q.deadline \in Int
      /\ p.ordinal \in Int /\ q.ordinal \in Int /\ p.created \in Nat /\ q.created \in Nat
  BY DEF AnyPod
<1>3. /\ p.created # q.created => (afterOrZero(p.created, q.created) <=> ~afterOrZero(q.created, p.created))
      /\ tp # tq => (afterOrZero(tp, tq) <=> ~afterOrZero(tq, tp))
  BY <1>1, <1>2, TimesOrdered
<1>4. /\ p.assigned \in BOOLEAN /\ q.assigned \in BOOLEAN /\ p.ready \in BOOLEAN /\ q.ready \in BOOLEAN
      /\ p.cordon \in BOOLEAN /\ q.cordon \in BOOLEAN
  BY DEF AnyPod
<1> HIDE DEF wp, wq, tp, tq
<1>5. /\ ~(LessChain(p, q) /\ LessChain(q, p))
      /\ p.ordinal # q.ordinal => LessChain(p, q) \/ LessChain(q, p)
  BY <1>1, <1>2, <1>3, <1>4 DEF LessChain, wp, wq, tp, tq
<1> QED
  BY <1>5, LessIsChain

(* Less is transitive, and so is its negation, on three pods of which at most *)
(* one is cordoned.                                                           *)
LEMMA LessTransitive ==
  ASSUME NEW p \in AnyPod, NEW q \in AnyPod, NEW r \in AnyPod,
         ~(p.cordon /\ q.cordon), ~(q.cordon /\ r.cordon), ~(p.cordon /\ r.cordon)
  PROVE  /\ Less(p, q) /\ Less(q, r) => Less(p, r)
         /\ ~Less(p, q) /\ ~Less(q, r) => ~Less(p, r)
<1> DEFINE wp == podPhaseToWeight(p)  wq == podPhaseToWeight(q)  wr == podPhaseToWeight(r)
           tp == podReadyTime(p)  tq == podReadyTime(q)  tr == podReadyTime(r)
<1>1. /\ wp \in Nat /\ wq \in Nat /\ wr \in Nat
      /\ tp \in Nat /\ tq \in Nat /\ tr \in Nat
  BY WeightType
<1>2. /\ p.cost \in Int /\ q.cost \in Int /\ r.cost \in Int
      /\ p.deadline \in Int /\ q.deadline \in Int /\ r.deadline \in Int
      /\ p.ordinal \in Int /\ q.ordinal \in Int /\ r.ordinal \in Int
      /\ p.created \in Nat /\ q.created \in Nat /\ r.created \in Nat
  BY DEF AnyPod
<1>4. /\ p.assigned \in BOOLEAN /\ q.assigned \in BOOLEAN /\ r.assigned \in BOOLEAN
      /\ p.ready \in BOOLEAN /\ q.ready \in BOOLEAN /\ r.ready \in BOOLEAN
      /\ p.cordon \in BOOLEAN /\ q.cordon \in BOOLEAN /\ r.cordon \in BOOLEAN
  BY DEF AnyPod
<1> HIDE DEF wp, wq, wr, tp, tq, tr
<1>5. /\ LessChain(p, q) /\ LessChain(q, r) => LessChain(p, r)
      /\ ~LessChain(p, q) /\ ~LessChain(q, r) => ~LessChain(p, r)
  BY <1>1, <1>2, <1>4, SMTT(60) DEF LessChain, wp, wq, wr, tp, tq, tr, afterOrZero
<1> QED
  BY <1>5, LessIsChain

-----------------------------------------------------------------------------
(* Lists of pods *)

(* What the informer cache returns: pods with names of their own. *)
IsPodList(list) ==
    /\ list \in Seq(AnyPod)
    /\ \A i, j \in DOMAIN list : i # j => list[i].name # list[j].name

LEMMA ElementsFinite ==
  ASSUME NEW S, NEW list \in Seq(S)
  PROVE  /\ IsFiniteSet(Elements(list)) /\ Elements(list) \subseteq S
         /\ DOMAIN list = 1..Len(list) /\ Len(list) \in Nat
<1>1. DOMAIN list = 1..Len(list) /\ Len(list) \in Nat
  OBVIOUS
<1>2. IsFiniteSet(DOMAIN list)
  BY <1>1, FS_Interval
<1>3. list \in Surjection(DOMAIN list, Elements(list))
  BY <1>1 DEF Elements, Surjection
<1>4. IsFiniteSet(Elements(list))
  BY <1>2, <1>3, FS_Surjection
<1> QED
  BY <1>1, <1>4 DEF Elements

(* With at most one cordoned pod, two cordoned ones are the same. *)
LEMMA OneCordoned ==
  ASSUME NEW list \in Seq(AnyPod), Cardinality(Cordoned(list)) <= 1,
         NEW p \in Elements(list), NEW q \in Elements(list), p.cordon, q.cordon
  PROVE  p = q
<1>1. IsFiniteSet(Cordoned(list)) /\ p \in Cordoned(list) /\ q \in Cordoned(list)
  BY ElementsFinite, FS_Subset DEF Cordoned
<1>2. Cardinality(Cordoned(list)) \in Nat /\ Cardinality(Cordoned(list)) # 0
  BY <1>1, FS_CardinalityType, FS_EmptySet
<1>3. Cardinality(Cordoned(list)) = 1
  BY <1>2
<1>4. PICK x : Cordoned(list) = {x}
  BY <1>1, <1>3, FS_Singleton
<1> QED
  BY <1>1, <1>4

(* The comparator handed to sort.Sort is a strict order, total on pods of     *)
(* different ordinals, on every list of pods of which at most one is cordoned. *)
THEOREM ListsOrdered == IsPodList(pods) => LessIsStrictOrder
<1> SUFFICES ASSUME IsPodList(pods), Cardinality(Cordoned(pods)) <= 1
             PROVE  /\ \A p, q \in Elements(pods) :
                         p # q /\ p.ordinal # q.ordinal => (Less(p, q) <=> ~Less(q, p))
                    /\ \A p, q, r \in Elements(pods) :
                         p # q /\ Less(p, q) /\ Less(q, r) => Less(p, r)
  BY DEF LessIsStrictOrder
<1>1. pods \in Seq(AnyPod) /\ Elements(pods) \subseteq AnyPod
  BY ElementsFinite DEF IsPodList
<1>2. \A p, q \in Elements(pods) : p # q => ~(p.cordon /\ q.cordon)
  BY <1>1, OneCordoned
<1>3. ASSUME NEW p \in Elements(pods), NEW q \in Elements(pods), p # q, p.ordinal # q.ordinal
      PROVE  Less(p, q) <=> ~Less(q, p)
  <2>1. p \in AnyPod /\ q \in AnyPod /\ ~(p.cordon /\ q.cordon)
    BY <1>1, <1>2, <1>3
  <2> QED
    BY <1>3, <2>1, LessAsymmetric
<1>4. ASSUME NEW p \in Elements(pods), NEW q \in Elements(pods), NEW r \in Elements(pods),
             p # q, Less(p, q), Less(q, r)
      PROVE  Less(p, r)
  <2>1. p \in AnyPod /\ q \in AnyPod /\ r \in AnyPod /\ ~(p.cordon /\ q.cordon)
    BY <1>1, <1>2, <1>4
  <2>2. CASE q = r
    BY <1>4, <2>2
  <2>3. CASE p = r
    BY <1>4, <2>1, <2>3, LessAsymmetric
  <2>4. CASE q # r /\ p # r
    <3>1. ~(q.cordon /\ r.cordon) /\ ~(p.cordon /\ r.cordon)
      BY <1>2, <2>4
    <3> QED
      BY <1>4, <2>1, <3>1, LessTransitive
  <2> QED
    BY <2>2, <2>3, <2>4
<1> QED
  BY <1>3, <1>4

-----------------------------------------------------------------------------
(* Folding a list from the left *)

(* A set of natural numbers has a least element: what stands in for induction. *)
LEMMA LeastNumber ==
  ASSUME NEW S \in SUBSET Nat, S # {}
  PROVE  \E x \in S : \A y \in S : x <= y
<1> DEFINE R == OpToRel(<, Nat)
<1>1. IsWellFoundedOn(R, Nat)
  BY NatLessThanWellFounded
<1>2. \A x, y \in Nat : y < x => <<y, x>> \in R
  BY DEF OpToRel
<1> HIDE DEF R
<1>3. PICK x \in S : \A y \in S : ~(<<y, x>> \in R)
  BY <1>1, WFMin
<1>4. ASSUME NEW y \in S PROVE x <= y
  <2>1. x \in Nat /\ y \in Nat /\ ~(<<y, x>> \in R)
    BY <1>3
  <2>2. ~(y < x)
    BY <1>2, <2>1, Zenon
  <2> QED
    BY <2>1, <2>2
<1> QED
  BY <1>4

(* A set that holds 0 and the successor, up to N, of each of its members. *)
LEMMA UpTo ==
  ASSUME NEW N \in Nat, NEW P, 0 \in P, \A n \in 0..(N - 1) : n \in P => n + 1 \in P
  PROVE  \A n \in 0..N : n \in P
<1> SUFFICES ASSUME NEW k \in 0..N, k \notin P PROVE FALSE
  OBVIOUS
<1> DEFINE Bad == { n \in 0..N : n \notin P }
<1>1. Bad \in SUBSET Nat /\ Bad # {}
  OBVIOUS
<1>2. PICK x \in Bad : \A y \in Bad : x <= y
  BY <1>1, LeastNumber
<1>3. x # 0 /\ x \in 1..N
  BY <1>2
<1>4. x - 1 \in 0..(N - 1) /\ x - 1 \in 0..N
  BY <1>3
<1>5. x - 1 \in P
  BY <1>2, <1>4
<1>6. (x - 1) + 1 \in P
  BY <1>4, <1>5
<1>7. (x - 1) + 1 = x
  BY <1>3
<1> QED
  BY <1>2, <1>6, <1>7

(* The function that MapThenFoldSet defines by recursion exists, when the step *)
(* stays within a set: step[<<x, i>>] is the value after element i.                *)
IsFold(f, start, step, N) ==
    \A s \in SUBSET (1..N) : f[s] = IF s = {} THEN start ELSE step[<<f[s \ {Max(s)}], Max(s)>>]

LEMMA FoldExists ==
  ASSUME NEW A, NEW start \in A, NEW N \in Nat, NEW step \in [A \X (1..N) -> A]
  PROVE  \E f \in [SUBSET (1..N) -> A] : IsFold(f, start, step, N)
<1> DEFINE P == { n \in 0..N : \E f \in [SUBSET (1..n) -> A] : IsFold(f, start, step, n) }
<1>1. 0 \in P
  <2> DEFINE f == [s \in SUBSET (1..0) |-> start]
  <2>1. f \in [SUBSET (1..0) -> A]
    OBVIOUS
  <2>2. ASSUME NEW s \in SUBSET (1..0) PROVE s = {} /\ f[s] = start
    OBVIOUS
  <2>3. IsFold(f, start, step, 0)
    BY <2>2 DEF IsFold
  <2> QED
    BY <2>1, <2>3
<1>2. ASSUME NEW n \in 0..(N - 1), n \in P PROVE n + 1 \in P
  <2>1. PICK f \in [SUBSET (1..n) -> A] : IsFold(f, start, step, n)
    BY <1>2
  <2> DEFINE m == n + 1
             g == [s \in SUBSET (1..m) |-> IF m \in s THEN step[<<f[s \ {m}], m>>] ELSE f[s]]
  <2>2. m \in 1..N /\ n \in Nat /\ m \in Nat
    OBVIOUS
  <2>3. ASSUME NEW s \in SUBSET (1..m)
        PROVE  /\ s \ {m} \in SUBSET (1..n)
               /\ m \notin s => s \in SUBSET (1..n)
               /\ m \in s => Max(s) = m
    <3>1. \A x \in 1..m : x # m => x \in 1..n
      BY <2>2
    <3>2. ASSUME m \in s PROVE Max(s) = m
      <4>1. s \in SUBSET Int /\ \A y \in s : m >= y
        BY <2>2
      <4> QED
        BY <3>2, <4>1, MaxIs
    <3> QED
      BY <3>1, <3>2
  <2> HIDE DEF m
  <2>4. ASSUME NEW s \in SUBSET (1..m)
        PROVE  g[s] \in A
    <3>1. CASE m \in s
      <4>1. f[s \ {m}] \in A
        BY <2>3
      <4> QED
        BY <2>2, <3>1, <4>1
    <3>2. CASE m \notin s
      BY <2>3, <3>2
    <3> QED
      BY <3>1, <3>2
  <2>5. g \in [SUBSET (1..m) -> A]
    BY <2>4
  <2>6. ASSUME NEW s \in SUBSET (1..m)
        PROVE  g[s] = IF s = {} THEN start ELSE step[<<g[s \ {Max(s)}], Max(s)>>]
    <3>1. CASE m \in s
      <4>1. s # {} /\ Max(s) = m /\ s \ {m} \in SUBSET (1..n) /\ m \notin s \ {m}
        BY <2>3, <3>1
      <4>2. s \ {m} \in SUBSET (1..m)
        OBVIOUS
      <4>3. g[s \ {m}] = f[s \ {m}]
        BY <4>1, <4>2
      <4> QED
        BY <3>1, <4>1, <4>3
    <3>2. CASE m \notin s
      <4>1. s \in SUBSET (1..n) /\ g[s] = f[s]
        BY <2>3, <3>2
      <4>2. f[s] = IF s = {} THEN start ELSE step[<<f[s \ {Max(s)}], Max(s)>>]
        BY <2>1, <4>1 DEF IsFold
      <4>3. s \ {Max(s)} \in SUBSET (1..m) /\ m \notin s \ {Max(s)}
        BY <3>2
      <4>4. g[s \ {Max(s)}] = f[s \ {Max(s)}]
        BY <4>3
      <4> QED
        BY <4>1, <4>2, <4>4
    <3> QED
      BY <3>1, <3>2
  <2>7. IsFold(g, start, step, m)
    BY <2>6 DEF IsFold
  <2> HIDE DEF g
  <2>8. m \in 0..N /\ m = n + 1
    BY <2>2 DEF m
  <2>9. m \in P
    BY <2>5, <2>7, <2>8
  <2> QED
    BY <2>8, <2>9
<1> HIDE DEF P
<1>3. N \in P
  BY <1>1, <1>2, UpTo
<1> QED
  BY <1>3 DEF P

-----------------------------------------------------------------------------
(* Insertion *)

LEMMA MaxOfBounded ==
  ASSUME NEW N \in Nat, NEW S \in SUBSET (0..N), S # {}
  PROVE  Max(S) \in S /\ \A y \in S : y <= Max(S)
<1> DEFINE T == { z \in 0..N : N - z \in S }
<1>1. T \in SUBSET Nat
  OBVIOUS
<1>2. T # {}
  <2>1. PICK y \in S : TRUE
    OBVIOUS
  <2>2. y \in 0..N
    BY <2>1
  <2>3. N - y \in 0..N /\ N - (N - y) = y
    BY <2>2
  <2>4. N - y \in T
    BY <2>1, <2>3
  <2> QED
    BY <2>4
<1>3. PICK z \in T : \A y \in T : z <= y
  BY <1>1, <1>2, LeastNumber
<1>4. N - z \in S
  BY <1>3
<1>5. ASSUME NEW y \in S PROVE N - z >= y
  <2>1. y \in 0..N
    OBVIOUS
  <2>2. N - y \in 0..N /\ N - (N - y) = y
    BY <2>1
  <2>3. N - y \in T
    BY <2>2
  <2>4. z <= N - y /\ z \in 0..N
    BY <1>3, <2>3
  <2> QED
    BY <2>1, <2>4
<1>6. S \in SUBSET Int
  OBVIOUS
<1>7. Max(S) = N - z
  BY <1>4, <1>5, <1>6, MaxIs
<1> QED
  BY <1>4, <1>5, <1>6, <1>7

(* InsertPod of Sort, with the comparator as a set of pairs. *)
Insert(R, sorted, pod) ==
    LET stop == Max({0} \union { i \in DOMAIN sorted : ~(<<pod, sorted[i]>> \in R) })
    IN  SubSeq(sorted, 1, stop) \o <<pod>> \o SubSeq(sorted, stop + 1, Len(sorted))

(* t is the list sorted with pod at position k. *)
IsInsertion(t, sorted, pod, k) ==
    /\ Len(t) = Len(sorted) + 1
    /\ \A i \in 1..(Len(sorted) + 1) :
          t[i] = IF i < k THEN sorted[i] ELSE IF i = k THEN pod ELSE sorted[i - 1]

(* The new element goes right of the last one that it is not less than. *)
LEMMA InsertShape ==
  ASSUME NEW S, NEW sorted \in Seq(S), NEW pod \in S, NEW R
  PROVE  /\ Insert(R, sorted, pod) \in Seq(S)
         /\ \E k \in 1..(Len(sorted) + 1) :
               /\ IsInsertion(Insert(R, sorted, pod), sorted, pod, k)
               /\ \A i \in 1..Len(sorted) : i >= k => <<pod, sorted[i]>> \in R
               /\ k > 1 => ~(<<pod, sorted[k - 1]>> \in R)
<1> DEFINE n == Len(sorted)
           I == {0} \union { i \in DOMAIN sorted : ~(<<pod, sorted[i]>> \in R) }
           stop == Max(I)
           left == SubSeq(sorted, 1, stop)
           right == SubSeq(sorted, stop + 1, n)
<1>1. n \in Nat /\ DOMAIN sorted = 1..n
  OBVIOUS
<1>2. I \in SUBSET (0..n) /\ I # {}
  BY <1>1
<1>3. stop \in I /\ \A y \in I : y <= stop
  BY <1>1, <1>2, MaxOfBounded
<1>4. stop \in 0..n
  BY <1>2, <1>3
<1>5. ASSUME NEW i \in 1..n, i > stop PROVE <<pod, sorted[i]>> \in R
  <2>1. i \notin I
    <3> HIDE DEF I, stop
    <3> QED
      BY <1>3, <1>4, <1>5
  <2> QED
    BY <1>1, <2>1
<1>6. stop > 0 => ~(<<pod, sorted[stop]>> \in R)
  BY <1>3, <1>4
<1>7. Insert(R, sorted, pod) = left \o <<pod>> \o right
  BY DEF Insert
<1> HIDE DEF stop, I
<1>8. /\ left \in Seq(S) /\ Len(left) = stop
      /\ \A i \in 1..stop : left[i] = sorted[i]
  <2>1. \A i \in 1..stop : sorted[i] \in S
    BY <1>1, <1>4
  <2>2. /\ left \in Seq(S)
        /\ Len(left) = IF 1 <= stop THEN stop - 1 + 1 ELSE 0
        /\ \A i \in 1..(stop - 1 + 1) : left[i] = sorted[1 + i - 1]
    BY <1>4, <2>1, SubSeqProperties
  <2> QED
    BY <1>4, <2>2
<1>9. /\ right \in Seq(S) /\ Len(right) = n - stop
      /\ \A i \in 1..(n - stop) : right[i] = sorted[stop + i]
  <2>1. \A i \in (stop + 1)..n : sorted[i] \in S
    BY <1>1, <1>4
  <2>2. /\ right \in Seq(S)
        /\ Len(right) = IF stop + 1 <= n THEN n - (stop + 1) + 1 ELSE 0
        /\ \A i \in 1..(n - (stop + 1) + 1) : right[i] = sorted[(stop + 1) + i - 1]
    BY <1>1, <1>4, <2>1, SubSeqProperties
  <2> QED
    BY <1>1, <1>4, <2>2
<1> DEFINE head == left \o <<pod>>
           t == head \o right
<1> HIDE DEF left, right
<1>10. <<pod>> \in Seq(S) /\ Len(<<pod>>) = 1 /\ <<pod>>[1] = pod
  OBVIOUS
<1>11. /\ head \in Seq(S) /\ Len(head) = stop + 1
       /\ \A i \in 1..(stop + 1) : head[i] = IF i <= stop THEN left[i] ELSE <<pod>>[i - stop]
  BY <1>8, <1>10, ConcatProperties
<1> HIDE DEF head
<1>12. /\ t \in Seq(S) /\ Len(t) = Len(head) + Len(right)
       /\ \A i \in 1..(Len(head) + Len(right)) :
             t[i] = IF i <= Len(head) THEN head[i] ELSE right[i - Len(head)]
  BY <1>9, <1>11, ConcatProperties
<1> HIDE DEF t
<1>13. Len(t) = n + 1
  BY <1>1, <1>4, <1>9, <1>11, <1>12
<1>14. ASSUME NEW i \in 1..(n + 1)
       PROVE  t[i] = IF i < stop + 1 THEN sorted[i]
                     ELSE IF i = stop + 1 THEN pod ELSE sorted[i - 1]
  <2>1. i \in 1..(Len(head) + Len(right))
    BY <1>12, <1>13
  <2>2. CASE i < stop + 1
    BY <1>4, <1>8, <1>11, <1>12, <2>1, <2>2
  <2>3. CASE i = stop + 1
    <3>1. t[i] = head[i] /\ i \in 1..(stop + 1)
      BY <1>4, <1>11, <1>12, <2>1, <2>3
    <3>2. head[i] = <<pod>>[i - stop] /\ i - stop = 1
      BY <1>4, <1>11, <2>3, <3>1
    <3> QED
      BY <1>4, <1>10, <2>3, <3>1, <3>2
  <2>4. CASE i > stop + 1
    <3>1. t[i] = right[i - (stop + 1)] /\ i - (stop + 1) \in 1..(n - stop)
      BY <1>1, <1>4, <1>11, <1>12, <2>1, <2>4
    <3>2. right[i - (stop + 1)] = sorted[stop + (i - (stop + 1))]
      BY <1>9, <3>1
    <3>3. stop + (i - (stop + 1)) = i - 1
      BY <1>4
    <3> QED
      BY <1>4, <2>4, <3>1, <3>2, <3>3
  <2> QED
    BY <1>4, <2>2, <2>3, <2>4
<1>15. IsInsertion(t, sorted, pod, stop + 1)
  BY <1>13, <1>14 DEF IsInsertion
<1>16. Insert(R, sorted, pod) = t
  BY <1>7 DEF t, head, left, right
<1>17. stop + 1 \in 1..(n + 1) /\ stop + 1 - 1 = stop /\ \A i \in 1..n : i >= stop + 1 => i > stop
  BY <1>1, <1>4
<1>18. \A i \in 1..n : i >= stop + 1 => <<pod, sorted[i]>> \in R
  BY <1>5, <1>17
<1>19. stop + 1 > 1 => ~(<<pod, sorted[(stop + 1) - 1]>> \in R)
  BY <1>4, <1>6, <1>17
<1> QED
  BY <1>12, <1>15, <1>16, <1>17, <1>18, <1>19

-----------------------------------------------------------------------------
(* Insertion sort: F[n] is the sorted list of the first n elements *)

IsSorting(F, R, list, S) ==
    /\ F \in [0..Len(list) -> Seq(S)]
    /\ F[0] = <<>>
    /\ \A n \in 1..Len(list) : F[n] = Insert(R, F[n - 1], list[n])

(* The first n elements of list in another order: position i holds list[g[i]]. *)
IsRearrangement(t, list, n) ==
    /\ Len(t) = n
    /\ \E g \in [1..n -> 1..n] : /\ \A i, j \in 1..n : i # j => g[i] # g[j]
                                 /\ \A i \in 1..n : t[i] = list[g[i]]

(* Element n + 1 is inserted at position k of the sorted list of the first n. *)
InsertsAt(F, R, list, n, k) ==
    /\ IsInsertion(F[n + 1], F[n], list[n + 1], k)
    /\ \A i \in 1..n : i >= k => <<list[n + 1], F[n][i]>> \in R
    /\ k > 1 => ~(<<list[n + 1], F[n][k - 1]>> \in R)

LEMMA SortingStep ==
  ASSUME NEW S, NEW list \in Seq(S), NEW R, NEW F, IsSorting(F, R, list, S),
         NEW n \in 0..(Len(list) - 1), Len(F[n]) = n
  PROVE  \E k \in 1..(n + 1) : InsertsAt(F, R, list, n, k)
<1>1. Len(list) \in Nat /\ n + 1 \in 1..Len(list) /\ n \in 0..Len(list) /\ (n + 1) - 1 = n
  OBVIOUS
<1>2. list[n + 1] \in S /\ F[n] \in Seq(S)
  BY <1>1 DEF IsSorting
<1>3. F[n + 1] = Insert(R, F[(n + 1) - 1], list[n + 1])
  BY <1>1 DEF IsSorting
<1>4. F[n + 1] = Insert(R, F[n], list[n + 1])
  BY <1>1, <1>3
<1>5. \E k \in 1..(Len(F[n]) + 1) :
         /\ IsInsertion(Insert(R, F[n], list[n + 1]), F[n], list[n + 1], k)
         /\ \A i \in 1..Len(F[n]) : i >= k => <<list[n + 1], F[n][i]>> \in R
         /\ k > 1 => ~(<<list[n + 1], F[n][k - 1]>> \in R)
  BY <1>2, InsertShape
<1> QED
  BY <1>4, <1>5 DEF InsertsAt

(* Insertion loses and duplicates no element. *)
LEMMA SortingRearranges ==
  ASSUME NEW S, NEW list \in Seq(S), NEW R, NEW F, IsSorting(F, R, list, S)
  PROVE  \A n \in 0..Len(list) : IsRearrangement(F[n], list, n)
<1> DEFINE N == Len(list)
           P == { n \in 0..N : IsRearrangement(F[n], list, n) }
<1>0. N \in Nat
  OBVIOUS
<1>1. 0 \in P
  <2>1. F[0] = <<>>
    BY DEF IsSorting
  <2> DEFINE g == [i \in 1..0 |-> i]
  <2>2. g \in [1..0 -> 1..0] /\ \A i \in 1..0 : FALSE
    OBVIOUS
  <2> HIDE DEF g
  <2>3. Len(F[0]) = 0
    BY <2>1
  <2>4. IsRearrangement(F[0], list, 0)
    BY <2>2, <2>3 DEF IsRearrangement
  <2> QED
    BY <1>0, <2>4
<1>2. ASSUME NEW n \in 0..(N - 1), n \in P PROVE n + 1 \in P
  <2>1. Len(F[n]) = n /\ n \in Nat /\ n + 1 \in 0..N
    BY <1>0, <1>2 DEF IsRearrangement
  <2>2. PICK g \in [1..n -> 1..n] : /\ \A i, j \in 1..n : i # j => g[i] # g[j]
                                    /\ \A i \in 1..n : F[n][i] = list[g[i]]
    BY <1>2 DEF IsRearrangement
  <2>3. PICK k \in 1..(n + 1) : InsertsAt(F, R, list, n, k)
    BY <2>1, SortingStep
  <2>4. /\ Len(F[n + 1]) = n + 1
        /\ \A i \in 1..(n + 1) : F[n + 1][i] = IF i < k THEN F[n][i]
                                               ELSE IF i = k THEN list[n + 1] ELSE F[n][i - 1]
    BY <2>1, <2>3 DEF IsInsertion, InsertsAt
  <2> DEFINE h == [i \in 1..(n + 1) |-> IF i < k THEN g[i] ELSE IF i = k THEN n + 1 ELSE g[i - 1]]
  <2>5. \A i \in 1..(n + 1) : /\ i < k => i \in 1..n
                              /\ i > k => i - 1 \in 1..n
    BY <2>1
  <2>6. h \in [1..(n + 1) -> 1..(n + 1)]
    <3>1. ASSUME NEW i \in 1..(n + 1) PROVE h[i] \in 1..(n + 1)
      <4>1. CASE i < k
        BY <2>1, <2>5, <4>1
      <4>2. CASE i = k
        BY <2>1, <4>2
      <4>3. CASE i > k
        BY <2>1, <2>5, <4>3
      <4> QED
        BY <4>1, <4>2, <4>3
    <3> QED
      BY <3>1
  <2>7. ASSUME NEW i \in 1..(n + 1), NEW j \in 1..(n + 1), i < j PROVE h[i] # h[j]
    <3>1. CASE j < k
      <4>1. h[i] = g[i] /\ h[j] = g[j] /\ i \in 1..n /\ j \in 1..n /\ i # j
        BY <2>5, <2>7, <3>1
      <4> QED
        BY <2>2, <4>1
    <3>2. CASE j = k
      <4>1. h[i] = g[i] /\ h[j] = n + 1 /\ i \in 1..n
        BY <2>5, <2>7, <3>2
      <4> QED
        BY <2>1, <2>2, <4>1
    <3>3. CASE i = k
      <4>1. h[i] = n + 1 /\ h[j] = g[j - 1] /\ j - 1 \in 1..n
        BY <2>5, <2>7, <3>3
      <4> QED
        BY <2>1, <2>2, <4>1
    <3>4. CASE i < k /\ k < j
      <4>1. h[i] = g[i] /\ h[j] = g[j - 1] /\ i \in 1..n /\ j - 1 \in 1..n /\ i # j - 1
        BY <2>5, <2>7, <3>4
      <4> QED
        BY <2>2, <4>1
    <3>5. CASE k < i
      <4>1. h[i] = g[i - 1] /\ h[j] = g[j - 1] /\ i - 1 \in 1..n /\ j - 1 \in 1..n /\ i - 1 # j - 1
        BY <2>5, <2>7, <3>5
      <4> QED
        BY <2>2, <4>1
    <3> QED
      BY <2>7, <3>1, <3>2, <3>3, <3>4, <3>5
  <2>8. \A i, j \in 1..(n + 1) : i # j => h[i] # h[j]
    <3> HIDE DEF h
    <3>1. \A i, j \in 1..(n + 1) : i # j => i < j \/ j < i
      BY <2>1
    <3> QED
      BY <2>7, <3>1
  <2>9. ASSUME NEW i \in 1..(n + 1) PROVE F[n + 1][i] = list[h[i]]
    <3>1. CASE i < k
      BY <2>2, <2>4, <2>5, <3>1
    <3>2. CASE i = k
      BY <2>4, <3>2
    <3>3. CASE i > k
      BY <2>2, <2>4, <2>5, <3>3
    <3> QED
      BY <3>1, <3>2, <3>3
  <2> HIDE DEF h
  <2>10. IsRearrangement(F[n + 1], list, n + 1)
    BY <2>4, <2>6, <2>8, <2>9 DEF IsRearrangement
  <2> QED
    BY <2>1, <2>10
<1> HIDE DEF P
<1>3. \A n \in 0..N : n \in P
  BY <1>0, <1>1, <1>2, UpTo
<1> QED
  BY <1>3 DEF P

HasNoRepeats(list) == \A i, j \in DOMAIN list : i # j => list[i] # list[j]

(* What holds of a rearrangement of the first n elements of such a list. *)
LEMMA RearrangementElements ==
  ASSUME NEW S, NEW list \in Seq(S), NEW n \in 0..Len(list), NEW t, IsRearrangement(t, list, n)
  PROVE  /\ Len(t) = n
         /\ \A i \in 1..n : t[i] \in Elements(list)
         /\ HasNoRepeats(list) => /\ \A i, j \in 1..n : i # j => t[i] # t[j]
                                  /\ n < Len(list) => \A i \in 1..n : t[i] # list[n + 1]
<1>1. PICK g \in [1..n -> 1..n] : /\ \A i, j \in 1..n : i # j => g[i] # g[j]
                                  /\ \A i \in 1..n : t[i] = list[g[i]]
  BY DEF IsRearrangement
<1>2. n \in Nat /\ Len(list) \in Nat /\ DOMAIN list = 1..Len(list)
  OBVIOUS
<1>3. \A i \in 1..n : g[i] \in DOMAIN list /\ (n < Len(list) => g[i] # n + 1 /\ n + 1 \in DOMAIN list)
  BY <1>1, <1>2
<1> QED
  BY <1>1, <1>3 DEF IsRearrangement, HasNoRepeats, Elements

(* The negation of a comparator is what a sorted list has between any two *)
(* elements; it takes an asymmetric R with a transitive complement.       *)
IsWeakOrder(R, X) ==
    /\ \A a, b \in X : a # b => ~(<<a, b>> \in R /\ <<b, a>> \in R)
    /\ \A a, b, c \in X :
          a # b /\ b # c /\ a # c /\ ~(<<a, b>> \in R) /\ ~(<<b, c>> \in R) => ~(<<a, c>> \in R)

IsInOrder(t, R, n) == \A i, j \in 1..n : i < j => ~(<<t[j], t[i]>> \in R)

LEMMA SortingSorts ==
  ASSUME NEW S, NEW list \in Seq(S), NEW R, NEW F, IsSorting(F, R, list, S),
         HasNoRepeats(list), IsWeakOrder(R, Elements(list))
  PROVE  \A n \in 0..Len(list) : IsInOrder(F[n], R, n)
<1> DEFINE N == Len(list)
           P == { n \in 0..N : IsInOrder(F[n], R, n) }
<1>0. N \in Nat
  OBVIOUS
<1>1. 0 \in P
  <2>1. \A i \in 1..0 : FALSE
    OBVIOUS
  <2> QED
    BY <1>0, <2>1 DEF IsInOrder
<1>2. ASSUME NEW n \in 0..(N - 1), n \in P PROVE n + 1 \in P
  <2> DEFINE s == F[n]  t == F[n + 1]  pod == list[n + 1]  X == Elements(list)
  <2>1. n \in Nat /\ n + 1 \in 0..N /\ n \in 0..N /\ n < N /\ n + 1 \in DOMAIN list
    BY <1>0
  <2>2. IsRearrangement(s, list, n)
    BY <2>1, SortingRearranges
  <2>3. /\ Len(s) = n
        /\ \A i \in 1..n : s[i] \in X /\ s[i] # pod
        /\ \A i, j \in 1..n : i # j => s[i] # s[j]
    BY <2>1, <2>2, RearrangementElements
  <2>4. pod \in X
    BY <2>1 DEF Elements
  <2>5. PICK k \in 1..(n + 1) : InsertsAt(F, R, list, n, k)
    BY <2>3, SortingStep
  <2>6. \A i, j \in 1..n : i < j => ~(<<s[j], s[i]>> \in R)
    BY <1>2 DEF IsInOrder
  <2>7. /\ \A i \in 1..(n + 1) : t[i] = IF i < k THEN s[i] ELSE IF i = k THEN pod ELSE s[i - 1]
        /\ \A i \in 1..n : i >= k => <<pod, s[i]>> \in R
        /\ k > 1 => ~(<<pod, s[k - 1]>> \in R)
    BY <2>3, <2>5 DEF InsertsAt, IsInsertion
  <2> HIDE DEF s, t, pod, X
  <2>8. ASSUME NEW i \in 1..(n + 1), NEW j \in 1..(n + 1), i < j
        PROVE  ~(<<t[j], t[i]>> \in R)
    <3>1. CASE j < k
      <4>1. t[i] = s[i] /\ t[j] = s[j] /\ i \in 1..n /\ j \in 1..n
        BY <2>1, <2>7, <2>8, <3>1
      <4> QED
        BY <2>6, <2>8, <4>1
    <3>2. CASE j = k
      <4>1. t[i] = s[i] /\ t[j] = pod /\ i \in 1..n /\ k - 1 \in 1..n /\ k > 1
        BY <2>1, <2>7, <2>8, <3>2
      <4>2. ~(<<pod, s[k - 1]>> \in R)
        BY <2>7, <4>1
      <4>3. CASE i = k - 1
        BY <4>1, <4>2, <4>3
      <4>4. CASE i # k - 1
        <5>1. i < k - 1
          BY <2>8, <3>2, <4>4
        <5>2. ~(<<s[k - 1], s[i]>> \in R)
          BY <2>6, <4>1, <5>1
        <5>3. pod # s[k - 1] /\ pod # s[i] /\ s[k - 1] # s[i] /\ s[i] \in X /\ s[k - 1] \in X
          BY <2>3, <4>1, <4>4
        <5>4. ~(<<pod, s[i]>> \in R)
          BY <2>4, <4>2, <5>2, <5>3 DEF IsWeakOrder, X
        <5> QED
          BY <4>1, <5>4
      <4> QED
        BY <4>3, <4>4
    <3>3. CASE i = k
      <4>1. t[i] = pod /\ t[j] = s[j - 1] /\ j - 1 \in 1..n /\ j - 1 >= k
        BY <2>1, <2>7, <2>8, <3>3
      <4>2. <<pod, s[j - 1]>> \in R /\ pod # s[j - 1] /\ s[j - 1] \in X
        BY <2>3, <2>7, <4>1
      <4> QED
        BY <2>4, <4>1, <4>2 DEF IsWeakOrder, X
    <3>4. CASE i < k /\ k < j
      <4>1. t[i] = s[i] /\ t[j] = s[j - 1] /\ i \in 1..n /\ j - 1 \in 1..n /\ i < j - 1
        BY <2>1, <2>7, <2>8, <3>4
      <4> QED
        BY <2>6, <4>1
    <3>5. CASE k < i
      <4>1. t[i] = s[i - 1] /\ t[j] = s[j - 1] /\ i - 1 \in 1..n /\ j - 1 \in 1..n /\ i - 1 < j - 1
        BY <2>1, <2>7, <2>8, <3>5
      <4> QED
        BY <2>6, <4>1
    <3> QED
      BY <2>8, <3>1, <3>2, <3>3, <3>4, <3>5
  <2>9. IsInOrder(F[n + 1], R, n + 1)
    BY <2>8 DEF IsInOrder, t
  <2> QED
    BY <2>1, <2>9
<1> HIDE DEF P
<1>3. \A n \in 0..N : n \in P
  BY <1>0, <1>1, <1>2, UpTo
<1> QED
  BY <1>3 DEF P

(* Elements that are less than all the others, and that none of the others is *)
(* less than, come first, even where R is no order among them.                *)
ComesFirst(t, C, m, n) == \A i \in 1..n : t[i] \in C <=> i <= m

LEMMA SortingGroups ==
  ASSUME NEW S, NEW list \in Seq(S), NEW R, NEW F, IsSorting(F, R, list, S), NEW C,
         \A a, b \in Elements(list) :
            a \in C /\ b \notin C => <<a, b>> \in R /\ ~(<<b, a>> \in R)
  PROVE  \A n \in 0..Len(list) : \E m \in 0..n : ComesFirst(F[n], C, m, n)
<1> DEFINE N == Len(list)
           P == { n \in 0..N : \E m \in 0..n : ComesFirst(F[n], C, m, n) }
<1>0. N \in Nat
  OBVIOUS
<1>1. 0 \in P
  <2>1. \A i \in 1..0 : FALSE
    OBVIOUS
  <2>2. ComesFirst(F[0], C, 0, 0)
    BY <2>1 DEF ComesFirst
  <2> QED
    BY <1>0, <2>2
<1>2. ASSUME NEW n \in 0..(N - 1), n \in P PROVE n + 1 \in P
  <2> DEFINE s == F[n]  t == F[n + 1]  pod == list[n + 1]  X == Elements(list)
  <2>1. n \in Nat /\ n + 1 \in 0..N /\ n \in 0..N /\ n < N /\ n + 1 \in DOMAIN list
    BY <1>0
  <2>2. IsRearrangement(s, list, n)
    BY <2>1, SortingRearranges
  <2>3. Len(s) = n /\ \A i \in 1..n : s[i] \in X
    BY <2>1, <2>2, RearrangementElements
  <2>4. pod \in X
    BY <2>1 DEF Elements
  <2>5. PICK k \in 1..(n + 1) : InsertsAt(F, R, list, n, k)
    BY <2>3, SortingStep
  <2>6. PICK m \in 0..n : \A i \in 1..n : s[i] \in C <=> i <= m
    BY <1>2 DEF ComesFirst
  <2>7. /\ \A i \in 1..(n + 1) : t[i] = IF i < k THEN s[i] ELSE IF i = k THEN pod ELSE s[i - 1]
        /\ \A i \in 1..n : i >= k => <<pod, s[i]>> \in R
        /\ k > 1 => ~(<<pod, s[k - 1]>> \in R)
    BY <2>3, <2>5 DEF InsertsAt, IsInsertion
  <2>8. \A a, b \in X : a \in C /\ b \notin C => <<a, b>> \in R /\ ~(<<b, a>> \in R)
    OBVIOUS
  <2> HIDE DEF s, t, pod, X
  <2>9. CASE pod \in C
    <3>1. k <= m + 1
      <4> SUFFICES ASSUME k > m + 1 PROVE FALSE
        BY <2>1
      <4>1. k - 1 \in 1..n /\ k > 1 /\ ~(k - 1 <= m)
        BY <2>1
      <4> DEFINE z == s[k - 1]
      <4>2. z \in X /\ z \notin C /\ ~(<<pod, z>> \in R)
        BY <2>3, <2>6, <2>7, <4>1
      <4> HIDE DEF z
      <4>3. <<pod, z>> \in R
        BY <2>4, <2>8, <2>9, <4>2
      <4> QED
        BY <4>2, <4>3
    <3>2. ASSUME NEW i \in 1..(n + 1) PROVE t[i] \in C <=> i <= m + 1
      <4>1. CASE i < k
        <5>1. t[i] = s[i] /\ i \in 1..n /\ i <= m /\ i <= m + 1
          BY <2>1, <2>7, <3>1, <4>1
        <5> QED
          BY <2>6, <5>1
      <4>2. CASE i = k
        BY <2>7, <2>9, <3>1, <4>2
      <4>3. CASE i > k
        <5>1. t[i] = s[i - 1] /\ i - 1 \in 1..n /\ (i - 1 <= m <=> i <= m + 1)
          BY <2>1, <2>7, <4>3
        <5> QED
          BY <2>6, <5>1
      <4> QED
        BY <4>1, <4>2, <4>3
    <3>3. ComesFirst(F[n + 1], C, m + 1, n + 1) /\ m + 1 \in 0..(n + 1)
      BY <2>1, <3>2 DEF ComesFirst, t
    <3> QED
      BY <2>1, <3>3
  <2>10. CASE pod \notin C
    <3>1. k > m
      <4> SUFFICES ASSUME k <= m PROVE FALSE
        BY <2>1
      <4>1. k \in 1..n /\ k >= k
        BY <2>1
      <4>2. s[k] \in X /\ s[k] \in C /\ <<pod, s[k]>> \in R
        BY <2>3, <2>6, <2>7, <4>1
      <4> QED
        BY <2>4, <2>8, <2>10, <4>2
    <3>2. ASSUME NEW i \in 1..(n + 1) PROVE t[i] \in C <=> i <= m
      <4>1. CASE i < k
        <5>1. t[i] = s[i] /\ i \in 1..n
          BY <2>1, <2>7, <4>1
        <5> QED
          BY <2>6, <5>1
      <4>2. CASE i = k
        BY <2>7, <2>10, <3>1, <4>2
      <4>3. CASE i > k
        <5>1. t[i] = s[i - 1] /\ i - 1 \in 1..n /\ ~(i - 1 <= m) /\ ~(i <= m)
          BY <2>1, <2>7, <3>1, <4>3
        <5> QED
          BY <2>6, <5>1
      <4> QED
        BY <4>1, <4>2, <4>3
    <3>3. ComesFirst(F[n + 1], C, m, n + 1) /\ m \in 0..(n + 1)
      BY <2>1, <3>2 DEF ComesFirst, t
    <3> QED
      BY <2>1, <3>3
  <2> QED
    BY <2>9, <2>10
<1> HIDE DEF P
<1>3. \A n \in 0..N : n \in P
  BY <1>0, <1>1, <1>2, UpTo
<1> QED
  BY <1>3 DEF P

-----------------------------------------------------------------------------
(* Sort, with the two comparators it is called with *)

LessPairs == { x \in AnyPod \X AnyPod : Less(x[1], x[2]) }

(* Max of a list's indices, and what is left below it. *)
LEMMA MaxOfInterval ==
  ASSUME NEW n \in Nat \ {0}
  PROVE  Max(1..n) = n /\ (1..n) \ {n} = 1..(n - 1) /\ 1..n # {}
<1>1. 1..n \in SUBSET Int /\ n \in 1..n /\ \A y \in 1..n : n >= y
  OBVIOUS
<1>2. Max(1..n) = n
  BY <1>1, MaxIs
<1>3. \A x : x \in (1..n) \ {n} <=> x \in 1..(n - 1)
  <2>1. ASSUME NEW x \in (1..n) \ {n} PROVE x \in 1..(n - 1)
    OBVIOUS
  <2>2. ASSUME NEW x \in 1..(n - 1) PROVE x \in (1..n) \ {n}
    OBVIOUS
  <2> QED
    BY <2>1, <2>2
<1>4. (1..n) \ {n} = 1..(n - 1)
  BY <1>3, Zenon
<1> QED
  BY <1>1, <1>2, <1>4

LEMMA MaxOfIndices ==
  ASSUME NEW N \in Nat, NEW s \in SUBSET (1..N), s # {}
  PROVE  Max(s) \in s /\ Max(s) \in 1..N
<1>1. s \in SUBSET (0..N)
  OBVIOUS
<1> QED
  BY <1>1, MaxOfBounded

(* InsertPod of Sort(Less, list), and the recursion that FoldLeft stands for. *)
InsertByLess(sorted, pod) ==
    LET stop == Max({0} \union { i \in DOMAIN sorted : ~Less(pod, sorted[i]) })
    IN  SubSeq(sorted, 1, stop) \o <<pod>> \o SubSeq(sorted, stop + 1, Len(sorted))

LEMMA SortUnfolds ==
  ASSUME NEW list
  PROVE  Sort(Less, list) =
           (CHOOSE g : g = [s \in SUBSET (DOMAIN list) |->
                              IF s = {} THEN <<>>
                              ELSE InsertByLess(g[s \ {Max(s)}], list[Max(s)])])[DOMAIN list]
BY DEF Sort, FoldLeft, MapThenFoldSet, InsertByLess

(* The steps of Sort(Less, list), one insertion each. *)
LEMMA SortByLess ==
  ASSUME NEW list \in Seq(AnyPod)
  PROVE  \E F : IsSorting(F, LessPairs, list, AnyPod) /\ Sort(Less, list) = F[Len(list)]
<1> DEFINE A == Seq(AnyPod)
           N == Len(list)
           Equation(g) ==
             g = [s \in SUBSET (DOMAIN list) |->
                    IF s = {} THEN <<>>
                    ELSE InsertByLess(g[s \ {Max(s)}], list[Max(s)])]
           iter == CHOOSE g : Equation(g)
           step == [x \in A \X (1..N) |-> Insert(LessPairs, x[1], list[x[2]])]
           F == [n \in 0..N |-> iter[1..n]]
<1>1. N \in Nat /\ DOMAIN list = 1..N /\ <<>> \in A /\ \A i \in 1..N : list[i] \in AnyPod
  OBVIOUS
<1>2. Sort(Less, list) = iter[DOMAIN list]
  BY SortUnfolds
<1>3. ASSUME NEW sorted \in A, NEW pod \in AnyPod
      PROVE  InsertByLess(sorted, pod) = Insert(LessPairs, sorted, pod)
  <2>1. \A i \in DOMAIN sorted : Less(pod, sorted[i]) <=> <<pod, sorted[i]>> \in LessPairs
    <3>1. ASSUME NEW q \in AnyPod PROVE Less(pod, q) <=> <<pod, q>> \in LessPairs
      BY DEF LessPairs
    <3>2. \A i \in DOMAIN sorted : sorted[i] \in AnyPod
      OBVIOUS
    <3> QED
      BY <3>1, <3>2
  <2>2. { i \in DOMAIN sorted : ~Less(pod, sorted[i]) }
          = { i \in DOMAIN sorted : ~(<<pod, sorted[i]>> \in LessPairs) }
    BY <2>1
  <2> QED
    BY <2>2 DEF Insert, InsertByLess
<1>4. ASSUME NEW sorted \in A, NEW i \in 1..N
      PROVE  Insert(LessPairs, sorted, list[i]) \in A
  BY <1>1, InsertShape
<1>5. step \in [A \X (1..N) -> A] /\ \A x \in A \X (1..N) : step[x] = Insert(LessPairs, x[1], list[x[2]])
  BY <1>4
<1> HIDE DEF step, A
<1>6. PICK f \in [SUBSET (1..N) -> A] : IsFold(f, <<>>, step, N)
  BY <1>1, <1>5, FoldExists
<1>7. Equation(f)
  <2>1. ASSUME NEW s \in SUBSET (1..N), s # {}
        PROVE  f[s] = InsertByLess(f[s \ {Max(s)}], list[Max(s)])
    <3>1. Max(s) \in 1..N /\ s \ {Max(s)} \in SUBSET (1..N)
      BY <1>1, <2>1, MaxOfIndices
    <3>2. f[s] = step[<<f[s \ {Max(s)}], Max(s)>>]
      BY <1>6, <2>1 DEF IsFold
    <3>3. f[s \ {Max(s)}] \in A
      BY <1>6, <3>1
    <3>4. f[s] = Insert(LessPairs, f[s \ {Max(s)}], list[Max(s)])
      BY <1>5, <3>1, <3>2, <3>3
    <3> QED
      BY <1>1, <1>3, <3>1, <3>3, <3>4
  <2>2. f[{}] = <<>>
    BY <1>6 DEF IsFold
  <2> QED
    BY <1>1, <1>6, <2>1, <2>2
<1>8. Equation(iter)
  BY <1>7
<1> HIDE DEF iter
<1>9. F[0] = <<>>
  <2>1. 1..0 = {} /\ {} \in SUBSET (DOMAIN list) /\ 0 \in 0..N
    BY <1>1
  <2> QED
    BY <1>8, <2>1
<1>10. ASSUME NEW n \in 1..N PROVE F[n] = InsertByLess(F[n - 1], list[n])
  <2>1. n \in 0..N /\ n - 1 \in 0..N /\ n \in Nat \ {0} /\ 1..n \in SUBSET (DOMAIN list)
    BY <1>1
  <2>2. Max(1..n) = n /\ (1..n) \ {n} = 1..(n - 1) /\ 1..n # {}
    BY <2>1, MaxOfInterval
  <2> QED
    BY <1>8, <2>1, <2>2
<1>11. F[N] = iter[DOMAIN list]
  BY <1>1
<1>12. DOMAIN F = 0..N /\ F = [n \in 0..N |-> F[n]]
  OBVIOUS
<1> HIDE DEF F
<1> DEFINE P == { n \in 0..N : F[n] \in A }
<1>13. 0 \in P
  BY <1>1, <1>9
<1>14. ASSUME NEW n \in 0..(N - 1), n \in P PROVE n + 1 \in P
  <2>1. n + 1 \in 1..N /\ n + 1 \in 0..N /\ (n + 1) - 1 = n /\ F[n] \in A
    BY <1>1, <1>14
  <2>2. F[n + 1] = InsertByLess(F[n], list[n + 1])
    BY <1>10, <2>1
  <2>3. F[n + 1] = Insert(LessPairs, F[n], list[n + 1])
    BY <1>1, <1>3, <2>1, <2>2
  <2> QED
    BY <1>4, <2>1, <2>3
<1> HIDE DEF P
<1>15. \A n \in 0..N : n \in P
  BY <1>1, <1>13, <1>14, UpTo
<1>16. \A n \in 0..N : F[n] \in A
  BY <1>15 DEF P
<1>17. ASSUME NEW n \in 1..N PROVE F[n] = Insert(LessPairs, F[n - 1], list[n])
  <2>1. n - 1 \in 0..N
    BY <1>1
  <2> QED
    BY <1>1, <1>3, <1>10, <1>16, <2>1
<1>18. F \in [0..N -> Seq(AnyPod)]
  BY <1>12, <1>16 DEF A
<1>19. IsSorting(F, LessPairs, list, AnyPod)
  BY <1>9, <1>17, <1>18 DEF IsSorting
<1> QED
  BY <1>2, <1>11, <1>19

(* The same for Sort(CreatedBefore, list), the order of SplitUnhealthyPods. *)
AgePairs == { x \in AnyPod \X AnyPod : CreatedBefore(x[1], x[2]) }

InsertByAge(sorted, pod) ==
    LET stop == Max({0} \union { i \in DOMAIN sorted : ~CreatedBefore(pod, sorted[i]) })
    IN  SubSeq(sorted, 1, stop) \o <<pod>> \o SubSeq(sorted, stop + 1, Len(sorted))

LEMMA SortByAgeUnfolds ==
  ASSUME NEW list
  PROVE  Sort(CreatedBefore, list) =
           (CHOOSE g : g = [s \in SUBSET (DOMAIN list) |->
                              IF s = {} THEN <<>>
                              ELSE InsertByAge(g[s \ {Max(s)}], list[Max(s)])])[DOMAIN list]
BY DEF Sort, FoldLeft, MapThenFoldSet, InsertByAge

(* The steps of Sort(CreatedBefore, list), one insertion each. *)
LEMMA SortByAge ==
  ASSUME NEW list \in Seq(AnyPod)
  PROVE  \E F : IsSorting(F, AgePairs, list, AnyPod) /\ Sort(CreatedBefore, list) = F[Len(list)]
<1> DEFINE A == Seq(AnyPod)
           N == Len(list)
           Equation(g) ==
             g = [s \in SUBSET (DOMAIN list) |->
                    IF s = {} THEN <<>>
                    ELSE InsertByAge(g[s \ {Max(s)}], list[Max(s)])]
           iter == CHOOSE g : Equation(g)
           step == [x \in A \X (1..N) |-> Insert(AgePairs, x[1], list[x[2]])]
           F == [n \in 0..N |-> iter[1..n]]
<1>1. N \in Nat /\ DOMAIN list = 1..N /\ <<>> \in A /\ \A i \in 1..N : list[i] \in AnyPod
  OBVIOUS
<1>2. Sort(CreatedBefore, list) = iter[DOMAIN list]
  BY SortByAgeUnfolds
<1>3. ASSUME NEW sorted \in A, NEW pod \in AnyPod
      PROVE  InsertByAge(sorted, pod) = Insert(AgePairs, sorted, pod)
  <2>1. \A i \in DOMAIN sorted : CreatedBefore(pod, sorted[i]) <=> <<pod, sorted[i]>> \in AgePairs
    <3>1. ASSUME NEW q \in AnyPod PROVE CreatedBefore(pod, q) <=> <<pod, q>> \in AgePairs
      BY DEF AgePairs
    <3>2. \A i \in DOMAIN sorted : sorted[i] \in AnyPod
      OBVIOUS
    <3> QED
      BY <3>1, <3>2
  <2>2. { i \in DOMAIN sorted : ~CreatedBefore(pod, sorted[i]) }
          = { i \in DOMAIN sorted : ~(<<pod, sorted[i]>> \in AgePairs) }
    BY <2>1
  <2> QED
    BY <2>2 DEF Insert, InsertByAge
<1>4. ASSUME NEW sorted \in A, NEW i \in 1..N
      PROVE  Insert(AgePairs, sorted, list[i]) \in A
  BY <1>1, InsertShape
<1>5. step \in [A \X (1..N) -> A] /\ \A x \in A \X (1..N) : step[x] = Insert(AgePairs, x[1], list[x[2]])
  BY <1>4
<1> HIDE DEF step, A
<1>6. PICK f \in [SUBSET (1..N) -> A] : IsFold(f, <<>>, step, N)
  BY <1>1, <1>5, FoldExists
<1>7. Equation(f)
  <2>1. ASSUME NEW s \in SUBSET (1..N), s # {}
        PROVE  f[s] = InsertByAge(f[s \ {Max(s)}], list[Max(s)])
    <3>1. Max(s) \in 1..N /\ s \ {Max(s)} \in SUBSET (1..N)
      BY <1>1, <2>1, MaxOfIndices
    <3>2. f[s] = step[<<f[s \ {Max(s)}], Max(s)>>]
      BY <1>6, <2>1 DEF IsFold
    <3>3. f[s \ {Max(s)}] \in A
      BY <1>6, <3>1
    <3>4. f[s] = Insert(AgePairs, f[s \ {Max(s)}], list[Max(s)])
      BY <1>5, <3>1, <3>2, <3>3
    <3> QED
      BY <1>1, <1>3, <3>1, <3>3, <3>4
  <2>2. f[{}] = <<>>
    BY <1>6 DEF IsFold
  <2> QED
    BY <1>1, <1>6, <2>1, <2>2
<1>8. Equation(iter)
  BY <1>7
<1> HIDE DEF iter
<1>9. F[0] = <<>>
  <2>1. 1..0 = {} /\ {} \in SUBSET (DOMAIN list) /\ 0 \in 0..N
    BY <1>1
  <2> QED
    BY <1>8, <2>1
<1>10. ASSUME NEW n \in 1..N PROVE F[n] = InsertByAge(F[n - 1], list[n])
  <2>1. n \in 0..N /\ n - 1 \in 0..N /\ n \in Nat \ {0} /\ 1..n \in SUBSET (DOMAIN list)
    BY <1>1
  <2>2. Max(1..n) = n /\ (1..n) \ {n} = 1..(n - 1) /\ 1..n # {}
    BY <2>1, MaxOfInterval
  <2> QED
    BY <1>8, <2>1, <2>2
<1>11. F[N] = iter[DOMAIN list]
  BY <1>1
<1>12. DOMAIN F = 0..N /\ F = [n \in 0..N |-> F[n]]
  OBVIOUS
<1> HIDE DEF F
<1> DEFINE P == { n \in 0..N : F[n] \in A }
<1>13. 0 \in P
  BY <1>1, <1>9
<1>14. ASSUME NEW n \in 0..(N - 1), n \in P PROVE n + 1 \in P
  <2>1. n + 1 \in 1..N /\ n + 1 \in 0..N /\ (n + 1) - 1 = n /\ F[n] \in A
    BY <1>1, <1>14
  <2>2. F[n + 1] = InsertByAge(F[n], list[n + 1])
    BY <1>10, <2>1
  <2>3. F[n + 1] = Insert(AgePairs, F[n], list[n + 1])
    BY <1>1, <1>3, <2>1, <2>2
  <2> QED
    BY <1>4, <2>1, <2>3
<1> HIDE DEF P
<1>15. \A n \in 0..N : n \in P
  BY <1>1, <1>13, <1>14, UpTo
<1>16. \A n \in 0..N : F[n] \in A
  BY <1>15 DEF P
<1>17. ASSUME NEW n \in 1..N PROVE F[n] = Insert(AgePairs, F[n - 1], list[n])
  <2>1. n - 1 \in 0..N
    BY <1>1
  <2> QED
    BY <1>1, <1>3, <1>10, <1>16, <2>1
<1>18. F \in [0..N -> Seq(AnyPod)]
  BY <1>12, <1>16 DEF A
<1>19. IsSorting(F, AgePairs, list, AnyPod)
  BY <1>9, <1>17, <1>18 DEF IsSorting
<1> QED
  BY <1>2, <1>11, <1>19

(* A map of the first n positions that repeats no value, and one that misses *)
(* none of J.                                                                *)
Separates(g, n) == \A i, j \in 1..n : i # j => g[i] # g[j]
Covers(g, n, J) == \A x \in J : \E i \in 1..n : g[i] = x

LEMMA OntoPositions ==
  ASSUME NEW N \in Nat, NEW g \in [1..N -> 1..N], Separates(g, N)
  PROVE  Covers(g, N, 1..N)
<1>1. IsFiniteSet(1..N)
  BY FS_Interval
<1>2. g \in Injection(1..N, 1..N)
  BY DEF Injection, IsInjective, Separates
<1>3. g \in Surjection(1..N, 1..N)
  BY <1>1, <1>2, FS_Injection
<1> QED
  BY <1>3 DEF Surjection, Covers

(* A rearrangement of a whole list is a bijection of its positions. *)
IsPositionMap(g, t, list, N) ==
  /\ Separates(g, N) /\ Covers(g, N, 1..N)
  /\ \A i \in 1..N : t[i] = list[g[i]]

LEMMA PositionMap ==
  ASSUME NEW S, NEW list \in Seq(S), NEW N \in Nat, NEW t, IsRearrangement(t, list, N)
  PROVE  \E g \in [1..N -> 1..N] : IsPositionMap(g, t, list, N)
<1>2. PICK g \in [1..N -> 1..N] : Separates(g, N) /\ \A i \in 1..N : t[i] = list[g[i]]
  BY DEF IsRearrangement, Separates
<1>3. Covers(g, N, 1..N)
  BY <1>2, OntoPositions
<1> QED
  BY <1>2, <1>3 DEF IsPositionMap

(* A rearrangement of a whole list has the list's elements. *)
LEMMA RearrangedAll ==
  ASSUME NEW S, NEW list \in Seq(S), NEW t \in Seq(S), IsRearrangement(t, list, Len(list))
  PROVE  Elements(t) = Elements(list)
<1>1. PICK N \in Nat : N = Len(list)
  OBVIOUS
<1>2. DOMAIN list = 1..N /\ DOMAIN t = 1..N
  BY <1>1 DEF IsRearrangement
<1>3. PICK g \in [1..N -> 1..N] : IsPositionMap(g, t, list, N)
  BY <1>1, PositionMap
<1>4. ASSUME NEW x \in Elements(t) PROVE x \in Elements(list)
  BY <1>2, <1>3 DEF Elements, IsPositionMap
<1>5. ASSUME NEW x \in Elements(list) PROVE x \in Elements(t)
  <2>1. PICK i \in 1..N : x = list[i]
    BY <1>2 DEF Elements
  <2>2. PICK j \in 1..N : g[j] = i
    BY <1>3 DEF Covers, IsPositionMap
  <2>3. x = t[j]
    BY <1>3, <2>1, <2>2 DEF IsPositionMap
  <2> QED
    BY <1>2, <2>3 DEF Elements
<1> QED
  BY <1>4, <1>5

(* Sort(Less, _) rearranges any list of pods, and sorts it as long as at most *)
(* one of them is cordoned.                                                   *)
LEMMA SortRearranges ==
  ASSUME NEW list \in Seq(AnyPod)
  PROVE  /\ Sort(Less, list) \in Seq(AnyPod)
         /\ IsRearrangement(Sort(Less, list), list, Len(list))
<1>1. PICK F : IsSorting(F, LessPairs, list, AnyPod) /\ Sort(Less, list) = F[Len(list)]
  BY SortByLess
<1>2. Len(list) \in 0..Len(list)
  OBVIOUS
<1>3. IsRearrangement(F[Len(list)], list, Len(list))
  BY <1>1, <1>2, SortingRearranges
<1> QED
  BY <1>1, <1>2, <1>3 DEF IsSorting

LEMMA SortByAgeRearranges ==
  ASSUME NEW list \in Seq(AnyPod)
  PROVE  /\ Sort(CreatedBefore, list) \in Seq(AnyPod)
         /\ IsRearrangement(Sort(CreatedBefore, list), list, Len(list))
<1>1. PICK F : IsSorting(F, AgePairs, list, AnyPod) /\ Sort(CreatedBefore, list) = F[Len(list)]
  BY SortByAge
<1>2. Len(list) \in 0..Len(list)
  OBVIOUS
<1>3. IsRearrangement(F[Len(list)], list, Len(list))
  BY <1>1, <1>2, SortingRearranges
<1> QED
  BY <1>1, <1>2, <1>3 DEF IsSorting

LEMMA PodListsNoRepeats ==
  ASSUME NEW list, IsPodList(list)
  PROVE  list \in Seq(AnyPod) /\ HasNoRepeats(list)
BY DEF IsPodList, HasNoRepeats

LEMMA LessIsWeakOrder ==
  ASSUME NEW list, IsPodList(list), Cardinality(Cordoned(list)) <= 1
  PROVE  IsWeakOrder(LessPairs, Elements(list))
<1> DEFINE X == Elements(list)
<1>1. list \in Seq(AnyPod) /\ X \subseteq AnyPod
  BY PodListsNoRepeats, ElementsFinite
<1>2. \A a, b \in X : a # b => ~(a.cordon /\ b.cordon)
  BY <1>1, OneCordoned
<1>3. \A a, b \in X : <<a, b>> \in LessPairs <=> Less(a, b)
  BY <1>1 DEF LessPairs
<1> HIDE DEF X
<1>4. ASSUME NEW a \in X, NEW b \in X, a # b
      PROVE  ~(<<a, b>> \in LessPairs /\ <<b, a>> \in LessPairs)
  <2>1. a \in AnyPod /\ b \in AnyPod /\ ~(a.cordon /\ b.cordon)
    BY <1>1, <1>2, <1>4
  <2>2. ~(Less(a, b) /\ Less(b, a))
    BY <2>1, LessAsymmetric
  <2> QED
    BY <1>3, <2>2
<1>5. ASSUME NEW a \in X, NEW b \in X, NEW c \in X, a # b, b # c, a # c,
             ~(<<a, b>> \in LessPairs), ~(<<b, c>> \in LessPairs)
      PROVE  ~(<<a, c>> \in LessPairs)
  <2>1. /\ a \in AnyPod /\ b \in AnyPod /\ c \in AnyPod
        /\ ~(a.cordon /\ b.cordon) /\ ~(b.cordon /\ c.cordon) /\ ~(a.cordon /\ c.cordon)
    BY <1>1, <1>2, <1>5
  <2>2. ~Less(a, b) /\ ~Less(b, c)
    BY <1>3, <1>5
  <2>3. ~Less(a, c)
    BY <2>1, <2>2, LessTransitive
  <2> QED
    BY <1>3, <2>3
<1> QED
  BY <1>4, <1>5 DEF IsWeakOrder, X

LEMMA SortSorts ==
  ASSUME NEW list, IsPodList(list), Cardinality(Cordoned(list)) <= 1
  PROVE  IsInOrder(Sort(Less, list), LessPairs, Len(list))
<1>1. list \in Seq(AnyPod) /\ HasNoRepeats(list) /\ Len(list) \in 0..Len(list)
  BY PodListsNoRepeats
<1>2. PICK F : IsSorting(F, LessPairs, list, AnyPod) /\ Sort(Less, list) = F[Len(list)]
  BY <1>1, SortByLess
<1>3. IsWeakOrder(LessPairs, Elements(list))
  BY LessIsWeakOrder
<1> QED
  BY <1>1, <1>2, <1>3, SortingSorts

-----------------------------------------------------------------------------
(* SplitActivePods *)

LEMMA PairBounds ==
  ASSUME NEW a \in Int, NEW b \in Int
  PROVE  /\ Min({a, b}) = IF a <= b THEN a ELSE b
         /\ Max({a, b}) = IF a >= b THEN a ELSE b
<1>1. {a, b} \in SUBSET Int
  OBVIOUS
<1>2. CASE a <= b
  <2>1. Min({a, b}) = a
    BY <1>1, <1>2, MinIs
  <2>2. Max({a, b}) = b
    BY <1>1, <1>2, MaxIs
  <2> QED
    BY <1>2, <2>1, <2>2
<1>3. CASE b < a
  <2>1. Min({a, b}) = b
    BY <1>1, <1>3, MinIs
  <2>2. Max({a, b}) = a
    BY <1>1, <1>3, MaxIs
  <2> QED
    BY <1>3, <2>1, <2>2
<1> QED
  BY <1>2, <1>3

(* The number of pods that a request for v of n gets. *)
Granted(v, n) == IF v <= 0 THEN 0 ELSE IF v >= n THEN n ELSE v

LEMMA ClampGrants ==
  ASSUME NEW v \in Int, NEW n \in Nat
  PROVE  /\ Clamp(v, 0, n) = Granted(v, n)
         /\ Max({0, Min({v, n})}) = Granted(v, n)
         /\ Granted(v, n) \in 0..n
<1>1. Min({0, n}) = 0 /\ Max({0, n}) = n
  BY PairBounds
<1>2. Max({v, 0}) = IF v >= 0 THEN v ELSE 0
  BY PairBounds
<1>3. Max({v, 0}) \in Int
  BY <1>2
<1>4. Min({Max({v, 0}), n}) = IF Max({v, 0}) <= n THEN Max({v, 0}) ELSE n
  BY <1>3, PairBounds
<1>5. Clamp(v, 0, n) = Min({Max({v, 0}), n})
  BY <1>1 DEF Clamp
<1>6. Min({v, n}) = IF v <= n THEN v ELSE n
  BY PairBounds
<1>7. Min({v, n}) \in Int
  BY <1>6
<1>8. Max({0, Min({v, n})}) = IF 0 >= Min({v, n}) THEN 0 ELSE Min({v, n})
  BY <1>7, PairBounds
<1>9. Clamp(v, 0, n) = Granted(v, n)
  BY <1>2, <1>4, <1>5 DEF Granted
<1>10. Max({0, Min({v, n})}) = Granted(v, n)
  BY <1>6, <1>8 DEF Granted
<1> QED
  BY <1>9, <1>10 DEF Granted

(* Cutting a list of n elements after the first k. *)
LEMMA CutList ==
  ASSUME NEW S, NEW t \in Seq(S), NEW k \in 0..Len(t)
  PROVE  /\ SubSeq(t, 1, k) \in Seq(S) /\ Len(SubSeq(t, 1, k)) = k
         /\ \A i \in 1..k : SubSeq(t, 1, k)[i] = t[i]
         /\ SubSeq(t, k + 1, Len(t)) \in Seq(S) /\ Len(SubSeq(t, k + 1, Len(t))) = Len(t) - k
         /\ \A i \in 1..(Len(t) - k) : SubSeq(t, k + 1, Len(t))[i] = t[k + i]
<1> DEFINE n == Len(t)
<1>1. n \in Nat /\ k \in Int /\ \A i \in 1..n : t[i] \in S
  OBVIOUS
<1>2. \A i \in 1..k : t[i] \in S
  BY <1>1
<1>3. /\ SubSeq(t, 1, k) \in Seq(S)
      /\ Len(SubSeq(t, 1, k)) = IF 1 <= k THEN k - 1 + 1 ELSE 0
      /\ \A i \in 1..(k - 1 + 1) : SubSeq(t, 1, k)[i] = t[1 + i - 1]
  BY <1>1, <1>2, SubSeqProperties
<1>4. Len(SubSeq(t, 1, k)) = k /\ \A i \in 1..k : SubSeq(t, 1, k)[i] = t[i]
  BY <1>1, <1>3
<1>5. \A i \in (k + 1)..n : t[i] \in S
  BY <1>1
<1>6. /\ SubSeq(t, k + 1, n) \in Seq(S)
      /\ Len(SubSeq(t, k + 1, n)) = IF k + 1 <= n THEN n - (k + 1) + 1 ELSE 0
      /\ \A i \in 1..(n - (k + 1) + 1) : SubSeq(t, k + 1, n)[i] = t[(k + 1) + i - 1]
  BY <1>1, <1>5, SubSeqProperties
<1>7. Len(SubSeq(t, k + 1, n)) = n - k /\ \A i \in 1..(n - k) : SubSeq(t, k + 1, n)[i] = t[k + i]
  BY <1>1, <1>6
<1> QED
  BY <1>3, <1>4, <1>6, <1>7

(* The elements of the two parts, in terms of the positions of the list. *)
LEMMA CutElements ==
  ASSUME NEW S, NEW t \in Seq(S), NEW k \in 0..Len(t)
  PROVE  /\ Elements(SubSeq(t, 1, k)) = { t[i] : i \in 1..k }
         /\ Elements(SubSeq(t, k + 1, Len(t))) = { t[i] : i \in (k + 1)..Len(t) }
         /\ Elements(t) = Elements(SubSeq(t, 1, k)) \union Elements(SubSeq(t, k + 1, Len(t)))
<1> DEFINE n == Len(t)  u == SubSeq(t, 1, k)  v == SubSeq(t, k + 1, Len(t))
<1>1. n \in Nat /\ k \in Nat /\ DOMAIN t = 1..n
  OBVIOUS
<1>2. /\ u \in Seq(S) /\ Len(u) = k /\ \A i \in 1..k : u[i] = t[i]
      /\ v \in Seq(S) /\ Len(v) = n - k /\ \A i \in 1..(n - k) : v[i] = t[k + i]
  BY CutList
<1>3. DOMAIN u = 1..k /\ DOMAIN v = 1..(n - k)
  BY <1>2
<1> HIDE DEF n, u, v
<1>4. Elements(u) = { t[i] : i \in 1..k }
  <2>1. Elements(u) = { u[i] : i \in 1..k }
    BY <1>3 DEF Elements
  <2> QED
    BY <1>2, <2>1
<1>5. Elements(v) = { t[i] : i \in (k + 1)..n }
  <2>1. ASSUME NEW x \in Elements(v) PROVE x \in { t[i] : i \in (k + 1)..n }
    <3>1. PICK i \in 1..(n - k) : x = t[k + i]
      BY <1>2, <1>3 DEF Elements
    <3>2. k + i \in (k + 1)..n
      BY <1>1
    <3> QED
      BY <3>1, <3>2
  <2>2. ASSUME NEW i \in (k + 1)..n PROVE t[i] \in Elements(v)
    <3>1. i - k \in 1..(n - k) /\ k + (i - k) = i
      BY <1>1
    <3>2. v[i - k] = t[i] /\ i - k \in DOMAIN v
      BY <1>2, <1>3, <3>1
    <3> QED
      BY <3>2 DEF Elements
  <2> QED
    BY <2>1, <2>2
<1>6. \A i \in 1..n : i \in 1..k \/ i \in (k + 1)..n
  BY <1>1
<1>7. k <= n
  BY DEF n
<1>8. \A i : i \in 1..k \/ i \in (k + 1)..n => i \in 1..n
  BY <1>1, <1>7
<1>9. Elements(t) = { t[i] : i \in 1..n }
  BY <1>1 DEF Elements
<1>10. Elements(t) = Elements(u) \union Elements(v)
  BY <1>4, <1>5, <1>6, <1>8, <1>9
<1> QED
  BY <1>4, <1>5, <1>10 DEF n, u, v

(* What a split is made of: the sorted list, cut after the granted number. *)
LEMMA SplitParts ==
  ASSUME NEW list \in Seq(AnyPod), NEW partition \in Int
  PROVE  LET t == Sort(Less, list)
             k == Granted(partition, Len(list))
             split == SplitActivePods(list, partition)
         IN  /\ t \in Seq(AnyPod) /\ Len(t) = Len(list) /\ k \in 0..Len(list)
             /\ split.pods1 = SubSeq(t, 1, k) /\ split.pods2 = SubSeq(t, k + 1, Len(t))
             /\ Len(split.pods1) = k /\ Len(split.pods2) = Len(list) - k
             /\ split.pods1 \in Seq(AnyPod) /\ split.pods2 \in Seq(AnyPod)
             /\ Elements(split.pods1) = { t[i] : i \in 1..k }
             /\ Elements(split.pods2) = { t[i] : i \in (k + 1)..Len(list) }
             /\ Elements(split.pods1) \union Elements(split.pods2) = Elements(list)
<1> DEFINE t == Sort(Less, list)
           k == Granted(partition, Len(list))
           split == SplitActivePods(list, partition)
<1>1. t \in Seq(AnyPod) /\ IsRearrangement(t, list, Len(list))
  BY SortRearranges
<1>2. Len(t) = Len(list) /\ Len(list) \in Nat
  BY <1>1 DEF IsRearrangement
<1>3. Clamp(partition, 0, Len(list)) = k /\ k \in 0..Len(list)
  BY <1>2, ClampGrants
<1>4. split.pods1 = SubSeq(t, 1, k) /\ split.pods2 = SubSeq(t, k + 1, Len(t))
  BY <1>3 DEF SplitActivePods
<1>5. Elements(t) = Elements(list)
  BY <1>1, RearrangedAll
<1> HIDE DEF t, k, split
<1>6. k \in 0..Len(t)
  BY <1>2, <1>3
<1>7. /\ SubSeq(t, 1, k) \in Seq(AnyPod) /\ Len(SubSeq(t, 1, k)) = k
      /\ SubSeq(t, k + 1, Len(t)) \in Seq(AnyPod) /\ Len(SubSeq(t, k + 1, Len(t))) = Len(t) - k
  BY <1>1, <1>6, CutList
<1>8. /\ Elements(SubSeq(t, 1, k)) = { t[i] : i \in 1..k }
      /\ Elements(SubSeq(t, k + 1, Len(t))) = { t[i] : i \in (k + 1)..Len(t) }
      /\ Elements(t) = Elements(SubSeq(t, 1, k)) \union Elements(SubSeq(t, k + 1, Len(t)))
  BY <1>1, <1>6, CutElements
<1>9. /\ Len(split.pods1) = k /\ Len(split.pods2) = Len(list) - k
      /\ split.pods1 \in Seq(AnyPod) /\ split.pods2 \in Seq(AnyPod)
  BY <1>2, <1>4, <1>7
<1>10. /\ Elements(split.pods1) = { t[i] : i \in 1..k }
       /\ Elements(split.pods2) = { t[i] : i \in (k + 1)..Len(list) }
       /\ Elements(split.pods1) \union Elements(split.pods2) = Elements(list)
  BY <1>2, <1>4, <1>5, <1>8
<1> QED
  BY <1>1, <1>2, <1>3, <1>4, <1>9, <1>10 DEF t, k, split

(* No pod is taken while one that is less stays. *)
LEMMA SplitOrdered ==
  ASSUME NEW list, IsPodList(list), Cardinality(Cordoned(list)) <= 1, NEW partition \in Int,
         NEW d \in Elements(SplitActivePods(list, partition).pods1),
         NEW e \in Elements(SplitActivePods(list, partition).pods2)
  PROVE  ~Less(e, d)
<1> DEFINE t == Sort(Less, list)
           k == Granted(partition, Len(list))
           N == Len(list)
<1>1. list \in Seq(AnyPod)
  BY PodListsNoRepeats
<1>2. /\ t \in Seq(AnyPod) /\ Len(t) = N /\ k \in 0..N
      /\ Elements(SplitActivePods(list, partition).pods1) = { t[i] : i \in 1..k }
      /\ Elements(SplitActivePods(list, partition).pods2) = { t[i] : i \in (k + 1)..N }
  BY <1>1, SplitParts
<1>3. IsInOrder(t, LessPairs, N)
  BY SortSorts
<1>4. N \in Nat
  BY <1>1
<1> HIDE DEF t, k, N
<1>5. PICK i \in 1..k, j \in (k + 1)..N : d = t[i] /\ e = t[j]
  BY <1>2
<1>6. i \in 1..N /\ j \in 1..N /\ i < j
  BY <1>2, <1>4
<1>7. ~(<<e, d>> \in LessPairs)
  BY <1>3, <1>5, <1>6 DEF IsInOrder
<1>8. d \in AnyPod /\ e \in AnyPod
  BY <1>2, <1>5, <1>6
<1> QED
  BY <1>7, <1>8 DEF LessPairs

(* On every list of pods SplitActivePods takes as many as asked for, the most *)
(* deletable ones, and loses none: for any length of list and any request.    *)
THEOREM ListsSplit == IsPodList(pods) => SplitTakesMostDeletable
<1> SUFFICES ASSUME IsPodList(pods), Cardinality(Cordoned(pods)) <= 1,
                    NEW partition \in -1..(MaxPods + 1)
             PROVE  LET split == SplitActivePods(pods, partition)
                    IN  /\ Len(split.pods1) = Max({0, Min({partition, Len(pods)})})
                        /\ Elements(split.pods1) \union Elements(split.pods2) = Elements(pods)
                        /\ Len(split.pods1) + Len(split.pods2) = Len(pods)
                        /\ \A d \in Elements(split.pods1), k \in Elements(split.pods2) : ~Less(k, d)
  BY DEF SplitTakesMostDeletable
<1> DEFINE split == SplitActivePods(pods, partition)
           g == Granted(partition, Len(pods))
<1>1. partition \in Int /\ pods \in Seq(AnyPod) /\ Len(pods) \in Nat
  BY BoundsAssumption, PodListsNoRepeats
<1>2. /\ g \in 0..Len(pods) /\ Len(split.pods1) = g /\ Len(split.pods2) = Len(pods) - g
      /\ Elements(split.pods1) \union Elements(split.pods2) = Elements(pods)
  BY <1>1, SplitParts
<1>3. Max({0, Min({partition, Len(pods)})}) = g
  BY <1>1, ClampGrants
<1>4. \A d \in Elements(split.pods1), k \in Elements(split.pods2) : ~Less(k, d)
  BY <1>1, SplitOrdered
<1> HIDE DEF g, split
<1>5. Len(split.pods1) + Len(split.pods2) = Len(pods)
  BY <1>1, <1>2
<1> QED
  BY <1>2, <1>3, <1>4, <1>5 DEF split

-----------------------------------------------------------------------------
(* The selection again, while the selected pods are being drained *)

(* A cordoned copy of a pod that was not more deletable comes first. *)
LEMMA CordonedFirst ==
  ASSUME NEW p \in AnyPod, NEW q \in AnyPod, ~p.cordon, ~q.cordon, ~Less(q, p)
  PROVE  LET a == [p EXCEPT !.cordon = TRUE]
         IN  Less(a, q) /\ ~Less(q, a)
<1> DEFINE a == [p EXCEPT !.cordon = TRUE]
<1>1. /\ a \in AnyPod /\ a.cordon /\ a.assigned = p.assigned /\ a.phase = p.phase
      /\ a.ready = p.ready /\ a.cost = p.cost /\ a.deadline = p.deadline
  BY DEF AnyPod
<1>2. podPhaseToWeight(a) = podPhaseToWeight(p)
  BY <1>1 DEF podPhaseToWeight
<1> HIDE DEF a
<1>3. /\ podPhaseToWeight(p) \in Nat /\ podPhaseToWeight(q) \in Nat
      /\ p.cost \in Int /\ q.cost \in Int /\ p.deadline \in Int /\ q.deadline \in Int
  BY WeightType DEF AnyPod
<1>4. /\ p.assigned \in BOOLEAN /\ q.assigned \in BOOLEAN /\ p.ready \in BOOLEAN
      /\ q.ready \in BOOLEAN /\ a.cordon
  BY <1>1 DEF AnyPod
<1>5. ~LessChain(q, p)
  BY LessIsChain
<1>6. LessChain(a, q) /\ ~LessChain(q, a)
  BY <1>1, <1>2, <1>3, <1>4, <1>5 DEF LessChain
<1> QED
  BY <1>1, <1>6, LessIsChain DEF a

(* Two injections of initial segments onto the same set have the same length. *)
LEMMA SameLength ==
  ASSUME NEW m \in Nat, NEW k \in Nat, NEW J, NEW g \in [1..m -> J], NEW h \in [1..k -> J],
         Separates(g, m), Covers(g, m, J), Separates(h, k), Covers(h, k, J)
  PROVE  m = k
<1>1. g \in Bijection(1..m, J) /\ h \in Bijection(1..k, J)
  BY DEF Bijection, Injection, Surjection, IsInjective, Separates, Covers
<1>2. ExistsBijection(1..m, J) /\ ExistsBijection(1..k, J)
  BY <1>1 DEF ExistsBijection
<1>3. /\ IsFiniteSet(1..m) /\ Cardinality(1..m) = m
      /\ IsFiniteSet(1..k) /\ Cardinality(1..k) = k
  BY FS_Interval
<1>4. Cardinality(J) = Cardinality(1..m)
  BY <1>2, <1>3, FS_Bijection
<1>5. Cardinality(J) = Cardinality(1..k)
  BY <1>2, <1>3, FS_Bijection
<1> QED
  BY <1>3, <1>4, <1>5

(* The list of a later pass: the same pods in another order, the chosen ones   *)
(* cordoned.  Position i of the new order is pod h[i] of the old list.         *)
IsLaterOrder(f, again, list, chosen, N) ==
  /\ Separates(f, N)
  /\ \A i \in 1..N : again[i] = IF list[f[i]] \in chosen THEN [list[f[i]] EXCEPT !.cordon = TRUE]
                                ELSE list[f[i]]

IsOrderOf(f, again, c, N) == Separates(f, N) /\ again = [i \in 1..N |-> c[f[i]]]

LEMMA OrdersOf ==
  ASSUME NEW N \in Nat, NEW c, DOMAIN c = 1..N, NEW again \in Orders(c)
  PROVE  \E f \in [1..N -> 1..N] : IsOrderOf(f, again, c, N)
<1> DEFINE D == DOMAIN c
<1>1. PICK f \in { g \in [D -> D] : \A i, j \in D : i # j => g[i] # g[j] } :
         again = [i \in D |-> c[f[i]]]
  BY Zenon DEF Orders
<1>2. D = 1..N
  OBVIOUS
<1> HIDE DEF D
<1>3. f \in [1..N -> 1..N] /\ again = [i \in 1..N |-> c[f[i]]]
  BY <1>1, <1>2
<1>4. Separates(f, N)
  BY <1>1, <1>2 DEF Separates
<1> QED
  BY <1>3, <1>4 DEF IsOrderOf

LEMMA LaterList ==
  ASSUME NEW list, IsPodList(list), Cordoned(list) = {}, NEW chosen, NEW N \in Nat,
         N = Len(list), NEW again \in Orders(Cordon(list, chosen))
  PROVE  /\ again \in Seq(AnyPod) /\ Len(again) = N
         /\ \E f \in [1..N -> 1..N] : IsLaterOrder(f, again, list, chosen, N)
<1> DEFINE cl == Cordon(list, chosen)
<1>1. list \in Seq(AnyPod) /\ N \in Nat /\ DOMAIN list = 1..N /\ DOMAIN cl = 1..N
  BY PodListsNoRepeats DEF Cordon
<1>2. ASSUME NEW i \in 1..N
      PROVE  /\ cl[i] = IF list[i] \in chosen THEN [list[i] EXCEPT !.cordon = TRUE] ELSE list[i]
             /\ cl[i] \in AnyPod
  <2>1. list[i] \in AnyPod /\ list[i] \in Elements(list)
    BY <1>1 DEF Elements
  <2>2. ~list[i].cordon
    BY <2>1 DEF Cordoned
  <2>3. list[i].cordon \in BOOLEAN
    BY <2>1 DEF AnyPod
  <2>4. list[i].cordon = FALSE
    BY <2>2, <2>3
  <2>5. cl[i] = [list[i] EXCEPT !.cordon = list[i].cordon \/ list[i] \in chosen]
    BY <1>1 DEF Cordon
  <2>6. CASE list[i] \in chosen
    <3>1. (list[i].cordon \/ list[i] \in chosen) = TRUE
      BY <2>6
    <3>2. cl[i] = [list[i] EXCEPT !.cordon = TRUE]
      BY <2>5, <3>1
    <3> QED
      BY <2>1, <2>6, <3>2 DEF AnyPod
  <2>7. CASE list[i] \notin chosen
    <3>1. (list[i].cordon \/ list[i] \in chosen) = FALSE
      BY <2>2, <2>7
    <3>2. cl[i] = [list[i] EXCEPT !.cordon = FALSE]
      BY <2>5, <3>1
    <3>3. [list[i] EXCEPT !.cordon = FALSE] = list[i]
      BY <2>1, <2>4 DEF AnyPod
    <3> QED
      BY <2>1, <2>7, <3>2, <3>3
  <2> QED
    BY <2>6, <2>7
<1>3. PICK f \in [1..N -> 1..N] : /\ Separates(f, N)
                                  /\ again = [i \in 1..N |-> cl[f[i]]]
  <2>1. again \in Orders(cl)
    OBVIOUS
  <2> HIDE DEF cl
  <2>2. \E f \in [1..N -> 1..N] : IsOrderOf(f, again, cl, N)
    BY <1>1, <2>1, OrdersOf
  <2> QED
    BY <2>2 DEF IsOrderOf
<1>4. again \in [1..N -> AnyPod] /\ \A i \in 1..N : again[i] = cl[f[i]]
  BY <1>2, <1>3
<1>5. again \in Seq(AnyPod) /\ Len(again) = N
  BY <1>1, <1>4
<1> HIDE DEF cl
<1>6. \A i \in 1..N :
         again[i] = IF list[f[i]] \in chosen THEN [list[f[i]] EXCEPT !.cordon = TRUE] ELSE list[f[i]]
  BY <1>2, <1>3, <1>4
<1> QED
  BY <1>3, <1>5, <1>6 DEF IsLaterOrder

(* A cordoned copy has the name of its pod. *)
LEMMA CordonedCopy ==
  ASSUME NEW p \in AnyPod
  PROVE  /\ [p EXCEPT !.cordon = TRUE].name = p.name
         /\ [p EXCEPT !.cordon = TRUE].cordon = TRUE
         /\ [p EXCEPT !.cordon = TRUE] \in AnyPod
BY DEF AnyPod

LEMMA StickySelection ==
  ASSUME NEW list, IsPodList(list), Cordoned(list) = {}, NEW N \in Nat, N = Len(list),
         NEW k \in 1..N,
         NEW again \in Orders(Cordon(list, Elements(SplitActivePods(list, k).pods1)))
  PROVE  Names(SplitActivePods(again, k).pods1)
           = { p.name : p \in Elements(SplitActivePods(list, k).pods1) }
<1> DEFINE chosen == Elements(SplitActivePods(list, k).pods1)
           t == Sort(Less, list)
           u == Sort(Less, again)
<1>1. /\ list \in Seq(AnyPod) /\ HasNoRepeats(list) /\ N \in Nat /\ DOMAIN list = 1..N
      /\ k \in Int /\ k \in Nat /\ k \in 1..N
  BY PodListsNoRepeats
<1>2. Granted(k, N) = k
  BY <1>1 DEF Granted
<1>3. /\ t \in Seq(AnyPod) /\ Len(t) = N
      /\ chosen = { t[i] : i \in 1..Granted(k, N) }
      /\ chosen \union Elements(SplitActivePods(list, k).pods2) = Elements(list)
  BY <1>1, SplitParts
<1>4. chosen = { t[i] : i \in 1..k } /\ chosen \in SUBSET Elements(list)
  BY <1>2, <1>3
<1>5. /\ again \in Seq(AnyPod) /\ Len(again) = N
      /\ \E f \in [1..N -> 1..N] : IsLaterOrder(f, again, list, chosen, N)
  <2>1. again \in Orders(Cordon(list, chosen))
    OBVIOUS
  <2> HIDE DEF chosen
  <2> QED
    BY <2>1, LaterList
<1>0. PICK f \in [1..N -> 1..N] : IsLaterOrder(f, again, list, chosen, N)
  BY <1>5
<1>6. /\ f \in [1..N -> 1..N] /\ Separates(f, N)
      /\ \A i \in 1..N :
            again[i] = IF list[f[i]] \in chosen THEN [list[f[i]] EXCEPT !.cordon = TRUE]
                       ELSE list[f[i]]
  BY <1>0 DEF IsLaterOrder
<1>7. /\ Len(u) = N /\ u \in Seq(AnyPod)
      /\ Elements(SplitActivePods(again, k).pods1) = { u[i] : i \in 1..Granted(k, N) }
  <2>1. /\ u \in Seq(AnyPod) /\ Len(u) = Len(again)
        /\ Elements(SplitActivePods(again, k).pods1) = { u[i] : i \in 1..Granted(k, Len(again)) }
    BY <1>1, <1>5, SplitParts
  <2> QED
    BY <1>5, <2>1
<1>8. Elements(SplitActivePods(again, k).pods1) = { u[i] : i \in 1..k }
  BY <1>2, <1>7
<1>9. \A p \in chosen, q \in Elements(list) : q \notin chosen => ~Less(q, p)
  <2>1. Cardinality(Cordoned(list)) <= 1
    BY FS_EmptySet
  <2>2. ASSUME NEW p \in chosen, NEW q \in Elements(list), q \notin chosen
        PROVE  ~Less(q, p)
    <3>1. q \in Elements(SplitActivePods(list, k).pods2)
      BY <1>3, <2>2
    <3> QED
      BY <1>1, <2>1, <3>1, SplitOrdered
  <2> QED
    BY <2>2
<1> HIDE DEF chosen
<1> DEFINE C == { x \in AnyPod : x.cordon }
<1>10. ASSUME NEW i \in 1..N
       PROVE  /\ list[i] \in AnyPod /\ ~list[i].cordon /\ list[i] \in Elements(list)
  BY <1>1 DEF Elements, Cordoned
<1>11. ASSUME NEW i \in 1..N
       PROVE  /\ again[i] \in AnyPod /\ again[i].name = list[f[i]].name
              /\ again[i] \in C <=> list[f[i]] \in chosen
  <2>1. f[i] \in 1..N /\ list[f[i]] \in AnyPod /\ ~list[f[i]].cordon
    BY <1>6, <1>10
  <2>2. CASE list[f[i]] \in chosen
    <3>1. again[i] = [list[f[i]] EXCEPT !.cordon = TRUE]
      BY <1>6, <2>2
    <3> QED
      BY <2>1, <2>2, <3>1, CordonedCopy
  <2>3. CASE list[f[i]] \notin chosen
    BY <1>6, <2>1, <2>3
  <2> QED
    BY <2>2, <2>3
<1>12. \A a, b \in Elements(again) :
          a \in C /\ b \notin C => <<a, b>> \in LessPairs /\ ~(<<b, a>> \in LessPairs)
  <2>1. ASSUME NEW a \in Elements(again), NEW b \in Elements(again), a \in C, b \notin C
        PROVE  <<a, b>> \in LessPairs /\ ~(<<b, a>> \in LessPairs)
    <3>1. PICK i \in 1..N : a = again[i]
      BY <1>5 DEF Elements
    <3>2. PICK j \in 1..N : b = again[j]
      BY <1>5 DEF Elements
    <3> DEFINE p == list[f[i]]  q == list[f[j]]
    <3>3. p \in chosen /\ q \notin chosen
      BY <1>11, <2>1, <3>1, <3>2
    <3>4. a = [p EXCEPT !.cordon = TRUE] /\ b = q
      BY <1>6, <3>1, <3>2, <3>3
    <3>5. p \in AnyPod /\ q \in AnyPod /\ ~p.cordon /\ ~q.cordon /\ q \in Elements(list)
      BY <1>6, <1>10
    <3>6. ~Less(q, p)
      BY <1>9, <3>3, <3>5
    <3>7. Less(a, b) /\ ~Less(b, a)
      BY <3>4, <3>5, <3>6, CordonedFirst
    <3>8. a \in AnyPod /\ b \in AnyPod
      BY <1>11, <3>1, <3>2
    <3> QED
      BY <3>7, <3>8 DEF LessPairs
  <2> QED
    BY <2>1
<1>13. PICK m \in 0..N : \A i \in 1..N : u[i] \in C <=> i <= m
  <2>1. PICK F : IsSorting(F, LessPairs, again, AnyPod) /\ u = F[Len(again)]
    BY <1>5, SortByLess
  <2>2. Len(again) \in 0..Len(again)
    BY <1>1, <1>5
  <2>3. \A n \in 0..Len(again) : \E m \in 0..n : ComesFirst(F[n], C, m, n)
    <3> HIDE DEF C
    <3> QED
      BY <1>5, <1>12, <2>1, SortingGroups
  <2>4. \E m \in 0..Len(again) : ComesFirst(F[Len(again)], C, m, Len(again))
    BY <2>2, <2>3
  <2> QED
    BY <1>5, <2>1, <2>4 DEF ComesFirst
<1>14. \E g \in [1..N -> 1..N] : IsPositionMap(g, u, again, N)
  <2>1. IsRearrangement(u, again, N)
    BY <1>5, SortRearranges
  <2> HIDE DEF u
  <2> QED
    BY <1>5, <2>1, PositionMap
<1>24. PICK g \in [1..N -> 1..N] : /\ Separates(g, N) /\ Covers(g, N, 1..N)
                                   /\ \A i \in 1..N : u[i] = again[g[i]]
  BY <1>14 DEF IsPositionMap
<1>15. Covers(f, N, 1..N)
  BY <1>1, <1>6, OntoPositions
<1> DEFINE h == [i \in 1..N |-> f[g[i]]]
           J == { j \in 1..N : list[j] \in chosen }
<1>16. h \in [1..N -> 1..N] /\ Separates(h, N) /\ Covers(h, N, 1..N)
  <2>1. h \in [1..N -> 1..N]
    BY <1>6, <1>24
  <2>2. Separates(h, N)
    BY <1>6, <1>24 DEF Separates
  <2>3. ASSUME NEW x \in 1..N PROVE \E i \in 1..N : h[i] = x
    <3>1. PICK y \in 1..N : f[y] = x
      BY <1>15 DEF Covers
    <3>2. PICK i \in 1..N : g[i] = y
      BY <1>24 DEF Covers
    <3> QED
      BY <3>1, <3>2
  <2> QED
    BY <2>1, <2>2, <2>3 DEF Covers
<1>17. ASSUME NEW i \in 1..N
       PROVE  /\ u[i].name = list[h[i]].name
              /\ list[h[i]] \in chosen <=> i <= m
  <2>1. g[i] \in 1..N /\ u[i] = again[g[i]] /\ h[i] = f[g[i]]
    BY <1>24
  <2>2. u[i] \in C <=> list[h[i]] \in chosen
    BY <1>11, <2>1
  <2>3. u[i].name = list[h[i]].name
    BY <1>11, <2>1
  <2> QED
    BY <1>13, <2>2, <2>3
<1> HIDE DEF h, C
<1>18. m = k
  <2>1. PICK e \in [1..N -> 1..N] : /\ Separates(e, N) /\ Covers(e, N, 1..N)
                                    /\ \A i \in 1..N : t[i] = list[e[i]]
    <3>1. IsRearrangement(t, list, N)
      BY <1>1, SortRearranges
    <3>2. \E e \in [1..N -> 1..N] : IsPositionMap(e, t, list, N)
      <4> HIDE DEF t
      <4> QED
        BY <1>1, <3>1, PositionMap
    <3> QED
      BY <3>2 DEF IsPositionMap
  <2>2. m \in Nat /\ \A i \in 1..m : i \in 1..N
    BY <1>1, <1>13
  <2>3. \A i \in 1..k : i \in 1..N
    BY <1>1
  <2> DEFINE hm == [i \in 1..m |-> h[i]]
             ek == [i \in 1..k |-> e[i]]
  <2>4. hm \in [1..m -> J] /\ Separates(hm, m)
    <3>1. ASSUME NEW i \in 1..m PROVE h[i] \in J
      <4>1. i \in 1..N /\ i <= m
        BY <2>2
      <4> QED
        BY <1>16, <1>17, <4>1
    <3> QED
      BY <1>16, <2>2, <3>1 DEF Separates
  <2>5. ASSUME NEW x \in J PROVE \E i \in 1..m : hm[i] = x
    <3>1. PICK i \in 1..N : h[i] = x
      BY <1>16 DEF Covers
    <3>2. i <= m
      BY <1>17, <3>1
    <3>3. i \in 1..m
      BY <2>2, <3>2
    <3> QED
      BY <3>1, <3>3
  <2>6. ek \in [1..k -> J] /\ Separates(ek, k)
    <3>1. ASSUME NEW i \in 1..k PROVE e[i] \in J
      <4>1. i \in 1..N /\ e[i] \in 1..N /\ list[e[i]] = t[i] /\ t[i] \in chosen
        BY <1>4, <2>1, <2>3
      <4> QED
        BY <4>1
    <3> QED
      BY <2>1, <2>3, <3>1 DEF Separates
  <2>7. ASSUME NEW x \in J PROVE \E i \in 1..k : ek[i] = x
    <3>1. PICK i \in 1..k : list[x] = t[i]
      BY <1>4
    <3>2. list[x] = list[e[i]] /\ x \in 1..N /\ e[i] \in 1..N
      BY <2>1, <2>3, <3>1
    <3>3. x = e[i]
      BY <1>1, <3>2 DEF HasNoRepeats
    <3> QED
      BY <3>3
  <2>8. Covers(hm, m, J) /\ Covers(ek, k, J)
    BY <2>5, <2>7 DEF Covers
  <2> HIDE DEF hm, ek, J
  <2> QED
    BY <1>1, <2>2, <2>4, <2>6, <2>8, SameLength
<1>19. Names(SplitActivePods(again, k).pods1) = { u[i].name : i \in 1..k }
  BY <1>8 DEF Names
<1>20. \A i \in 1..k : i \in 1..N
  BY <1>1
<1>21. ASSUME NEW i \in 1..k PROVE u[i].name \in { p.name : p \in chosen }
  <2>1. u[i].name = list[h[i]].name /\ list[h[i]] \in chosen
    BY <1>17, <1>18, <1>20
  <2> QED
    BY <2>1
<1>22. ASSUME NEW p \in chosen PROVE p.name \in { u[i].name : i \in 1..k }
  <2>1. PICK j \in 1..N : p = list[j]
    BY <1>1, <1>4 DEF Elements
  <2>2. PICK i \in 1..N : h[i] = j
    BY <1>16 DEF Covers
  <2>3. i <= k /\ u[i].name = p.name
    BY <1>17, <1>18, <2>1, <2>2
  <2>4. i \in 1..k
    BY <1>1, <2>3
  <2> QED
    BY <2>3, <2>4
<1>23. { u[i].name : i \in 1..k } = { p.name : p \in chosen }
  BY <1>21, <1>22
<1> QED
  BY <1>19, <1>23 DEF chosen

(* Until the pods selected by a scale-in are drained and gone, every pass over *)
(* the same pods selects them again, in whatever order the cache lists them:   *)
(* for lists of any length, though the comparator is no order on cordoned pods.*)
THEOREM ListsSticky == IsPodList(pods) => SelectionIsSticky
<1> SUFFICES ASSUME IsPodList(pods), Cordoned(pods) = {}, NEW partition \in 1..Len(pods),
                    NEW again \in Orders(Cordon(pods, Elements(SplitActivePods(pods, partition).pods1)))
             PROVE  Names(SplitActivePods(again, partition).pods1)
                      = { p.name : p \in Elements(SplitActivePods(pods, partition).pods1) }
  BY Zenon DEF SelectionIsSticky
<1>1. Len(pods) \in Nat
  BY PodListsNoRepeats
<1> QED
  BY <1>1, StickySelection

-----------------------------------------------------------------------------
(* Keep, the loops that append the pods they accept to a new list *)

Accepted(S, kept, pod) == IF pod \in S THEN Append(kept, pod) ELSE kept

(* F[n] is what the loop has kept of the first n pods. *)
IsKeeping(F, S, list) ==
    /\ F \in [0..Len(list) -> Seq(AnyPod)]
    /\ F[0] = <<>>
    /\ \A n \in 1..Len(list) : F[n] = Accepted(S, F[n - 1], list[n])

LEMMA KeepUnfolds ==
  ASSUME NEW list, NEW S
  PROVE  Keep(list, S) =
           (CHOOSE g : g = [s \in SUBSET (DOMAIN list) |->
                              IF s = {} THEN <<>>
                              ELSE Accepted(S, g[s \ {Max(s)}], list[Max(s)])])[DOMAIN list]
BY DEF Keep, FoldLeft, MapThenFoldSet, Accepted

LEMMA KeepSteps ==
  ASSUME NEW list \in Seq(AnyPod), NEW S
  PROVE  \E F : IsKeeping(F, S, list) /\ Keep(list, S) = F[Len(list)]
<1> DEFINE A == Seq(AnyPod)
           N == Len(list)
           Equation(g) ==
             g = [s \in SUBSET (DOMAIN list) |->
                    IF s = {} THEN <<>>
                    ELSE Accepted(S, g[s \ {Max(s)}], list[Max(s)])]
           iter == CHOOSE g : Equation(g)
           step == [x \in A \X (1..N) |-> Accepted(S, x[1], list[x[2]])]
           F == [n \in 0..N |-> iter[1..n]]
<1>1. N \in Nat /\ DOMAIN list = 1..N /\ <<>> \in A /\ \A i \in 1..N : list[i] \in AnyPod
  OBVIOUS
<1>2. Keep(list, S) = iter[DOMAIN list]
  BY KeepUnfolds
<1>4. ASSUME NEW kept \in A, NEW i \in 1..N
      PROVE  Accepted(S, kept, list[i]) \in A
  BY <1>1 DEF Accepted
<1>5. step \in [A \X (1..N) -> A] /\ \A x \in A \X (1..N) : step[x] = Accepted(S, x[1], list[x[2]])
  BY <1>4
<1> HIDE DEF step, A
<1>6. PICK f \in [SUBSET (1..N) -> A] : IsFold(f, <<>>, step, N)
  BY <1>1, <1>5, FoldExists
<1>7. Equation(f)
  <2>1. ASSUME NEW s \in SUBSET (1..N), s # {}
        PROVE  f[s] = Accepted(S, f[s \ {Max(s)}], list[Max(s)])
    <3>1. Max(s) \in 1..N /\ s \ {Max(s)} \in SUBSET (1..N)
      BY <1>1, <2>1, MaxOfIndices
    <3>2. f[s] = step[<<f[s \ {Max(s)}], Max(s)>>]
      BY <1>6, <2>1 DEF IsFold
    <3>3. f[s \ {Max(s)}] \in A
      BY <1>6, <3>1
    <3> QED
      BY <1>5, <3>1, <3>2, <3>3
  <2>2. f[{}] = <<>>
    BY <1>6 DEF IsFold
  <2> QED
    BY <1>1, <1>6, <2>1, <2>2
<1>8. Equation(iter)
  BY <1>7
<1> HIDE DEF iter
<1>9. F[0] = <<>>
  <2>1. 1..0 = {} /\ {} \in SUBSET (DOMAIN list) /\ 0 \in 0..N
    BY <1>1
  <2> QED
    BY <1>8, <2>1
<1>10. ASSUME NEW n \in 1..N PROVE F[n] = Accepted(S, F[n - 1], list[n])
  <2>1. n \in 0..N /\ n - 1 \in 0..N /\ n \in Nat \ {0} /\ 1..n \in SUBSET (DOMAIN list)
    BY <1>1
  <2>2. Max(1..n) = n /\ (1..n) \ {n} = 1..(n - 1) /\ 1..n # {}
    BY <2>1, MaxOfInterval
  <2>3. iter[1..n] = Accepted(S, iter[(1..n) \ {Max(1..n)}], list[Max(1..n)])
    BY <1>8, <2>1, <2>2
  <2> QED
    BY <2>1, <2>2, <2>3
<1>11. F[N] = iter[DOMAIN list]
  BY <1>1
<1>12. DOMAIN F = 0..N
  OBVIOUS
<1> HIDE DEF F
<1> DEFINE P == { n \in 0..N : F[n] \in A }
<1>13. 0 \in P
  BY <1>1, <1>9
<1>14. ASSUME NEW n \in 0..(N - 1), n \in P PROVE n + 1 \in P
  <2>1. n + 1 \in 1..N /\ n + 1 \in 0..N /\ (n + 1) - 1 = n /\ F[n] \in A
    BY <1>1, <1>14
  <2>2. F[n + 1] = Accepted(S, F[n], list[n + 1])
    BY <1>10, <2>1
  <2> QED
    BY <1>4, <2>1, <2>2
<1> HIDE DEF P
<1>15. \A n \in 0..N : n \in P
  BY <1>1, <1>13, <1>14, UpTo
<1>16. F \in [0..N -> A]
  <2>1. \A n \in 0..N : F[n] \in A
    BY <1>15 DEF P
  <2>2. F = [n \in 0..N |-> F[n]]
    BY <1>12 DEF F
  <2> QED
    BY <2>1, <2>2
<1>17. IsKeeping(F, S, list)
  BY <1>9, <1>10, <1>16 DEF IsKeeping, A
<1> QED
  BY <1>2, <1>11, <1>17

(* Appending to a list without repeats a pod it does not hold. *)
LEMMA AppendNew ==
  ASSUME NEW T, NEW kept \in Seq(T), NEW pod \in T
  PROVE  /\ Elements(Append(kept, pod)) = Elements(kept) \union {pod}
         /\ HasNoRepeats(kept) /\ pod \notin Elements(kept) => HasNoRepeats(Append(kept, pod))
<1> DEFINE new == Append(kept, pod)
           M == Len(kept)
<1>1. /\ M \in Nat /\ DOMAIN kept = 1..M /\ DOMAIN new = 1..(M + 1)
      /\ new[M + 1] = pod /\ \A i \in 1..M : new[i] = kept[i]
  OBVIOUS
<1> HIDE DEF new, M
<1>2. \A i \in 1..(M + 1) : i \in 1..M \/ i = M + 1
  BY <1>1
<1>3. M + 1 \in 1..(M + 1) /\ \A i \in 1..M : i \in 1..(M + 1) /\ i # M + 1
  BY <1>1
<1>4. Elements(new) = Elements(kept) \union {pod}
  BY <1>1, <1>2, <1>3 DEF Elements
<1>5. ASSUME HasNoRepeats(kept), pod \notin Elements(kept) PROVE HasNoRepeats(new)
  <2>1. \A i \in 1..M : kept[i] # pod
    BY <1>1, <1>5 DEF Elements
  <2> QED
    BY <1>1, <1>2, <1>5, <2>1 DEF HasNoRepeats
<1> QED
  BY <1>4, <1>5 DEF new

(* The pods kept are the pods of the list that the loop accepts, each once. *)
KeepsOf(kept, S, list, n) ==
    /\ Elements(kept) = { list[i] : i \in 1..n } \intersect S
    /\ HasNoRepeats(kept)

LEMMA KeepElements ==
  ASSUME NEW list \in Seq(AnyPod), HasNoRepeats(list), NEW S
  PROVE  /\ Keep(list, S) \in Seq(AnyPod)
         /\ Elements(Keep(list, S)) = Elements(list) \intersect S
         /\ HasNoRepeats(Keep(list, S))
<1>1. PICK F : IsKeeping(F, S, list) /\ Keep(list, S) = F[Len(list)]
  BY KeepSteps
<1> DEFINE N == Len(list)
           P == { n \in 0..N : KeepsOf(F[n], S, list, n) }
<1>2. /\ N \in Nat /\ DOMAIN list = 1..N /\ F \in [0..N -> Seq(AnyPod)] /\ F[0] = <<>>
      /\ \A n \in 1..N : F[n] = Accepted(S, F[n - 1], list[n])
  BY <1>1 DEF IsKeeping
<1> HIDE DEF N
<1>3. 0 \in P
  BY <1>2 DEF KeepsOf, Elements, HasNoRepeats
<1>4. ASSUME NEW n \in 0..(N - 1), n \in P PROVE n + 1 \in P
  <2> DEFINE kept == F[n]  pod == list[n + 1]
  <2>1. /\ n \in Nat /\ n \in 0..N /\ n + 1 \in 1..N /\ n + 1 \in 0..N /\ (n + 1) - 1 = n
        /\ kept \in Seq(AnyPod) /\ KeepsOf(kept, S, list, n)
    BY <1>2, <1>4
  <2>2. F[n + 1] = Accepted(S, kept, pod) /\ pod \in AnyPod
    <3>1. F[n + 1] = Accepted(S, F[(n + 1) - 1], list[n + 1])
      BY <1>2, <2>1
    <3>2. n + 1 \in DOMAIN list
      BY <1>2, <2>1
    <3>3. list[n + 1] \in AnyPod
      BY <3>2
    <3> QED
      BY <2>1, <3>1, <3>3
  <2>3. { list[i] : i \in 1..(n + 1) } = { list[i] : i \in 1..n } \union {pod}
    <3>1. /\ n + 1 \in 1..(n + 1) /\ \A i \in 1..n : i \in 1..(n + 1)
          /\ \A i \in 1..(n + 1) : i \in 1..n \/ i = n + 1
      BY <2>1
    <3> QED
      BY <3>1
  <2>4. pod \notin { list[i] : i \in 1..n }
    <3>1. \A i \in 1..n : i \in 1..N /\ i # n + 1
      BY <1>2, <2>1
    <3> QED
      BY <1>2, <2>1, <3>1 DEF HasNoRepeats
  <2>5. CASE pod \in S
    <3>1. F[n + 1] = Append(kept, pod)
      BY <2>2, <2>5 DEF Accepted
    <3>2. pod \notin Elements(kept) /\ HasNoRepeats(kept)
      BY <2>1, <2>4 DEF KeepsOf
    <3>3. /\ Elements(Append(kept, pod)) = Elements(kept) \union {pod}
          /\ HasNoRepeats(Append(kept, pod))
      BY <2>1, <2>2, <3>2, AppendNew
    <3> QED
      BY <2>1, <2>3, <2>5, <3>1, <3>3 DEF KeepsOf
  <2>6. CASE pod \notin S
    BY <2>1, <2>2, <2>3, <2>6 DEF KeepsOf, Accepted
  <2> QED
    BY <2>5, <2>6
<1> HIDE DEF P
<1>5. \A n \in 0..N : n \in P
  BY <1>2, <1>3, <1>4, UpTo
<1>6. KeepsOf(F[N], S, list, N) /\ F[N] \in Seq(AnyPod)
  BY <1>2, <1>5 DEF P
<1> QED
  BY <1>1, <1>2, <1>6 DEF KeepsOf, Elements, N

(* A list without repeats is as long as it has elements. *)
LEMMA NoRepeatsLength ==
  ASSUME NEW T, NEW list \in Seq(T), HasNoRepeats(list)
  PROVE  IsFiniteSet(Elements(list)) /\ Len(list) = Cardinality(Elements(list))
<1> DEFINE N == Len(list)
<1>1. N \in Nat /\ DOMAIN list = 1..N /\ list \in [1..N -> Elements(list)]
  BY DEF Elements
<1>2. list \in Bijection(1..N, Elements(list))
  BY <1>1 DEF Bijection, Injection, Surjection, IsInjective, HasNoRepeats, Elements
<1>3. ExistsBijection(1..N, Elements(list))
  BY <1>2 DEF ExistsBijection
<1>4. IsFiniteSet(1..N) /\ Cardinality(1..N) = N
  BY <1>1, FS_Interval
<1> QED
  BY <1>3, <1>4, FS_Bijection

-----------------------------------------------------------------------------
(* One pass of the rolling update *)

LEMMA JoinedLists ==
  ASSUME NEW T, NEW s \in Seq(T), NEW t \in Seq(T)
  PROVE  /\ s \o t \in Seq(T) /\ Len(s \o t) = Len(s) + Len(t)
         /\ Elements(s \o t) = Elements(s) \union Elements(t)
         /\ HasNoRepeats(s) /\ HasNoRepeats(t) /\ Elements(s) \intersect Elements(t) = {}
              => HasNoRepeats(s \o t)
<1> DEFINE M == Len(s)  N == Len(t)  j == s \o t
<1>1. /\ M \in Nat /\ N \in Nat /\ DOMAIN s = 1..M /\ DOMAIN t = 1..N
      /\ j \in Seq(T) /\ Len(j) = M + N /\ DOMAIN j = 1..(M + N)
      /\ \A i \in 1..(M + N) : j[i] = IF i <= M THEN s[i] ELSE t[i - M]
  OBVIOUS
<1> HIDE DEF M, N, j
<1>2. \A i \in 1..(M + N) : (i \in 1..M /\ i <= M) \/ (i - M \in 1..N /\ ~(i <= M))
  BY <1>1
<1>3. /\ \A i \in 1..M : i \in 1..(M + N) /\ i <= M
      /\ \A i \in 1..N : i + M \in 1..(M + N) /\ ~(i + M <= M) /\ (i + M) - M = i
  BY <1>1
<1>4. \A i \in 1..M : j[i] = s[i]
  BY <1>1, <1>3
<1>5. \A i \in 1..N : j[i + M] = t[i]
  BY <1>1, <1>3
<1>6. Elements(j) = Elements(s) \union Elements(t)
  <2>1. ASSUME NEW x \in Elements(j) PROVE x \in Elements(s) \union Elements(t)
    BY <1>1, <1>2 DEF Elements
  <2>2. ASSUME NEW x \in Elements(s) PROVE x \in Elements(j)
    BY <1>1, <1>3, <1>4 DEF Elements
  <2>3. ASSUME NEW x \in Elements(t) PROVE x \in Elements(j)
    <3>1. PICK i \in 1..N : x = t[i]
      BY <1>1 DEF Elements
    <3>2. i + M \in DOMAIN j /\ j[i + M] = x
      BY <1>1, <1>3, <1>5, <3>1
    <3> QED
      BY <3>2 DEF Elements
  <2> QED
    BY <2>1, <2>2, <2>3
<1>7. ASSUME HasNoRepeats(s), HasNoRepeats(t), Elements(s) \intersect Elements(t) = {}
      PROVE  HasNoRepeats(j)
  <2> SUFFICES ASSUME NEW a \in 1..(M + N), NEW b \in 1..(M + N), a # b PROVE j[a] # j[b]
    BY <1>1 DEF HasNoRepeats
  <2>1. \A x \in 1..M, y \in 1..N : s[x] # t[y]
    BY <1>1, <1>7 DEF Elements
  <2>2. CASE a <= M /\ b <= M
    <3>1. a \in 1..M /\ b \in 1..M
      BY <1>2, <2>2
    <3> QED
      BY <1>1, <1>4, <1>7, <3>1 DEF HasNoRepeats
  <2>3. CASE a <= M /\ ~(b <= M)
    <3>1. a \in 1..M /\ b - M \in 1..N /\ j[a] = s[a] /\ j[b] = t[b - M]
      BY <1>1, <1>2, <2>3
    <3> QED
      BY <2>1, <3>1
  <2>4. CASE ~(a <= M) /\ b <= M
    <3>1. b \in 1..M /\ a - M \in 1..N /\ j[b] = s[b] /\ j[a] = t[a - M]
      BY <1>1, <1>2, <2>4
    <3> QED
      BY <2>1, <3>1
  <2>5. CASE ~(a <= M) /\ ~(b <= M)
    <3>1. a - M \in 1..N /\ b - M \in 1..N /\ j[a] = t[a - M] /\ j[b] = t[b - M]
      BY <1>1, <1>2, <2>5
    <3>2. a - M # b - M
      BY <1>1
    <3> QED
      BY <1>1, <1>7, <3>1, <3>2 DEF HasNoRepeats
  <2> QED
    BY <2>2, <2>3, <2>4, <2>5
<1> QED
  BY <1>1, <1>6, <1>7 DEF j, M, N

LEMMA RearrangedNoRepeats ==
  ASSUME NEW S, NEW list \in Seq(S), HasNoRepeats(list), NEW t \in Seq(S),
         IsRearrangement(t, list, Len(list))
  PROVE  HasNoRepeats(t) /\ Len(t) = Len(list) /\ Elements(t) = Elements(list)
<1>1. Len(list) \in 0..Len(list)
  OBVIOUS
<1>2. /\ Len(t) = Len(list)
      /\ \A i, j \in 1..Len(list) : i # j => t[i] # t[j]
  BY <1>1, RearrangementElements
<1>3. Elements(t) = Elements(list)
  BY RearrangedAll
<1>4. DOMAIN t = 1..Len(list)
  BY <1>2
<1> QED
  BY <1>2, <1>3, <1>4 DEF HasNoRepeats

(* The two parts of a list without repeats share nothing and repeat nothing. *)
LEMMA CutNoRepeats ==
  ASSUME NEW S, NEW t \in Seq(S), HasNoRepeats(t), NEW k \in 0..Len(t)
  PROVE  LET u == SubSeq(t, 1, k)
             v == SubSeq(t, k + 1, Len(t))
         IN  /\ u \in Seq(S) /\ Len(u) = k /\ v \in Seq(S) /\ Len(v) = Len(t) - k
             /\ HasNoRepeats(u) /\ HasNoRepeats(v)
             /\ Elements(u) \intersect Elements(v) = {}
             /\ Elements(u) \union Elements(v) = Elements(t)
<1> DEFINE n == Len(t)  u == SubSeq(t, 1, k)  v == SubSeq(t, k + 1, Len(t))
<1>1. n \in Nat /\ k \in Nat /\ k <= n /\ DOMAIN t = 1..n
  OBVIOUS
<1>2. /\ u \in Seq(S) /\ Len(u) = k /\ \A i \in 1..k : u[i] = t[i]
      /\ v \in Seq(S) /\ Len(v) = n - k /\ \A i \in 1..(n - k) : v[i] = t[k + i]
  BY CutList
<1>3. Elements(u) \union Elements(v) = Elements(t)
  BY CutElements
<1> HIDE DEF u, v, n
<1>4. DOMAIN u = 1..k /\ DOMAIN v = 1..(n - k)
  BY <1>1, <1>2
<1>5. /\ \A i \in 1..k : i \in 1..n
      /\ \A i \in 1..(n - k) : k + i \in 1..n
      /\ \A i \in 1..k, j \in 1..(n - k) : i # k + j
      /\ \A i, j \in 1..(n - k) : i # j => k + i # k + j
  BY <1>1
<1>6. HasNoRepeats(u)
  BY <1>1, <1>2, <1>4, <1>5 DEF HasNoRepeats
<1>10. \A x, y \in 1..n : x # y => t[x] # t[y]
  BY <1>1 DEF HasNoRepeats
<1>7. HasNoRepeats(v)
  <2>1. ASSUME NEW i \in 1..(n - k), NEW j \in 1..(n - k), i # j PROVE v[i] # v[j]
    <3>1. k + i \in 1..n /\ k + j \in 1..n /\ k + i # k + j
      BY <1>5, <2>1
    <3>2. t[k + i] # t[k + j]
      BY <1>10, <3>1
    <3> QED
      BY <1>2, <3>2
  <2> QED
    BY <1>4, <2>1 DEF HasNoRepeats
<1>8. ASSUME NEW i \in 1..k, NEW j \in 1..(n - k) PROVE u[i] # v[j]
  <2>1. i \in 1..n /\ k + j \in 1..n /\ i # k + j
    BY <1>5
  <2>2. t[i] # t[k + j]
    BY <1>10, <2>1
  <2> QED
    BY <1>2, <2>2
<1>9. Elements(u) \intersect Elements(v) = {}
  BY <1>4, <1>8 DEF Elements
<1> QED
  BY <1>2, <1>3, <1>6, <1>7, <1>9 DEF u, v, n

(* Counting the positions of a list that hold a member of U counts members. *)
LEMMA CountedOnce ==
  ASSUME NEW T, NEW list \in Seq(T), HasNoRepeats(list), NEW U
  PROVE  /\ Cardinality({ i \in DOMAIN list : list[i] \in U })
              = Cardinality({ p \in Elements(list) : p \in U })
         /\ Cardinality({ i \in DOMAIN list : list[i] \in U }) \in 0..Len(list)
<1> DEFINE I == { i \in DOMAIN list : list[i] \in U }
           M == { p \in Elements(list) : p \in U }
           f == [i \in I |-> list[i]]
<1>1. DOMAIN list = 1..Len(list) /\ Len(list) \in Nat
  OBVIOUS
<1>2. IsFiniteSet(1..Len(list)) /\ Cardinality(1..Len(list)) = Len(list)
  BY <1>1, FS_Interval
<1>3. I \subseteq 1..Len(list)
  BY <1>1
<1>4. f \in Bijection(I, M)
  BY DEF Bijection, Injection, Surjection, IsInjective, HasNoRepeats, Elements
<1>5. ExistsBijection(I, M)
  BY <1>4 DEF ExistsBijection
<1> HIDE DEF I, M, f
<1>6. IsFiniteSet(I) /\ Cardinality(I) <= Len(list) /\ Cardinality(I) \in Nat
  BY <1>2, <1>3, FS_Subset, FS_CardinalityType
<1>7. Cardinality(I) = Cardinality(M)
  BY <1>5, <1>6, FS_Bijection
<1> QED
  BY <1>1, <1>6, <1>7 DEF I, M

LEMMA UpdatedPods ==
  ASSUME NEW list \in Seq(AnyPod), HasNoRepeats(list)
  PROVE  LET f == findUpdatedPods(list)
         IN  /\ f.newPods \in Seq(AnyPod) /\ HasNoRepeats(f.newPods)
             /\ Elements(f.newPods) = { p \in Elements(list) : ~p.term /\ p.updated }
             /\ f.oldPods \in Seq(AnyPod) /\ HasNoRepeats(f.oldPods)
             /\ Elements(f.oldPods) = { p \in Elements(list) : ~p.term /\ ~p.updated }
<1> DEFINE new == { p \in Range(list) : ~IsTerminating(p) /\ p.updated }
           old == { p \in Range(list) : ~IsTerminating(p) /\ ~p.updated }
<1>1. Range(list) = Elements(list)
  BY DEF Range, Elements
<1>2. /\ new = { p \in Elements(list) : ~p.term /\ p.updated }
      /\ old = { p \in Elements(list) : ~p.term /\ ~p.updated }
  BY <1>1 DEF IsTerminating
<1>3. findUpdatedPods(list).newPods = Keep(list, new) /\ findUpdatedPods(list).oldPods = Keep(list, old)
  BY DEF findUpdatedPods
<1> HIDE DEF new, old
<1>4. /\ Keep(list, new) \in Seq(AnyPod) /\ HasNoRepeats(Keep(list, new))
      /\ Elements(Keep(list, new)) = Elements(list) \intersect new
  BY KeepElements
<1>5. /\ Keep(list, old) \in Seq(AnyPod) /\ HasNoRepeats(Keep(list, old))
      /\ Elements(Keep(list, old)) = Elements(list) \intersect old
  BY KeepElements
<1>6. Elements(list) \intersect new = new /\ Elements(list) \intersect old = old
  BY <1>2
<1> QED
  BY <1>2, <1>3, <1>4, <1>5, <1>6

(* What SplitUnhealthyPods takes first has the length of the unhealthy pods, *)
(* whichever pods it takes.                                                  *)
LEMMA UnhealthyParts ==
  ASSUME NEW list \in Seq(AnyPod), HasNoRepeats(list)
  PROVE  LET split == SplitUnhealthyPods(list)
             un == split.unhealthyPods
             he == split.healthyPods
         IN  /\ un \in Seq(AnyPod) /\ HasNoRepeats(un) /\ he \in Seq(AnyPod) /\ HasNoRepeats(he)
             /\ Elements(un) \intersect Elements(he) = {}
             /\ Elements(un) \union Elements(he) = Elements(list)
             /\ Len(un) = Cardinality({ p \in Elements(list) : ~IsHealthy(p) })
             /\ Len(un) + Len(he) = Len(list)
<1> DEFINE U == { p \in AnyPod : ~IsHealthy(p) }
           nu == Cardinality({ i \in DOMAIN list : ~IsHealthy(list[i]) })
           t == Sort(CreatedBefore, list)
<1>1. { i \in DOMAIN list : ~IsHealthy(list[i]) } = { i \in DOMAIN list : list[i] \in U }
  OBVIOUS
<1>2. { p \in Elements(list) : ~IsHealthy(p) } = { p \in Elements(list) : p \in U }
  BY ElementsFinite
<1>3. /\ nu = Cardinality({ p \in Elements(list) : ~IsHealthy(p) })
      /\ nu \in 0..Len(list)
  <2>1. /\ Cardinality({ i \in DOMAIN list : list[i] \in U })
              = Cardinality({ p \in Elements(list) : p \in U })
        /\ Cardinality({ i \in DOMAIN list : list[i] \in U }) \in 0..Len(list)
    <3> HIDE DEF U
    <3> QED
      BY CountedOnce
  <2> QED
    BY <1>1, <1>2, <2>1
<1>4. t \in Seq(AnyPod) /\ IsRearrangement(t, list, Len(list))
  BY SortByAgeRearranges
<1>5. /\ SplitUnhealthyPods(list).unhealthyPods = SubSeq(t, 1, nu)
      /\ SplitUnhealthyPods(list).healthyPods = SubSeq(t, nu + 1, Len(t))
  BY DEF SplitUnhealthyPods
<1> HIDE DEF t, nu, U
<1>6. HasNoRepeats(t) /\ Len(t) = Len(list) /\ Elements(t) = Elements(list)
  BY <1>4, RearrangedNoRepeats
<1>7. nu \in 0..Len(t) /\ nu \in Int /\ Len(t) \in Int
  BY <1>3, <1>4, <1>6
<1> DEFINE u == SubSeq(t, 1, nu)
           v == SubSeq(t, nu + 1, Len(t))
<1>8. /\ u \in Seq(AnyPod) /\ Len(u) = nu /\ v \in Seq(AnyPod) /\ Len(v) = Len(t) - nu
      /\ HasNoRepeats(u) /\ HasNoRepeats(v) /\ Elements(u) \intersect Elements(v) = {}
      /\ Elements(u) \union Elements(v) = Elements(t)
  BY <1>4, <1>6, <1>7, CutNoRepeats
<1> HIDE DEF u, v
<1>9. Len(u) + Len(v) = Len(list)
  BY <1>6, <1>7, <1>8
<1> QED
  BY <1>3, <1>5, <1>6, <1>8, <1>9 DEF u, v

LEMMA NoElements ==
  ASSUME NEW list, Elements(list) = {}
  PROVE  DOMAIN list = {}
<1>1. \A i \in DOMAIN list : list[i] \in Elements(list)
  BY DEF Elements
<1> QED
  BY <1>1

(* The healthy pods are all of an old revision: splitUpdatePods finds none of *)
(* the new one among them, and takes the whole budget.                        *)
LEMMA BudgetedPods ==
  ASSUME NEW he \in Seq(AnyPod), HasNoRepeats(he), NEW m \in Nat \ {0},
         \A p \in Elements(he) : ~p.term /\ ~p.updated
  PROVE  LET x == splitUpdatePods(he, m).podsToDelete
         IN  /\ x \in Seq(AnyPod) /\ HasNoRepeats(x) /\ Elements(x) \subseteq Elements(he)
             /\ Len(x) = Granted(m, Len(he))
<1> DEFINE f == findUpdatedPods(he)
           o == f.oldPods
           none == { i \in DOMAIN f.newPods : ~IsPodAvailable(f.newPods[i]) }
           remaining == Clamp(m - Cardinality(none), 0, m)
           x == SplitActivePods(o, remaining).pods1
           t == Sort(Less, o)
<1>1. /\ f.newPods \in Seq(AnyPod) /\ HasNoRepeats(f.newPods)
      /\ Elements(f.newPods) = { p \in Elements(he) : ~p.term /\ p.updated }
      /\ o \in Seq(AnyPod) /\ HasNoRepeats(o)
      /\ Elements(o) = { p \in Elements(he) : ~p.term /\ ~p.updated }
  BY UpdatedPods
<1>2. Elements(f.newPods) = {} /\ Elements(o) = Elements(he)
  BY <1>1
<1>3. none = {} /\ Cardinality(none) = 0
  <2>1. DOMAIN f.newPods = {}
    <3> HIDE DEF f, none
    <3> QED
      BY <1>2, NoElements
  <2>2. none = {}
    BY <2>1
  <2> QED
    BY <2>2, FS_EmptySet
<1>4. splitUpdatePods(he, m).podsToDelete = x
  BY DEF splitUpdatePods
<1> HIDE DEF none, f
<1>5. remaining = m
  <2>1. m - Cardinality(none) = m /\ m \in Int /\ m \in Nat
    BY <1>3
  <2>2. Clamp(m, 0, m) = Granted(m, m)
    BY <2>1, ClampGrants
  <2>3. Granted(m, m) = m
    BY DEF Granted
  <2> QED
    BY <2>1, <2>2, <2>3
<1>6. Len(o) = Len(he)
  BY <1>1, <1>2, NoRepeatsLength
<1> HIDE DEF o, remaining
<1> DEFINE k == Granted(m, Len(o))
<1>7. /\ x = SubSeq(t, 1, k) /\ k \in 0..Len(o)
  <2>1. m \in Int
    OBVIOUS
  <2> QED
    BY <1>1, <1>5, <2>1, SplitParts
<1>8. t \in Seq(AnyPod) /\ IsRearrangement(t, o, Len(o))
  BY <1>1, SortRearranges
<1> HIDE DEF x, t, k
<1>9. HasNoRepeats(t) /\ Len(t) = Len(o) /\ Elements(t) = Elements(o)
  BY <1>1, <1>8, RearrangedNoRepeats
<1>10. k \in 0..Len(t)
  BY <1>7, <1>9
<1>11. /\ SubSeq(t, 1, k) \in Seq(AnyPod) /\ Len(SubSeq(t, 1, k)) = k
       /\ HasNoRepeats(SubSeq(t, 1, k))
       /\ Elements(SubSeq(t, 1, k)) \union Elements(SubSeq(t, k + 1, Len(t))) = Elements(t)
  BY <1>8, <1>9, <1>10, CutNoRepeats
<1>12. k = Granted(m, Len(he))
  BY <1>6 DEF k
<1> QED
  BY <1>2, <1>4, <1>7, <1>9, <1>11, <1>12

(* A rolling-update pass over any list of pods deletes live pods of an old     *)
(* revision, each once, at least one while there is one, and no more than      *)
(* maxUnavailable beyond the pods that were unhealthy already, although        *)
(* SplitUnhealthyPods takes the oldest pods and not the unhealthy ones.        *)
THEOREM ListsRoll == IsPodList(pods) => RollingUpdateStep
<1> SUFFICES ASSUME IsPodList(pods) PROVE RollingUpdateStep
  OBVIOUS
<1> DEFINE m == MaxUnavailable
           o == findUpdatedPods(pods).oldPods
           un == SplitUnhealthyPods(o).unhealthyPods
           he == SplitUnhealthyPods(o).healthyPods
           x == splitUpdatePods(he, m).podsToDelete
           deleted == un \o x
           old == { p \in Elements(pods) : ~p.term /\ ~p.updated }
           sick == { p \in old : ~IsHealthy(p) }
<1>1. pods \in Seq(AnyPod) /\ HasNoRepeats(pods) /\ m \in Nat \ {0}
  BY PodListsNoRepeats, BoundsAssumption
<1>2. o \in Seq(AnyPod) /\ HasNoRepeats(o) /\ Elements(o) = old
  BY <1>1, UpdatedPods
<1>3. syncRollingUpdate(pods, MaxUnavailable) = deleted
  BY DEF syncRollingUpdate
<1> HIDE DEF o
<1>4. /\ un \in Seq(AnyPod) /\ HasNoRepeats(un) /\ he \in Seq(AnyPod) /\ HasNoRepeats(he)
      /\ Elements(un) \intersect Elements(he) = {}
      /\ Elements(un) \union Elements(he) = old
      /\ Len(un) = Cardinality({ p \in Elements(o) : ~IsHealthy(p) })
      /\ Len(un) + Len(he) = Len(o)
  BY <1>2, UnhealthyParts
<1>5. Len(un) = Cardinality(sick)
  BY <1>2, <1>4
<1> HIDE DEF un, he
<1>6. \A p \in Elements(he) : ~p.term /\ ~p.updated
  BY <1>4
<1>7. /\ x \in Seq(AnyPod) /\ HasNoRepeats(x) /\ Elements(x) \subseteq Elements(he)
      /\ Len(x) = Granted(m, Len(he))
  BY <1>1, <1>4, <1>6, BudgetedPods
<1> HIDE DEF x, m, old, sick
<1>8. Elements(un) \intersect Elements(x) = {}
  BY <1>4, <1>7
<1>9. /\ deleted \in Seq(AnyPod) /\ Len(deleted) = Len(un) + Len(x)
      /\ Elements(deleted) = Elements(un) \union Elements(x)
      /\ HasNoRepeats(deleted)
  <2>1. /\ un \in Seq(AnyPod) /\ x \in Seq(AnyPod) /\ HasNoRepeats(un) /\ HasNoRepeats(x)
        /\ Elements(un) \intersect Elements(x) = {}
    BY <1>4, <1>7, <1>8
  <2>2. /\ deleted \in Seq(AnyPod) /\ Len(deleted) = Len(un) + Len(x)
        /\ Elements(deleted) = Elements(un) \union Elements(x)
        /\ HasNoRepeats(un) /\ HasNoRepeats(x) /\ Elements(un) \intersect Elements(x) = {}
             => HasNoRepeats(deleted)
    BY <2>1, JoinedLists
  <2> QED
    BY <2>1, <2>2
<1> HIDE DEF deleted
<1>10. Elements(deleted) \subseteq old
  BY <1>4, <1>7, <1>9
<1>11. Len(deleted) = Cardinality(Elements(deleted))
  BY <1>9, NoRepeatsLength
<1>12. Len(un) \in Nat /\ Len(he) \in Nat /\ Len(x) \in Nat /\ Len(o) \in Nat
  BY <1>2, <1>4, <1>7
<1>13. Len(deleted) <= m + Cardinality(sick)
  <2>1. Granted(m, Len(he)) <= m
    BY <1>1, <1>12 DEF Granted
  <2> QED
    BY <1>1, <1>5, <1>7, <1>9, <1>12, <2>1
<1>14. ASSUME old # {} PROVE deleted # <<>>
  <2>1. Len(o) # 0
    BY <1>2, <1>14 DEF Elements
  <2>2. Len(un) # 0 \/ Len(he) # 0
    BY <1>4, <1>12, <2>1
  <2>3. Len(he) # 0 => Granted(m, Len(he)) # 0
    BY <1>1, <1>12 DEF Granted
  <2>4. Len(deleted) # 0
    BY <1>7, <1>9, <1>12, <2>2, <2>3
  <2> QED
    BY <1>9, <2>4
<1> QED
  BY <1>3, <1>10, <1>11, <1>13, <1>14 DEF RollingUpdateStep, old, sick, m

-----------------------------------------------------------------------------
(* What DaemonSet clean-up leaves on a node *)

(* Everything but the first pod of the sorted list. *)
LEMMA SurplusPods ==
  ASSUME NEW list \in Seq(AnyPod), HasNoRepeats(list)
  PROVE  LET x == SurplusDaemonPods(list)
         IN  /\ x \in Seq(AnyPod)
             /\ list = <<>> => Elements(x) = {}
             /\ list # <<>> => \E p \in Elements(list) : Elements(x) = Elements(list) \ {p}
<1> DEFINE t == Sort(Less, list)
<1>1. t \in Seq(AnyPod) /\ IsRearrangement(t, list, Len(list))
  BY SortRearranges
<1>2. SurplusDaemonPods(list) = SubSeq(t, 2, Len(t))
  BY DEF SurplusDaemonPods
<1> HIDE DEF t
<1>3. HasNoRepeats(t) /\ Len(t) = Len(list) /\ Elements(t) = Elements(list) /\ Len(t) \in Nat
  BY <1>1, RearrangedNoRepeats
<1>4. CASE list = <<>>
  <2>1. t = <<>> /\ Len(t) = 0
    BY <1>1, <1>3, <1>4
  <2>2. SubSeq(t, 2, Len(t)) = <<>>
    BY <2>1
  <2>3. <<>> \in Seq(AnyPod) /\ Elements(<<>>) = {}
    BY DEF Elements
  <2> QED
    BY <1>2, <1>4, <2>2, <2>3
<1>5. CASE list # <<>>
  <2>1. 1 \in 0..Len(t) /\ 1 \in DOMAIN t
    BY <1>1, <1>3, <1>5
  <2> DEFINE u == SubSeq(t, 1, 1)
             v == SubSeq(t, 1 + 1, Len(t))
  <2>2. /\ v \in Seq(AnyPod) /\ Elements(u) \intersect Elements(v) = {}
        /\ Elements(u) \union Elements(v) = Elements(t)
    BY <1>1, <1>3, <2>1, CutNoRepeats
  <2>3. Elements(u) = { t[i] : i \in 1..1 }
    BY <1>1, <2>1, CutElements
  <2>4. v = SurplusDaemonPods(list)
    BY <1>2
  <2> HIDE DEF u, v
  <2>5. Elements(u) = {t[1]} /\ t[1] \in Elements(t)
    <3>1. 1..1 = {1}
      OBVIOUS
    <3>2. t[1] \in Elements(t)
      BY <2>1 DEF Elements
    <3> QED
      BY <2>3, <3>1, <3>2
  <2>6. Elements(v) = Elements(list) \ {t[1]}
    BY <1>3, <2>2, <2>5
  <2> QED
    BY <1>3, <1>5, <2>2, <2>4, <2>5, <2>6
<1> QED
  BY <1>4, <1>5

LEMMA KilledPod ==
  ASSUME NEW list \in Seq(AnyPod), NEW inBackoff
  PROVE  /\ FailedPodToKill(list, inBackoff) \in Seq(AnyPod)
         /\ Elements(FailedPodToKill(list, inBackoff)) \subseteq Elements(list)
<1> DEFINE x == FailedPodToKill(list, inBackoff)
<1>1. CASE inBackoff \/ list = <<>>
  BY <1>1 DEF FailedPodToKill, Elements
<1>2. CASE ~(inBackoff \/ list = <<>>)
  <2>1. x = <<list[1]>> /\ 1 \in DOMAIN list /\ list[1] \in AnyPod
    BY <1>2 DEF FailedPodToKill
  <2>2. x \in Seq(AnyPod) /\ DOMAIN x = {1} /\ x[1] = list[1]
    BY <2>1
  <2> QED
    BY <2>1, <2>2 DEF Elements
<1> QED
  BY <1>1, <1>2

(* The plan for a node that keeps its pod: failed and succeeded pods, and all  *)
(* but one of the others.                                                      *)
LEMMA DaemonPlan ==
  ASSUME NEW list \in Seq(AnyPod), HasNoRepeats(list), list # <<>>, NEW inBackoff
  PROVE  LET x == podsShouldBeOnNode(TRUE, TRUE, list, inBackoff).podsToDelete
             active == { p \in Elements(list) : ~p.term /\ ~IsFailed(p) /\ ~IsSucceeded(p) }
         IN  /\ active = {} \/ \E p \in active : active \ Elements(x) = {p}
             /\ \A p \in Elements(list) : ~p.term /\ IsSucceeded(p) => p \in Elements(x)
<1> DEFINE living == { p \in Range(list) : ~IsTerminating(p) }
           alive == Keep(list, living)
           failed == { p \in Range(alive) : IsFailed(p) }
           succeeded == { p \in Range(alive) : IsSucceeded(p) }
           running == Range(alive) \ (failed \union succeeded)
           a == FailedPodToKill(Keep(alive, failed), inBackoff)
           b == Keep(alive, succeeded)
           r == Keep(alive, running)
           c == SurplusDaemonPods(r)
           x == podsShouldBeOnNode(TRUE, TRUE, list, inBackoff).podsToDelete
           active == { p \in Elements(list) : ~p.term /\ ~IsFailed(p) /\ ~IsSucceeded(p) }
<1>1. x = (a \o b) \o c
  BY DEF podsShouldBeOnNode
<1>2. living = { p \in Elements(list) : ~p.term }
  BY DEF Range, Elements, IsTerminating
<1> HIDE DEF living
<1>3. alive \in Seq(AnyPod) /\ HasNoRepeats(alive) /\ Elements(alive) = Elements(list) \intersect living
  BY KeepElements
<1>4. Elements(alive) = { p \in Elements(list) : ~p.term }
  BY <1>2, <1>3
<1> HIDE DEF alive
<1>5. Range(alive) = Elements(alive)
  BY DEF Range, Elements
<1>6. running = active /\ \A p \in failed \union succeeded : p \notin active
  BY <1>4, <1>5
<1>7. succeeded = { p \in Elements(list) : ~p.term /\ IsSucceeded(p) }
  BY <1>4, <1>5
<1>8. failed \subseteq Elements(alive) /\ succeeded \subseteq Elements(alive) /\ running \subseteq Elements(alive)
  BY <1>5
<1> HIDE DEF failed, succeeded, running
<1>9. /\ Keep(alive, failed) \in Seq(AnyPod)
      /\ Elements(Keep(alive, failed)) = Elements(alive) \intersect failed
  BY <1>3, KeepElements
<1>10. b \in Seq(AnyPod) /\ Elements(b) = Elements(alive) \intersect succeeded
  BY <1>3, KeepElements
<1>11. r \in Seq(AnyPod) /\ HasNoRepeats(r) /\ Elements(r) = Elements(alive) \intersect running
  BY <1>3, KeepElements
<1>12. Elements(b) = succeeded /\ Elements(r) = active
  BY <1>6, <1>8, <1>10, <1>11
<1>13. a \in Seq(AnyPod) /\ Elements(a) \subseteq failed
  <2>1. a \in Seq(AnyPod) /\ Elements(a) \subseteq Elements(Keep(alive, failed))
    BY <1>9, KilledPod
  <2> QED
    BY <1>9, <2>1
<1> HIDE DEF a, b, r
<1>14. /\ c \in Seq(AnyPod)
       /\ r = <<>> => Elements(c) = {}
       /\ r # <<>> => \E p \in Elements(r) : Elements(c) = Elements(r) \ {p}
  BY <1>11, SurplusPods
<1> HIDE DEF c
<1>15. a \o b \in Seq(AnyPod) /\ Elements(a \o b) = Elements(a) \union Elements(b)
  BY <1>10, <1>13, JoinedLists
<1>16. Elements((a \o b) \o c) = Elements(a \o b) \union Elements(c)
  <2> DEFINE ab == a \o b
  <2>1. ab \in Seq(AnyPod)
    BY <1>15
  <2> HIDE DEF ab
  <2>2. Elements(ab \o c) = Elements(ab) \union Elements(c)
    BY <1>14, <2>1, JoinedLists
  <2> QED
    BY <2>2 DEF ab
<1>17. Elements(x) = Elements(a) \union succeeded \union Elements(c)
  BY <1>1, <1>12, <1>15, <1>16
<1> HIDE DEF x, active
<1>18. \A p \in Elements(a) \union succeeded : p \notin active
  BY <1>6, <1>13
<1>19. active = {} \/ \E p \in active : active \ Elements(x) = {p}
  <2>1. CASE r = <<>>
    BY <1>12, <2>1 DEF Elements
  <2>2. CASE r # <<>>
    <3>1. PICK p \in active : Elements(c) = active \ {p}
      BY <1>12, <1>14, <2>2
    <3>2. active \ Elements(x) = {p}
      BY <1>17, <1>18, <3>1
    <3> QED
      BY <3>2
  <2> QED
    BY <2>1, <2>2
<1>20. \A p \in Elements(list) : ~p.term /\ IsSucceeded(p) => p \in Elements(x)
  BY <1>7, <1>17
<1> QED
  BY <1>19, <1>20 DEF x, active

(* DaemonSet clean-up leaves exactly one of the running pods of a node that    *)
(* keeps its pod, none on a node that must not run one, asks for a new pod     *)
(* only when none is running, and removes every succeeded pod.                 *)
THEOREM ListsSurvive == IsPodList(pods) => OneDaemonPodSurvives
<1> SUFFICES ASSUME IsPodList(pods), NEW cont \in BOOLEAN, NEW inBackoff \in BOOLEAN
             PROVE  LET daemonPods == getNodesToDaemonPods(pods)
                        plan == podsShouldBeOnNode(cont, cont, daemonPods, inBackoff)
                        active == { p \in Elements(daemonPods) :
                                      ~p.term /\ ~IsFailed(p) /\ ~IsSucceeded(p) }
                        left == active \ Elements(plan.podsToDelete)
                    IN  /\ Cardinality(left) = IF cont THEN Min({1, Cardinality(active)}) ELSE 0
                        /\ plan.needsPod => active = {}
                        /\ \A p \in Elements(pods) :
                             p.phase = "Succeeded" /\ ~p.term => p \in Elements(plan.podsToDelete)
  BY DEF OneDaemonPodSurvives
<1> DEFINE d == getNodesToDaemonPods(pods)
           plan == podsShouldBeOnNode(cont, cont, d, inBackoff)
           x == plan.podsToDelete
           active == { p \in Elements(d) : ~p.term /\ ~IsFailed(p) /\ ~IsSucceeded(p) }
           grouped == { p \in Range(pods) : ~(IsTerminating(p) /\ (IsFailed(p) \/ IsSucceeded(p))) }
<1>1. pods \in Seq(AnyPod) /\ HasNoRepeats(pods)
  BY PodListsNoRepeats
<1>2. d = Keep(pods, grouped)
  BY DEF getNodesToDaemonPods
<1>3. Range(pods) = Elements(pods)
  BY DEF Range, Elements
<1>4. d \in Seq(AnyPod) /\ HasNoRepeats(d) /\ Elements(d) = Elements(pods) \intersect grouped
  <2> HIDE DEF grouped, d
  <2> QED
    BY <1>1, <1>2, KeepElements
<1>5. \A p \in Elements(pods) : p.phase = "Succeeded" /\ ~p.term => p \in Elements(d) /\ IsSucceeded(p)
  BY <1>3, <1>4 DEF IsTerminating, IsSucceeded
<1> HIDE DEF d, grouped
<1>6. IsFiniteSet(active)
  <2>1. IsFiniteSet(Elements(d)) /\ active \subseteq Elements(d)
    BY <1>4, ElementsFinite
  <2> QED
    BY <2>1, FS_Subset
<1>7. plan.needsPod = (cont /\ d = <<>>)
  BY DEF podsShouldBeOnNode
<1>8. d = <<>> => Elements(d) = {}
  BY DEF Elements
<1>9. plan.needsPod => active = {}
  BY <1>7, <1>8
<1>10. CASE cont /\ d # <<>>
  <2>1. plan = podsShouldBeOnNode(TRUE, TRUE, d, inBackoff)
    BY <1>10
  <2>2. /\ active = {} \/ \E p \in active : active \ Elements(x) = {p}
        /\ \A p \in Elements(d) : ~p.term /\ IsSucceeded(p) => p \in Elements(x)
    BY <1>4, <1>10, <2>1, DaemonPlan
  <2> HIDE DEF x, active
  <2>3. Cardinality(active \ Elements(x)) = Min({1, Cardinality(active)})
    <3>1. CASE active = {}
      <4>1. active \ Elements(x) = {} /\ Cardinality({}) = 0
        BY <3>1, FS_EmptySet
      <4>2. Min({1, 0}) = 0
        BY MinIs
      <4> QED
        BY <3>1, <4>1, <4>2
    <3>2. CASE active # {}
      <4>1. PICK p \in active : active \ Elements(x) = {p}
        BY <2>2, <3>2
      <4>2. Cardinality({p}) = 1
        BY FS_Singleton
      <4>3. Cardinality(active) \in Nat /\ Cardinality(active) # 0
        BY <1>6, <3>2, FS_CardinalityType, FS_EmptySet
      <4>4. Min({1, Cardinality(active)}) = 1
        <5>1. {1, Cardinality(active)} \in SUBSET Int /\ 1 \in {1, Cardinality(active)}
          BY <4>3
        <5>2. \A y \in {1, Cardinality(active)} : 1 <= y
          BY <4>3
        <5> QED
          BY <5>1, <5>2, MinIs
      <4> QED
        BY <4>1, <4>2, <4>4
    <3> QED
      BY <3>1, <3>2
  <2> QED
    BY <1>5, <1>9, <1>10, <2>2, <2>3 DEF d, x, active
<1>11. CASE cont /\ d = <<>>
  <2>1. active = {} /\ active \ Elements(x) = {} /\ Cardinality({}) = 0
    BY <1>8, <1>11, FS_EmptySet
  <2>2. Min({1, 0}) = 0
    BY MinIs
  <2>3. \A p \in Elements(pods) : ~(p.phase = "Succeeded" /\ ~p.term)
    BY <1>5, <1>8, <1>11
  <2> HIDE DEF x, active
  <2>4. Cardinality(active \ Elements(x)) = Min({1, Cardinality(active)})
    BY <2>1, <2>2
  <2> QED
    BY <1>9, <1>11, <2>3, <2>4 DEF d, x, active
<1>12. CASE ~cont
  <2> DEFINE living == { p \in Range(d) : ~IsTerminating(p) }
  <2>1. x = Keep(d, living)
    BY <1>12 DEF podsShouldBeOnNode
  <2>2. living = { p \in Elements(d) : ~p.term }
    BY DEF Range, Elements, IsTerminating
  <2> HIDE DEF living
  <2>3. Elements(Keep(d, living)) = Elements(d) \intersect living
    BY <1>4, KeepElements
  <2>4. Elements(x) = { p \in Elements(d) : ~p.term }
    BY <2>1, <2>2, <2>3
  <2> HIDE DEF x
  <2>5. active \ Elements(x) = {} /\ Cardinality({}) = 0
    BY <2>4, FS_EmptySet
  <2>6. \A p \in Elements(pods) : p.phase = "Succeeded" /\ ~p.term => p \in Elements(x)
    BY <1>5, <2>4
  <2>7. Cardinality(active \ Elements(x)) = 0
    BY <2>5
  <2> QED
    BY <1>9, <1>12, <2>6, <2>7 DEF d, x
<1> QED
  BY <1>10, <1>11, <1>12

-----------------------------------------------------------------------------
(* The lists a behaviour builds *)

Phases == {"Pending", "Running", "Succeeded", "Failed", "Unknown"}
AttrRecords == [phase : Phases, ready : BOOLEAN, term : BOOLEAN, cost : Int, deadline : Nat,
                cordon : BOOLEAN, created : Nat, updated : BOOLEAN]

LEMMA AttrsTyped ==
  ASSUME NEW phaseReady \in SUBSET (Phases \X BOOLEAN), NEW term \in SUBSET BOOLEAN,
         NEW cost \in SUBSET Int, NEW deadline \in SUBSET Nat, NEW cordon \in SUBSET BOOLEAN,
         NEW created \in SUBSET Nat, NEW updated \in SUBSET BOOLEAN,
         NEW a \in Attrs(phaseReady, term, cost, deadline, cordon, created, updated)
  PROVE  a \in AttrRecords
<1>1. PICK pr \in phaseReady, t \in term, c \in cost, d \in deadline, k \in cordon,
           ct \in created, u \in updated :
         a = [phase |-> pr[1], ready |-> pr[2], term |-> t, cost |-> c,
              deadline |-> d, cordon |-> k, created |-> ct, updated |-> u]
  BY DEF Attrs
<1>2. pr[1] \in Phases /\ pr[2] \in BOOLEAN
  <2>1. pr \in Phases \X BOOLEAN
    OBVIOUS
  <2> QED
    BY <2>1
<1> QED
  BY <1>1, <1>2 DEF AttrRecords

LEMMA PodTyped ==
  ASSUME NEW n \in Nat, NEW o \in Int, NEW a \in AttrRecords
  PROVE  Pod(n, WithOrdinal(a, o)) \in AnyPod
<1> DEFINE b == WithOrdinal(a, o)
<1>1. /\ b.phase \in Phases /\ b.ready \in BOOLEAN /\ b.term \in BOOLEAN /\ b.cost \in Int
      /\ b.deadline \in Nat /\ b.cordon \in BOOLEAN /\ b.created \in Nat
      /\ b.updated \in BOOLEAN /\ b.ordinal \in Int
  BY DEF WithOrdinal, AttrRecords
<1> HIDE DEF b
<1>2. (b.phase # "Pending") \in BOOLEAN
  OBVIOUS
<1>3. Pod(n, b) \in AnyPod
  BY <1>1, <1>2 DEF Pod, AnyPod, Phases
<1> QED
  BY <1>3 DEF b

(* The phases of pods paired with whether the pod is ready. *)
LEMMA PhasePairs ==
  /\ <<"Pending", FALSE>> \in Phases \X BOOLEAN /\ <<"Running", FALSE>> \in Phases \X BOOLEAN
  /\ <<"Running", TRUE>> \in Phases \X BOOLEAN /\ <<"Failed", FALSE>> \in Phases \X BOOLEAN
  /\ <<"Succeeded", FALSE>> \in Phases \X BOOLEAN
<1>1. "Pending" \in Phases /\ "Running" \in Phases /\ "Failed" \in Phases /\ "Succeeded" \in Phases
  BY DEF Phases
<1>2. TRUE \in BOOLEAN /\ FALSE \in BOOLEAN
  OBVIOUS
<1> QED
  BY <1>1, <1>2

LEMMA UniverseOfPods ==
  ASSUME NEW s \in DOMAIN Universe, NEW pod \in Universe[s]
  PROVE  pod \in AnyPod
<1>1. /\ 0..2 \subseteq Int /\ 0..2 \subseteq Nat /\ -1 \in Int
      /\ {0} \in SUBSET Nat /\ {0, 1} \in SUBSET Nat /\ {1} \in SUBSET Nat /\ {1, 2} \in SUBSET Nat
      /\ {0} \in SUBSET Int /\ {0, 1} \in SUBSET Int
  OBVIOUS
<1>0. {TRUE} \in SUBSET BOOLEAN /\ {FALSE} \in SUBSET BOOLEAN /\ BOOLEAN \in SUBSET BOOLEAN
  OBVIOUS
<1>2. CASE pod \in RankUniverse
  <2> DEFINE PR == {<<"Pending", FALSE>>, <<"Running", FALSE>>, <<"Running", TRUE>>}
             A == Attrs(PR,
                         {FALSE}, {0, 1}, {0, 1}, BOOLEAN, {1}, {TRUE})
  <2>1. PICK n \in 0..2, a \in A : pod = Pod(n, WithOrdinal(a, n))
    BY <1>2 DEF RankUniverse
  <2>2. PR \in SUBSET (Phases \X BOOLEAN)
    BY PhasePairs
  <2>3. a \in AttrRecords
    <3>1. a \in A
      OBVIOUS
    <3> HIDE DEF PR
    <3> QED
      BY <1>0, <1>1, <2>2, <3>1, AttrsTyped
  <2> QED
    BY <1>1, <2>1, <2>3, PodTyped
<1>3. CASE pod \in DaemonUniverse
  <2> DEFINE PR == {<<"Running", FALSE>>, <<"Running", TRUE>>, <<"Failed", FALSE>>, <<"Succeeded", FALSE>>}
             A == Attrs(PR,
                         BOOLEAN, {0}, {0}, {FALSE}, {1, 2}, {TRUE})
  <2>1. PICK n \in 0..2, a \in A : pod = Pod(n, WithOrdinal(a, -1))
    BY <1>3 DEF DaemonUniverse
  <2>2. PR \in SUBSET (Phases \X BOOLEAN)
    BY PhasePairs
  <2>3. a \in AttrRecords
    <3>1. a \in A
      OBVIOUS
    <3> HIDE DEF PR
    <3> QED
      BY <1>0, <1>1, <2>2, <3>1, AttrsTyped
  <2> QED
    BY <1>1, <2>1, <2>3, PodTyped
<1>4. CASE pod \in RolloutUniverse
  <2> DEFINE PR == {<<"Running", FALSE>>, <<"Running", TRUE>>}
             A == Attrs(PR,
                         BOOLEAN, {0}, {0}, BOOLEAN, {1, 2}, BOOLEAN)
  <2>1. PICK n \in 0..2, a \in A : pod = Pod(n, WithOrdinal(a, n))
    BY <1>4 DEF RolloutUniverse
  <2>2. PR \in SUBSET (Phases \X BOOLEAN)
    BY PhasePairs
  <2>3. a \in AttrRecords
    <3>1. a \in A
      OBVIOUS
    <3> HIDE DEF PR
    <3> QED
      BY <1>0, <1>1, <2>2, <3>1, AttrsTyped
  <2> QED
    BY <1>1, <2>1, <2>3, PodTyped
<1> QED
  BY <1>2, <1>3, <1>4 DEF Universe

LEMMA AppendPod ==
  ASSUME NEW list, IsPodList(list), NEW pod \in AnyPod,
         \A i \in DOMAIN list : list[i].name # pod.name
  PROVE  IsPodList(Append(list, pod))
<1>1. list \in Seq(AnyPod)
  BY DEF IsPodList
<1> DEFINE new == Append(list, pod)
           N == Len(list)
<1>2. N \in Nat /\ DOMAIN list = 1..N /\ new \in Seq(AnyPod) /\ DOMAIN new = 1..(N + 1)
  BY <1>1
<1>3. new[N + 1] = pod /\ \A i \in 1..N : new[i] = list[i]
  BY <1>1
<1> HIDE DEF new, N
<1>4. ASSUME NEW i \in 1..(N + 1), NEW j \in 1..(N + 1), i # j
      PROVE  new[i].name # new[j].name
  <2>1. CASE i = N + 1
    <3>1. j \in 1..N
      BY <1>2, <1>4, <2>1
    <3> QED
      BY <1>2, <1>3, <2>1, <3>1
  <2>2. CASE j = N + 1
    <3>1. i \in 1..N
      BY <1>2, <1>4, <2>2
    <3> QED
      BY <1>2, <1>3, <2>2, <3>1
  <2>3. CASE i # N + 1 /\ j # N + 1
    <3>1. i \in 1..N /\ j \in 1..N
      BY <1>2, <2>3
    <3> QED
      BY <1>2, <1>3, <1>4, <3>1 DEF IsPodList
  <2> QED
    BY <2>1, <2>2, <2>3
<1> QED
  BY <1>2, <1>4 DEF IsPodList, new

(* Every list a behaviour reaches is a list of pods with distinct names, as  *)
(* the informer cache returns it.                                            *)
ListInv == scene \in DOMAIN Universe /\ IsPodList(pods)

THEOREM PodLists == Spec => []ListInv
<1>1. Init => ListInv
  BY DEF Init, ListInv, IsPodList
<1>2. ListInv /\ [Next]_vars => ListInv'
  <2> SUFFICES ASSUME ListInv, [Next]_vars PROVE ListInv'
    OBVIOUS
  <2>1. CASE StartOver
    BY <2>1 DEF StartOver, ListInv, IsPodList
  <2>2. ASSUME NEW pod \in Universe[scene], AddPod(pod) PROVE ListInv'
    <3>1. pod \in AnyPod
      BY UniverseOfPods DEF ListInv
    <3>2. IsPodList(Append(pods, pod))
      BY <2>2, <3>1, AppendPod DEF ListInv, AddPod
    <3> QED
      BY <2>2, <3>2 DEF ListInv, AddPod
  <2>3. CASE UNCHANGED vars
    BY <2>3 DEF ListInv, vars
  <2> QED
    BY <2>1, <2>2, <2>3 DEF Next
<1> QED
  BY <1>1, <1>2, PTL DEF Spec

(* So every list of every behaviour is ranked, split, selected again, cleaned  *)
(* up and rolled correctly.                                                    *)
THEOREM SelectionCorrect ==
  Spec => [](/\ LessIsStrictOrder /\ SplitTakesMostDeletable /\ SelectionIsSticky
             /\ OneDaemonPodSurvives /\ RollingUpdateStep)
<1>1. ListInv => /\ LessIsStrictOrder /\ SplitTakesMostDeletable /\ SelectionIsSticky
                 /\ OneDaemonPodSurvives /\ RollingUpdateStep
  BY ListsOrdered, ListsSplit, ListsSticky, ListsSurvive, ListsRoll DEF ListInv
<1> QED
  BY <1>1, PodLists, PTL
=============================================================================
