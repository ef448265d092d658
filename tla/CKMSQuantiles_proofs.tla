------------------------ MODULE CKMSQuantiles_proofs ------------------------
(* Proofs about module CKMSQuantiles, for any targets, values, size of the   *)
(* buffer and number of insertions: the sketch loses nothing, and answers a  *)
(* higher quantile with no lower value.                                      *)
EXTENDS CKMSQuantiles, FiniteSetTheorems, WellFoundedInduction, TLAPS

-----------------------------------------------------------------------------
(* Folds over sequences                                                     *)

\* Induction over the natural numbers: a set of numbers that is not all of
\* them would leave out a smallest one.
LEMMA Induction ==
  ASSUME NEW S, 0 \in S, \A n \in Nat : n \in S => n + 1 \in S
  PROVE  Nat \subseteq S
<1> DEFINE T == Nat \ S
           R == {ss \in Nat \X Nat : ss[1] < ss[2]}
<1>1. SUFFICES ASSUME T # {} PROVE FALSE
  OBVIOUS
<1>2. IsWellFoundedOn(R, Nat)
  BY NatLessThanWellFounded DEF OpToRel
<1>3. \E x \in T : \A y \in T : <<y, x>> \notin R
  <2> HIDE DEF T, R
  <2>1. T \subseteq Nat
    BY DEF T
  <2> QED BY ONLY <1>1, <1>2, <2>1, WFMin
<1>4. \E x \in T : \A y \in T : ~(y < x)
  BY <1>3
<1> QED BY <1>4

\* The largest number of an interval, and of a set that ends with it.
LEMMA Largest ==
  ASSUME NEW n \in Nat, NEW S \in SUBSET (1..n), n \in S
  PROVE  Max(S) = n
<1>1. \A y \in S : n >= y
  OBVIOUS
<1>2. \A x \in S : (\A y \in S : x >= y) => x = n
  OBVIOUS
<1> QED BY <1>1, <1>2 DEF Max

\* A set of numbers below a bound has a largest one.
LEMMA HasLargest ==
  ASSUME NEW n \in Nat, NEW S \in SUBSET (1..n), S # {}
  PROVE  Max(S) \in S
<1> DEFINE T == {k \in Nat : \A R \in SUBSET (1..k) : R # {} => \E x \in R : \A y \in R : x >= y}
<1>1. 0 \in T
  <2>1. 1..0 = {}
    OBVIOUS
  <2> QED BY <2>1
<1>2. ASSUME NEW k \in Nat, k \in T
      PROVE  k + 1 \in T
  <2> SUFFICES ASSUME NEW R \in SUBSET (1..(k + 1)), R # {}
               PROVE  \E x \in R : \A y \in R : x >= y
    OBVIOUS
  <2>1. CASE k + 1 \in R
    BY <2>1
  <2>2. CASE k + 1 \notin R
    <3>1. R \in SUBSET (1..k)
      <4>1. \A x \in 1..(k + 1) : x # k + 1 => x \in 1..k
        OBVIOUS
      <4> QED BY <2>2, <4>1
    <3> QED BY <1>2, <3>1
  <2> QED BY <2>1, <2>2
<1>3. n \in T
  <2> HIDE DEF T
  <2> QED BY <1>1, <1>2, Induction
<1> QED BY <1>3 DEF Max

\* g folds op over the elements of seq at the places of any set.
Folds(g, N, base, op, seq) == \A s \in SUBSET (1..N) :
  g[s] = IF s = {} THEN base ELSE op[g[s \ {Max(s)}]][seq[Max(s)]]

LEMMA FoldExists ==
  ASSUME NEW N \in Nat, NEW A, NEW B, NEW base \in A, NEW op \in [A -> [B -> A]],
         NEW seq \in [1..N -> B]
  PROVE  \E g \in [SUBSET (1..N) -> A] : Folds(g, N, base, op, seq)
<1> DEFINE Fold(k, g) == \A s \in SUBSET (1..k) :
             g[s] = IF s = {} THEN base ELSE op[g[s \ {Max(s)}]][seq[Max(s)]]
           Done0(k) == \E g \in [SUBSET (1..k) -> A] : Fold(k, g)
           S == {k \in Nat : k <= N => Done0(k)}
<1>1. Done0(0)
  <2>1. SUBSET (1..0) = {{}}
    OBVIOUS
  <2> DEFINE g == [s \in SUBSET (1..0) |-> base]
  <2>2. g \in [SUBSET (1..0) -> A] /\ Fold(0, g)
    BY <2>1
  <2> QED BY <2>2
<1>2. ASSUME NEW k \in Nat, k + 1 <= N, Done0(k)
      PROVE  Done0(k + 1)
  <2>1. PICK g \in [SUBSET (1..k) -> A] : Fold(k, g)
    BY <1>2
  <2> DEFINE h == [s \in SUBSET (1..(k + 1)) |->
                     IF k + 1 \in s THEN op[g[s \ {k + 1}]][seq[k + 1]] ELSE g[s]]
  <2>2. \A s \in SUBSET (1..(k + 1)) :
          /\ s \ {k + 1} \in SUBSET (1..k)
          /\ k + 1 \notin s => s \in SUBSET (1..k)
    <3>1. \A x \in 1..(k + 1) : x # k + 1 => x \in 1..k
      OBVIOUS
    <3> QED BY <3>1
  <2>3. \A s \in SUBSET (1..k) : s \in SUBSET (1..(k + 1)) /\ k + 1 \notin s
    OBVIOUS
  <2>4. h \in [SUBSET (1..(k + 1)) -> A]
    <3>1. k + 1 \in 1..N
      <4>1. k \in Nat /\ k + 1 <= N /\ N \in Nat
        BY <1>2
      <4> QED BY ONLY <4>1
    <3>2. \A s \in SUBSET (1..(k + 1)) : k + 1 \in s => op[g[s \ {k + 1}]][seq[k + 1]] \in A
      <4>1. \A s \in SUBSET (1..(k + 1)) : g[s \ {k + 1}] \in A
        BY <2>2
      <4>2. seq[k + 1] \in B
        BY <3>1
      <4>3. \A x \in A : op[x][seq[k + 1]] \in A
        BY <4>2
      <4> QED BY <4>1, <4>3
    <3>3. \A s \in SUBSET (1..(k + 1)) : k + 1 \notin s => g[s] \in A
      BY <2>2
    <3> QED BY <3>2, <3>3
  <2>5. \A s \in SUBSET (1..k) : h[s] = g[s]
    BY <2>3
  <2>6. ASSUME NEW s \in SUBSET (1..(k + 1)), k + 1 \in s
        PROVE  h[s] = IF s = {} THEN base ELSE op[h[s \ {Max(s)}]][seq[Max(s)]]
    <3>1. Max(s) = k + 1
      BY <2>6, Largest
    <3>2. h[s \ {k + 1}] = g[s \ {k + 1}]
      BY <2>2, <2>5
    <3>3. h[s] = op[g[s \ {k + 1}]][seq[k + 1]]
      BY <2>6
    <3> HIDE DEF h
    <3> QED BY <2>6, <3>1, <3>2, <3>3
  <2>7. ASSUME NEW s \in SUBSET (1..(k + 1)), k + 1 \notin s
        PROVE  h[s] = IF s = {} THEN base ELSE op[h[s \ {Max(s)}]][seq[Max(s)]]
    <3>1. s \in SUBSET (1..k) /\ s \ {Max(s)} \in SUBSET (1..k)
      BY <2>2, <2>7
    <3>2. h[s] = g[s] /\ h[s \ {Max(s)}] = g[s \ {Max(s)}]
      BY <2>5, <3>1
    <3> HIDE DEF h
    <3> QED BY <2>1, <3>1, <3>2
  <2> HIDE DEF h
  <2>8. Fold(k + 1, h)
    BY <2>6, <2>7
  <2> QED BY <2>4, <2>8
<1>3. N \in S
  <2>1. 0 \in S
    BY <1>1
  <2>2. \A k \in Nat : k \in S => k + 1 \in S
    <3> HIDE DEF Done0
    <3> QED BY <1>2
  <2> HIDE DEF S
  <2> QED BY <2>1, <2>2, Induction
<1> QED
  <2>1. Done0(N)
    <3> HIDE DEF Done0
    <3> QED BY <1>3
  <2> QED BY <2>1 DEF Folds

\* The last number of an interval, and the rest.
LEMMA LastOf ==
  ASSUME NEW N \in Nat, NEW m \in 1..N
  PROVE  m \in Nat /\ 1..m \in SUBSET (1..N) /\ m \in 1..m /\ (1..m) \ {m} = 1..(m - 1)
<1>1. m \in Nat /\ m >= 1 /\ m <= N /\ N \in Nat
  OBVIOUS
<1>2. \A x \in Int : x \in 1..(m - 1) <=> x \in 1..m /\ x # m
  BY ONLY <1>1
<1>3. 1..m \subseteq Int /\ 1..(m - 1) \subseteq Int
  BY ONLY <1>1
<1>4. (1..m) \ {m} = 1..(m - 1)
  BY ONLY <1>2, <1>3
<1>5. 1..m \subseteq 1..N /\ m \in 1..m
  BY ONLY <1>1
<1> QED BY ONLY <1>1, <1>4, <1>5

\* G is the results of a fold so far, from left to right.
Runs(G, N, base, op, seq) == G[0] = base /\ \A m \in 1..N : G[m] = op[G[m - 1]][seq[m]]

\* A fold over a sequence goes from left to right.
LEMMA RunningExists ==
  ASSUME NEW N \in Nat, NEW A, NEW B, NEW base \in A, NEW op \in [A -> [B -> A]],
         NEW seq \in [1..N -> B]
  PROVE  \E G \in [0..N -> A] : Runs(G, N, base, op, seq)
<1>1. PICK g \in [SUBSET (1..N) -> A] : Folds(g, N, base, op, seq)
  BY FoldExists
<1> DEFINE G == [m \in 0..N |-> g[1..m]]
<1>2. G \in [0..N -> A]
  <2>1. \A m \in 0..N : 1..m \in SUBSET (1..N)
    OBVIOUS
  <2> QED BY <2>1
<1>3. g[1..0] = base
  <2>1. 1..0 = {} /\ {} \in SUBSET (1..N)
    OBVIOUS
  <2> QED BY <1>1, <2>1 DEF Folds
<1>4. ASSUME NEW m \in 1..N
      PROVE  g[1..m] = op[g[1..(m - 1)]][seq[m]]
  <2>1. m \in Nat /\ 1..m \in SUBSET (1..N) /\ m \in 1..m /\ (1..m) \ {m} = 1..(m - 1)
    BY LastOf
  <2>2. Max(1..m) = m
    BY ONLY <2>1, Largest
  <2> QED BY ONLY <2>1, <2>2, <1>1 DEF Folds
<1>5. Runs(G, N, base, op, seq)
  <2>1. 0 \in 0..N /\ \A m \in 1..N : m \in 0..N /\ m - 1 \in 0..N
    OBVIOUS
  <2> QED BY <1>3, <1>4, <2>1 DEF Runs
<1> HIDE DEF G
<1> QED BY <1>2, <1>5

\* Two results that start alike and go on alike are the same.
Alike(G, H, N) == G[0] = H[0] /\ \A m \in 1..N : G[m - 1] = H[m - 1] => G[m] = H[m]

LEMMA SameResult ==
  ASSUME NEW N \in Nat, NEW G, NEW H, Alike(G, H, N)
  PROVE  G[N] = H[N]
<1> DEFINE S == {k \in Nat : k <= N => G[k] = H[k]}
<1>1. 0 \in S
  BY DEF Alike
<1>2. ASSUME NEW k \in Nat, k \in S
      PROVE  k + 1 \in S
  <2>1. CASE k + 1 <= N
    <3>1. k + 1 \in 1..N /\ (k + 1) - 1 = k /\ k <= N
      BY <2>1
    <3>2. G[(k + 1) - 1] = H[(k + 1) - 1]
      BY <1>2, <3>1
    <3>3. G[k + 1] = H[k + 1]
      BY <3>1, <3>2 DEF Alike
    <3> QED BY <3>3
  <2> QED BY <2>1
<1> HIDE DEF S
<1>3. Nat \subseteq S
  BY <1>1, <1>2, Induction
<1> QED BY <1>3 DEF S

-----------------------------------------------------------------------------
(* Sequences with an item more, or less                                     *)

LEMMA Concat ==
  ASSUME NEW S, NEW a \in Seq(S), NEW b \in Seq(S)
  PROVE  /\ a \o b \in Seq(S) /\ Len(a \o b) = Len(a) + Len(b) /\ Len(a) \in Nat /\ Len(b) \in Nat
         /\ \A m \in 1..(Len(a) + Len(b)) :
              (a \o b)[m] = IF m <= Len(a) THEN a[m] ELSE b[m - Len(a)]
OBVIOUS

LEMMA InsertIs ==
  ASSUME NEW S, NEW s \in Seq(S), NEW i \in 1..(Len(s) + 1), NEW e \in S
  PROVE  /\ InsertAt(s, i, e) \in Seq(S) /\ Len(InsertAt(s, i, e)) = Len(s) + 1
         /\ \A m \in 1..(Len(s) + 1) :
              InsertAt(s, i, e)[m] = IF m < i THEN s[m] ELSE IF m = i THEN e ELSE s[m - 1]
<1> DEFINE a == SubSeq(s, 1, i - 1)
           b == SubSeq(s, i, Len(s))
<1>1. /\ Len(s) \in Nat /\ i \in Nat /\ i >= 1 /\ i <= Len(s) + 1
  OBVIOUS
<1>2. a \in Seq(S) /\ Len(a) = i - 1 /\ \A m \in 1..(i - 1) : a[m] = s[m]
  <2>1. 1 \in 1..(Len(s) + 1) /\ i - 1 \in 0..Len(s)
    BY <1>1
  <2> QED BY <1>1, <2>1
<1>3. b \in Seq(S) /\ Len(b) = Len(s) - i + 1 /\ \A m \in 1..(Len(s) - i + 1) : b[m] = s[i + m - 1]
  BY <1>1
<1>4. InsertAt(s, i, e) = a \o <<e>> \o b
  BY DEF InsertAt
<1> HIDE DEF a, b
<1>5. /\ a \o <<e>> \in Seq(S) /\ Len(a \o <<e>>) = i
      /\ \A m \in 1..i : (a \o <<e>>)[m] = IF m < i THEN s[m] ELSE e
  BY <1>1, <1>2
<1> DEFINE c == a \o <<e>>
<1>6. /\ c \in Seq(S) /\ Len(c) = i /\ \A m \in 1..i : c[m] = IF m < i THEN s[m] ELSE e
      /\ InsertAt(s, i, e) = c \o b
  BY <1>4, <1>5
<1> HIDE DEF c
<1>7. c \o b \in Seq(S) /\ Len(c \o b) = Len(s) + 1
  <2>1. c \o b \in Seq(S) /\ Len(c \o b) = Len(c) + Len(b)
    BY ONLY <1>3, <1>6, Concat
  <2> QED BY ONLY <2>1, <1>1, <1>3, <1>6
<1>8. \A m \in 1..(Len(s) + 1) :
        (c \o b)[m] = IF m < i THEN s[m] ELSE IF m = i THEN e ELSE s[m - 1]
  <2> SUFFICES ASSUME NEW m \in 1..(Len(s) + 1)
               PROVE  (c \o b)[m] = IF m < i THEN s[m] ELSE IF m = i THEN e ELSE s[m - 1]
    OBVIOUS
  <2>0. m <= i \/ m > i
    BY <1>1
  <2>1. CASE m <= i
    <3>1. m \in 1..i /\ (c \o b)[m] = c[m]
      BY <1>1, <1>3, <1>6, <2>1
    <3> QED BY <1>1, <1>6, <2>1, <3>1
  <2>2. CASE m > i
    <3>1. m - i \in 1..(Len(s) - i + 1) /\ (c \o b)[m] = b[m - i] /\ i + (m - i) - 1 = m - 1
      BY <1>1, <1>3, <1>6, <2>2
    <3> QED BY <1>1, <1>3, <2>2, <3>1
  <2> QED BY <2>0, <2>1, <2>2
<1> QED BY <1>6, <1>7, <1>8

LEMMA RemoveIs ==
  ASSUME NEW S, NEW s \in Seq(S), NEW i \in 1..Len(s)
  PROVE  /\ RemoveAt(s, i) \in Seq(S) /\ Len(RemoveAt(s, i)) = Len(s) - 1
         /\ \A m \in 1..(Len(s) - 1) : RemoveAt(s, i)[m] = IF m < i THEN s[m] ELSE s[m + 1]
<1> DEFINE a == SubSeq(s, 1, i - 1)
           b == SubSeq(s, i + 1, Len(s))
<1>1. /\ Len(s) \in Nat /\ i \in Nat /\ i >= 1 /\ i <= Len(s)
  OBVIOUS
<1>2. a \in Seq(S) /\ Len(a) = i - 1 /\ \A m \in 1..(i - 1) : a[m] = s[m]
  <2>1. 1 \in 1..(Len(s) + 1) /\ i - 1 \in 0..Len(s)
    BY <1>1
  <2> QED BY <1>1, <2>1
<1>3. b \in Seq(S) /\ Len(b) = Len(s) - i /\ \A m \in 1..(Len(s) - i) : b[m] = s[i + m]
  BY <1>1
<1>4. RemoveAt(s, i) = a \o b
  BY DEF RemoveAt
<1> HIDE DEF a, b
<1>5. a \o b \in Seq(S) /\ Len(a \o b) = Len(s) - 1
  <2>1. a \o b \in Seq(S) /\ Len(a \o b) = Len(a) + Len(b)
    BY ONLY <1>2, <1>3, Concat
  <2> QED BY ONLY <2>1, <1>1, <1>2, <1>3
<1>6. \A m \in 1..(Len(s) - 1) : (a \o b)[m] = IF m < i THEN s[m] ELSE s[m + 1]
  <2> SUFFICES ASSUME NEW m \in 1..(Len(s) - 1)
               PROVE  (a \o b)[m] = IF m < i THEN s[m] ELSE s[m + 1]
    OBVIOUS
  <2>0. m < i \/ m >= i
    BY <1>1
  <2>1. CASE m < i
    BY <1>1, <1>2, <1>3, <2>1
  <2>2. CASE m >= i
    <3>1. m - (i - 1) \in 1..(Len(s) - i) /\ (a \o b)[m] = b[m - (i - 1)]
          /\ i + (m - (i - 1)) = m + 1
      BY <1>1, <1>2, <1>3, <2>2
    <3> QED BY <1>1, <1>3, <2>2, <3>1
  <2> QED BY <2>0, <2>1, <2>2
<1> QED BY <1>4, <1>5, <1>6

-----------------------------------------------------------------------------
(* The number of values a sequence of items stands for                      *)

Items == [value : Values, g : Nat \ {0}, delta : Nat]

Weight(s) == FoldLeft(LAMBDA n, x : n + x.g, 0, s)

\* G is the weights of the beginnings of s.
Weighs(G, s) == G[0] = 0 /\ \A m \in 1..Len(s) : G[m] = G[m - 1] + s[m].g

LEMMA WeightRuns ==
  ASSUME NEW s \in Seq(Items)
  PROVE  \E G : Weighs(G, s) /\ Weight(s) = G[Len(s)]
<1> DEFINE N == Len(s)
           iter == CHOOSE f : f = [S \in SUBSET DOMAIN s |->
                     IF S = {} THEN 0 ELSE f[S \ {Max(S)}] + s[Max(S)].g]
<1>1. Weight(s) = iter[DOMAIN s]
  BY DEF Weight, FoldLeft, MapThenFoldSet, Max
<1>2. N \in Nat /\ DOMAIN s = 1..N /\ s \in [1..N -> Items]
  OBVIOUS
<1> HIDE DEF N
<1> DEFINE op == [x \in Int |-> [e \in Items |-> x + e.g]]
           base == 0
           Numbers == Int
<1>3. /\ op \in [Numbers -> [Items -> Numbers]]
      /\ \A x \in Int, e \in Items : op[x][e] = x + e.g
  <2>1. \A e \in Items : e.g \in Int
    BY DEF Items
  <2> QED BY <2>1
<1>4. base \in Numbers
  OBVIOUS
<1> HIDE DEF op
<1>5. PICK g \in [SUBSET (1..N) -> Numbers] : Folds(g, N, base, op, s)
  <2> HIDE DEF base, Numbers
  <2> QED BY ONLY <1>2, <1>3, <1>4, FoldExists
<1>6. \A S \in SUBSET (1..N) : g[S] = IF S = {} THEN 0 ELSE g[S \ {Max(S)}] + s[Max(S)].g
  <2> TAKE S \in SUBSET (1..N)
  <2>1. CASE S # {}
    <3>1. Max(S) \in 1..N
      BY <1>2, <2>1, HasLargest
    <3>2. g[S \ {Max(S)}] \in Int /\ s[Max(S)] \in Items
      BY <1>2, <3>1
    <3> QED BY <1>3, <1>5, <2>1, <3>2 DEF Folds
  <2> QED BY <1>5, <2>1 DEF Folds
<1>7. \E f : f = [S \in SUBSET DOMAIN s |->
                    IF S = {} THEN 0 ELSE f[S \ {Max(S)}] + s[Max(S)].g]
  BY <1>2, <1>6
<1>8. iter = [S \in SUBSET DOMAIN s |->
                IF S = {} THEN 0 ELSE iter[S \ {Max(S)}] + s[Max(S)].g]
  BY <1>7
<1> HIDE DEF iter
<1> DEFINE G == [m \in 0..N |-> iter[1..m]]
<1>9. G[0] = 0
  <2>1. 1..0 = {} /\ {} \in SUBSET DOMAIN s
    OBVIOUS
  <2>2. iter[1..0] = 0
    BY <1>8, <2>1
  <2> QED BY <1>2, <2>2
<1>10. \A m \in 1..N : G[m] = G[m - 1] + s[m].g
  <2> SUFFICES ASSUME NEW m \in 1..N PROVE G[m] = G[m - 1] + s[m].g
    OBVIOUS
  <2>1. 1..m \in SUBSET DOMAIN s /\ m \in 1..m /\ (1..m) \ {m} = 1..(m - 1) /\ m \in Nat
    BY <1>2, LastOf
  <2>2. Max(1..m) = m
    BY <1>2, <2>1, Largest
  <2>3. iter[1..m] = iter[1..(m - 1)] + s[m].g
    BY ONLY <1>8, <2>1, <2>2
  <2>4. G[m] = iter[1..m] /\ G[m - 1] = iter[1..(m - 1)]
    BY <1>2
  <2> HIDE DEF G
  <2> QED BY <2>3, <2>4
<1>11. Weight(s) = G[N]
  BY <1>1, <1>2
<1> HIDE DEF G
<1> QED BY <1>9, <1>10, <1>11 DEF N, Weighs

LEMMA WeightIs ==
  ASSUME NEW s \in Seq(Items), NEW G, Weighs(G, s)
  PROVE  Weight(s) = G[Len(s)]
<1>1. PICK H : Weighs(H, s) /\ Weight(s) = H[Len(s)]
  BY WeightRuns
<1>2. Len(s) \in Nat
  OBVIOUS
<1>3. Alike(H, G, Len(s))
  BY <1>1 DEF Weighs, Alike
<1>4. H[Len(s)] = G[Len(s)]
  BY <1>2, <1>3, SameResult
<1> QED BY <1>1, <1>4

\* Weights are numbers, and no beginning weighs more than a longer one.
LEMMA WeightGrows ==
  ASSUME NEW s \in Seq(Items), NEW G, Weighs(G, s)
  PROVE  \A m \in 0..Len(s) : G[m] \in Nat /\ \A i \in 1..m : s[i].g <= G[m]
<1> DEFINE P(m) == G[m] \in Nat /\ \A i \in 1..m : s[i].g <= G[m]
           T == {m \in Nat : m <= Len(s) => P(m)}
<1>1. 0 \in T
  BY DEF Weighs
<1>2. ASSUME NEW m \in Nat, m \in T
      PROVE  m + 1 \in T
  <2> SUFFICES ASSUME m + 1 <= Len(s) PROVE P(m + 1)
    OBVIOUS
  <2>1. m + 1 \in 1..Len(s) /\ (m + 1) - 1 = m /\ m <= Len(s) /\ Len(s) \in Nat
    OBVIOUS
  <2>2. s[m + 1].g \in Nat /\ G[m + 1] = G[m] + s[m + 1].g
    <3>1. s[m + 1] \in Items
      BY <2>1
    <3> QED BY <2>1, <3>1 DEF Weighs, Items
  <2>3. G[m] \in Nat /\ \A i \in 1..m : s[i].g <= G[m]
    BY <1>2, <2>1
  <2>4. \A i \in 1..m : s[i].g \in Nat
    <3>1. \A i \in 1..m : i \in 1..Len(s)
      BY <2>1
    <3>2. \A i \in 1..Len(s) : s[i] \in Items
      OBVIOUS
    <3> QED BY <3>1, <3>2 DEF Items
  <2>5. \A i \in 1..(m + 1) : i \in 1..m \/ i = m + 1
    OBVIOUS
  <2> QED BY ONLY <1>2, <2>2, <2>3, <2>4, <2>5
<1>3. Nat \subseteq T
  <2> HIDE DEF T
  <2> QED BY <1>1, <1>2, Induction
<1> QED BY <1>3

LEMMA WeightBounds ==
  ASSUME NEW s \in Seq(Items)
  PROVE  Weight(s) \in Nat /\ \A i \in 1..Len(s) : s[i].g <= Weight(s)
<1>1. PICK G : Weighs(G, s) /\ Weight(s) = G[Len(s)]
  BY WeightRuns
<1>2. Len(s) \in 0..Len(s)
  OBVIOUS
<1> QED BY <1>1, <1>2, WeightGrows

LEMMA WeightInsert ==
  ASSUME NEW s \in Seq(Items), NEW i \in 1..(Len(s) + 1), NEW e \in Items
  PROVE  Weight(InsertAt(s, i, e)) = Weight(s) + e.g
<1> DEFINE r == InsertAt(s, i, e)
           N == Len(s)
<1>1. /\ r \in Seq(Items) /\ Len(r) = N + 1
      /\ \A m \in 1..(N + 1) : r[m] = IF m < i THEN s[m] ELSE IF m = i THEN e ELSE s[m - 1]
  BY InsertIs
<1>2. PICK G : Weighs(G, s) /\ Weight(s) = G[N]
  BY WeightRuns
<1>3. N \in Nat /\ i \in Nat /\ i >= 1 /\ i <= N + 1 /\ e.g \in Nat
  BY DEF Items
<1>4. /\ \A m \in 0..N : G[m] \in Nat
      /\ \A m \in 1..N : s[m].g \in Nat
      /\ \A m \in 1..N : G[m] = G[m - 1] + s[m].g
  <2>1. \A m \in 1..N : s[m] \in Items
    OBVIOUS
  <2> QED BY <1>2, <2>1, WeightGrows DEF Weighs, Items
<1> DEFINE H == [m \in 0..(N + 1) |-> IF m < i THEN G[m] ELSE G[m - 1] + e.g]
<1> HIDE DEF N, r
<1>5. H[0] = 0
  BY <1>2, <1>3 DEF Weighs
<1>6. ASSUME NEW m \in 1..(N + 1) PROVE H[m] = H[m - 1] + r[m].g
  <2>1. m \in 0..(N + 1) /\ m - 1 \in 0..(N + 1) /\ m - 1 \in 0..N /\ m \in Nat
    BY <1>3
  <2>2. CASE m < i
    <3>1. m \in 1..N /\ H[m] = G[m] /\ H[m - 1] = G[m - 1] /\ r[m] = s[m]
      BY <1>1, <1>3, <2>1, <2>2
    <3> QED BY <1>4, <3>1
  <2>3. CASE m = i
    <3>1. H[m] = G[m - 1] + e.g /\ H[m - 1] = G[m - 1] /\ r[m] = e
      BY <1>1, <1>3, <2>1, <2>3
    <3> QED BY <3>1
  <2>4. CASE m > i
    <3>1. /\ m - 1 \in 1..N /\ H[m] = G[m - 1] + e.g /\ H[m - 1] = G[(m - 1) - 1] + e.g
          /\ r[m] = s[m - 1] /\ (m - 1) - 1 \in 0..N
      BY <1>1, <1>3, <2>1, <2>4
    <3>2. /\ G[m - 1] = G[(m - 1) - 1] + s[m - 1].g /\ s[m - 1].g \in Nat
          /\ G[(m - 1) - 1] \in Nat
      BY <1>4, <3>1
    <3> HIDE DEF H
    <3> QED BY ONLY <1>3, <3>1, <3>2
  <2> QED BY <1>3, <2>1, <2>2, <2>3, <2>4
<1>7. H[N + 1] = G[N] + e.g
  BY <1>3
<1> HIDE DEF H
<1>8. Weighs(H, r)
  BY <1>1, <1>5, <1>6 DEF Weighs
<1>9. Weight(r) = H[N + 1]
  BY <1>1, <1>8, WeightIs
<1> QED BY <1>2, <1>7, <1>9 DEF r

LEMMA Heavier ==
  ASSUME NEW x \in Items, NEW n \in Nat
  PROVE  LET e == [x EXCEPT !.g = @ + n]
         IN  e \in Items /\ e.value = x.value /\ e.g = x.g + n
BY DEF Items

\* Item q goes into the item behind it.
LEMMA MergedIs ==
  ASSUME NEW s \in Seq(Items), NEW q \in 1..(Len(s) - 1)
  PROVE  /\ Merged(s, q) \in Seq(Items) /\ Len(Merged(s, q)) = Len(s) - 1
         /\ \A m \in 1..(Len(s) - 1) :
              /\ Merged(s, q)[m].value = s[IF m < q THEN m ELSE m + 1].value
              /\ Merged(s, q)[m].g = IF m < q THEN s[m].g
                                     ELSE IF m = q THEN s[q].g + s[q + 1].g ELSE s[m + 1].g
<1> DEFINE N == Len(s)
           e == [s[q + 1] EXCEPT !.g = @ + s[q].g]
           u == [s EXCEPT ![q + 1] = e]
<1>1. N \in Nat /\ q \in Nat /\ q >= 1 /\ q + 1 <= N /\ q \in 1..N /\ q + 1 \in 1..N
  OBVIOUS
<1>2. s[q] \in Items /\ s[q + 1] \in Items
  BY <1>1
<1>3. e \in Items /\ e.value = s[q + 1].value /\ e.g = s[q].g + s[q + 1].g
  <2>1. s[q].g \in Nat /\ s[q + 1].g \in Nat
    BY <1>2 DEF Items
  <2>2. e \in Items /\ e.value = s[q + 1].value /\ e.g = s[q + 1].g + s[q].g
    BY <1>2, <2>1, Heavier
  <2> HIDE DEF e
  <2> QED BY <2>1, <2>2
<1>4. Merged(s, q) = RemoveAt(u, q)
  BY DEF Merged
<1> HIDE DEF e
<1>5. u \in Seq(Items) /\ Len(u) = N /\ \A m \in 1..N : u[m] = IF m = q + 1 THEN e ELSE s[m]
  BY <1>1, <1>3
<1> HIDE DEF u
<1> HIDE DEF N
<1>6. /\ RemoveAt(u, q) \in Seq(Items) /\ Len(RemoveAt(u, q)) = N - 1
      /\ \A m \in 1..(N - 1) : RemoveAt(u, q)[m] = IF m < q THEN u[m] ELSE u[m + 1]
  <2>1. u \in Seq(Items) /\ q \in 1..Len(u)
    BY ONLY <1>1, <1>5
  <2>2. /\ RemoveAt(u, q) \in Seq(Items) /\ Len(RemoveAt(u, q)) = Len(u) - 1
        /\ \A m \in 1..(Len(u) - 1) : RemoveAt(u, q)[m] = IF m < q THEN u[m] ELSE u[m + 1]
    BY ONLY <2>1, RemoveIs
  <2> QED BY ONLY <1>5, <2>2
<1>7. ASSUME NEW m \in 1..(N - 1)
      PROVE  RemoveAt(u, q)[m] = IF m < q THEN s[m] ELSE IF m = q THEN e ELSE s[m + 1]
  <2>1. m \in 1..N /\ m + 1 \in 1..N /\ m \in Nat
    BY <1>1
  <2>2. CASE m < q
    BY <1>1, <1>5, <1>6, <2>1, <2>2
  <2>3. CASE m = q
    BY <1>1, <1>5, <1>6, <2>1, <2>3
  <2>4. CASE m > q
    BY <1>1, <1>5, <1>6, <2>1, <2>4
  <2> QED BY <1>1, <2>1, <2>2, <2>3, <2>4
<1>8. ASSUME NEW m \in 1..(N - 1)
      PROVE  /\ Merged(s, q)[m].value = s[IF m < q THEN m ELSE m + 1].value
             /\ Merged(s, q)[m].g = IF m < q THEN s[m].g
                                    ELSE IF m = q THEN s[q].g + s[q + 1].g ELSE s[m + 1].g
  <2>1. Merged(s, q)[m] = IF m < q THEN s[m] ELSE IF m = q THEN e ELSE s[m + 1]
    BY <1>4, <1>7
  <2> QED BY <1>1, <1>3, <2>1
<1> QED BY <1>4, <1>6, <1>8 DEF N

LEMMA WeightMerged ==
  ASSUME NEW s \in Seq(Items), NEW q \in 1..(Len(s) - 1)
  PROVE  Weight(Merged(s, q)) = Weight(s)
<1> DEFINE r == Merged(s, q)
           N == Len(s)
<1>1. /\ r \in Seq(Items) /\ Len(r) = N - 1
      /\ \A m \in 1..(N - 1) :
           r[m].g = IF m < q THEN s[m].g ELSE IF m = q THEN s[q].g + s[q + 1].g ELSE s[m + 1].g
  BY MergedIs
<1>2. PICK G : Weighs(G, s) /\ Weight(s) = G[N]
  BY WeightRuns
<1>3. N \in Nat /\ q \in Nat /\ q >= 1 /\ q + 1 <= N
  OBVIOUS
<1>4. /\ \A m \in 0..N : G[m] \in Nat
      /\ \A m \in 1..N : s[m].g \in Nat
      /\ \A m \in 1..N : G[m] = G[m - 1] + s[m].g
  <2>1. \A m \in 1..N : s[m] \in Items
    OBVIOUS
  <2> QED BY <1>2, <2>1, WeightGrows DEF Weighs, Items
<1> DEFINE H == [m \in 0..(N - 1) |-> IF m < q THEN G[m] ELSE G[m + 1]]
<1> HIDE DEF N, r
<1>5. H[0] = 0
  BY <1>2, <1>3 DEF Weighs
<1>6. ASSUME NEW m \in 1..(N - 1) PROVE H[m] = H[m - 1] + r[m].g
  <2>1. /\ m \in 0..(N - 1) /\ m - 1 \in 0..(N - 1) /\ m \in 1..N /\ m + 1 \in 1..N
        /\ m - 1 \in 0..N /\ (m + 1) - 1 = m /\ (m - 1) + 1 = m /\ m \in Nat
    BY <1>3
  <2>2. /\ G[m] = G[m - 1] + s[m].g /\ G[m + 1] = G[m] + s[m + 1].g
        /\ G[m - 1] \in Nat /\ s[m].g \in Nat /\ s[m + 1].g \in Nat
    <3>1. G[m + 1] = G[(m + 1) - 1] + s[m + 1].g
      BY <1>4, <2>1
    <3> QED BY <1>4, <2>1, <3>1
  <2>3. CASE m < q
    <3>1. H[m] = G[m] /\ H[m - 1] = G[m - 1] /\ r[m].g = s[m].g
      BY <1>1, <1>3, <2>1, <2>3
    <3> QED BY <2>2, <3>1
  <2>4. CASE m = q
    <3>1. H[m] = G[m + 1] /\ H[m - 1] = G[m - 1] /\ r[m].g = s[m].g + s[m + 1].g
      BY <1>1, <1>3, <2>1, <2>4
    <3> HIDE DEF H
    <3> QED BY ONLY <2>2, <3>1
  <2>5. CASE m > q
    <3>1. H[m] = G[m + 1] /\ H[m - 1] = G[(m - 1) + 1] /\ r[m].g = s[m + 1].g
      BY <1>1, <1>3, <2>1, <2>5
    <3> HIDE DEF H
    <3> QED BY <2>1, <2>2, <3>1
  <2> QED BY <1>3, <2>1, <2>3, <2>4, <2>5
<1>7. H[N - 1] = G[N]
  BY <1>3
<1> HIDE DEF H
<1>8. Weighs(H, r)
  BY <1>1, <1>5, <1>6 DEF Weighs
<1>9. Weight(r) = H[N - 1]
  BY <1>1, <1>8, WeightIs
<1> QED BY <1>2, <1>7, <1>9 DEF r

-----------------------------------------------------------------------------
(* The order of the items                                                   *)

Ascending(s) == \A i \in 1..(Len(s) - 1) : s[i].value <= s[i + 1].value

ValuesOf(s) == {s[i].value : i \in DOMAIN s}

\* The last item of an ascending sequence is a greatest one.
LEMMA AscendingTo ==
  ASSUME NEW s \in Seq(Items), Ascending(s), NEW j \in 1..Len(s), NEW i \in 1..j
  PROVE  s[i].value <= s[j].value
<1> DEFINE P(m) == \A k \in 1..m : s[k].value <= s[m].value
           T == {m \in Nat : m \in 1..Len(s) => P(m)}
<1>1. 0 \in T
  OBVIOUS
<1>2. ASSUME NEW m \in Nat, m \in T
      PROVE  m + 1 \in T
  <2> SUFFICES ASSUME m + 1 \in 1..Len(s), NEW k \in 1..(m + 1)
               PROVE  s[k].value <= s[m + 1].value
    OBVIOUS
  <2>1. \A n \in 1..Len(s) : s[n].value \in Int
    <3>1. \A n \in 1..Len(s) : s[n] \in Items
      OBVIOUS
    <3> QED BY <3>1, ValuesAssumption DEF Items
  <2>2. CASE k = m + 1
    BY <2>1, <2>2
  <2>3. CASE k # m + 1
    <3>1. m \in 1..Len(s) /\ k \in 1..m /\ m \in 1..(Len(s) - 1) /\ k \in 1..Len(s)
      BY <2>3
    <3>2. s[k].value <= s[m].value /\ s[m].value <= s[m + 1].value
      BY <1>2, <3>1 DEF Ascending
    <3> QED BY <2>1, <3>1, <3>2
  <2> QED BY <2>2, <2>3
<1>3. Nat \subseteq T
  <2> HIDE DEF T
  <2> QED BY <1>1, <1>2, Induction
<1>4. j \in Nat
  OBVIOUS
<1> QED BY <1>3, <1>4

-----------------------------------------------------------------------------
(* The tolerated error                                                      *)

LEMMA Least ==
  ASSUME NEW S \in SUBSET Nat, S # {}
  PROVE  Min(S) \in S /\ \A y \in S : Min(S) <= y
<1> DEFINE R == {ss \in Nat \X Nat : ss[1] < ss[2]}
<1>1. IsWellFoundedOn(R, Nat)
  BY NatLessThanWellFounded DEF OpToRel
<1>2. \E x \in S : \A y \in S : <<y, x>> \notin R
  <2> HIDE DEF R
  <2> QED BY ONLY <1>1, WFMin, S \in SUBSET Nat, S # {}
<1>3. \E x \in S : \A y \in S : x <= y
  <2>1. PICK x \in S : \A y \in S : <<y, x>> \notin R
    BY <1>2
  <2>2. \A y \in S : ~(y < x)
    BY <2>1
  <2> QED BY <2>2
<1> QED BY <1>3 DEF Min

LEMMA Product ==
  ASSUME NEW a \in Nat, NEW b \in Nat
  PROVE  a * b \in Nat
OBVIOUS

\* A share of at most a hundred percent.
LEMMA Percent ==
  ASSUME NEW a \in 0..100, NEW n \in Nat
  PROVE  a * n \in Nat /\ a * n <= 100 * n
<1> DEFINE b == 100 - a
<1>1. b \in Nat /\ a \in Nat /\ a + b = 100
  OBVIOUS
<1> HIDE DEF b
<1>2. a * n \in Nat /\ b * n \in Nat
  BY <1>1, Product
<1>3. (a + b) * n = a * n + b * n
  BY <1>1
<1> QED BY <1>1, <1>2, <1>3

LEMMA Errors ==
  ASSUME NEW rank \in Nat, NEW size \in Nat
  PROVE  \A e \in AllowableErrors(rank, size) : e[1] \in Nat /\ e[2] \in Nat \ {0}
<1> DEFINE Near(q) == IF 100 * rank <= q.quantile * size
                      THEN <<2 * q.error * (size - rank), 100 - q.quantile>>
                      ELSE <<2 * q.error * rank, q.quantile>>
<1>1. ASSUME NEW q \in Targets
      PROVE  Near(q)[1] \in Nat /\ Near(q)[2] \in Nat
  <2>1. q.quantile \in 0..100 /\ q.error \in Nat
    BY TargetsAssumption
  <2>2. 2 * q.error \in Nat
    BY <2>1
  <2>3. CASE 100 * rank <= q.quantile * size
    <3>1. size - rank \in Nat
      <4>1. q.quantile * size <= 100 * size /\ q.quantile * size \in Nat
        BY <2>1, Percent
      <4> QED BY <2>3, <4>1
    <3>2. 2 * q.error * (size - rank) \in Nat
      BY ONLY <2>2, <3>1, Product
    <3> QED BY <2>1, <2>3, <3>2
  <2>4. CASE ~(100 * rank <= q.quantile * size)
    <3>1. 2 * q.error * rank \in Nat
      BY ONLY <2>2, Product, rank \in Nat
    <3> QED BY <2>1, <2>4, <3>1
  <2> QED BY <2>3, <2>4
<1>2. AllowableErrors(rank, size) =
        {<<size + 1, 1>>} \cup {e \in {Near(q) : q \in Targets} : e[2] # 0}
  BY DEF AllowableErrors
<1> HIDE DEF Near
<1>3. <<size + 1, 1>>[1] \in Nat /\ <<size + 1, 1>>[2] \in Nat \ {0}
  OBVIOUS
<1> QED BY <1>1, <1>2, <1>3

LEMMA FloorTyped ==
  ASSUME NEW rank \in Nat, NEW size \in Nat
  PROVE  FloorError(rank, size) \in Nat
<1> DEFINE E == AllowableErrors(rank, size)
           F == {e[1] \div e[2] : e \in E}
<1>1. F \in SUBSET Nat
  <2>1. \A m \in Nat, n \in Nat \ {0} : m \div n \in Nat
    OBVIOUS
  <2> QED BY <2>1, Errors
<1>2. F # {}
  <2>1. <<size + 1, 1>> \in E
    BY DEF AllowableErrors
  <2> HIDE DEF E
  <2> QED BY <2>1
<1> HIDE DEF F
<1>3. Min(F) \in F
  BY <1>1, <1>2, Least
<1> QED BY <1>1, <1>3 DEF FloorError, F

-----------------------------------------------------------------------------
(* Sorting                                                                  *)

\* Induction over the subsets of a finite set.
LEMMA SubsetInduction ==
  ASSUME NEW V, IsFiniteSet(V), NEW P,
         \A T \in SUBSET V : (\A U \in SUBSET V : U \subseteq T /\ U # T => U \in P) => T \in P
  PROVE  SUBSET V \subseteq P
<1> DEFINE Q == (SUBSET V) \ P
           R == StrictSubsetOrdering(V)
<1>1. SUFFICES ASSUME Q # {} PROVE FALSE
  OBVIOUS
<1>2. IsWellFoundedOn(R, SUBSET V)
  BY FS_StrictSubsetOrderingWellFounded, FS_FiniteSubsetsOfFinite
<1>3. \E x \in Q : \A y \in Q : <<y, x>> \notin R
  <2> HIDE DEF Q, R
  <2>1. Q \subseteq SUBSET V
    BY DEF Q
  <2> QED BY ONLY <1>1, <1>2, <2>1, WFMin
<1>4. PICK x \in Q : \A y \in Q : <<y, x>> \notin R
  BY <1>3
<1>5. \A y \in Q : ~(y \subseteq x /\ y # x)
  BY <1>4 DEF StrictSubsetOrdering
<1> QED BY <1>5

LEMMA Extremes ==
  ASSUME NEW S \in SUBSET Int, IsFiniteSet(S), S # {}
  PROVE  /\ Min(S) \in S /\ \A y \in S : Min(S) <= y
         /\ Max(S) \in S /\ \A y \in S : Max(S) >= y
<1> DEFINE Has(T) == T # {} => (\E x \in T : \A y \in T : x <= y) /\ (\E x \in T : \A y \in T : x >= y)
           P == {T \in SUBSET S : Has(T)}
<1>1. ASSUME NEW T \in SUBSET S, \A U \in SUBSET S : U \subseteq T /\ U # T => U \in P, T # {}
      PROVE  (\E x \in T : \A y \in T : x <= y) /\ (\E x \in T : \A y \in T : x >= y)
  <2>1. PICK e \in T : TRUE
    BY <1>1
  <2> DEFINE U == T \ {e}
  <2>2. U \in P
    BY <1>1, <2>1
  <2>3. CASE U = {}
    BY <2>1, <2>3
  <2>4. CASE U # {}
    <3>1. PICK l \in U, h \in U : \A y \in U : l <= y /\ h >= y
      BY <2>2, <2>4
    <3>2. e \in Int /\ l \in Int /\ h \in Int /\ \A y \in T : y \in U \/ y = e
      OBVIOUS
    <3>3. \A y \in T : (IF e <= l THEN e ELSE l) <= y /\ (IF e >= h THEN e ELSE h) >= y
      <4> TAKE y \in T
      <4>1. CASE y = e
        BY ONLY <3>2, <4>1
      <4>2. CASE y \in U
        <5>1. l <= y /\ h >= y /\ y \in Int
          BY <3>1, <4>2
        <5> QED BY ONLY <3>2, <5>1
      <4> QED BY <3>2, <4>1, <4>2
    <3>4. (IF e <= l THEN e ELSE l) \in T /\ (IF e >= h THEN e ELSE h) \in T
      BY <2>1
    <3> HIDE DEF U
    <3> QED BY <3>3, <3>4
  <2> QED BY <2>3, <2>4
<1>2. \A T \in SUBSET S : (\A U \in SUBSET S : U \subseteq T /\ U # T => U \in P) => T \in P
  BY <1>1
<1>3. S \in P
  <2> HIDE DEF P
  <2> QED BY <1>2, SubsetInduction
<1> QED BY <1>3 DEF Min, Max

LEMMA SortedIs ==
  ASSUME NEW b \in Seq(Values)
  PROVE  /\ Sorted(b) \in Seq(Values) /\ Len(Sorted(b)) = Len(b)
         /\ \A i, j \in 1..Len(b) : i <= j => Sorted(b)[i] <= Sorted(b)[j]
         /\ {Sorted(b)[k] : k \in 1..Len(b)} = Range(b)
<1> DEFINE N == Len(b)
           UpTo(v) == Cardinality({i \in 1..N : b[i] <= v})
           From(k) == {v \in Range(b) : UpTo(v) >= k}
<1>1. N \in Nat /\ DOMAIN b = 1..N /\ \A i \in 1..N : b[i] \in Values /\ b[i] \in Int
  <2>1. N \in Nat /\ DOMAIN b = 1..N /\ \A i \in 1..N : b[i] \in Values
    OBVIOUS
  <2> QED BY <2>1, ValuesAssumption
<1>2. Range(b) = {b[i] : i \in 1..N} /\ Range(b) \subseteq Values /\ Range(b) \subseteq Int
  BY <1>1 DEF Range
<1>3. Sorted(b) = [k \in 1..N |-> Min(From(k))]
  BY <1>1 DEF Sorted
<1>4. IsFiniteSet(1..N) /\ Cardinality(1..N) = N
  <2> HIDE DEF N
  <2>1. 1 \in Int /\ N \in Int
    BY <1>1
  <2>2. IsFiniteSet(1..N) /\ Cardinality(1..N) = IF 1 > N THEN 0 ELSE N - 1 + 1
    BY <2>1, FS_Interval
  <2> QED BY <1>1, <2>2
<1>5. \A v : UpTo(v) \in Nat /\ UpTo(v) <= N
  <2> TAKE v
  <2>1. {i \in 1..N : b[i] <= v} \in SUBSET (1..N)
    OBVIOUS
  <2> HIDE DEF N
  <2> QED BY <1>4, <2>1, FS_Subset, FS_CardinalityType
<1>6. \A k : IsFiniteSet(From(k)) /\ From(k) \in SUBSET Int
  <2> TAKE k
  <2>1. IsFiniteSet(Values) /\ From(k) \in SUBSET Values /\ From(k) \in SUBSET Int
    BY <1>2, ValuesAssumption
  <2> HIDE DEF From
  <2> QED BY <2>1, FS_Subset
<1> HIDE DEF N
\* The greatest entry has all entries up to it.
<1>7. \A k \in 1..N : From(k) # {}
  <2> SUFFICES ASSUME NEW k \in 1..N PROVE \E v \in Range(b) : UpTo(v) >= k
    OBVIOUS
  <2>1. Range(b) # {} /\ IsFiniteSet(Range(b))
    <3>1. b[k] \in Range(b)
      BY <1>2
    <3>2. IsFiniteSet(Values) /\ Range(b) \in SUBSET Values
      BY <1>2, ValuesAssumption
    <3> QED BY <3>1, <3>2, FS_Subset
  <2>2. Max(Range(b)) \in Range(b) /\ \A w \in Range(b) : Max(Range(b)) >= w
    BY <1>2, <2>1, Extremes
  <2> DEFINE v == Max(Range(b))
  <2>3. {i \in 1..N : b[i] <= v} = 1..N
    <3>1. v \in Int /\ \A i \in 1..N : v >= b[i] /\ b[i] \in Int
      BY <1>1, <1>2, <2>2
    <3> HIDE DEF v
    <3> QED BY <3>1
  <2>4. UpTo(v) >= k
    <3>1. UpTo(v) = N
      BY <1>4, <2>3
    <3> HIDE DEF v, UpTo
    <3> QED BY <1>1, <3>1
  <2> HIDE DEF v, UpTo
  <2> QED BY <2>2, <2>4 DEF v
<1>8. \A k \in 1..N : Min(From(k)) \in From(k) /\ \A v \in From(k) : Min(From(k)) <= v
  <2> HIDE DEF From
  <2> QED BY <1>6, <1>7, Extremes
<1>9. Sorted(b) \in Seq(Values) /\ Len(Sorted(b)) = N
  <2>1. \A k \in 1..N : Min(From(k)) \in Values
    BY <1>2, <1>8
  <2> HIDE DEF From
  <2> QED BY <1>1, <1>3, <2>1
<1>10. \A i, j \in 1..N : i <= j => Sorted(b)[i] <= Sorted(b)[j]
  <2> SUFFICES ASSUME NEW i \in 1..N, NEW j \in 1..N, i <= j
               PROVE  Min(From(i)) <= Min(From(j))
    BY <1>3
  <2>1. From(j) \subseteq From(i)
    <3> HIDE DEF UpTo
    <3> QED BY <1>1, <1>5
  <2> HIDE DEF From
  <2> QED BY <1>8, <2>1
\* An entry is at the position of the number of entries up to it.
<1>11. ASSUME NEW v \in Range(b)
       PROVE  UpTo(v) \in 1..N /\ Min(From(UpTo(v))) = v
  <2> DEFINE L(w) == {i \in 1..N : b[i] <= w}
  <2>1. \A w : IsFiniteSet(L(w)) /\ UpTo(w) = Cardinality(L(w))
    <3> TAKE w
    <3>1. L(w) \in SUBSET (1..N)
      OBVIOUS
    <3> QED BY <1>4, <3>1, FS_Subset
  <2>2. L(v) # {}
    BY <1>1, <1>2
  <2>3. UpTo(v) # 0
    <3> HIDE DEF L
    <3> QED BY <2>1, <2>2, FS_EmptySet
  <2>4. \A w \in Range(b) : w < v => UpTo(w) < UpTo(v)
    <3> SUFFICES ASSUME NEW w \in Range(b), w < v PROVE UpTo(w) < UpTo(v)
      OBVIOUS
    <3>1. v \in Int /\ w \in Int
      BY <1>2
    <3>2. L(w) \in SUBSET L(v)
      BY <1>1, <3>1
    <3>3. L(w) # L(v)
      <4>1. PICK i \in 1..N : b[i] = v
        BY <1>2
      <4>2. i \in L(v) /\ i \notin L(w)
        BY <3>1, <4>1
      <4> QED BY <4>2
    <3> HIDE DEF L
    <3>4. Cardinality(L(w)) <= Cardinality(L(v)) /\ Cardinality(L(w)) # Cardinality(L(v))
      BY <2>1, <3>2, <3>3, FS_Subset
    <3> HIDE DEF UpTo
    <3> QED BY <1>5, <2>1, <3>4
  <2> HIDE DEF L, UpTo
  <2>5. UpTo(v) \in 1..N
    BY <1>1, <1>5, <2>3
  <2>6. v \in From(UpTo(v))
    BY <1>5
  <2>7. Min(From(UpTo(v))) \in Range(b) /\ ~(Min(From(UpTo(v))) < v) /\ Min(From(UpTo(v))) <= v
    <3> DEFINE m == Min(From(UpTo(v)))
    <3>1. m \in From(UpTo(v)) /\ m <= v
      BY <1>8, <2>5, <2>6
    <3>2. m \in Range(b) /\ UpTo(m) >= UpTo(v)
      BY <3>1
    <3> HIDE DEF m
    <3>3. ~(m < v)
      BY <1>5, <2>4, <3>2
    <3> QED BY <3>1, <3>2, <3>3 DEF m
  <2> DEFINE m == Min(From(UpTo(v)))
  <2>8. m \in Int /\ v \in Int /\ ~(m < v) /\ m <= v
    BY <1>2, <2>7
  <2>9. m = v
    <3> HIDE DEF m
    <3> QED BY ONLY <2>8
  <2> QED BY <2>5, <2>9
<1>12. {Sorted(b)[k] : k \in 1..N} = Range(b)
  <2>1. \A k \in 1..N : Sorted(b)[k] \in Range(b)
    BY <1>3, <1>8
  <2>2. \A v \in Range(b) : \E k \in 1..N : Sorted(b)[k] = v
    <3> HIDE DEF From, UpTo
    <3> QED BY <1>3, <1>11
  <2> QED BY <2>1, <2>2
<1> QED BY <1>9, <1>10, <1>12 DEF N

-----------------------------------------------------------------------------
(* insertBatch                                                              *)

States == {at \in Seq(Items) \X Nat : at[2] \in 1..Len(at[1])}

\* The value fits behind the item the search starts at, or it starts at the first.
Behind(at, v) == at[2] = 1 \/ at[1][at[2]].value <= v

LEMMA NumbersOf ==
  ASSUME NEW s \in Seq(Items)
  PROVE  \A k \in 1..Len(s) : s[k] \in Items /\ s[k].value \in Values /\ s[k].value \in Int
<1>1. \A k \in 1..Len(s) : s[k] \in Items
  OBVIOUS
<1> QED BY <1>1, ValuesAssumption DEF Items

\* The item of v goes in at i, between items that are not greater and items
\* that are not less.
Fits(s, i, v) ==
  /\ i = 1 \/ s[i - 1].value <= v
  /\ i = Len(s) + 1 \/ v <= s[i].value

LEMMA PlaceIs ==
  ASSUME NEW at \in States, NEW v \in Values
  PROVE  \E i \in 1..(Len(at[1]) + 1), e \in Items :
           /\ Place(at, v) = <<InsertAt(at[1], i, e), i>> /\ e.value = v /\ e.g = 1
           /\ Ascending(at[1]) /\ Behind(at, v) => Fits(at[1], i, v)
<1> DEFINE s == at[1]
           N == Len(s)
           K == {k \in at[2]..N : k = N \/ s[k].value >= v}
           stop == Min(K)
           idx == IF s[stop].value > v THEN stop - 1 ELSE stop
           delta == IF idx = 1 \/ idx + 1 = N THEN 0 ELSE FloorError(idx + 1, N) + 1
           e == [value |-> v, g |-> 1, delta |-> delta]
<1>1. s \in Seq(Items) /\ at[2] \in 1..N /\ N \in Nat
  BY DEF States
<1>2. stop \in K /\ \A k \in K : stop <= k
  <2>1. N \in K /\ K \in SUBSET Nat
    <3> HIDE DEF s, N
    <3> QED BY <1>1
  <2> HIDE DEF K
  <2> QED BY <2>1, Least
<1>3. Place(at, v) = <<InsertAt(s, idx + 1, e), idx + 1>>
  BY DEF Place
<1> HIDE DEF s, stop, delta
<1>4. stop \in Nat /\ stop >= at[2] /\ stop <= N /\ at[2] \in Nat /\ at[2] >= 1 /\ v \in Int
  BY <1>1, <1>2, ValuesAssumption
<1>5. \A k \in 1..N : s[k].value \in Int
  BY <1>1, NumbersOf
<1>6. idx \in 0..N /\ idx + 1 \in 1..(N + 1) /\ idx + 1 \in Nat
  <2> HIDE DEF N
  <2> QED BY <1>1, <1>4
<1>7. e \in Items
  <2>1. delta \in Nat
    <3>1. FloorError(idx + 1, N) \in Nat
      BY ONLY <1>1, <1>6, FloorTyped
    <3> QED BY <3>1 DEF delta
  <2> QED BY <2>1 DEF Items
<1>8. ASSUME Ascending(s), at[2] = 1 \/ s[at[2]].value <= v
      PROVE  Fits(s, idx + 1, v)
  <2> HIDE DEF N
  <2>1. CASE s[stop].value > v
    <3>1. idx = stop - 1
      BY <2>1
    <3>2. CASE stop = 1
      <4>1. idx + 1 = 1 /\ s[idx + 1].value = s[stop].value
        BY <3>1, <3>2
      <4>2. s[stop].value \in Int
        BY <1>4, <1>5
      <4> HIDE DEF idx
      <4> QED BY <1>4, <2>1, <4>1, <4>2 DEF Fits
    <3>3. CASE stop # 1
      <4>1. stop - 1 \in 1..N /\ stop - 1 < stop /\ stop - 1 # N /\ stop \in 1..N
        BY <1>1, <1>4, <3>3
      <4>2. s[stop - 1].value <= v
        <5>1. CASE stop = at[2]
          <6>1. at[2] # 1
            BY <3>3, <5>1
          <6>2. s[at[2]].value <= v
            BY <1>8, <6>1
          <6> QED BY <1>4, <1>5, <2>1, <4>1, <5>1, <6>2
        <5>2. CASE stop # at[2]
          <6>1. stop - 1 \notin K /\ stop - 1 \in at[2]..N
            BY <1>1, <1>2, <1>4, <4>1, <5>2
          <6>2. ~(s[stop - 1].value >= v) /\ s[stop - 1].value \in Int
            BY <1>5, <4>1, <6>1
          <6> QED BY <1>4, <6>2
        <5> QED BY <5>1, <5>2
      <4>3. idx + 1 = stop /\ (idx + 1) - 1 = stop - 1 /\ s[stop].value \in Int
        BY <1>4, <1>5, <3>1, <4>1
      <4>4. v <= s[stop].value
        BY <1>4, <2>1, <4>3
      <4> HIDE DEF idx
      <4> QED BY <4>2, <4>3, <4>4 DEF Fits
    <3> QED BY <3>2, <3>3
  <2>2. CASE ~(s[stop].value > v)
    <3>1. idx = stop /\ (idx + 1) - 1 = stop /\ s[stop].value \in Int /\ stop \in 1..N
      BY <1>1, <1>4, <1>5, <2>2
    <3>2. s[stop].value <= v
      BY <1>4, <2>2, <3>1
    <3>3. stop + 1 = N + 1 \/ v <= s[stop + 1].value
      <4>1. CASE stop = N
        BY <4>1
      <4>2. CASE stop # N
        <5>1. s[stop].value >= v
          BY <1>2, <4>2
        <5>2. stop \in 1..(N - 1) /\ stop + 1 \in 1..N
          BY <1>1, <1>4, <3>1, <4>2
        <5>3. s[stop].value <= s[stop + 1].value /\ s[stop + 1].value \in Int
          BY <1>5, <1>8, <5>2 DEF Ascending, N
        <5> QED BY <1>4, <3>1, <5>1, <5>3
      <4> QED BY <4>1, <4>2
    <3> HIDE DEF idx
    <3> QED BY <3>1, <3>2, <3>3 DEF Fits, N
  <2> QED BY <2>1, <2>2 DEF N
<1>9. e.value = v /\ e.g = 1
  OBVIOUS
<1> HIDE DEF idx, e
<1> DEFINE i == idx + 1
<1>10. i \in 1..(N + 1) /\ Place(at, v) = <<InsertAt(s, i, e), i>>
  BY <1>3, <1>6
<1>11. Ascending(s) /\ Behind(at, v) => Fits(s, i, v)
  BY <1>8 DEF Behind, s
<1> HIDE DEF i
<1> QED BY <1>7, <1>9, <1>10, <1>11 DEF N, s

\* An item that fits leaves the order as it is.
LEMMA InsertAscends ==
  ASSUME NEW s \in Seq(Items), NEW i \in 1..(Len(s) + 1), NEW e \in Items,
         Ascending(s), Fits(s, i, e.value)
  PROVE  Ascending(InsertAt(s, i, e))
<1> DEFINE r == InsertAt(s, i, e)
           N == Len(s)
<1>1. /\ r \in Seq(Items) /\ Len(r) = N + 1
      /\ \A m \in 1..(N + 1) : r[m] = IF m < i THEN s[m] ELSE IF m = i THEN e ELSE s[m - 1]
  BY ONLY InsertIs, s \in Seq(Items), i \in 1..(Len(s) + 1), e \in Items
<1>2. N \in Nat /\ i \in Nat /\ i >= 1 /\ i <= N + 1
  OBVIOUS
<1> HIDE DEF r, N
<1>3. ASSUME NEW m \in 1..N PROVE r[m].value <= r[m + 1].value
  <2>1. m \in 1..(N + 1) /\ m + 1 \in 1..(N + 1) /\ m \in Nat /\ (m + 1) - 1 = m
    BY <1>2
  <2>2. CASE m + 1 < i
    <3>1. r[m] = s[m] /\ r[m + 1] = s[m + 1] /\ m \in 1..(N - 1)
      BY <1>1, <1>2, <2>1, <2>2
    <3> QED BY <3>1 DEF Ascending, N
  <2>3. CASE m + 1 = i
    <3>1. r[m] = s[m] /\ r[m + 1] = e /\ i # 1 /\ m = i - 1
      BY <1>1, <1>2, <2>1, <2>3
    <3> QED BY <3>1 DEF Fits
  <2>4. CASE m = i
    <3>1. r[m] = e /\ r[m + 1] = s[m] /\ i # N + 1
      BY <1>1, <1>2, <2>1, <2>4
    <3> QED BY <2>4, <3>1 DEF Fits, N
  <2>5. CASE m > i
    <3>1. r[m] = s[m - 1] /\ r[m + 1] = s[m] /\ m - 1 \in 1..(N - 1) /\ (m - 1) + 1 = m
      BY <1>1, <1>2, <2>1, <2>5
    <3>2. s[m - 1].value <= s[(m - 1) + 1].value
      BY <3>1 DEF Ascending, N
    <3> QED BY <3>1, <3>2
  <2> QED BY <1>2, <2>1, <2>2, <2>3, <2>4, <2>5
<1>4. Len(r) - 1 = N
  BY <1>1, <1>2
<1>5. Ascending(r)
  BY <1>3, <1>4 DEF Ascending
<1> QED BY <1>5 DEF r

LEMMA InsertValues ==
  ASSUME NEW s \in Seq(Items), NEW i \in 1..(Len(s) + 1), NEW e \in Items
  PROVE  ValuesOf(InsertAt(s, i, e)) = ValuesOf(s) \cup {e.value}
<1> DEFINE r == InsertAt(s, i, e)
           N == Len(s)
<1>1. /\ r \in Seq(Items) /\ Len(r) = N + 1
      /\ \A m \in 1..(N + 1) : r[m] = IF m < i THEN s[m] ELSE IF m = i THEN e ELSE s[m - 1]
  BY InsertIs
<1>2. N \in Nat /\ i \in Nat /\ i >= 1 /\ i <= N + 1 /\ DOMAIN s = 1..N /\ DOMAIN r = 1..(N + 1)
  BY <1>1
<1> HIDE DEF r, N
<1>3. \A m \in 1..(N + 1) : m # i => \E k \in 1..N : r[m] = s[k]
  <2> TAKE m \in 1..(N + 1)
  <2>1. CASE m < i
    BY <1>1, <1>2, <2>1
  <2>2. CASE m > i
    <3>1. m - 1 \in 1..N /\ r[m] = s[m - 1]
      BY <1>1, <1>2, <2>2
    <3> QED BY <3>1
  <2> QED BY <1>2, <2>1, <2>2
<1>4. \A k \in 1..N : \E m \in 1..(N + 1) : r[m] = s[k]
  <2> TAKE k \in 1..N
  <2>0. k < i \/ k >= i
    BY <1>2
  <2>1. CASE k < i
    <3>1. k \in 1..(N + 1) /\ r[k] = s[k]
      BY <1>1, <1>2, <2>1
    <3> QED BY <3>1
  <2>2. CASE k >= i
    <3>1. k + 1 \in 1..(N + 1) /\ r[k + 1] = s[(k + 1) - 1] /\ (k + 1) - 1 = k
      BY <1>1, <1>2, <2>2
    <3> QED BY <3>1
  <2> QED BY <2>0, <2>1, <2>2
<1>5. i \in 1..(N + 1) /\ r[i] = e
  BY <1>1, <1>2
<1>6. ValuesOf(r) = ValuesOf(s) \cup {e.value}
  <2>1. ValuesOf(r) = {r[m].value : m \in 1..(N + 1)} /\ ValuesOf(s) = {s[m].value : m \in 1..N}
    BY <1>2 DEF ValuesOf
  <2>2. \A m \in 1..(N + 1) : r[m].value \in ValuesOf(s) \cup {e.value}
    BY <1>3, <1>5, <2>1
  <2>3. \A m \in 1..N : s[m].value \in ValuesOf(r)
    BY <1>4, <2>1
  <2>4. e.value \in ValuesOf(r)
    BY <1>5, <2>1
  <2> QED BY <2>1, <2>2, <2>3, <2>4
<1> QED BY <1>6 DEF r

LEMMA PlaceKeeps ==
  ASSUME NEW at \in States, NEW v \in Values
  PROVE  LET to == Place(at, v)
         IN  /\ to \in States
             /\ to[1][to[2]].value = v
             /\ Weight(to[1]) = Weight(at[1]) + 1
             /\ ValuesOf(to[1]) = ValuesOf(at[1]) \cup {v}
             /\ Ascending(at[1]) /\ Behind(at, v) => Ascending(to[1])
<1> DEFINE s == at[1]
<1>1. s \in Seq(Items) /\ Len(s) \in Nat
  BY DEF States
<1>2. PICK i \in 1..(Len(s) + 1), e \in Items :
        /\ Place(at, v) = <<InsertAt(s, i, e), i>> /\ e.value = v /\ e.g = 1
        /\ Ascending(s) /\ Behind(at, v) => Fits(s, i, v)
  BY PlaceIs
<1> DEFINE r == InsertAt(s, i, e)
<1> HIDE DEF s
<1>3. r \in Seq(Items) /\ Len(r) = Len(s) + 1 /\ r[i] = e
  BY <1>1, InsertIs
<1>4. Weight(r) = Weight(s) + 1
  BY <1>1, <1>2, WeightInsert
<1>5. ValuesOf(r) = ValuesOf(s) \cup {v}
  BY <1>1, <1>2, InsertValues
<1>6. Ascending(s) /\ Behind(at, v) => Ascending(r)
  BY <1>1, <1>2, InsertAscends
<1> HIDE DEF r
<1>7. Place(at, v) = <<r, i>>
  BY <1>2 DEF r
<1>8. Place(at, v) \in States
  BY <1>1, <1>3, <1>7 DEF States
<1> QED BY <1>2, <1>3, <1>4, <1>5, <1>6, <1>7, <1>8 DEF s

\* G is the states of the batch b going in, one value after the other.
Places(G, at, b) == G[0] = at /\ \A m \in 1..Len(b) : G[m] = Place(G[m - 1], b[m])

LEMMA PlaceRuns ==
  ASSUME NEW at \in States, NEW b \in Seq(Values)
  PROVE  \E G : Places(G, at, b) /\ FoldLeft(Place, at, b) = G[Len(b)]
<1> DEFINE N == Len(b)
           iter == CHOOSE f : f = [S \in SUBSET DOMAIN b |->
                     IF S = {} THEN at ELSE Place(f[S \ {Max(S)}], b[Max(S)])]
<1>1. FoldLeft(Place, at, b) = iter[DOMAIN b]
  BY DEF FoldLeft, MapThenFoldSet, Max
<1>2. N \in Nat /\ DOMAIN b = 1..N /\ b \in [1..N -> Values]
  OBVIOUS
<1> HIDE DEF N
<1> DEFINE op == [x \in States |-> [v \in Values |-> Place(x, v)]]
<1>3. /\ op \in [States -> [Values -> States]]
      /\ \A x \in States, v \in Values : op[x][v] = Place(x, v)
  <2>1. \A x \in States, v \in Values : Place(x, v) \in States
    BY PlaceKeeps
  <2> QED BY <2>1
<1> HIDE DEF op
<1>4. PICK g \in [SUBSET (1..N) -> States] : Folds(g, N, at, op, b)
  BY ONLY <1>2, <1>3, at \in States, FoldExists
<1>5. \A S \in SUBSET (1..N) : g[S] = IF S = {} THEN at ELSE Place(g[S \ {Max(S)}], b[Max(S)])
  <2> TAKE S \in SUBSET (1..N)
  <2>1. CASE S # {}
    <3>1. Max(S) \in 1..N
      BY <1>2, <2>1, HasLargest
    <3>2. g[S \ {Max(S)}] \in States /\ b[Max(S)] \in Values
      BY <1>2, <3>1
    <3> QED BY <1>3, <1>4, <2>1, <3>2 DEF Folds
  <2> QED BY <1>4, <2>1 DEF Folds
<1>6. \E f : f = [S \in SUBSET DOMAIN b |->
                    IF S = {} THEN at ELSE Place(f[S \ {Max(S)}], b[Max(S)])]
  BY <1>2, <1>5
<1>7. iter = [S \in SUBSET DOMAIN b |->
                IF S = {} THEN at ELSE Place(iter[S \ {Max(S)}], b[Max(S)])]
  BY <1>6
<1> HIDE DEF iter
<1> DEFINE G == [m \in 0..N |-> iter[1..m]]
<1>8. G[0] = at
  <2>1. 1..0 = {} /\ {} \in SUBSET DOMAIN b
    OBVIOUS
  <2>2. iter[1..0] = at
    BY <1>7, <2>1
  <2> QED BY <1>2, <2>2
<1>9. \A m \in 1..N : G[m] = Place(G[m - 1], b[m])
  <2> SUFFICES ASSUME NEW m \in 1..N PROVE G[m] = Place(G[m - 1], b[m])
    OBVIOUS
  <2>1. 1..m \in SUBSET DOMAIN b /\ m \in 1..m /\ (1..m) \ {m} = 1..(m - 1) /\ m \in Nat
    BY <1>2, LastOf
  <2>2. Max(1..m) = m
    BY <1>2, <2>1, Largest
  <2>3. iter[1..m] = Place(iter[1..(m - 1)], b[m])
    BY ONLY <1>7, <2>1, <2>2
  <2>4. G[m] = iter[1..m] /\ G[m - 1] = iter[1..(m - 1)]
    BY <1>2
  <2> HIDE DEF G
  <2> QED BY <2>3, <2>4
<1>10. FoldLeft(Place, at, b) = G[N]
  BY <1>1, <1>2
<1> HIDE DEF G
<1> QED BY <1>8, <1>9, <1>10 DEF N, Places

\* What goes into the sketch from the state at are n values, those of T.
Placed(to, at, n, T) ==
  /\ to \in States
  /\ Ascending(to[1])
  /\ Weight(to[1]) = Weight(at[1]) + n
  /\ ValuesOf(to[1]) = ValuesOf(at[1]) \cup T

LEMMA PlaceAll ==
  ASSUME NEW at \in States, NEW b \in Seq(Values), Ascending(at[1]),
         \A i, j \in 1..Len(b) : i <= j => b[i] <= b[j],
         b # << >> => Behind(at, b[1])
  PROVE  Placed(FoldLeft(Place, at, b), at, Len(b), Range(b))
<1> DEFINE N == Len(b)
           First(m) == {b[k] : k \in 1..m}
<1>1. N \in Nat /\ DOMAIN b = 1..N /\ \A m \in 1..N : b[m] \in Values
  OBVIOUS
<1>2. PICK G : Places(G, at, b) /\ FoldLeft(Place, at, b) = G[N]
  BY PlaceRuns
<1> DEFINE P(m) == Placed(G[m], at, m, First(m)) /\ (m < N => Behind(G[m], b[m + 1]))
           T == {m \in Nat : m <= N => P(m)}
<1>3. 0 \in T
  <2>1. Weight(at[1]) \in Nat
    <3>1. at[1] \in Seq(Items)
      BY DEF States
    <3> QED BY <3>1, WeightBounds
  <2>2. G[0] = at /\ First(0) = {} /\ Weight(at[1]) + 0 = Weight(at[1])
    BY <1>2, <2>1 DEF Places
  <2>3. Placed(G[0], at, 0, First(0))
    <3> HIDE DEF First
    <3> QED BY <2>2 DEF Placed
  <2>4. 0 < N => Behind(G[0], b[1])
    BY <2>2
  <2> HIDE DEF First
  <2> QED BY <2>3, <2>4
<1> HIDE DEF N
<1>4. ASSUME NEW m \in Nat, m \in T
      PROVE  m + 1 \in T
  <2> SUFFICES ASSUME m + 1 <= N PROVE P(m + 1)
    OBVIOUS
  <2>1. m + 1 \in 1..N /\ (m + 1) - 1 = m /\ m <= N /\ m < N
    BY <1>1
  <2> DEFINE v == b[m + 1]
  <2>2. Placed(G[m], at, m, First(m)) /\ Behind(G[m], v)
    <3> HIDE DEF First
    <3> QED BY <1>4, <2>1
  <2>3. v \in Values /\ G[m + 1] = Place(G[m], v)
    BY <1>1, <1>2, <2>1 DEF Places, N
  <2>4. First(m + 1) = First(m) \cup {v}
    <3>1. \A k \in 1..(m + 1) : k \in 1..m \/ k = m + 1
      OBVIOUS
    <3>2. \A k \in 1..m : k \in 1..(m + 1)
      OBVIOUS
    <3>3. m + 1 \in 1..(m + 1)
      OBVIOUS
    <3> QED BY <3>1, <3>2, <3>3
  <2> HIDE DEF First
  <2>5. /\ G[m] \in States /\ Ascending(G[m][1])
        /\ Weight(G[m][1]) = Weight(at[1]) + m
        /\ ValuesOf(G[m][1]) = ValuesOf(at[1]) \cup First(m)
    BY <2>2 DEF Placed
  <2>6. /\ G[m + 1] \in States
        /\ G[m + 1][1][G[m + 1][2]].value = v
        /\ Weight(G[m + 1][1]) = Weight(G[m][1]) + 1
        /\ ValuesOf(G[m + 1][1]) = ValuesOf(G[m][1]) \cup {v}
        /\ Ascending(G[m + 1][1])
    <3> HIDE DEF v
    <3> DEFINE x == G[m]
    <3>1. x \in States /\ v \in Values /\ Ascending(x[1]) /\ Behind(x, v) /\ G[m + 1] = Place(x, v)
      BY <2>2, <2>3, <2>5
    <3> HIDE DEF x
    <3>2. /\ Place(x, v) \in States
          /\ Place(x, v)[1][Place(x, v)[2]].value = v
          /\ Weight(Place(x, v)[1]) = Weight(x[1]) + 1
          /\ ValuesOf(Place(x, v)[1]) = ValuesOf(x[1]) \cup {v}
          /\ Ascending(Place(x, v)[1])
      BY ONLY <3>1, PlaceKeeps
    <3> QED BY <3>1, <3>2 DEF x
  <2>7. Weight(G[m + 1][1]) = Weight(at[1]) + (m + 1)
    <3>1. Weight(at[1]) \in Nat
      <4>1. at[1] \in Seq(Items)
        BY DEF States
      <4> QED BY <4>1, WeightBounds
    <3> QED BY <2>5, <2>6, <3>1
  <2>8. ValuesOf(G[m + 1][1]) = ValuesOf(at[1]) \cup First(m + 1)
    BY <2>4, <2>5, <2>6
  <2>9. m + 1 < N => Behind(G[m + 1], b[(m + 1) + 1])
    <3> SUFFICES ASSUME m + 1 < N PROVE v <= b[(m + 1) + 1]
      BY <2>6 DEF Behind
    <3>1. (m + 1) + 1 \in 1..N /\ m + 1 <= (m + 1) + 1
      BY <1>1
    <3> QED BY <2>1, <3>1 DEF N
  <2> HIDE DEF v
  <2> QED BY <2>6, <2>7, <2>8, <2>9 DEF Placed
<1>5. Nat \subseteq T
  <2> HIDE DEF T
  <2> QED BY <1>3, <1>4, Induction
<1>6. Placed(G[N], at, N, First(N))
  <2> HIDE DEF First
  <2> QED BY <1>1, <1>5
<1>7. First(N) = Range(b)
  BY <1>1 DEF Range
<1> HIDE DEF First
<1> QED BY <1>2, <1>6, <1>7 DEF N

\* A batch goes into the sketch.
LEMMA InsertBatchKeeps ==
  ASSUME NEW s \in Seq(Items), Ascending(s), NEW b \in Seq(Values)
  PROVE  LET r == InsertBatch(s, b)
         IN  /\ r \in Seq(Items) /\ Ascending(r)
             /\ Weight(r) = Weight(s) + Len(b)
             /\ ValuesOf(r) = ValuesOf(s) \cup Range(b)
<1> DEFINE sorted == Sorted(b)
           first == <<[value |-> sorted[1], g |-> 1, delta |-> 0]>>
           r == InsertBatch(s, b)
<1>0. Weight(s) \in Nat /\ Len(b) \in Nat
  BY WeightBounds
<1>1. /\ sorted \in Seq(Values) /\ Len(sorted) = Len(b)
      /\ \A i, j \in 1..Len(b) : i <= j => sorted[i] <= sorted[j]
      /\ {sorted[k] : k \in 1..Len(b)} = Range(b)
  BY SortedIs
<1> HIDE DEF sorted
<1>2. Range(sorted) = Range(b)
  <2>1. DOMAIN sorted = 1..Len(b)
    BY <1>1
  <2> HIDE DEF sorted
  <2>2. Range(sorted) = {sorted[k] : k \in 1..Len(b)}
    BY <2>1 DEF Range
  <2> QED BY <1>1, <2>2
<1>3. CASE b = << >>
  <2>1. r = s /\ Range(b) = {} /\ Len(b) = 0
    BY <1>3 DEF InsertBatch, Range
  <2> HIDE DEF r
  <2> QED BY <1>0, <2>1 DEF r
<1>4. CASE b # << >> /\ s # << >>
  <2> DEFINE at == <<s, 1>>
  <2>1. at \in States /\ at[1] = s
    <3>1. Len(s) \in Nat /\ Len(s) # 0
      BY <1>4
    <3> QED BY <3>1 DEF States
  <2>2. r = FoldLeft(Place, at, sorted)[1]
    BY <1>4 DEF InsertBatch, sorted
  <2>3. Behind(at, sorted[1])
    BY DEF Behind
  <2> HIDE DEF at
  <2>4. \A i, j \in 1..Len(sorted) : i <= j => sorted[i] <= sorted[j]
    BY <1>1
  <2>5. Placed(FoldLeft(Place, at, sorted), at, Len(sorted), Range(sorted))
    BY ONLY <1>1, <2>1, <2>3, <2>4, Ascending(s), PlaceAll
  <2> HIDE DEF r
  <2> QED BY <1>1, <1>2, <2>1, <2>2, <2>5 DEF Placed, States, r
<1>5. CASE b # << >> /\ s = << >>
  <2> DEFINE at == <<first, 1>>
             rest == Tail(sorted)
  <2>1. Len(sorted) \in Nat /\ Len(sorted) >= 1 /\ sorted # << >>
    BY <1>1, <1>5
  <2>2. /\ rest \in Seq(Values) /\ Len(rest) = Len(sorted) - 1
        /\ \A k \in 1..Len(rest) : rest[k] = sorted[k + 1]
    BY <1>1, <2>1
  <2>3. first \in Seq(Items) /\ Len(first) = 1 /\ first[1].value = sorted[1] /\ first[1].g = 1
    <3>1. sorted[1] \in Values
      BY <1>1, <2>1
    <3> QED BY <3>1 DEF Items
  <2>4. at \in States /\ at[1] = first
    <3>1. first \in Seq(Items) /\ 1 \in 1..Len(first)
      <4> HIDE DEF first
      <4> QED BY <2>3
    <3> HIDE DEF first
    <3>2. at \in Seq(Items) \X Nat /\ at[1] = first /\ at[2] = 1
      BY ONLY <3>1
    <3> HIDE DEF at
    <3> QED BY <3>1, <3>2 DEF States
  <2>5. r = FoldLeft(Place, at, rest)[1]
    BY <1>5 DEF InsertBatch, sorted
  <2> HIDE DEF first, rest
  <2>6. Behind(at, rest[1])
    BY DEF Behind
  <2>7. \A i, j \in 1..Len(rest) : i <= j => rest[i] <= rest[j]
    <3> TAKE i, j \in 1..Len(rest)
    <3>1. i + 1 \in 1..Len(b) /\ j + 1 \in 1..Len(b) /\ (i <= j => i + 1 <= j + 1)
      BY <1>0, <1>1, <2>1, <2>2
    <3> QED BY <1>1, <2>2, <3>1
  <2>8. Ascending(first)
    BY <2>3 DEF Ascending
  <2> HIDE DEF at
  <2>9. Placed(FoldLeft(Place, at, rest), at, Len(rest), Range(rest))
    BY ONLY <2>2, <2>4, <2>6, <2>7, <2>8, PlaceAll
  <2>10. Weight(first) = 1 /\ Weight(s) = 0
    <3>1. PICK G : Weighs(G, first) /\ Weight(first) = G[Len(first)]
      BY <2>3, WeightRuns
    <3>2. G[1] = G[0] + first[1].g /\ G[0] = 0
      BY <2>3, <3>1 DEF Weighs
    <3>3. PICK H : Weighs(H, s) /\ Weight(s) = H[Len(s)]
      BY WeightRuns
    <3>4. Weight(s) = 0
      BY <1>5, <3>3 DEF Weighs
    <3> QED BY <2>3, <3>1, <3>2, <3>4
  <2>11. ValuesOf(first) = {sorted[1]} /\ ValuesOf(s) = {}
    BY <1>5, <2>3 DEF ValuesOf
  <2>12. Range(b) = {sorted[1]} \cup Range(rest)
    <3>1. Range(rest) = {rest[k] : k \in 1..Len(rest)}
      BY <2>2 DEF Range
    <3>2. \A k \in 1..Len(b) : k = 1 \/ (k - 1 \in 1..Len(rest) /\ rest[k - 1] = sorted[k])
      <4> TAKE k \in 1..Len(b)
      <4>1. CASE k # 1
        <5>1. k - 1 \in 1..Len(rest) /\ (k - 1) + 1 = k
          BY <1>0, <1>1, <2>2, <4>1
        <5> QED BY <2>2, <5>1
      <4> QED BY <4>1
    <3>3. \A k \in 1..Len(rest) : k + 1 \in 1..Len(b) /\ rest[k] = sorted[k + 1]
      BY <1>0, <1>1, <2>2
    <3>4. 1 \in 1..Len(b)
      BY <1>0, <1>1, <2>1
    <3>5. \A k \in 1..Len(b) : sorted[k] \in {sorted[1]} \cup Range(rest)
      BY <3>1, <3>2
    <3>6. \A x \in Range(rest) : x \in {sorted[k] : k \in 1..Len(b)}
      BY <3>1, <3>3
    <3>7. sorted[1] \in {sorted[k] : k \in 1..Len(b)}
      BY <3>4
    <3> QED BY <1>1, <3>5, <3>6, <3>7
  <2>13. 1 + Len(rest) = Len(b) /\ 0 + Len(b) = Len(b)
    BY <1>0, <1>1, <2>2
  <2> HIDE DEF r
  <2>14. r \in Seq(Items) /\ Ascending(r)
    BY <2>5, <2>9 DEF Placed, States
  <2>15. Weight(r) = Weight(s) + Len(b)
    BY <2>4, <2>5, <2>9, <2>10, <2>13 DEF Placed
  <2>16. ValuesOf(r) = ValuesOf(s) \cup Range(b)
    BY <2>4, <2>5, <2>9, <2>11, <2>12 DEF Placed
  <2> QED BY <2>14, <2>15, <2>16 DEF r
<1> QED BY <1>3, <1>4, <1>5

-----------------------------------------------------------------------------
(* compress                                                                 *)

\* r stands for the same number of values as s, and for its greatest one.
Shrunk(r, s) ==
  /\ r \in Seq(Items) /\ r # << >>
  /\ Ascending(r)
  /\ Weight(r) = Weight(s)
  /\ ValuesOf(r) \subseteq ValuesOf(s)
  /\ r[Len(r)].value = s[Len(s)].value

LEMMA MergeShrinks ==
  ASSUME NEW s, NEW r, Shrunk(r, s), NEW q \in 1..(Len(r) - 1)
  PROVE  Shrunk(Merged(r, q), s)
<1> DEFINE t == Merged(r, q)
           N == Len(r)
<1>1. r \in Seq(Items) /\ Ascending(r)
  BY DEF Shrunk
<1>2. N \in Nat /\ q \in Nat /\ q >= 1 /\ q <= N - 1
  BY <1>1
<1>3. /\ t \in Seq(Items) /\ Len(t) = N - 1
      /\ \A m \in 1..(N - 1) : t[m].value = r[IF m < q THEN m ELSE m + 1].value
  BY <1>1, MergedIs
<1>4. Weight(t) = Weight(r)
  BY <1>1, WeightMerged
<1> HIDE DEF t, N
<1>5. Ascending(t)
  <2> SUFFICES ASSUME NEW m \in 1..((N - 1) - 1) PROVE t[m].value <= t[m + 1].value
    BY <1>3 DEF Ascending
  <2>1. /\ m \in 1..(N - 1) /\ m + 1 \in 1..(N - 1) /\ m \in 1..N /\ m + 1 \in 1..N
        /\ (m + 1) + 1 \in 1..N /\ m \in Nat
    BY <1>2
  <2>2. r[m].value <= r[m + 1].value /\ r[m + 1].value <= r[(m + 1) + 1].value
    BY <1>1, <2>1 DEF Ascending, N
  <2>3. r[m].value \in Int /\ r[m + 1].value \in Int /\ r[(m + 1) + 1].value \in Int
    BY <1>1, <2>1, NumbersOf DEF N
  <2>4. /\ t[m].value = r[IF m < q THEN m ELSE m + 1].value
        /\ t[m + 1].value = r[IF m + 1 < q THEN m + 1 ELSE (m + 1) + 1].value
    BY <1>3, <2>1
  <2>5. CASE m + 1 < q
    <3>1. t[m].value = r[m].value /\ t[m + 1].value = r[m + 1].value
      BY <1>2, <2>1, <2>4, <2>5
    <3> QED BY <2>2, <3>1
  <2>6. CASE m + 1 = q
    <3>1. t[m].value = r[m].value /\ t[m + 1].value = r[(m + 1) + 1].value
      BY <1>2, <2>1, <2>4, <2>6
    <3> QED BY <2>2, <2>3, <3>1
  <2>7. CASE m >= q
    <3>1. t[m].value = r[m + 1].value /\ t[m + 1].value = r[(m + 1) + 1].value
      BY <1>2, <2>1, <2>4, <2>7
    <3> QED BY <2>2, <3>1
  <2> QED BY <1>2, <2>1, <2>5, <2>6, <2>7
<1>6. N - 1 \in 1..(N - 1) /\ t[N - 1].value = r[N].value
  <2>1. N - 1 \in 1..(N - 1) /\ ~(N - 1 < q) /\ (N - 1) + 1 = N
    BY <1>2
  <2>2. t[N - 1].value = r[IF N - 1 < q THEN N - 1 ELSE (N - 1) + 1].value
    BY <1>3, <2>1
  <2> QED BY <2>1, <2>2
<1>7. ValuesOf(t) \subseteq ValuesOf(r)
  <2>1. DOMAIN t = 1..(N - 1) /\ DOMAIN r = 1..N
    BY <1>1, <1>2, <1>3 DEF N
  <2>2. \A m \in 1..(N - 1) : (IF m < q THEN m ELSE m + 1) \in 1..N
    BY <1>2
  <2> QED BY <1>3, <2>1, <2>2 DEF ValuesOf
<1>8. t # << >>
  <2>1. Len(t) # 0
    BY <1>2, <1>3
  <2> QED BY <2>1
<1>9. t[Len(t)].value = r[Len(r)].value
  BY <1>3, <1>6 DEF N
<1>10. Shrunk(t, s)
  BY <1>3, <1>4, <1>5, <1>7, <1>8, <1>9 DEF Shrunk
<1> QED BY <1>10 DEF t

\* The step of compress at position p.
Step(r, p) ==
  IF /\ p <= Len(r)
     /\ WithinError(r[p - 1].g + r[p].g + r[p].delta, p - 1, Len(r))
  THEN Merged(r, p - 1) ELSE r

LEMMA StepTyped ==
  ASSUME NEW r \in Seq(Items), NEW p \in Nat, p >= 2
  PROVE  Step(r, p) \in Seq(Items) /\ \A s : Shrunk(r, s) => Shrunk(Step(r, p), s)
<1>1. CASE p <= Len(r)
  <2>1. p - 1 \in 1..(Len(r) - 1)
    BY <1>1
  <2>2. Merged(r, p - 1) \in Seq(Items)
    BY <2>1, MergedIs
  <2>3. \A s : Shrunk(r, s) => Shrunk(Merged(r, p - 1), s)
    BY <2>1, MergeShrinks
  <2> QED BY <2>2, <2>3 DEF Step
<1>2. CASE ~(p <= Len(r))
  BY <1>2 DEF Step
<1> QED BY <1>1, <1>2

\* c is the results of compress so far.
Steps(c, s) == c[1] = s /\ \A p \in 2..Len(s) : c[p] = Step(c[p - 1], p)

LEMMA CompressRuns ==
  ASSUME NEW s \in Seq(Items), Len(s) >= 2
  PROVE  \E c : Steps(c, s) /\ Compress(s) = c[Len(s)]
<1> DEFINE N == Len(s)
           Go(r, p) == IF p = 1 THEN r ELSE Step(r, p)
           op == [r \in Seq(Items) |-> [p \in Nat \ {0} |-> Go(r, p)]]
           at == [p \in 1..N |-> p]
           A == Seq(Items)
           B == Nat \ {0}
           c0 == CHOOSE c : c = [p \in 1..N |-> IF p = 1 THEN s ELSE Step(c[p - 1], p)]
<1>1. N \in Nat /\ N >= 2
  OBVIOUS
<1> HIDE DEF N
<1>2. \A r \in Seq(Items), p \in Nat \ {0} : Go(r, p) \in Seq(Items)
  <2> TAKE r \in Seq(Items), p \in Nat \ {0}
  <2>1. CASE p = 1
    BY <2>1
  <2>2. CASE p # 1
    <3>1. p \in Nat /\ p >= 2
      BY <2>2
    <3>2. Step(r, p) \in Seq(Items)
      BY <3>1, StepTyped
    <3> QED BY <2>2, <3>2
  <2> QED BY <2>1, <2>2
<1> HIDE DEF Go
<1>3. op \in [A -> [B -> A]] /\ at \in [1..N -> B] /\ s \in A
  <2>1. \A p \in 1..N : p \in Nat \ {0}
    BY <1>1
  <2> QED BY <1>2, <2>1
<1>4. PICK G \in [0..N -> A] : Runs(G, N, s, op, at)
  <2> HIDE DEF op, at, A, B
  <2> QED BY ONLY <1>1, <1>3, RunningExists
<1>5. G[0] = s /\ \A p \in 1..N : G[p] = Go(G[p - 1], p)
  <2>1. G[0] = s /\ \A p \in 1..N : G[p] = op[G[p - 1]][at[p]]
    BY <1>4 DEF Runs
  <2>2. \A p \in 1..N : G[p - 1] \in Seq(Items) /\ p \in Nat \ {0}
    <3>1. \A p \in 1..N : p - 1 \in 0..N /\ p \in Nat \ {0}
      BY <1>1
    <3> QED BY <1>4, <3>1
  <2> QED BY <2>1, <2>2
<1> DEFINE c == [p \in 1..N |-> G[p]]
<1>6. c = [p \in 1..N |-> IF p = 1 THEN s ELSE Step(c[p - 1], p)]
  <2>1. ASSUME NEW p \in 1..N PROVE G[p] = IF p = 1 THEN s ELSE Step(c[p - 1], p)
    <3>1. CASE p = 1
      <4>1. G[1] = Go(G[1 - 1], 1)
        BY <1>1, <1>5
      <4>2. 1 - 1 = 0
        OBVIOUS
      <4> QED BY <1>5, <3>1, <4>1, <4>2 DEF Go
    <3>2. CASE p # 1
      <4>1. p - 1 \in 1..N
        BY <1>1, <3>2
      <4>2. c[p - 1] = G[p - 1]
        BY <4>1
      <4> HIDE DEF c
      <4> QED BY <1>5, <3>2, <4>2 DEF Go
    <3> QED BY <3>1, <3>2
  <2> QED BY <2>1
<1>7. \E f : f = [p \in 1..N |-> IF p = 1 THEN s ELSE Step(f[p - 1], p)]
  <2> HIDE DEF c
  <2> QED BY <1>6
<1>8. c0 = [p \in 1..N |-> IF p = 1 THEN s ELSE Step(c0[p - 1], p)]
  BY <1>7
<1>9. Compress(s) = c0[N]
  BY <1>1 DEF Compress, Step, N
<1> HIDE DEF c0
<1>10. Steps(c0, s)
  <2>1. 1 \in 1..N /\ \A p \in 2..N : p \in 1..N /\ p # 1
    BY <1>1
  <2> QED BY <1>8, <2>1 DEF Steps, N
<1> QED BY <1>9, <1>10 DEF N

LEMMA CompressKeeps ==
  ASSUME NEW s \in Seq(Items), Ascending(s), s # << >>
  PROVE  Shrunk(Compress(s), s)
<1>1. Shrunk(s, s)
  BY DEF Shrunk
<1>2. CASE Len(s) < 2
  BY <1>1, <1>2 DEF Compress
<1>3. CASE Len(s) >= 2
  <2> DEFINE N == Len(s)
  <2>1. PICK c : Steps(c, s) /\ Compress(s) = c[N]
    BY <1>3, CompressRuns
  <2>2. N \in Nat /\ N >= 2
    BY <1>3
  <2> HIDE DEF N
  <2> DEFINE T == {m \in Nat : m + 1 <= N => Shrunk(c[m + 1], s)}
  <2>3. 0 \in T
    BY <1>1, <2>1 DEF Steps
  <2>4. ASSUME NEW m \in Nat, m \in T
        PROVE  m + 1 \in T
    <3> SUFFICES ASSUME (m + 1) + 1 <= N PROVE Shrunk(c[(m + 1) + 1], s)
      OBVIOUS
    <3> DEFINE p == (m + 1) + 1
    <3>1. p \in 2..N /\ p - 1 = m + 1 /\ m + 1 <= N /\ p \in Nat /\ p >= 2
      BY <2>2
    <3>2. Shrunk(c[m + 1], s)
      BY <2>4, <3>1
    <3> HIDE DEF p
    <3>3. c[p] = Step(c[m + 1], p)
      BY <2>1, <3>1 DEF Steps, N
    <3>4. c[m + 1] \in Seq(Items)
      BY <3>2 DEF Shrunk
    <3>5. Shrunk(Step(c[m + 1], p), s)
      BY ONLY <3>1, <3>2, <3>4, StepTyped
    <3> QED BY <3>3, <3>5 DEF p
  <2>5. Nat \subseteq T
    <3> HIDE DEF T
    <3> QED BY <2>3, <2>4, Induction
  <2>6. N - 1 \in Nat /\ (N - 1) + 1 = N /\ N <= N
    BY <2>2
  <2>7. Shrunk(c[N], s)
    <3>1. N - 1 \in T
      BY <2>5, <2>6
    <3> QED BY <2>6, <3>1
  <2> QED BY <2>1, <2>7
<1>4. Len(s) \in Nat
  OBVIOUS
<1> QED BY <1>2, <1>3, <1>4

-----------------------------------------------------------------------------
(* How many values have been inserted                                       *)

Total(f) == MapThenSumSet(LAMBDA v : f[v], Values)

\* f counts these.
Counted(S, f) == {p \in S \X (Nat \ {0}) : p[2] <= f[p[1]]}

LEMMA CountedMore ==
  ASSUME NEW S \in SUBSET Values, NEW f \in [Values -> Nat], NEW x \in S,
         IsFiniteSet(Counted(S \ {x}, f))
  PROVE  /\ IsFiniteSet(Counted(S, f))
         /\ Cardinality(Counted(S, f)) = f[x] + Cardinality(Counted(S \ {x}, f))
<1> DEFINE A == Counted(S \ {x}, f)
           B == {x} \X (1..f[x])
           n == f[x]
<1>1. n \in Nat
  OBVIOUS
<1>2. Counted(S, f) = B \cup A
  BY DEF Counted
<1>3. A \cap B = {}
  BY DEF Counted
<1> HIDE DEF A
<1>4. IsFiniteSet(1..n) /\ Cardinality(1..n) = n
  <2> HIDE DEF n
  <2>1. 1 \in Int /\ n \in Int
    BY <1>1
  <2>2. IsFiniteSet(1..n) /\ Cardinality(1..n) = IF 1 > n THEN 0 ELSE n - 1 + 1
    BY <2>1, FS_Interval
  <2> QED BY <1>1, <2>2
<1>5. IsFiniteSet(B) /\ Cardinality(B) = n
  <2>1. IsFiniteSet({x}) /\ Cardinality({x}) = 1
    BY FS_Singleton
  <2> DEFINE X == {x}
             M == 1..n
  <2>2. B = X \X M /\ Cardinality(X) = 1 /\ Cardinality(M) = n /\ IsFiniteSet(X) /\ IsFiniteSet(M)
    BY <1>4, <2>1
  <2> HIDE DEF X, M, B
  <2>3. IsFiniteSet(X \X M) /\ Cardinality(X \X M) = Cardinality(X) * Cardinality(M)
    BY <2>2, FS_Product
  <2> HIDE DEF n
  <2> QED BY <1>1, <2>2, <2>3
<1> HIDE DEF B, n
<1>6. /\ IsFiniteSet(B \cup A)
      /\ Cardinality(B \cup A) = Cardinality(B) + Cardinality(A) - Cardinality(B \cap A)
  BY <1>5, FS_Union DEF A
<1>7. Cardinality(B \cap A) = 0 /\ Cardinality(A) \in Nat
  <2>1. B \cap A = {}
    BY <1>3
  <2> QED BY <2>1, FS_EmptySet, FS_CardinalityType DEF A
<1>8. IsFiniteSet(B \cup A) /\ Cardinality(B \cup A) = n + Cardinality(A)
  BY ONLY <1>1, <1>5, <1>6, <1>7
<1>9. IsFiniteSet(Counted(S, f)) /\ Cardinality(Counted(S, f)) = n + Cardinality(A)
  BY <1>2, <1>8
<1> QED BY <1>9 DEF A, n

LEMMA CountedFinite ==
  ASSUME NEW f \in [Values -> Nat]
  PROVE  \A S \in SUBSET Values : IsFiniteSet(Counted(S, f))
<1> DEFINE P == {S \in SUBSET Values : IsFiniteSet(Counted(S, f))}
<1>1. ASSUME NEW S \in SUBSET Values, \A U \in SUBSET Values : U \subseteq S /\ U # S => U \in P
      PROVE  IsFiniteSet(Counted(S, f))
  <2>1. CASE S = {}
    <3>1. Counted(S, f) = {}
      BY <2>1 DEF Counted
    <3> QED BY <3>1, FS_EmptySet
  <2>2. CASE S # {}
    <3>1. PICK x \in S : TRUE
      BY <2>2
    <3>2. S \ {x} \in P
      BY <1>1, <3>1
    <3> QED BY <3>2, CountedMore
  <2> QED BY <2>1, <2>2
<1>2. \A S \in SUBSET Values : (\A U \in SUBSET Values : U \subseteq S /\ U # S => U \in P) => S \in P
  BY <1>1
<1>3. SUBSET Values \subseteq P
  <2> HIDE DEF P
  <2> QED BY <1>2, ValuesAssumption, SubsetInduction
<1> QED BY <1>3

LEMMA TotalIs ==
  ASSUME NEW f \in [Values -> Nat]
  PROVE  Total(f) = Cardinality(Counted(Values, f))
<1> DEFINE iter == CHOOSE t : t = [S \in SUBSET Values |->
                     IF S = {} THEN 0
                     ELSE LET x == CHOOSE y \in S : TRUE IN f[x] + t[S \ {x}]]
           t0 == [S \in SUBSET Values |-> Cardinality(Counted(S, f))]
<1>1. Total(f) = iter[Values]
  BY DEF Total, MapThenSumSet, MapThenFoldSet
<1>2. Counted({}, f) = {} /\ Cardinality({}) = 0
  BY FS_EmptySet DEF Counted
<1>3. \A S \in SUBSET Values : S # {} =>
        LET x == CHOOSE y \in S : TRUE
        IN  x \in S /\ Cardinality(Counted(S, f)) = f[x] + Cardinality(Counted(S \ {x}, f))
  <2> SUFFICES ASSUME NEW S \in SUBSET Values, NEW x \in S
               PROVE  Cardinality(Counted(S, f)) = f[x] + Cardinality(Counted(S \ {x}, f))
    OBVIOUS
  <2>1. IsFiniteSet(Counted(S \ {x}, f))
    BY CountedFinite
  <2> QED BY <2>1, CountedMore
<1>4. t0 = [S \in SUBSET Values |->
              IF S = {} THEN 0
              ELSE LET x == CHOOSE y \in S : TRUE IN f[x] + t0[S \ {x}]]
  <2>1. ASSUME NEW S \in SUBSET Values
        PROVE  Cardinality(Counted(S, f)) =
                 IF S = {} THEN 0 ELSE LET x == CHOOSE y \in S : TRUE IN f[x] + t0[S \ {x}]
    <3>1. CASE S = {}
      BY <1>2, <3>1
    <3>2. CASE S # {}
      <4> DEFINE x == CHOOSE y \in S : TRUE
      <4>1. x \in S /\ Cardinality(Counted(S, f)) = f[x] + Cardinality(Counted(S \ {x}, f))
        BY <1>3, <3>2
      <4>2. t0[S \ {x}] = Cardinality(Counted(S \ {x}, f))
        OBVIOUS
      <4> QED BY <3>2, <4>1, <4>2
    <3> QED BY <3>1, <3>2
  <2> QED BY <2>1
<1>5. \E t : t = [S \in SUBSET Values |->
                    IF S = {} THEN 0
                    ELSE LET x == CHOOSE y \in S : TRUE IN f[x] + t[S \ {x}]]
  <2> HIDE DEF t0
  <2> QED BY <1>4
<1>6. iter = [S \in SUBSET Values |->
                IF S = {} THEN 0
                ELSE LET x == CHOOSE y \in S : TRUE IN f[x] + iter[S \ {x}]]
  BY <1>5
<1> HIDE DEF iter
<1> DEFINE P == {S \in SUBSET Values : iter[S] = Cardinality(Counted(S, f))}
<1>7. ASSUME NEW S \in SUBSET Values, \A U \in SUBSET Values : U \subseteq S /\ U # S => U \in P
      PROVE  iter[S] = Cardinality(Counted(S, f))
  <2>1. CASE S = {}
    BY <1>2, <1>6, <2>1
  <2>2. CASE S # {}
    <3> DEFINE x == CHOOSE y \in S : TRUE
    <3>1. x \in S /\ Cardinality(Counted(S, f)) = f[x] + Cardinality(Counted(S \ {x}, f))
      BY <1>3, <2>2
    <3>2. iter[S] = f[x] + iter[S \ {x}]
      BY <1>6, <2>2
    <3> HIDE DEF x
    <3>3. S \ {x} \in P
      BY <1>7, <3>1
    <3> QED BY <3>1, <3>2, <3>3
  <2> QED BY <2>1, <2>2
<1>8. \A S \in SUBSET Values : (\A U \in SUBSET Values : U \subseteq S /\ U # S => U \in P) => S \in P
  BY <1>7
<1>9. SUBSET Values \subseteq P
  <2> HIDE DEF P
  <2> QED BY <1>8, ValuesAssumption, SubsetInduction
<1>10. Values \in P
  <2> HIDE DEF P
  <2> QED BY <1>9
<1> QED BY <1>1, <1>10

LEMMA TotalNone == Total([v \in Values |-> 0]) = 0
<1> DEFINE f == [v \in Values |-> 0]
<1>1. f \in [Values -> Nat] /\ Counted(Values, f) = {}
  BY DEF Counted
<1> HIDE DEF f
<1>2. Total(f) = 0
  BY <1>1, TotalIs, FS_EmptySet
<1> QED BY <1>2 DEF f

LEMMA TotalBounds ==
  ASSUME NEW f \in [Values -> Nat], NEW v \in Values
  PROVE  Total(f) \in Nat /\ f[v] <= Total(f)
<1>1. IsFiniteSet(Counted(Values \ {v}, f)) /\ IsFiniteSet(Counted(Values, f))
  BY CountedFinite
<1>2. Cardinality(Counted(Values, f)) = f[v] + Cardinality(Counted(Values \ {v}, f))
  BY <1>1, CountedMore
<1>3. Cardinality(Counted(Values \ {v}, f)) \in Nat /\ f[v] \in Nat
  BY <1>1, FS_CardinalityType
<1> QED BY <1>2, <1>3, TotalIs

LEMMA TotalGrows ==
  ASSUME NEW f \in [Values -> Nat], NEW v \in Values
  PROVE  LET h == [f EXCEPT ![v] = @ + 1]
         IN  h \in [Values -> Nat] /\ Total(h) = Total(f) + 1
<1> DEFINE h == [f EXCEPT ![v] = @ + 1]
           e == <<v, f[v] + 1>>
<1>1. h \in [Values -> Nat] /\ \A w \in Values : h[w] = IF w = v THEN f[v] + 1 ELSE f[w]
  OBVIOUS
<1>2. Counted(Values, h) = Counted(Values, f) \cup {e}
  <2> HIDE DEF h
  <2>1. \A w \in Values, n \in Nat \ {0} :
          n <= h[w] <=> n <= f[w] \/ (w = v /\ n = f[v] + 1)
    BY <1>1
  <2>2. \A p \in Values \X (Nat \ {0}) : p[2] <= h[p[1]] <=> p[2] <= f[p[1]] \/ p = e
    <3> TAKE p \in Values \X (Nat \ {0})
    <3>1. p[1] \in Values /\ p[2] \in Nat \ {0} /\ p = <<p[1], p[2]>>
      OBVIOUS
    <3>2. p = e <=> p[1] = v /\ p[2] = f[v] + 1
      BY <3>1
    <3> QED BY <2>1, <3>1, <3>2
  <2>3. e \in Values \X (Nat \ {0})
    OBVIOUS
  <2> HIDE DEF e
  <2> QED BY <2>2, <2>3 DEF Counted
<1>3. e \notin Counted(Values, f)
  <2>1. ~(f[v] + 1 <= f[v])
    OBVIOUS
  <2> QED BY <2>1 DEF Counted
<1> HIDE DEF h, e
<1>4. IsFiniteSet(Counted(Values, f))
  BY CountedFinite
<1>5. Cardinality(Counted(Values, h)) = Cardinality(Counted(Values, f)) + 1
  BY <1>2, <1>3, <1>4, FS_AddElement
<1>6. Total(h) = Total(f) + 1
  BY <1>1, <1>5, TotalIs
<1> QED BY <1>1, <1>6 DEF h

-----------------------------------------------------------------------------
(* The sketch, its buffer and what was inserted                             *)

Seen(ins) == {v \in Values : ins[v] > 0}

\* The values kept have been inserted, and the greatest one is kept.
Holds(ins, kept) == kept \subseteq Seen(ins) /\ (Seen(ins) # {} => Max(Seen(ins)) \in kept)

\* s stands for n values, and with the buffer b for all that were inserted.
Sketch(s, n, b, ins) ==
  /\ s \in Seq(Items) /\ Ascending(s) /\ Weight(s) = n
  /\ b \in Seq(Values)
  /\ ins \in [Values -> Nat]
  /\ Total(ins) = n + Len(b) /\ n + Len(b) <= MaxInserts
  /\ Holds(ins, ValuesOf(s) \cup Range(b))

LEMMA SeenHasMax ==
  ASSUME NEW ins, Seen(ins) # {}
  PROVE  /\ Max(Seen(ins)) \in Seen(ins)
         /\ \A w \in Seen(ins) : Max(Seen(ins)) >= w
<1> DEFINE S == Seen(ins)
<1>1. S \in SUBSET Values
  BY DEF Seen
<1>2. S \in SUBSET Int /\ IsFiniteSet(S)
  BY <1>1, ValuesAssumption, FS_Subset
<1> HIDE DEF S
<1>3. Max(S) \in S /\ \A w \in S : Max(S) >= w
  BY <1>2, Extremes DEF S
<1> QED BY <1>3 DEF S

LEMMA FlushKeeps ==
  ASSUME NEW s, NEW n, NEW b, NEW ins, Sketch(s, n, b, ins)
  PROVE  Sketch(Flush(s, b), n + Len(b), << >>, ins)
<1> DEFINE r == InsertBatch(s, b)
           t == Flush(s, b)
           kept == ValuesOf(s) \cup Range(b)
<1>1. /\ s \in Seq(Items) /\ Ascending(s) /\ Weight(s) = n /\ b \in Seq(Values)
      /\ ins \in [Values -> Nat] /\ Total(ins) = n + Len(b) /\ n + Len(b) <= MaxInserts
      /\ Holds(ins, kept)
  BY DEF Sketch
<1>2. r \in Seq(Items) /\ Ascending(r) /\ Weight(r) = Weight(s) + Len(b) /\ ValuesOf(r) = kept
  BY <1>1, InsertBatchKeeps
<1>3. t = Compress(r)
  BY DEF Flush
<1> HIDE DEF r, t, kept
<1>0. ASSUME t \in Seq(Items), Ascending(t), Weight(t) = Weight(r), Holds(ins, ValuesOf(t))
      PROVE  Sketch(t, n + Len(b), << >>, ins)
  <2>1. Weight(t) = n + Len(b) /\ << >> \in Seq(Values) /\ ValuesOf(t) \cup Range(<< >>) = ValuesOf(t)
    BY <1>0, <1>1, <1>2 DEF Range
  <2>2. (n + Len(b)) + Len(<< >>) = n + Len(b)
    <3>1. Weight(t) \in Nat
      BY <1>0, WeightBounds
    <3> QED BY <2>1, <3>1
  <2>3. Total(ins) = (n + Len(b)) + Len(<< >>) /\ (n + Len(b)) + Len(<< >>) <= MaxInserts
    BY <1>1, <2>2
  <2>4. Holds(ins, ValuesOf(t) \cup Range(<< >>))
    BY <1>0, <2>1
  <2> QED BY ONLY <1>0, <1>1, <2>1, <2>3, <2>4 DEF Sketch
<1>4. CASE r = << >>
  <2>1. t = r
    BY <1>3, <1>4 DEF Compress
  <2>2. Holds(ins, ValuesOf(t))
    BY <1>1, <1>2, <2>1
  <2> QED BY <1>0, <1>2, <2>1, <2>2 DEF t
<1>5. CASE r # << >>
  <2>1. Shrunk(t, r)
    BY <1>2, <1>3, <1>5, CompressKeeps
  <2>2. /\ t \in Seq(Items) /\ t # << >> /\ Ascending(t) /\ Weight(t) = Weight(r)
        /\ ValuesOf(t) \subseteq kept /\ t[Len(t)].value = r[Len(r)].value
    BY <1>2, <2>1 DEF Shrunk
  <2>3. Len(t) \in 1..Len(t) /\ Len(r) \in 1..Len(r) /\ DOMAIN t = 1..Len(t) /\ DOMAIN r = 1..Len(r)
    <3>1. Len(t) \in Nat /\ Len(t) # 0 /\ DOMAIN t = 1..Len(t)
      BY <2>2
    <3>2. Len(r) \in Nat /\ Len(r) # 0 /\ DOMAIN r = 1..Len(r)
      BY <1>2, <1>5
    <3> QED BY <3>1, <3>2
  <2> DEFINE m == Max(Seen(ins))
  <2>4. Seen(ins) # {} => m \in ValuesOf(t)
    <3> SUFFICES ASSUME Seen(ins) # {} PROVE m \in ValuesOf(t)
      OBVIOUS
    <3>1. m \in kept /\ m \in Seen(ins) /\ \A w \in Seen(ins) : m >= w
      BY <1>1, SeenHasMax DEF Holds
    <3>2. r[Len(r)].value \in kept
      BY <1>2, <2>3 DEF ValuesOf
    <3>3. PICK i \in 1..Len(r) : r[i].value = m
      BY <1>2, <2>3, <3>1 DEF ValuesOf
    <3>4. r[i].value <= r[Len(r)].value
      BY <1>2, <2>3, <3>3, AscendingTo
    <3>5. r[Len(r)].value \in Seen(ins)
      BY <1>1, <3>2 DEF Holds
    <3>6. m \in Int /\ r[Len(r)].value \in Int
      BY <3>1, <3>5, ValuesAssumption DEF Seen
    <3> HIDE DEF m
    <3>7. m = r[Len(r)].value
      BY <3>1, <3>3, <3>4, <3>5, <3>6
    <3> QED BY <2>2, <2>3, <3>7 DEF ValuesOf
  <2>5. Holds(ins, ValuesOf(t))
    BY <1>1, <2>2, <2>4 DEF Holds
  <2> QED BY <1>0, <2>2, <2>5 DEF t
<1> QED BY <1>4, <1>5

LEMMA AppendKeeps ==
  ASSUME NEW s, NEW n, NEW b, NEW ins, Sketch(s, n, b, ins), n + Len(b) < MaxInserts,
         NEW v \in Values
  PROVE  Sketch(s, n, Append(b, v), [ins EXCEPT ![v] = @ + 1])
<1> DEFINE h == [ins EXCEPT ![v] = @ + 1]
           c == Append(b, v)
           kept == ValuesOf(s) \cup Range(b)
           all == ValuesOf(s) \cup Range(c)
<1>1. /\ s \in Seq(Items) /\ Ascending(s) /\ Weight(s) = n /\ b \in Seq(Values)
      /\ ins \in [Values -> Nat] /\ Total(ins) = n + Len(b)
      /\ Holds(ins, kept)
  BY DEF Sketch
<1>2. n \in Nat /\ Len(b) \in Nat
  BY <1>1, WeightBounds
<1>3. c \in Seq(Values) /\ Len(c) = Len(b) + 1
  BY <1>1
<1>4. h \in [Values -> Nat] /\ Total(h) = Total(ins) + 1
  BY <1>1, TotalGrows
<1>5. Range(c) = Range(b) \cup {v}
  <2>1. /\ DOMAIN c = 1..(Len(b) + 1) /\ DOMAIN b = 1..Len(b) /\ c[Len(b) + 1] = v
        /\ \A k \in 1..Len(b) : c[k] = b[k]
    BY <1>1
  <2>2. \A k \in 1..(Len(b) + 1) : k \in 1..Len(b) \/ k = Len(b) + 1
    BY <1>2
  <2>3. \A k \in 1..Len(b) : k \in 1..(Len(b) + 1)
    BY <1>2
  <2>4. Len(b) + 1 \in 1..(Len(b) + 1)
    BY <1>2
  <2> HIDE DEF c
  <2> QED BY <2>1, <2>2, <2>3, <2>4 DEF Range
<1>6. Seen(h) = Seen(ins) \cup {v}
  <2>1. \A w \in Values : h[w] = (IF w = v THEN ins[v] + 1 ELSE ins[w]) /\ ins[w] \in Nat
    BY <1>1
  <2> HIDE DEF h
  <2> QED BY <2>1 DEF Seen
<1> HIDE DEF h, c
<1>7. Holds(h, all)
  <2>1. all = kept \cup {v}
    BY <1>5
  <2>2. kept \subseteq Seen(ins)
    BY <1>1 DEF Holds
  <2>3. all \subseteq Seen(h)
    BY <1>6, <2>1, <2>2
  <2> DEFINE m == Max(Seen(h))
  <2>4. m \in Seen(h) /\ \A w \in Seen(h) : m >= w
    BY <1>6, SeenHasMax
  <2>5. CASE m = v
    BY <2>1, <2>3, <2>5 DEF Holds
  <2>6. CASE m # v
    <3>1. m \in Seen(ins) /\ Seen(ins) # {}
      BY <1>6, <2>4, <2>6
    <3>2. /\ Max(Seen(ins)) \in Seen(ins) /\ Max(Seen(ins)) \in kept
          /\ \A w \in Seen(ins) : Max(Seen(ins)) >= w
      BY <1>1, <3>1, SeenHasMax DEF Holds
    <3>3. m \in Int /\ Max(Seen(ins)) \in Int
      BY <3>1, <3>2, ValuesAssumption DEF Seen
    <3>4. m >= Max(Seen(ins)) /\ Max(Seen(ins)) >= m
      BY <1>6, <2>4, <3>1, <3>2
    <3> DEFINE l == Max(Seen(ins))
    <3>5. m = l
      <4> HIDE DEF m, l
      <4>1. m \in Int /\ l \in Int /\ m >= l /\ l >= m
        BY <3>3, <3>4 DEF l
      <4> QED BY ONLY <4>1
    <3>6. m \in all
      BY <2>1, <3>2, <3>5
    <3> QED BY <2>3, <3>6 DEF Holds
  <2> QED BY <2>5, <2>6
<1>8. Total(h) = n + Len(c) /\ n + Len(c) <= MaxInserts
  BY <1>1, <1>2, <1>3, <1>4, BoundsAssumption
<1>9. Sketch(s, n, c, h)
  BY <1>1, <1>3, <1>4, <1>7, <1>8 DEF Sketch
<1> QED BY <1>9 DEF c, h

LEMMA EmptySketch == Sketch(<< >>, 0, << >>, [v \in Values |-> 0])
<1> DEFINE f == [v \in Values |-> 0]
<1>1. f \in [Values -> Nat] /\ Seen(f) = {}
  BY DEF Seen
<1>2. Total(f) = 0
  BY TotalNone
<1>3. Weight(<< >>) = 0
  <2>1. << >> \in Seq(Items)
    OBVIOUS
  <2>2. PICK G : Weighs(G, << >>) /\ Weight(<< >>) = G[Len(<< >>)]
    BY <2>1, WeightRuns
  <2> QED BY <2>2 DEF Weighs
<1>4. ValuesOf(<< >>) = {} /\ Range(<< >>) = {} /\ Ascending(<< >>)
  BY DEF ValuesOf, Range, Ascending
<1> HIDE DEF f
<1>5. Holds(f, ValuesOf(<< >>) \cup Range(<< >>))
  BY <1>1, <1>4 DEF Holds
<1>6. Sketch(<< >>, 0, << >>, f)
  BY <1>1, <1>2, <1>3, <1>4, <1>5, BoundsAssumption DEF Sketch
<1> QED BY <1>6 DEF f

-----------------------------------------------------------------------------
(* The invariant                                                            *)

\* The inductive invariant, in the words of the lemmas.
CInv ==
  /\ Sketch(sample_, count_, buffer_, inserted)
  /\ Len(buffer_) < BufferSize
  /\ answer \in [value : Values \cup {NaN}, quantile : 0..100, error : Nat]

LEMMA RankOfLast ==
  ASSUME NEW s \in Seq(Items)
  PROVE  RankMin(s, Len(s)) = Weight(s)
<1>1. SubSeq(s, 1, Len(s)) = s
  OBVIOUS
<1> QED BY <1>1 DEF RankMin, Weight

LEMMA NumberIs == Number(Values) = Total(inserted)
BY DEF Number, Total

LEMMA KeepsIs ==
  ASSUME sample_ \in Seq(Items)
  PROVE  KeepsMaximum <=> Holds(inserted, ValuesOf(sample_) \cup Range(buffer_))
BY DEF KeepsMaximum, Holds, Seen, ValuesOf

LEMMA ToWords == IInv => CInv
<1> SUFFICES ASSUME IInv PROVE CInv
  OBVIOUS
<1> USE DEF IInv
<1>1. sample_ \in Seq(Items)
  <2> DEFINE R == [value : Values, g : 1..MaxInserts, delta : Nat]
  <2>1. sample_ \in Seq(R)
    BY DEF TypeOK
  <2>2. R \subseteq Items
    <3>1. 1..MaxInserts \subseteq Nat \ {0}
      OBVIOUS
    <3> QED BY <3>1 DEF Items
  <2> HIDE DEF R
  <2> QED BY <2>1, <2>2
<1>2. Ascending(sample_) /\ Weight(sample_) = count_
  BY <1>1, RankOfLast DEF NothingLost, Ascending
<1>3. inserted \in [Values -> Nat]
  <2>1. 0..MaxInserts \subseteq Nat
    OBVIOUS
  <2> QED BY <2>1 DEF TypeOK
<1>4. Total(inserted) = count_ + Len(buffer_)
  BY NumberIs DEF NothingLost
<1>5. Holds(inserted, ValuesOf(sample_) \cup Range(buffer_))
  BY <1>1, KeepsIs
<1> QED BY <1>1, <1>2, <1>3, <1>4, <1>5 DEF CInv, Sketch, TypeOK

LEMMA FromWords == CInv => IInv
<1> SUFFICES ASSUME CInv PROVE IInv
  OBVIOUS
<1>1. /\ sample_ \in Seq(Items) /\ Ascending(sample_) /\ Weight(sample_) = count_
      /\ buffer_ \in Seq(Values) /\ Len(buffer_) < BufferSize
      /\ inserted \in [Values -> Nat]
      /\ Total(inserted) = count_ + Len(buffer_) /\ count_ + Len(buffer_) <= MaxInserts
      /\ Holds(inserted, ValuesOf(sample_) \cup Range(buffer_))
      /\ answer \in [value : Values \cup {NaN}, quantile : 0..100, error : Nat]
  BY DEF CInv, Sketch
<1>2. Len(buffer_) \in Nat /\ MaxInserts \in Nat
  BY <1>1, BoundsAssumption
<1>3. count_ \in Nat /\ count_ <= MaxInserts /\ \A i \in 1..Len(sample_) : sample_[i].g <= count_
  <2>1. Weight(sample_) \in Nat /\ \A i \in 1..Len(sample_) : sample_[i].g <= Weight(sample_)
    BY <1>1, WeightBounds
  <2> QED BY <1>1, <1>2, <2>1
<1>4. sample_ \in Seq([value : Values, g : 1..MaxInserts, delta : Nat])
  <2> DEFINE R == [value : Values, g : 1..MaxInserts, delta : Nat]
  <2>1. ASSUME NEW k \in 1..Len(sample_) PROVE sample_[k] \in R
    <3>1. sample_[k] \in Items /\ sample_[k].g <= count_
      BY <1>1, <1>3
    <3>2. sample_[k].g \in 1..MaxInserts
      BY <1>2, <1>3, <3>1 DEF Items
    <3> QED BY <3>1, <3>2 DEF Items
  <2>2. Len(sample_) \in Nat /\ sample_ = [k \in 1..Len(sample_) |-> sample_[k]]
    BY <1>1
  <2> HIDE DEF R
  <2>3. sample_ \in [1..Len(sample_) -> R]
    BY <2>1, <2>2
  <2>4. sample_ \in Seq(R)
    BY <2>2, <2>3
  <2> QED BY <2>4 DEF R
<1>5. inserted \in [Values -> 0..MaxInserts]
  <2>1. \A v \in Values : inserted[v] \in 0..MaxInserts
    <3> TAKE v \in Values
    <3>1. inserted[v] \in Nat /\ Total(inserted) \in Nat /\ inserted[v] <= Total(inserted)
      BY <1>1, TotalBounds
    <3>2. Total(inserted) <= MaxInserts
      BY <1>1
    <3> QED BY <1>2, <3>1, <3>2
  <2> QED BY <1>1, <2>1
<1>6. TypeOK
  BY <1>1, <1>2, <1>3, <1>4, <1>5 DEF TypeOK
<1>7. NothingLost
  BY <1>1, RankOfLast, NumberIs DEF NothingLost, Ascending
<1>8. KeepsMaximum
  BY <1>1, KeepsIs
<1> QED BY <1>1, <1>6, <1>7, <1>8 DEF IInv

LEMMA Initial == Init => CInv
<1> SUFFICES ASSUME Init PROVE CInv
  OBVIOUS
<1>1. Sketch(sample_, count_, buffer_, inserted)
  BY EmptySketch DEF Init
<1>2. Len(buffer_) < BufferSize
  BY BoundsAssumption DEF Init
<1> QED BY <1>1, <1>2 DEF CInv, Init, NoAnswer

LEMMA NothingAnswered ==
  NoAnswer \in [value : Values \cup {NaN}, quantile : 0..100, error : Nat]
BY DEF NoAnswer

LEMMA InsertStep ==
  ASSUME CInv, NEW v \in Values, Insert(v)
  PROVE  CInv'
<1> DEFINE b == Append(buffer_, v)
<1>1. /\ Sketch(sample_, count_, buffer_, inserted) /\ Len(buffer_) < BufferSize
      /\ count_ + Len(buffer_) < MaxInserts
      /\ answer' = NoAnswer /\ inserted' = [inserted EXCEPT ![v] = @ + 1]
  BY DEF CInv, Insert
<1>2. Sketch(sample_, count_, b, inserted')
  BY <1>1, AppendKeeps
<1>3. Len(b) = Len(buffer_) + 1 /\ Len(buffer_) \in Nat
  BY <1>1 DEF Sketch
<1>4. CASE Full(b)
  <2>1. sample_' = Flush(sample_, b) /\ count_' = count_ + Len(b) /\ buffer_' = << >>
    BY <1>4 DEF Insert
  <2>2. Sketch(Flush(sample_, b), count_ + Len(b), << >>, inserted')
    BY <1>2, FlushKeeps
  <2>3. Sketch(sample_', count_', buffer_', inserted')
    BY ONLY <2>1, <2>2
  <2>4. Len(buffer_') < BufferSize
    BY <2>1, BoundsAssumption
  <2> QED BY <1>1, <2>3, <2>4, NothingAnswered DEF CInv
<1>5. CASE ~Full(b)
  <2>1. buffer_' = b /\ sample_' = sample_ /\ count_' = count_
    BY <1>5 DEF Insert
  <2>2. Sketch(sample_', count_', buffer_', inserted')
    BY ONLY <1>2, <2>1
  <2>3. Len(b) < BufferSize
    <3> HIDE DEF b
    <3> QED BY <1>1, <1>3, <1>5, BoundsAssumption DEF Full
  <2> QED BY <1>1, <2>1, <2>2, <2>3, NothingAnswered DEF CInv
<1> QED BY <1>4, <1>5

\* The answer is the value of an item.
LEMMA AnswerIs ==
  ASSUME NEW s \in Seq(Items), s # << >>, NEW n, NEW q
  PROVE  Quantile(s, n, q) \in Values
<1> DEFINE desired == (q.quantile * n) \div 100
           Beyond(i) == \E e \in AllowableErrors(desired, Len(s)) :
                          2 * (RankMin(s, i) + s[i].delta - desired) * e[2] > e[1]
           hits == {i \in 2..Len(s) : Beyond(i)}
<1>1. Quantile(s, n, q) = IF hits = {} THEN s[Len(s)].value ELSE s[Min(hits) - 1].value
  BY DEF Quantile
<1> HIDE DEF Beyond
<1>2. Len(s) \in 1..Len(s) /\ Len(s) \in Nat
  <2>1. Len(s) \in Nat /\ Len(s) # 0
    OBVIOUS
  <2> QED BY <2>1
<1>3. hits # {} => Min(hits) - 1 \in 1..Len(s)
  <2> SUFFICES ASSUME hits # {} PROVE Min(hits) - 1 \in 1..Len(s)
    OBVIOUS
  <2>1. hits \in SUBSET Nat
    BY <1>2
  <2>2. Min(hits) \in hits
    <3> HIDE DEF hits
    <3> QED BY <2>1, Least
  <2> QED BY <1>2, <2>2
<1> HIDE DEF hits
<1> QED BY <1>1, <1>2, <1>3, NumbersOf

LEMMA GetStep ==
  ASSUME CInv, NEW q \in Targets, Get(q)
  PROVE  CInv'
<1> DEFINE s == Flush(sample_, buffer_)
           n == count_ + Len(buffer_)
<1>1. Sketch(s, n, << >>, inserted)
  BY FlushKeeps DEF CInv
<1>2. /\ sample_' = s /\ count_' = n /\ buffer_' = << >> /\ inserted' = inserted
      /\ answer' = [value    |-> IF s = << >> THEN NaN ELSE Quantile(s, n, q),
                    quantile |-> q.quantile, error |-> q.error]
  BY DEF Get
<1> HIDE DEF s, n
<1>3. Sketch(sample_', count_', buffer_', inserted')
  BY ONLY <1>1, <1>2
<1>4. Len(buffer_') < BufferSize
  BY <1>2, BoundsAssumption
<1>5. answer' \in [value : Values \cup {NaN}, quantile : 0..100, error : Nat]
  <2>1. q.quantile \in 0..100 /\ q.error \in Nat
    BY TargetsAssumption
  <2>2. s # << >> => Quantile(s, n, q) \in Values
    BY <1>1, AnswerIs DEF Sketch
  <2> QED BY <1>2, <2>1, <2>2
<1> QED BY <1>3, <1>4, <1>5 DEF CInv

LEMMA ResetStep == CInv /\ Reset => CInv'
<1> SUFFICES ASSUME CInv, Reset PROVE CInv'
  OBVIOUS
<1>1. Sketch(sample_', count_', buffer_', inserted')
  BY EmptySketch DEF Reset
<1>2. Len(buffer_') < BufferSize
  BY BoundsAssumption DEF Reset
<1> QED BY <1>1, <1>2, NothingAnswered DEF CInv, Reset

LEMMA Inductive == CInv /\ [Next]_vars => CInv'
<1> SUFFICES ASSUME CInv, [Next]_vars PROVE CInv'
  OBVIOUS
<1>1. CASE \E v \in Values : Insert(v)
  BY <1>1, InsertStep
<1>2. CASE \E q \in Targets : Get(q)
  BY <1>2, GetStep
<1>3. CASE Reset
  BY <1>3, ResetStep
<1>4. CASE UNCHANGED vars
  BY <1>4 DEF CInv, vars
<1> QED BY <1>1, <1>2, <1>3, <1>4 DEF Next

\* A sketch is at any time what IInv says: the rest follows from it.
THEOREM Invariance == Spec => []IInv
<1>1. Init => CInv
  BY Initial
<1>2. CInv /\ [Next]_vars => CInv'
  BY Inductive
<1>3. CInv => IInv
  BY FromWords
<1> QED BY <1>1, <1>2, <1>3, PTL DEF Spec

\* The state has its types, the ranks of the items among them: no item stands
\* for nothing, or for more values than there were.
THEOREM TypeCorrect == Spec => []TypeOK
<1>1. IInv => TypeOK
  BY DEF IInv
<1> QED BY <1>1, Invariance, PTL

\* For any targets, numbers and size of the buffer, every value inserted since
\* the last reset is in the sketch or the buffer once, and the sketch is sorted
\* (ckms_quantiles.cc:88-150).
THEOREM Lossless == Spec => []NothingLost
<1>1. IInv => NothingLost
  BY DEF IInv
<1> QED BY <1>1, Invariance, PTL

\* Merging never loses the greatest value, nor makes up one (ckms_quantiles.cc:
\* 140-148).
THEOREM MaximumKept == Spec => []KeepsMaximum
<1>1. IInv => KeepsMaximum
  BY DEF IInv
<1> QED BY <1>1, Invariance, PTL

-----------------------------------------------------------------------------
(* The order of the quantiles                                               *)

\* No target's tolerated error reaches beyond the last rank.
InReach == \A q \in Targets : q.quantile < 100 /\ q.error + q.quantile <= 100

LEMMA Scaled ==
  ASSUME NEW a \in Int, NEW b \in Int, NEW n \in Nat, a <= b
  PROVE  a * n \in Int /\ b * n \in Int /\ a * n <= b * n
<1> DEFINE c == b - a
<1>1. c \in Nat /\ b = a + c
  OBVIOUS
<1> HIDE DEF c
<1>2. c * n \in Nat
  BY <1>1, Product
<1>3. (a + c) * n = a * n + c * n
  BY <1>1
<1>4. a * n \in Int
  OBVIOUS
<1> QED BY <1>1, <1>2, <1>3, <1>4

LEMMA Spread ==
  ASSUME NEW a \in Int, NEW b \in Int, NEW c \in Int
  PROVE  /\ (a + b) * c = a * c + b * c /\ c * (a + b) = c * a + c * b
         /\ (a - b) * c = a * c - b * c /\ c * (a - b) = c * a - c * b
         /\ a * c \in Int /\ b * c \in Int /\ c * a = a * c /\ c * b = b * c
OBVIOUS

\* Half the error of a fraction of the error tolerated at rank d is less than
\* the distance to rank x.
Further(x, d, a, b) == 2 * (x - d) * b > a

\* Both ranks are in front of the target.
LEMMA FurtherLeft ==
  ASSUME NEW x \in Int, NEW d \in Nat, NEW l \in Nat, d <= l, NEW size \in Nat,
         NEW eps \in Nat, NEW b \in Nat, eps <= b,
         Further(x, l, 2 * eps * (size - l), b)
  PROVE  Further(x, d, 2 * eps * (size - d), b)
<1> DEFINE m == l - d
<1>1. m \in Nat /\ l = d + m
  OBVIOUS
<1> HIDE DEF m
<1>2. eps * m <= b * m /\ eps * m \in Int /\ b * m \in Int
  BY <1>1, Scaled
<1>3. 2 * (x - l) * b = 2 * (x * b) - 2 * (l * b) /\ 2 * (x - d) * b = 2 * (x * b) - 2 * (d * b)
      /\ x * b \in Int /\ l * b \in Int /\ d * b \in Int
  BY Spread
<1>4. l * b = d * b + b * m
  BY <1>1, Spread
<1>5. 2 * eps * (size - l) = 2 * (eps * size) - 2 * (eps * l)
      /\ 2 * eps * (size - d) = 2 * (eps * size) - 2 * (eps * d)
      /\ eps * size \in Int /\ eps * l \in Int /\ eps * d \in Int
  BY Spread
<1>6. eps * l = eps * d + eps * m
  BY <1>1, Spread
<1>7. 2 * (x - l) * b > 2 * eps * (size - l)
  BY DEF Further
<1> DEFINE A == x * b
           B == d * b
           C == b * m
           D == eps * size
           E == eps * d
           F == eps * m
<1>8. /\ A \in Int /\ B \in Int /\ C \in Int /\ D \in Int /\ E \in Int /\ F \in Int
      /\ F <= C /\ 2 * A - 2 * (B + C) > 2 * D - 2 * (E + F)
  BY <1>2, <1>3, <1>4, <1>5, <1>6, <1>7
<1> HIDE DEF A, B, C, D, E, F
<1>9. 2 * A - 2 * B > 2 * D - 2 * E
  BY ONLY <1>8
<1>10. 2 * (x - d) * b > 2 * eps * (size - d)
  BY ONLY <1>3, <1>5, <1>9 DEF A, B, D, E
<1> QED BY <1>10 DEF Further

\* Both ranks are behind the target.
LEMMA FurtherRight ==
  ASSUME NEW x \in Int, NEW d \in Nat, NEW l \in Nat, d <= l,
         NEW eps \in Nat, NEW b \in Nat,
         Further(x, l, 2 * eps * l, b)
  PROVE  Further(x, d, 2 * eps * d, b)
<1>1. 2 * eps \in Nat
  OBVIOUS
<1>2. 2 * eps * d <= 2 * eps * l /\ 2 * eps * d \in Int /\ 2 * eps * l \in Int
  <2> DEFINE k == 2 * eps
  <2>1. k \in Nat
    BY <1>1
  <2> HIDE DEF k
  <2>2. d * k <= l * k /\ d * k \in Int /\ l * k \in Int /\ k * d = d * k /\ k * l = l * k
    BY <2>1, Scaled, Spread
  <2>3. k * d <= k * l /\ k * d \in Int /\ k * l \in Int
    BY <2>2
  <2> QED BY <2>3 DEF k
<1>3. 2 * (x - l) * b <= 2 * (x - d) * b /\ 2 * (x - l) * b \in Int /\ 2 * (x - d) * b \in Int
  <2> DEFINE y == 2 * (x - l)
             z == 2 * (x - d)
  <2>1. y \in Int /\ z \in Int /\ y <= z
    OBVIOUS
  <2> HIDE DEF y, z
  <2>2. y * b <= z * b /\ y * b \in Int /\ z * b \in Int
    BY <2>1, Scaled
  <2> QED BY <2>2 DEF y, z
<1>4. 2 * (x - l) * b > 2 * eps * l
  BY DEF Further
<1> DEFINE A == 2 * (x - l) * b
           B == 2 * (x - d) * b
           C == 2 * eps * l
           D == 2 * eps * d
<1>5. A \in Int /\ B \in Int /\ C \in Int /\ D \in Int /\ A <= B /\ D <= C /\ A > C
  BY <1>2, <1>3, <1>4
<1> HIDE DEF A, B, C, D
<1>6. B > D
  BY ONLY <1>5
<1> QED BY <1>6 DEF Further, B, D

\* The target is between the two ranks.
LEMMA FurtherAcross ==
  ASSUME NEW x \in Int, NEW d \in Nat, NEW l \in Nat, NEW size \in Nat,
         NEW eps \in Nat, NEW t \in Nat, t < 100, t # 0, eps + t <= 100,
         100 * d <= t * size, ~(100 * l <= t * size),
         Further(x, l, 2 * eps * l, t)
  PROVE  Further(x, d, 2 * eps * (size - d), 100 - t)
<1> DEFINE y == x - l
           u == 100 - t
           k == t * size
<1>1. y \in Int /\ u \in Nat /\ t + u = 100 /\ eps <= u /\ k \in Nat /\ 100 * d <= k /\ k < 100 * l
  BY Product
\* 100 * y > eps * size
<1>2. 100 * y > eps * size /\ eps * size \in Nat
  <2>1. eps * size \in Nat /\ y * t \in Int /\ eps * l \in Nat
    BY <1>1, Product
  <2>2. y * t > eps * l
    <3>1. 2 * (x - l) * t > 2 * eps * l
      BY DEF Further
    <3>2. 2 * (x - l) * t = 2 * (y * t) /\ 2 * eps * l = 2 * (eps * l)
      OBVIOUS
    <3> HIDE DEF y
    <3> DEFINE A == y * t
               B == eps * l
    <3>3. A \in Int /\ B \in Int /\ 2 * A > 2 * B
      BY <2>1, <3>1, <3>2
    <3> HIDE DEF A, B
    <3>4. A > B
      BY ONLY <3>3
    <3> QED BY <3>4 DEF A, B
  <2>3. eps * k <= eps * (100 * l)
    <3>1. k \in Int /\ 100 * l \in Int /\ k <= 100 * l
      BY <1>1
    <3> DEFINE h == 100 * l
    <3> HIDE DEF k, h
    <3>2. k * eps <= h * eps /\ eps * k = k * eps /\ eps * h = h * eps
      BY <3>1, Scaled, Spread DEF h
    <3> QED BY <3>2 DEF h
  <2>4. eps * k = (eps * size) * t /\ eps * (100 * l) = 100 * (eps * l) /\ (100 * y) * t = 100 * (y * t)
    OBVIOUS
  <2>5. (100 * y) * t > (eps * size) * t
    <3> DEFINE A == y * t
               B == eps * l
               C == (eps * size) * t
    <3>1. A \in Int /\ B \in Int /\ C \in Int /\ A > B /\ C <= 100 * B
      BY <2>1, <2>2, <2>3, <2>4, Product
    <3> HIDE DEF A, B, C
    <3>2. 100 * A > C
      BY ONLY <3>1
    <3> QED BY <2>4, <3>2 DEF A, C
  <2> DEFINE v == 100 * y
             w == eps * size
  <2>6. v \in Int /\ w \in Int /\ v * t > w * t
    BY <1>1, <2>1, <2>5
  <2> HIDE DEF v, w
  <2>7. v > w
    <3>1. SUFFICES ASSUME v <= w PROVE FALSE
      BY <2>6
    <3>2. v * t <= w * t /\ v * t \in Int /\ w * t \in Int
      BY <2>6, <3>1, Scaled
    <3> DEFINE A == v * t
               B == w * t
    <3>3. A \in Int /\ B \in Int /\ A <= B /\ A > B
      BY <2>6, <3>2
    <3> HIDE DEF A, B
    <3> QED BY ONLY <3>3
  <2> QED BY <2>1, <2>7 DEF v, w
\* (x - d) * u, a hundred times
<1> DEFINE P == eps * size
           m == 100 * l - 100 * d
           r == k - 100 * d
<1>3. m \in Nat /\ r \in Nat /\ r <= m /\ 100 * (x - d) = 100 * y + m
  BY <1>1
<1>4. P * u <= (100 * y) * u /\ P * u \in Int /\ (100 * y) * u \in Int /\ (u # 0 => P * u < (100 * y) * u)
  <2> DEFINE v == 100 * y
             w == v - P
  <2>1. v \in Int /\ P \in Int /\ w \in Nat /\ w >= 1 /\ v = P + w
    BY <1>1, <1>2
  <2> HIDE DEF v, w, P, u
  <2>2. v * u = P * u + w * u /\ P * u \in Int /\ w * u \in Nat
    <3>1. u \in Int /\ w \in Int /\ w \in Nat /\ u \in Nat
      BY <1>1, <2>1
    <3> QED BY <2>1, <3>1, Spread, Product
  <2>3. u # 0 => 1 * u <= w * u
    <3>1. 1 \in Int /\ w \in Int /\ u \in Nat /\ 1 <= w
      BY <1>1, <2>1
    <3> QED BY ONLY <3>1, Scaled
  <2> DEFINE A == P * u
             B == w * u
             C == v * u
  <2>4. A \in Int /\ B \in Nat /\ C = A + B /\ (u # 0 => u <= B) /\ u \in Nat
    BY <1>1, <2>2, <2>3
  <2> HIDE DEF A, B, C
  <2>5. A <= C /\ A \in Int /\ C \in Int /\ (u # 0 => A < C)
    BY ONLY <2>4
  <2> QED BY <2>5 DEF A, C, v
<1>5. eps * r <= m * u /\ eps * r \in Int /\ m * u \in Int
  <2>1. eps * r <= u * r /\ eps * r \in Int /\ u * r \in Int
    <3> HIDE DEF u, r
    <3> QED BY <1>1, <1>3, Scaled
  <2>2. r * u <= m * u /\ m * u \in Int /\ u * r = r * u
    <3> HIDE DEF u, r, m
    <3> QED BY <1>1, <1>3, Scaled, Spread
  <2> DEFINE A == eps * r
             B == u * r
             C == m * u
  <2>3. A \in Int /\ B \in Int /\ C \in Int /\ A <= B /\ B <= C
    BY <2>1, <2>2
  <2> HIDE DEF A, B, C
  <2>4. A <= C /\ A \in Int /\ C \in Int
    BY ONLY <2>3
  <2> QED BY <2>4 DEF A, C
<1>6. u # 0
  OBVIOUS
<1>7. P * u + eps * r = 100 * (eps * (size - d)) /\ eps * (size - d) \in Int
  <2>1. /\ eps * (size - d) = P - eps * d
        /\ eps * r = P * t - 100 * (eps * d)
        /\ P * u = 100 * P - P * t
        /\ eps * d \in Int /\ P * t \in Int /\ P \in Int
    OBVIOUS
  <2> DEFINE A == eps * d
             B == P * t
  <2>2. A \in Int /\ B \in Int /\ P \in Int
    BY <2>1
  <2> HIDE DEF A, B, P
  <2>3. (100 * P - B) + (B - 100 * A) = 100 * (P - A) /\ P - A \in Int
    BY ONLY <2>2
  <2> QED BY <2>1, <2>3 DEF A, B
<1>8. 100 * ((x - d) * u) = (100 * y) * u + m * u /\ (x - d) * u \in Int
  <2>1. 100 * ((x - d) * u) = (100 * (x - d)) * u /\ (x - d) * u \in Int
    BY <1>1
  <2> DEFINE v == 100 * y
             w == 100 * (x - d)
  <2>2. v \in Int /\ m \in Int /\ u \in Int /\ w = v + m
    BY <1>1, <1>3
  <2> HIDE DEF v, w, m, u
  <2>3. w * u = v * u + m * u
    BY <2>2, Spread
  <2> QED BY <2>1, <2>3 DEF v, w
<1> DEFINE A == (x - d) * u
           B == eps * (size - d)
           C == (100 * y) * u
           D == m * u
           E == P * u
           F == eps * r
<1>9. /\ A \in Int /\ B \in Int /\ C \in Int /\ D \in Int /\ E \in Int /\ F \in Int
      /\ 100 * A = C + D /\ E + F = 100 * B /\ E < C /\ F <= D
  BY <1>4, <1>5, <1>6, <1>7, <1>8
<1> HIDE DEF A, B, C, D, E, F
<1>10. 2 * A > 2 * B
  BY ONLY <1>9
<1>11. 2 * (x - d) * (100 - t) > 2 * eps * (size - d)
  <2>1. 2 * (x - d) * u = 2 * A /\ 2 * eps * (size - d) = 2 * B
    <3> HIDE DEF u
    <3> QED BY <1>1 DEF A, B
  <2> QED BY <1>10, <2>1
<1> QED BY <1>11 DEF Further

\* A rank beyond what the greater one tolerates is beyond what the lesser does.
LEMMA StaysBeyond ==
  ASSUME InReach, NEW x \in Int, NEW d \in Nat, NEW l \in Nat, d <= l, NEW size \in Nat,
         NEW e \in AllowableErrors(l, size), Further(x, l, e[1], e[2])
  PROVE  \E f \in AllowableErrors(d, size) : Further(x, d, f[1], f[2])
<1> DEFINE Near(q, rank) == IF 100 * rank <= q.quantile * size
                            THEN <<2 * q.error * (size - rank), 100 - q.quantile>>
                            ELSE <<2 * q.error * rank, q.quantile>>
<1>1. \A rank : AllowableErrors(rank, size) =
        {<<size + 1, 1>>} \cup {f \in {Near(q, rank) : q \in Targets} : f[2] # 0}
  BY DEF AllowableErrors
<1>2. CASE e = <<size + 1, 1>>
  <2>1. e \in AllowableErrors(d, size)
    BY <1>2 DEF AllowableErrors
  <2>2. Further(x, d, e[1], e[2])
    BY <1>2 DEF Further
  <2> QED BY <2>1, <2>2
<1>3. ASSUME NEW q \in Targets, e = Near(q, l), e[2] # 0
      PROVE  \E f \in AllowableErrors(d, size) : Further(x, d, f[1], f[2])
  <2> DEFINE t == q.quantile
             eps == q.error
             f == Near(q, d)
  <2>1. t \in Nat /\ eps \in Nat /\ t < 100 /\ eps + t <= 100 /\ 100 - t \in Nat /\ eps <= 100 - t
    BY TargetsAssumption DEF InReach
  <2>2. SUFFICES f[2] # 0 /\ Further(x, d, f[1], f[2])
    <3>1. f \in {Near(p, d) : p \in Targets}
      OBVIOUS
    <3> HIDE DEF Near, f
    <3>2. f \in AllowableErrors(d, size)
      BY <1>1, <2>2, <3>1
    <3> QED BY <2>2, <3>2
  <2> HIDE DEF t, eps
  <2>3. /\ Near(q, l) = IF 100 * l <= t * size THEN <<2 * eps * (size - l), 100 - t>>
                        ELSE <<2 * eps * l, t>>
        /\ f = IF 100 * d <= t * size THEN <<2 * eps * (size - d), 100 - t>>
               ELSE <<2 * eps * d, t>>
    BY DEF t, eps
  <2> HIDE DEF Near, f
  <2>4. t * size \in Nat
    BY <2>1, Product
  <2>5. CASE 100 * l <= t * size
    <3>1. 100 * d <= t * size
      BY <2>4, <2>5
    <3>2. e = <<2 * eps * (size - l), 100 - t>> /\ f = <<2 * eps * (size - d), 100 - t>>
      BY <1>3, <2>3, <2>5, <3>1
    <3>3. Further(x, l, 2 * eps * (size - l), 100 - t)
      BY <3>2
    <3>4. Further(x, d, 2 * eps * (size - d), 100 - t)
      <4> DEFINE b == 100 - t
      <4>1. b \in Nat /\ eps \in Nat /\ eps <= b /\ Further(x, l, 2 * eps * (size - l), b)
        BY <2>1, <3>3
      <4> HIDE DEF b
      <4>2. Further(x, d, 2 * eps * (size - d), b)
        BY <4>1, FurtherLeft
      <4> QED BY <4>2 DEF b
    <3>5. 100 - t # 0
      BY <2>1
    <3> QED BY <3>2, <3>4, <3>5
  <2>6. CASE ~(100 * l <= t * size) /\ 100 * d <= t * size
    <3>1. e = <<2 * eps * l, t>> /\ f = <<2 * eps * (size - d), 100 - t>>
      BY <1>3, <2>3, <2>6
    <3>2. Further(x, l, 2 * eps * l, t) /\ t # 0
      BY <1>3, <3>1
    <3>3. Further(x, d, 2 * eps * (size - d), 100 - t)
      BY <2>1, <2>6, <3>2, FurtherAcross
    <3>4. 100 - t # 0
      BY <2>1
    <3> QED BY <3>1, <3>3, <3>4
  <2>7. CASE ~(100 * l <= t * size) /\ ~(100 * d <= t * size)
    <3>1. e = <<2 * eps * l, t>> /\ f = <<2 * eps * d, t>>
      BY <1>3, <2>3, <2>7
    <3>2. Further(x, l, 2 * eps * l, t) /\ t # 0
      BY <1>3, <3>1
    <3>3. Further(x, d, 2 * eps * d, t)
      BY <2>1, <3>2, FurtherRight
    <3> QED BY <3>1, <3>2, <3>3
  <2> QED BY <2>5, <2>6, <2>7
<1>4. e = <<size + 1, 1>> \/ \E q \in Targets : e = Near(q, l) /\ e[2] # 0
  <2> HIDE DEF Near
  <2> QED BY <1>1
<1> HIDE DEF Near
<1> QED BY <1>2, <1>3, <1>4

LEMMA RankTyped ==
  ASSUME NEW s \in Seq(Items), NEW i \in 1..Len(s)
  PROVE  RankMin(s, i) \in Int /\ s[i].delta \in Int
<1>1. SubSeq(s, 1, i) \in Seq(Items) /\ s[i] \in Items
  OBVIOUS
<1>2. RankMin(s, i) = Weight(SubSeq(s, 1, i))
  BY DEF RankMin, Weight
<1>3. Weight(SubSeq(s, 1, i)) \in Nat
  BY <1>1, WeightBounds
<1>4. s[i].delta \in Nat
  BY <1>1 DEF Items
<1> QED BY <1>2, <1>3, <1>4

LEMMA QuantilesAscend ==
  ASSUME InReach, NEW s \in Seq(Items), s # << >>, Ascending(s), NEW n \in Nat,
         NEW p \in Targets, NEW q \in Targets, p.quantile <= q.quantile
  PROVE  Quantile(s, n, p) <= Quantile(s, n, q)
<1> DEFINE d == (p.quantile * n) \div 100
           l == (q.quantile * n) \div 100
           N == Len(s)
           Beyond(i, rank) == \E e \in AllowableErrors(rank, Len(s)) :
                                2 * (RankMin(s, i) + s[i].delta - rank) * e[2] > e[1]
           Hits(rank) == {i \in 2..Len(s) : Beyond(i, rank)}
           Answer(rank) == IF Hits(rank) = {} THEN s[Len(s)].value ELSE s[Min(Hits(rank)) - 1].value
<1>1. Quantile(s, n, p) = Answer(d) /\ Quantile(s, n, q) = Answer(l)
  BY DEF Quantile
<1>2. d \in Nat /\ l \in Nat /\ d <= l
  <2>1. p.quantile \in Int /\ q.quantile \in Int /\ p.quantile \in Nat /\ q.quantile \in Nat
    <3>1. p.quantile \in 0..100 /\ q.quantile \in 0..100
      BY TargetsAssumption
    <3>2. \A a \in 0..100 : a \in Int /\ a \in Nat
      OBVIOUS
    <3> QED BY ONLY <3>1, <3>2
  <2> DEFINE A == p.quantile * n
             B == q.quantile * n
  <2>2. A \in Nat /\ B \in Nat /\ A <= B
    BY <2>1, Scaled, Product
  <2> HIDE DEF A, B
  <2>3. A \div 100 \in Nat /\ B \div 100 \in Nat /\ A \div 100 <= B \div 100
    BY ONLY <2>2
  <2> QED BY <2>3 DEF A, B
<1> HIDE DEF d, l
<1>3. N \in Nat /\ N >= 1 /\ N \in 1..N
  <2>1. N \in Nat /\ N # 0
    OBVIOUS
  <2> QED BY <2>1
<1>4. Hits(l) \subseteq Hits(d)
  <2> SUFFICES ASSUME NEW i \in 2..N, Beyond(i, l) PROVE Beyond(i, d)
    OBVIOUS
  <2> DEFINE x == RankMin(s, i) + s[i].delta
  <2>1. x \in Int /\ \A rank \in Nat : RankMin(s, i) + s[i].delta - rank = x - rank
    <3>1. i \in 1..Len(s)
      BY <1>3
    <3>2. RankMin(s, i) \in Int /\ s[i].delta \in Int
      BY <3>1, RankTyped
    <3> QED BY <3>2
  <2> HIDE DEF x
  <2>2. PICK e \in AllowableErrors(l, N) : Further(x, l, e[1], e[2])
    BY <1>2, <2>1 DEF Further
  <2>3. \E f \in AllowableErrors(d, N) : Further(x, d, f[1], f[2])
    <3> HIDE DEF N
    <3> QED BY <1>2, <1>3, <2>1, <2>2, StaysBeyond
  <2> QED BY <1>2, <2>1, <2>3 DEF Further
<1>5. \A rank : Hits(rank) # {} =>
        /\ Min(Hits(rank)) \in Hits(rank) /\ Min(Hits(rank)) - 1 \in 1..N
        /\ \A i \in Hits(rank) : Min(Hits(rank)) <= i
  <2> SUFFICES ASSUME NEW rank, Hits(rank) # {}
               PROVE  /\ Min(Hits(rank)) \in Hits(rank) /\ Min(Hits(rank)) - 1 \in 1..N
                      /\ \A i \in Hits(rank) : Min(Hits(rank)) <= i
    OBVIOUS
  <2> DEFINE H == Hits(rank)
  <2>1. H \in SUBSET (2..N)
    OBVIOUS
  <2> HIDE DEF H, N
  <2>2. H \in SUBSET Nat /\ H # {}
    BY <1>3, <2>1 DEF H
  <2>3. Min(H) \in H /\ \A i \in H : Min(H) <= i
    BY <2>2, Least
  <2>4. Min(H) - 1 \in 1..N
    BY <1>3, <2>1, <2>3
  <2> QED BY <2>3, <2>4 DEF H
<1> HIDE DEF Hits, Beyond
<1>6. CASE Hits(l) # {}
  <2> DEFINE j == Min(Hits(l)) - 1
             i == Min(Hits(d)) - 1
  <2>1. Hits(d) # {} /\ Min(Hits(l)) \in Hits(d)
    BY <1>4, <1>5, <1>6
  <2>2. j \in 1..N /\ i \in 1..N /\ Min(Hits(d)) <= Min(Hits(l))
    BY <1>5, <1>6, <2>1
  <2>3. Answer(d) = s[i].value /\ Answer(l) = s[j].value
    BY <1>6, <2>1
  <2>4. i \in 1..j
    <3> DEFINE a == Min(Hits(d))
               b == Min(Hits(l))
    <3>1. a - 1 \in 1..N /\ b - 1 \in 1..N /\ a <= b /\ a \in Int /\ b \in Int
      <4>1. a \in Hits(d) /\ b \in Hits(l)
        BY <1>5, <1>6, <2>1
      <4>2. a \in Int /\ b \in Int
        BY <4>1 DEF Hits
      <4> QED BY <2>2, <4>2
    <3> HIDE DEF a, b
    <3>2. a - 1 \in 1..(b - 1)
      BY <1>3, <3>1
    <3> QED BY <3>2 DEF a, b
  <2> HIDE DEF i, j, N
  <2>5. s[i].value <= s[j].value
    BY <2>2, <2>4, AscendingTo DEF N
  <2> QED BY <1>1, <2>3, <2>5
<1>7. CASE Hits(l) = {}
  <2>1. Answer(l) = s[N].value
    BY <1>7
  <2>2. \E i \in 1..N : Answer(d) = s[i].value
    BY <1>3, <1>5
  <2> HIDE DEF Answer, N
  <2>3. PICK i \in 1..N : Answer(d) = s[i].value
    BY <2>2
  <2>4. s[i].value <= s[N].value
    BY <1>3, AscendingTo DEF N
  <2> QED BY <1>1, <2>1, <2>3, <2>4
<1> QED BY <1>6, <1>7

\* One and the same sketch answers a higher quantile with no lower value, for
\* any targets whose tolerated errors do not reach beyond the last rank
\* (ckms_quantiles.cc:41-60 and 103-120).
THEOREM Ordered ==
  ASSUME InReach
  PROVE  Spec => []QuantilesOrdered
<1>1. CInv => QuantilesOrdered
  <2> DEFINE s == Flush(sample_, buffer_)
             n == count_ + Len(buffer_)
  <2> SUFFICES ASSUME CInv, s # << >>, NEW p \in Targets, NEW q \in Targets,
                      p.quantile <= q.quantile
               PROVE  Quantile(s, n, p) <= Quantile(s, n, q)
    BY DEF QuantilesOrdered
  <2>1. Sketch(s, n, << >>, inserted)
    BY FlushKeeps DEF CInv
  <2> HIDE DEF s
  <2>2. s \in Seq(Items) /\ Ascending(s) /\ n = Weight(s)
    BY <2>1 DEF Sketch
  <2>3. n \in Nat
    BY <2>2, WeightBounds
  <2> HIDE DEF n
  <2> QED BY <2>2, <2>3, QuantilesAscend
<1>2. IInv => CInv
  BY ToWords
<1> QED BY <1>1, <1>2, Invariance, PTL
=============================================================================
