---------------------------- MODULE SequenceFolds -----------------------------
(***************************************************************************)
(* What a loop over a list computes, and a recursion down a tree.  The     *)
(* loops of the code are modelled as FoldLeft of a step; a proof about one *)
(* needs its turns, one by one, and induction over them, which the         *)
(* installed provers reach only in the form given here: about sets of      *)
(* naturals, and about a step that is a function.                          *)
(***************************************************************************)
EXTENDS Sorting, SequencesExt, FiniteSetTheorems, WellFoundedInduction, TLAPS

LEMMA LeastOf ==
  ASSUME NEW S \in SUBSET Nat, S # {}
  PROVE  \E m \in S : \A n \in S : m <= n
<1> DEFINE R == OpToRel(<, Nat)
<1>1. PICK m \in S : \A n \in S : <<n, m>> \notin R
  BY NatLessThanWellFounded, WFMin
<1>2. R = {ss \in Nat \X Nat : ss[1] < ss[2]}
  BY Zenon DEF OpToRel
<1> HIDE DEF R
<1>3. \A n \in S : ~(n < m)
  BY <1>1, <1>2
<1> QED
  BY <1>3

LEMMA SetInduction ==
  ASSUME NEW S, 0 \in S, \A n \in Nat : n \in S => n + 1 \in S
  PROVE  Nat \subseteq S
<1> SUFFICES ASSUME Nat \ S # {} PROVE FALSE
  OBVIOUS
<1>1. PICK m \in Nat \ S : \A n \in Nat \ S : m <= n
  BY LeastOf
<1>2. m # 0 /\ m - 1 \in Nat
  BY <1>1
<1>3. m - 1 \in S
  BY <1>1, <1>2
<1> QED
  BY <1>1, <1>2, <1>3

\* The form in which it is used: of the turns of a loop.
LEMMA TurnInduction ==
  ASSUME NEW N \in Nat, NEW S, 0 \in S, \A n \in 0..(N - 1) : n \in S => n + 1 \in S
  PROVE  0..N \subseteq S
<1> DEFINE T == {n \in Nat : n <= N => n \in S}
<1>1. 0 \in T
  OBVIOUS
<1>2. \A n \in Nat : n \in T => n + 1 \in T
  OBVIOUS
<1> HIDE DEF T
<1>3. Nat \subseteq T
  BY <1>1, <1>2, SetInduction
<1> QED
  BY <1>3 DEF T

LEMMA LastTurn ==
  ASSUME NEW N \in Nat, NEW S, 0 \in S, \A n \in 0..(N - 1) : n \in S => n + 1 \in S
  PROVE  N \in S
<1>1. 0..N \subseteq S
  BY TurnInduction
<1>2. N \in 0..N
  OBVIOUS
<1> QED
  BY <1>1, <1>2

\* A finite set of naturals has a greatest element.
LEMMA GreatestOf ==
  ASSUME NEW S \in SUBSET Nat, IsFiniteSet(S), S # {}
  PROVE  \E m \in S : \A n \in S : n <= m
<1> DEFINE N == Cardinality(S)
<1>1. PICK f \in [1..N -> S] : \A x \in S : \E i \in 1..N : f[i] = x
  BY FS_CardinalityType DEF ExistsBijection, Bijection, Surjection, Injection
<1>2. N \in Nat /\ N # 0
  BY <1>1, FS_CardinalityType, FS_EmptySet
<1> HIDE DEF N
<1> DEFINE T == {n \in 0..N : n = 0 \/ \E j \in 1..N : \A k \in 1..n : f[k] <= f[j]}
<1>3. 0 \in T
  BY <1>2
<1>4. ASSUME NEW n \in 0..(N - 1), n \in T
      PROVE  n + 1 \in T
  <2>1. n + 1 \in 1..N /\ \A k \in 1..(n + 1) : k \in 1..n \/ k = n + 1
    BY <1>2
  <2>2. \A k \in 1..N : f[k] \in Nat
    BY <1>1
  <2>3. CASE n = 0
    <3>1. \A k \in 1..(n + 1) : f[k] <= f[n + 1]
      BY <2>1, <2>2, <2>3
    <3> QED
      BY <2>1, <3>1
  <2>4. CASE n # 0
    <3>1. PICK j \in 1..N : \A k \in 1..n : f[k] <= f[j]
      BY <1>4, <2>4
    <3>2. n \in Nat /\ \A k \in 1..n : k \in 1..N
      BY <1>2
    <3>3. CASE f[n + 1] <= f[j]
      BY <2>1, <3>1, <3>3
    <3>4. CASE f[j] <= f[n + 1]
      <4>1. \A k \in 1..(n + 1) : f[k] <= f[n + 1]
        BY <2>1, <2>2, <3>1, <3>2, <3>4
      <4> QED
        BY <2>1, <4>1
    <3> QED
      BY <2>1, <2>2, <3>3, <3>4
  <2> QED
    BY <2>3, <2>4
<1>5. \A n \in 0..(N - 1) : n \in T => n + 1 \in T
  BY <1>4
<1> HIDE DEF T
<1>6. N \in T
  <2>1. 0..N \subseteq T
    BY <1>2, <1>3, <1>5, TurnInduction
  <2> QED
    BY <1>2, <2>1
<1>7. PICK j \in 1..N : \A k \in 1..N : f[k] <= f[j]
  BY <1>2, <1>6 DEF T
<1> QED
  BY <1>1, <1>7

-----------------------------------------------------------------------------
LEMMA MaxOf ==
  ASSUME NEW n \in Nat, NEW s \in SUBSET (1..n), s # {}
  PROVE  /\ Max(s) \in s
         /\ \A y \in s : Max(s) >= y
<1> DEFINE T == {n - x : x \in s}
<1>1. T \in SUBSET Nat /\ T # {}
  <2>1. \A x \in s : x \in Int /\ n - x \in Nat
    OBVIOUS
  <2> QED
    BY <2>1
<1> HIDE DEF T
<1>2. PICK m \in T : \A y \in T : m <= y
  BY <1>1, LeastOf
<1>3. PICK x \in s : m = n - x
  BY DEF T
<1>4. \A y \in s : n - y \in T
  BY DEF T
<1>5. \A y \in s : x >= y
  BY <1>2, <1>3, <1>4
<1>6. \E z \in s : \A y \in s : z >= y
  BY <1>5
<1> QED
  BY <1>6, Zenon DEF Max

LEMMA MaxOfPrefix ==
  ASSUME NEW i \in Nat \ {0}
  PROVE  Max(1..i) = i /\ (1..i) \ {i} = 1..(i - 1)
<1>1. 1..i # {} /\ i \in 1..i
  OBVIOUS
<1>2. Max(1..i) \in 1..i /\ Max(1..i) >= i
  BY <1>1, MaxOf
<1> QED
  BY <1>2

LEMMA PrefixIn ==
  ASSUME NEW N \in Nat, NEW i \in 1..N
  PROVE  1..i # {} /\ 1..i \in SUBSET (1..N)
<1>1. i \in 1..i /\ \A j \in 1..i : j \in 1..N
  OBVIOUS
<1> QED
  BY <1>1

-----------------------------------------------------------------------------
\* A step is a function here: of what there is, and of the next element.
Iterates(iter, n, base, step, seq) ==
    \A s \in SUBSET (1..n) :
        iter[s] = IF s = {} THEN base ELSE step[<<iter[s \ {Max(s)}], seq[Max(s)]>>]

LEMMA IterationExists ==
  ASSUME NEW N \in Nat, NEW X, NEW Y, NEW seq \in [1..N -> X],
         NEW step \in [Y \X X -> Y], NEW base \in Y
  PROVE  \E iter \in [SUBSET (1..N) -> Y] : Iterates(iter, N, base, step, seq)
<1> DEFINE S == {n \in Nat : \E iter \in [SUBSET (1..n) -> Y] : Iterates(iter, n, base, step, seq)}
<1>1. 0 \in S
  <2> DEFINE it == [s \in SUBSET (1..0) |-> base]
  <2>1. \A s \in SUBSET (1..0) : s = {}
    OBVIOUS
  <2>2. it \in [SUBSET (1..0) -> Y]
    OBVIOUS
  <2>3. Iterates(it, 0, base, step, seq)
    BY <2>1 DEF Iterates
  <2> QED
    BY <2>2, <2>3
<1>2. ASSUME NEW n \in 0..(N - 1), n \in S
      PROVE  n + 1 \in S
  <2>1. PICK iter \in [SUBSET (1..n) -> Y] : Iterates(iter, n, base, step, seq)
    BY <1>2
  <2>0. n \in Nat /\ n + 1 \in Nat /\ n + 1 \in 1..N
    BY <1>2
  <2> DEFINE it == [s \in SUBSET (1..(n + 1)) |->
                      IF n + 1 \in s THEN step[<<iter[s \ {n + 1}], seq[n + 1]>>] ELSE iter[s]]
  <2>2. ASSUME NEW s \in SUBSET (1..(n + 1)), n + 1 \in s
        PROVE  /\ s # {} /\ Max(s) = n + 1 /\ s \ {n + 1} \in SUBSET (1..n) /\ s \ {n + 1} \in SUBSET (1..(n + 1))
               /\ n + 1 \notin s \ {n + 1}
               /\ it[s \ {n + 1}] = iter[s \ {n + 1}] /\ it[s] = step[<<iter[s \ {n + 1}], seq[n + 1]>>]
               /\ it[s] \in Y
    <3>1. Max(s) \in s /\ Max(s) >= n + 1
      BY <2>0, <2>2, MaxOf
    <3>2. Max(s) = n + 1
      <4>1. \A m \in 1..(n + 1) : m >= n + 1 => m = n + 1
        OBVIOUS
      <4>2. Max(s) \in 1..(n + 1)
        BY <3>1
      <4> QED
        BY <3>1, <4>1, <4>2
    <3>3. \A x \in s \ {n + 1} : x \in 1..n
      OBVIOUS
    <3>4. s \ {n + 1} \in SUBSET (1..n) /\ s \ {n + 1} \in SUBSET (1..(n + 1))
      BY <3>3
    <3>5. it[s \ {n + 1}] = iter[s \ {n + 1}] /\ it[s] = step[<<iter[s \ {n + 1}], seq[n + 1]>>]
      BY <2>2, <3>4
    <3>6. iter[s \ {n + 1}] \in Y /\ seq[n + 1] \in X
      BY <2>0, <3>4
    <3>7. it[s] \in Y
      BY <3>5, <3>6
    <3> QED
      BY <2>2, <3>2, <3>4, <3>5, <3>7
  <2>3. ASSUME NEW s \in SUBSET (1..(n + 1)), n + 1 \notin s
        PROVE  /\ s \in SUBSET (1..n) /\ it[s] = iter[s] /\ it[s] \in Y
               /\ s # {} => /\ Max(s) \in s /\ s \ {Max(s)} \in SUBSET (1..n) /\ s \ {Max(s)} \in SUBSET (1..(n + 1))
                            /\ n + 1 \notin s \ {Max(s)}
                            /\ it[s \ {Max(s)}] = iter[s \ {Max(s)}]
    <3>1. \A x \in s : x \in 1..n
      BY <2>3
    <3>2. s \in SUBSET (1..n)
      BY <3>1
    <3>3. s # {} => Max(s) \in s
      BY <2>0, <3>2, MaxOf
    <3> QED
      BY <2>3, <3>2, <3>3
  <2>4. it \in [SUBSET (1..(n + 1)) -> Y]
    BY <2>2, <2>3
  <2>5. ASSUME NEW s \in SUBSET (1..(n + 1))
        PROVE  it[s] = IF s = {} THEN base ELSE step[<<it[s \ {Max(s)}], seq[Max(s)]>>]
    <3>1. CASE n + 1 \in s
      BY <2>2, <3>1
    <3>2. CASE n + 1 \notin s
      <4>1. iter[s] = IF s = {} THEN base ELSE step[<<iter[s \ {Max(s)}], seq[Max(s)]>>]
        BY <2>1, <2>3, <3>2 DEF Iterates
      <4> QED
        BY <2>3, <3>2, <4>1
    <3> QED
      BY <3>1, <3>2
  <2>6. DOMAIN it = SUBSET (1..(n + 1))
    OBVIOUS
  <2> HIDE DEF it
  <2>7. Iterates(it, n + 1, base, step, seq)
    BY <2>4, <2>5 DEF Iterates
  <2> QED
    BY <2>4, <2>7
<1> HIDE DEF S
<1>3. \A n \in 0..(N - 1) : n \in S => n + 1 \in S
  BY <1>2
<1>4. 0..N \subseteq S
  BY <1>1, <1>3, TurnInduction
<1>5. N \in 0..N
  OBVIOUS
<1> QED
  BY <1>4, <1>5 DEF S

-----------------------------------------------------------------------------
(* What a sum over a set, or down a tree, computes.                         *)

\* What a function adds up to on a set, if it counts the elements of disjoint sets.
LEMMA SumOfCounts ==
  ASSUME NEW S, IsFiniteSet(S), NEW A, NEW f,
         \A c \in S : IsFiniteSet(A[c]) /\ f[c] = Cardinality(A[c]),
         \A c, d \in S : c # d => A[c] \cap A[d] = {}
  PROVE  SumFunctionOnSet(f, S) = Cardinality(UNION {A[c] : c \in S})
<1> DEFINE h == [s \in SUBSET S |-> Cardinality(UNION {A[c] : c \in s})]
           g == CHOOSE g : g = [s \in SUBSET S |-> IF s = {} THEN 0
                                                   ELSE LET x == CHOOSE x \in s : TRUE IN f[x] + g[s \ {x}]]
<1>1. ASSUME NEW s \in SUBSET S PROVE IsFiniteSet(UNION {A[c] : c \in s})
  <2>1. IsFiniteSet(s)
    BY FS_Subset
  <2> DEFINE F == [c \in s |-> A[c]]  T == {A[c] : c \in s}
  <2>2. F \in Surjection(s, T)
    BY DEF Surjection
  <2>3. IsFiniteSet(T)
    BY <2>1, <2>2, FS_Surjection
  <2>4. \A t \in T : IsFiniteSet(t)
    OBVIOUS
  <2> HIDE DEF T
  <2> QED
    BY <2>3, <2>4, FS_UNION DEF T
<1>2. ASSUME NEW s \in SUBSET S, NEW x \in s
      PROVE  h[s] = f[x] + h[s \ {x}]
  <2> DEFINE B == UNION {A[c] : c \in s \ {x}}
  <2>1. UNION {A[c] : c \in s} = A[x] \cup B /\ A[x] \cap B = {}
    OBVIOUS
  <2>2. s \ {x} \in SUBSET S /\ IsFiniteSet(A[x]) /\ f[x] = Cardinality(A[x])
    OBVIOUS
  <2>3. IsFiniteSet(B)
    BY <1>1, <2>2
  <2>4. h[s] = Cardinality(A[x] \cup B) /\ h[s \ {x}] = Cardinality(B)
    BY <2>1, <2>2
  <2> HIDE DEF B, h
  <2>5. Cardinality(A[x]) \in Nat /\ Cardinality(B) \in Nat /\ Cardinality({}) = 0
    BY <2>2, <2>3, FS_CardinalityType, FS_EmptySet
  <2>6. Cardinality(A[x] \cup B) = Cardinality(A[x]) + Cardinality(B) - Cardinality(A[x] \cap B)
    BY <2>2, <2>3, FS_Union
  <2>7. Cardinality(A[x] \cap B) = 0
    BY <2>1, <2>5
  <2>8. f[x] = Cardinality(A[x])
    BY <2>2
  <2> DEFINE a == Cardinality(A[x])  b == Cardinality(B)
  <2> HIDE DEF a, b
  <2>9. a \in Nat /\ b \in Nat /\ f[x] = a /\ h[s \ {x}] = b /\ h[s] = a + b - 0
    BY <2>4, <2>5, <2>6, <2>7, <2>8 DEF a, b
  <2> QED
    BY <2>9
<1>3. h[{}] = 0
  <2>1. UNION {A[c] : c \in {}} = {} /\ {} \in SUBSET S
    OBVIOUS
  <2> QED
    BY <2>1, FS_EmptySet
<1>4. h = [s \in SUBSET S |-> h[s]]
  OBVIOUS
<1> HIDE DEF h
<1>5. h = [s \in SUBSET S |-> IF s = {} THEN 0 ELSE LET x == CHOOSE x \in s : TRUE IN f[x] + h[s \ {x}]]
  <2>1. ASSUME NEW s \in SUBSET S
        PROVE  h[s] = IF s = {} THEN 0 ELSE LET x == CHOOSE x \in s : TRUE IN f[x] + h[s \ {x}]
    <3>1. s # {} => (CHOOSE x \in s : TRUE) \in s
      OBVIOUS
    <3> QED
      BY <1>2, <1>3, <3>1
  <2> QED
    BY <1>4, <2>1
<1>6. g = [s \in SUBSET S |-> IF s = {} THEN 0 ELSE LET x == CHOOSE x \in s : TRUE IN f[x] + g[s \ {x}]]
  <2> DEFINE P(k) == k = [s \in SUBSET S |-> IF s = {} THEN 0 ELSE LET x == CHOOSE x \in s : TRUE IN f[x] + k[s \ {x}]]
  <2>1. P(h)
    BY <1>5
  <2>2. g = CHOOSE k : P(k)
    OBVIOUS
  <2> HIDE DEF g, P
  <2>3. P(g)
    BY <2>1, <2>2, Zenon
  <2> QED
    BY <2>3 DEF P
<1>7. SumFunctionOnSet(f, S) = g[S]
  BY Zenon DEF SumFunctionOnSet, FoldFunctionOnSet, MapThenFoldSet
<1> HIDE DEF g
<1> DEFINE T == {n \in Nat : \A s \in SUBSET S : Cardinality(s) = n => g[s] = h[s]}
<1>8. 0 \in T
  <2>1. ASSUME NEW s \in SUBSET S, Cardinality(s) = 0 PROVE s = {}
    BY <2>1, FS_Subset, FS_EmptySet
  <2> QED
    BY <1>3, <1>6, <2>1
<1>9. ASSUME NEW n \in Nat, n \in T PROVE n + 1 \in T
  <2> SUFFICES ASSUME NEW s \in SUBSET S, Cardinality(s) = n + 1 PROVE g[s] = h[s]
    OBVIOUS
  <2>1. IsFiniteSet(s) /\ s # {}
    BY FS_Subset, FS_EmptySet
  <2> DEFINE x == CHOOSE x \in s : TRUE
  <2>2. x \in s
    BY <2>1
  <2>3. g[s] = f[x] + g[s \ {x}]
    BY <1>6, <2>1
  <2> HIDE DEF x
  <2>4. Cardinality(s \ {x}) = n /\ s \ {x} \in SUBSET S
    <3>1. Cardinality(s \ {x}) = Cardinality(s) - 1
      BY <2>1, <2>2, FS_RemoveElement
    <3>2. (n + 1) - 1 = n /\ s \ {x} \in SUBSET S
      OBVIOUS
    <3> QED
      BY <3>1, <3>2
  <2>5. g[s \ {x}] = h[s \ {x}]
    BY <1>9, <2>4
  <2> QED
    BY <1>2, <2>2, <2>3, <2>5
<1>10. \A n \in Nat : n \in T => n + 1 \in T
  BY <1>9
<1> HIDE DEF T
<1>11. Nat \subseteq T
  BY <1>8, <1>10, SetInduction
<1>12. Cardinality(S) \in T /\ S \in SUBSET S
  BY <1>11, FS_CardinalityType
<1>13. g[S] = h[S]
  BY <1>12 DEF T
<1> QED
  BY <1>7, <1>13 DEF h

\* What a recursion down a tree counts, if it adds up what the branches below hold.
CountsDown(g, tree, kids, leaves, here) ==
    g = [b \in tree |-> IF b \in leaves THEN here[b] ELSE SumFunctionOnSet(g, kids[b])]

\* Each branch has less below it, what is under it is under one of its children.
Branches(N, tree, rank, kids, leaves, here, under) ==
    /\ N \in Nat /\ rank \in [tree -> 0..N] /\ kids \in [tree -> SUBSET tree]
    /\ \A b \in tree : IsFiniteSet(under[b]) /\ IsFiniteSet(kids[b])
    /\ \A b \in tree : \A c \in kids[b] : rank[c] > rank[b]
    /\ \A b \in tree : \A c, d \in kids[b] : c # d => under[c] \cap under[d] = {}
    /\ \A b \in tree \ leaves : under[b] = UNION {under[c] : c \in kids[b]}
    /\ \A b \in tree \cap leaves : here[b] = Cardinality(under[b])

LEMMA CountOnTree ==
  ASSUME NEW N, NEW tree, NEW rank, NEW kids, NEW leaves, NEW here, NEW under,
         Branches(N, tree, rank, kids, leaves, here, under)
  PROVE  /\ \E g : CountsDown(g, tree, kids, leaves, here)
         /\ \A g : CountsDown(g, tree, kids, leaves, here) => \A b \in tree : g[b] = Cardinality(under[b])
<1>0. /\ N \in Nat /\ rank \in [tree -> 0..N] /\ kids \in [tree -> SUBSET tree]
      /\ \A b \in tree : IsFiniteSet(under[b]) /\ IsFiniteSet(kids[b])
      /\ \A b \in tree : \A c \in kids[b] : rank[c] > rank[b]
      /\ \A b \in tree : \A c, d \in kids[b] : c # d => under[c] \cap under[d] = {}
      /\ \A b \in tree \ leaves : under[b] = UNION {under[c] : c \in kids[b]}
      /\ \A b \in tree \cap leaves : here[b] = Cardinality(under[b])
  BY DEF Branches
<1> DEFINE R(g) == g = [b \in tree |-> IF b \in leaves THEN here[b] ELSE SumFunctionOnSet(g, kids[b])]
           count == [b \in tree |-> Cardinality(under[b])]
<1>1. ASSUME NEW g, NEW b \in tree, \A c \in kids[b] : g[c] = Cardinality(under[c])
      PROVE  Cardinality(under[b]) = IF b \in leaves THEN here[b] ELSE SumFunctionOnSet(g, kids[b])
  <2>1. CASE b \in leaves
    BY <1>0, <2>1
  <2>2. CASE b \notin leaves
    <3>1. kids[b] \subseteq tree /\ IsFiniteSet(kids[b])
      BY <1>0
    <3>1a. IsFiniteSet(kids[b]) /\ \A c \in kids[b] : IsFiniteSet(under[c])
      BY <1>0, <3>1
    <3>1b. \A c, d \in kids[b] : c # d => under[c] \cap under[d] = {}
      BY <1>0
    <3>1c. under[b] = UNION {under[c] : c \in kids[b]}
      BY <1>0, <2>2
    <3>2. SumFunctionOnSet(g, kids[b]) = Cardinality(UNION {under[c] : c \in kids[b]})
      BY <1>1, <3>1a, <3>1b, SumOfCounts
    <3> QED
      BY <2>2, <3>1c, <3>2
  <2> QED
    BY <2>1, <2>2
<1>2. R(count)
  <2>1. ASSUME NEW b \in tree
        PROVE  count[b] = IF b \in leaves THEN here[b] ELSE SumFunctionOnSet(count, kids[b])
    <3>1. \A c \in kids[b] : count[c] = Cardinality(under[c])
      BY <1>0
    <3>2. count[b] = Cardinality(under[b])
      OBVIOUS
    <3> HIDE DEF count
    <3> QED
      BY <1>1, <3>1, <3>2
  <2>2. count = [b \in tree |-> count[b]]
    OBVIOUS
  <2> HIDE DEF count
  <2> QED
    BY <2>1, <2>2
<1>3. ASSUME NEW g, R(g), NEW b \in tree PROVE g[b] = Cardinality(under[b])
  <2> DEFINE T == {k \in 0..N : \A c \in tree : rank[c] = N - k => g[c] = Cardinality(under[c])}
             U == {k \in 0..N : \A n \in 0..k : n \in T}
  <2>1. ASSUME NEW k \in 0..N, \A n \in 0..(k - 1) : n \in T PROVE k \in T
    <3> SUFFICES ASSUME NEW c \in tree, rank[c] = N - k PROVE g[c] = Cardinality(under[c])
      OBVIOUS
    <3>1. ASSUME NEW d \in kids[c] PROVE g[d] = Cardinality(under[d])
      <4>1. d \in tree /\ rank[d] \in 0..N /\ rank[d] > rank[c]
        BY <1>0
      <4>2. N - rank[d] \in 0..(k - 1) /\ rank[d] = N - (N - rank[d])
        BY <1>0, <4>1
      <4>3. N - rank[d] \in T
        BY <2>1, <4>2
      <4> QED
        BY <4>1, <4>2, <4>3
    <3>2. g[c] = IF c \in leaves THEN here[c] ELSE SumFunctionOnSet(g, kids[c])
      BY <1>3
    <3> QED
      BY <1>1, <3>1, <3>2
  <2> HIDE DEF T
  <2>2. 0 \in U
    BY <1>0, <2>1
  <2>3. \A k \in 0..(N - 1) : k \in U => k + 1 \in U
    <3> TAKE k \in 0..(N - 1)
    <3> HAVE k \in U
    <3>1. k + 1 \in 0..N /\ 0..((k + 1) - 1) = 0..k /\ 0..(k + 1) = (0..k) \cup {k + 1}
      BY <1>0
    <3>2. k + 1 \in T
      BY <2>1, <3>1
    <3> QED
      BY <3>1, <3>2
  <2> HIDE DEF U
  <2>4. 0..N \subseteq U
    BY <1>0, <2>2, <2>3, TurnInduction
  <2>5. N - rank[b] \in 0..N /\ rank[b] = N - (N - rank[b])
    BY <1>0
  <2>6. N - rank[b] \in T
    BY <2>4, <2>5 DEF U
  <2> QED
    BY <2>5, <2>6 DEF T
<1> HIDE DEF count
<1> QED
  BY <1>2, <1>3 DEF CountsDown

-----------------------------------------------------------------------------
(* What the numbers of a list add up to.                                    *)

LEMMA PairsCounted ==
  ASSUME NEW i, NEW n \in Nat
  PROVE  IsFiniteSet({i} \X (1..n)) /\ Cardinality({i} \X (1..n)) = n
<1> DEFINE f == [k \in 1..n |-> <<i, k>>]
<1>1. f \in Bijection(1..n, {i} \X (1..n))
  BY DEF Bijection, Injection, Surjection, IsInjective
<1>2. IsFiniteSet(1..n) /\ Cardinality(1..n) = n
  BY FS_Interval
<1> QED
  BY <1>1, <1>2, FS_Bijection DEF ExistsBijection

\* Of a list of numbers, as many pairs as they add up to.
Pairs(s, S) == UNION {{i} \X (1..s[i]) : i \in S}

LEMMA SumIsPairs ==
  ASSUME NEW s \in Seq(Nat)
  PROVE  IsFiniteSet(Pairs(s, DOMAIN s)) /\ SumFunction(s) = Cardinality(Pairs(s, DOMAIN s))
<1> DEFINE S == DOMAIN s  A == [i \in S |-> {i} \X (1..s[i])]
<1>1. S = 1..Len(s) /\ Len(s) \in Nat /\ \A i \in S : s[i] \in Nat
  OBVIOUS
<1>2. IsFiniteSet(S)
  BY <1>1, FS_Interval
<1>3. \A i \in S : IsFiniteSet(A[i]) /\ s[i] = Cardinality(A[i])
  BY <1>1, PairsCounted
<1>4. \A i, j \in S : i # j => A[i] \cap A[j] = {}
  OBVIOUS
<1>5. Pairs(s, S) = UNION {A[i] : i \in S}
  BY DEF Pairs
<1> HIDE DEF S
<1>6. IsFiniteSet({A[i] : i \in S})
  <2> DEFINE T == {A[i] : i \in S}
  <2>1. A \in Surjection(S, T)
    BY DEF Surjection
  <2> QED
    BY <1>2, <2>1, FS_Surjection
<1> HIDE DEF A
<1>7. SumFunctionOnSet(s, S) = Cardinality(UNION {A[i] : i \in S})
  BY <1>2, <1>3, <1>4, SumOfCounts
<1>8. \A t \in {A[i] : i \in S} : IsFiniteSet(t)
  BY <1>3
<1>9. IsFiniteSet(UNION {A[i] : i \in S})
  BY <1>6, <1>8, FS_UNION
<1> QED
  BY <1>5, <1>7, <1>9 DEF SumFunction, S

LEMMA SumOfNone == SumFunction(<<>>) = 0
<1>1. Pairs(<<>>, DOMAIN <<>>) = {} /\ <<>> \in Seq(Nat)
  BY DEF Pairs
<1> QED
  BY <1>1, SumIsPairs, FS_EmptySet

LEMMA SumOfAppend ==
  ASSUME NEW s \in Seq(Nat), NEW x \in Nat
  PROVE  SumFunction(s) \in Nat /\ SumFunction(Append(s, x)) = SumFunction(s) + x
<1> DEFINE n == Len(s)  t == Append(s, x)  A == Pairs(s, DOMAIN s)  B == {n + 1} \X (1..x)
<1>1. n \in Nat /\ DOMAIN s = 1..n /\ t \in Seq(Nat) /\ DOMAIN t = (1..n) \cup {n + 1}
      /\ (\A i \in 1..n : t[i] = s[i]) /\ t[n + 1] = x
  OBVIOUS
<1>2. SumFunction(s) = Cardinality(A) /\ IsFiniteSet(A)
  BY SumIsPairs
<1>3. Pairs(t, DOMAIN t) = A \cup B
  BY <1>1 DEF Pairs
<1>4. A \cap B = {}
  BY <1>1 DEF Pairs
<1>5. IsFiniteSet(B) /\ Cardinality(B) = x
  BY PairsCounted
<1>6. SumFunction(t) = Cardinality(A \cup B)
  BY <1>1, <1>3, SumIsPairs
<1> HIDE DEF A, B
<1>7. Cardinality(A \cup B) = Cardinality(A) + Cardinality(B) - Cardinality(A \cap B)
  BY <1>2, <1>5, FS_Union
<1>8. Cardinality(A \cap B) = 0 /\ Cardinality(A) \in Nat
  BY <1>2, <1>4, FS_EmptySet, FS_CardinalityType
<1> DEFINE c == Cardinality(A)
<1> HIDE DEF c, t
<1>9. SumFunction(t) = c + x - 0 /\ c \in Nat /\ SumFunction(s) = c
  BY <1>2, <1>5, <1>6, <1>7, <1>8 DEF c
<1>10. SumFunction(t) = SumFunction(s) + x
  BY <1>9
<1> QED
  BY <1>9, <1>10 DEF t

LEMMA SumOfConcat ==
  ASSUME NEW s \in Seq(Nat), NEW t \in Seq(Nat)
  PROVE  SumFunction(s \o t) = SumFunction(s) + SumFunction(t)
<1> DEFINE N == Len(t)
           S == {n \in 0..N : SumFunction(s \o SubSeq(t, 1, n)) = SumFunction(s) + SumFunction(SubSeq(t, 1, n))}
<1>0. N \in Nat /\ SumFunction(s) \in Nat
  BY SumOfAppend
<1>1. 0 \in S
  <2>1. SubSeq(t, 1, 0) = <<>> /\ s \o <<>> = s
    OBVIOUS
  <2>2. SumFunction(s \o SubSeq(t, 1, 0)) = SumFunction(s) /\ SumFunction(SubSeq(t, 1, 0)) = 0
    BY <2>1, SumOfNone
  <2>3. 0 \in 0..N
    BY <1>0
  <2> HIDE DEF N
  <2>4. SumFunction(s) = SumFunction(s) + 0
    BY <1>0
  <2> QED
    BY <2>2, <2>3, <2>4
<1>2. ASSUME NEW n \in 0..(N - 1), n \in S PROVE n + 1 \in S
  <2> DEFINE u == SubSeq(t, 1, n)  x == t[n + 1]
  <2>1. u \in Seq(Nat) /\ x \in Nat /\ n + 1 \in 0..N
    OBVIOUS
  <2>2. SubSeq(t, 1, n + 1) = Append(u, x)
    OBVIOUS
  <2>3. SumFunction(s \o u) = SumFunction(s) + SumFunction(u)
    BY <1>2
  <2> HIDE DEF u, x
  <2>4. s \o Append(u, x) = Append(s \o u, x) /\ s \o u \in Seq(Nat)
    BY <2>1
  <2>5. /\ SumFunction(Append(s \o u, x)) = SumFunction(s \o u) + x
        /\ SumFunction(Append(u, x)) = SumFunction(u) + x /\ SumFunction(u) \in Nat
    BY <2>1, <2>4, SumOfAppend
  <2>6. SumFunction(s \o Append(u, x)) = SumFunction(s) + SumFunction(Append(u, x))
    BY <1>0, <2>1, <2>3, <2>4, <2>5
  <2> QED
    BY <2>1, <2>2, <2>6
<1>3. \A n \in 0..(N - 1) : n \in S => n + 1 \in S
  BY <1>2
<1> HIDE DEF S
<1>4. N \in S
  BY <1>0, <1>1, <1>3, LastTurn
<1>5. SubSeq(t, 1, N) = t
  OBVIOUS
<1> QED
  BY <1>4, <1>5 DEF S

-----------------------------------------------------------------------------
(* FlattenSeq, list by list.                                               *)

\* What it is of the lists up to the i-th.
Flattens(f, ss) == f = [i \in 1..Len(ss) |-> IF i = 1 THEN ss[i] ELSE f[i - 1] \o ss[i]]

LEMMA FlattenTurns ==
  ASSUME NEW T, NEW ss \in Seq(Seq(T)), ss # <<>>
  PROVE  \E f \in [1..Len(ss) -> Seq(T)] : Flattens(f, ss) /\ FlattenSeq(ss) = f[Len(ss)]
<1> DEFINE N == Len(ss)
           step == [p \in Seq(T) \X Seq(T) |-> p[1] \o p[2]]
<1>0. N \in Nat /\ N # 0 /\ ss \in [1..N -> Seq(T)]
  OBVIOUS
<1> HIDE DEF N
<1>1a. \A a, b \in Seq(T) : step[<<a, b>>] = a \o b
  OBVIOUS
<1>1b. \A p \in Seq(T) \X Seq(T) : p[1] \o p[2] \in Seq(T)
  OBVIOUS
<1>1. step \in [Seq(T) \X Seq(T) -> Seq(T)] /\ <<>> \in Seq(T)
  BY <1>1b
<1> HIDE DEF step
<1>2. PICK iter \in [SUBSET (1..N) -> Seq(T)] : Iterates(iter, N, <<>>, step, ss)
  BY <1>0, <1>1, IterationExists
<1> DEFINE h == [i \in 1..N |-> iter[1..i]]
<1>3. ASSUME NEW i \in 1..N
      PROVE  h[i] \in Seq(T) /\ h[i] = IF i = 1 THEN ss[i] ELSE h[i - 1] \o ss[i]
  <2>1. Max(1..i) = i /\ (1..i) \ {i} = 1..(i - 1) /\ 1..i # {} /\ 1..i \in SUBSET (1..N)
    <3>1. i \in Nat \ {0}
      BY <1>0
    <3> QED
      BY <1>0, <3>1, MaxOfPrefix, PrefixIn
  <2>2. iter[1..i] = step[<<iter[1..(i - 1)], ss[i]>>] /\ ss[i] \in Seq(T)
    BY <1>0, <1>2, <2>1 DEF Iterates
  <2>3. 1..(i - 1) \in SUBSET (1..N)
    BY <2>1
  <2>4. iter[1..i] = iter[1..(i - 1)] \o ss[i] /\ iter[1..(i - 1)] \in Seq(T)
    BY <1>1a, <2>2, <2>3
  <2>5. CASE i = 1
    <3>1. 1..(i - 1) = {} /\ {} \in SUBSET (1..N)
      BY <2>5
    <3>2. iter[1..(i - 1)] = <<>>
      BY <1>2, <3>1 DEF Iterates
    <3> QED
      BY <2>2, <2>4, <2>5, <3>2
  <2>6. CASE i # 1
    <3>1. i - 1 \in 1..N
      BY <1>0, <2>6
    <3>2. h[i] = iter[1..i] /\ h[i - 1] = iter[1..(i - 1)]
      BY <3>1
    <3>3. iter[1..(i - 1)] \o ss[i] \in Seq(T)
      BY <2>2, <2>4
    <3> HIDE DEF h
    <3> QED
      BY <2>4, <2>6, <3>2, <3>3
  <2> QED
    BY <2>5, <2>6
<1>4. h = [i \in 1..N |-> h[i]]
  OBVIOUS
<1> HIDE DEF h
<1>5. h = [i \in 1..N |-> IF i = 1 THEN ss[i] ELSE h[i - 1] \o ss[i]]
  BY <1>3, <1>4
<1> DEFINE P(k) == k = [i \in 1..N |-> IF i = 1 THEN ss[i] ELSE k[i - 1] \o ss[i]]
           g == CHOOSE k : k = [i \in 1..N |-> IF i = 1 THEN ss[i] ELSE k[i - 1] \o ss[i]]
<1>6. P(h)
  BY <1>5
<1>7. g = CHOOSE k : P(k)
  OBVIOUS
<1> HIDE DEF P, g
<1>8. P(g)
  BY <1>6, <1>7, Zenon
<1>9. FlattenSeq(ss) = g[N]
  <2>1. Len(ss) # 0
    BY <1>0 DEF N
  <2> QED
    BY <2>1, Zenon DEF FlattenSeq, g, N
<1> DEFINE S == {n \in 0..N : n = 0 \/ g[n] = h[n]}
<1>10. ASSUME NEW n \in 0..(N - 1), n \in S PROVE n + 1 \in S
  <2>1. n + 1 \in 1..N /\ (n # 0 => n \in 1..N /\ n + 1 # 1) /\ (n + 1) - 1 = n /\ n + 1 \in 0..N
    BY <1>0
  <2>2. g[n + 1] = IF n + 1 = 1 THEN ss[n + 1] ELSE g[(n + 1) - 1] \o ss[n + 1]
    BY <1>8, <2>1 DEF P
  <2>3. h[n + 1] = IF n + 1 = 1 THEN ss[n + 1] ELSE h[(n + 1) - 1] \o ss[n + 1]
    BY <1>3, <2>1
  <2>4. g[n + 1] = h[n + 1]
    BY <1>10, <2>1, <2>2, <2>3
  <2> QED
    BY <2>1, <2>4
<1>11. 0 \in S /\ \A n \in 0..(N - 1) : n \in S => n + 1 \in S
  BY <1>0, <1>10
<1> HIDE DEF S
<1>12. N \in S
  BY <1>0, <1>11, LastTurn
<1>13. g[N] = h[N] /\ h \in [1..N -> Seq(T)]
  BY <1>0, <1>3, <1>4, <1>12 DEF S
<1> QED
  BY <1>5, <1>9, <1>13 DEF Flattens, N

LEMMA FlattenOfNone == FlattenSeq(<<>>) = <<>>
  BY Zenon DEF FlattenSeq

LEMMA FlattenOfAppend ==
  ASSUME NEW T, NEW ss \in Seq(Seq(T)), NEW s \in Seq(T)
  PROVE  FlattenSeq(ss) \in Seq(T) /\ FlattenSeq(Append(ss, s)) = FlattenSeq(ss) \o s
<1> DEFINE N == Len(ss)  tt == Append(ss, s)
<1>0a. N \in Nat /\ tt \in Seq(Seq(T)) /\ Len(tt) = N + 1 /\ tt[N + 1] = s
  OBVIOUS
<1>0b. \A i \in 1..N : tt[i] = ss[i]
  OBVIOUS
<1>0c. tt # <<>>
  <2> HIDE DEF tt, N
  <2>1. tt = <<>> => Len(tt) = 0
    OBVIOUS
  <2> QED
    BY <1>0a, <2>1
<1>0. N \in Nat /\ tt \in Seq(Seq(T)) /\ Len(tt) = N + 1 /\ tt[N + 1] = s
      /\ tt # <<>> /\ (\A i \in 1..N : tt[i] = ss[i])
  BY <1>0a, <1>0b, <1>0c
<1> HIDE DEF tt
<1>1. PICK g \in [1..(N + 1) -> Seq(T)] : Flattens(g, tt) /\ FlattenSeq(tt) = g[N + 1]
  BY <1>0, FlattenTurns
<1>2. \A i \in 1..(N + 1) : g[i] = IF i = 1 THEN tt[i] ELSE g[i - 1] \o tt[i]
  BY <1>0, <1>1 DEF Flattens
<1>3. CASE N = 0
  <2>1. ss = <<>> /\ FlattenSeq(ss) = <<>>
    BY <1>3, FlattenOfNone
  <2>2. FlattenSeq(tt) = s
    BY <1>0, <1>1, <1>2, <1>3
  <2>3. <<>> \o s = s /\ <<>> \in Seq(T)
    OBVIOUS
  <2> QED
    BY <2>1, <2>2, <2>3, Zenon DEF tt
<1>4. CASE N # 0
  <2>1. PICK f \in [1..N -> Seq(T)] : Flattens(f, ss) /\ FlattenSeq(ss) = f[N]
    BY <1>4, FlattenTurns
  <2>2. \A i \in 1..N : f[i] = IF i = 1 THEN ss[i] ELSE f[i - 1] \o ss[i]
    BY <2>1 DEF Flattens
  <2> DEFINE S == {n \in 0..N : n = 0 \/ f[n] = g[n]}
  <2>3. ASSUME NEW n \in 0..(N - 1), n \in S PROVE n + 1 \in S
    <3>1. n + 1 \in 1..N /\ n + 1 \in 1..(N + 1) /\ n + 1 \in 0..N /\ (n + 1) - 1 = n
      BY <1>0
    <3>2. f[n + 1] = IF n + 1 = 1 THEN ss[n + 1] ELSE f[n] \o ss[n + 1]
      BY <2>2, <3>1
    <3>3. g[n + 1] = IF n + 1 = 1 THEN ss[n + 1] ELSE g[n] \o ss[n + 1]
      BY <1>0, <1>2, <3>1
    <3> QED
      BY <2>3, <3>1, <3>2, <3>3
  <2>4. 0 \in S /\ \A n \in 0..(N - 1) : n \in S => n + 1 \in S
    BY <1>0, <2>3
  <2> HIDE DEF S
  <2>5. N \in S
    BY <1>0, <2>4, LastTurn
  <2>6. f[N] = g[N]
    BY <1>4, <2>5 DEF S
  <2>7. N + 1 \in 1..(N + 1) /\ N + 1 # 1 /\ (N + 1) - 1 = N
    BY <1>0, <1>4
  <2>8. g[N + 1] = g[N] \o s
    BY <1>0, <1>2, <2>7
  <2>9. f[N] \in Seq(T)
    <3>1. N \in 1..N
      BY <1>0, <1>4
    <3> HIDE DEF N
    <3> QED
      BY <3>1
  <2> QED
    BY <1>1, <2>1, <2>6, <2>8, <2>9 DEF tt
<1> QED
  BY <1>3, <1>4

LEMMA FlattenIsOf ==
  ASSUME NEW T, NEW ss \in Seq(Seq(T))
  PROVE  FlattenSeq(ss) \in Seq(T)
<1>1. <<>> \in Seq(T)
  OBVIOUS
<1> QED
  BY <1>1, FlattenOfAppend

LEMMA FlattenOfOne ==
  ASSUME NEW T, NEW s \in Seq(T)
  PROVE  FlattenSeq(<<s>>) = s
<1>1. <<>> \in Seq(Seq(T)) /\ Append(<<>>, s) = <<s>> /\ <<>> \o s = s
  OBVIOUS
<1> QED
  BY <1>1, FlattenOfAppend, FlattenOfNone

-----------------------------------------------------------------------------
(* A list in order. *)

\* Each place is somewhere in the order, and as many are before it.
LEMMA SortedIs ==
  ASSUME NEW n \in Nat, NEW key \in [1..n -> Int]
  PROVE  /\ DOMAIN SortedBy(key) = 1..n
         /\ \A r \in 1..n : /\ SortedBy(key)[r] \in 1..n
                            /\ Cardinality(Below(key, SortedBy(key)[r])) = r - 1
         /\ \A i \in 1..n : \E r \in 1..n : SortedBy(key)[r] = i
<1> DEFINE before(i) == Below(key, i)
           rank == [i \in 1..n |-> Cardinality(before(i)) + 1]
<1>1. IsFiniteSet(1..n) /\ Cardinality(1..n) = n
  BY FS_Interval
<1>2. ASSUME NEW i \in 1..n
      PROVE  /\ before(i) \subseteq (1..n) \ {i} /\ before(i) \in SUBSET (1..n)
             /\ \A j \in 1..n : j \in before(i) <=> key[j] < key[i] \/ (key[j] = key[i] /\ j < i)
  BY DEF Below
<1>3. ASSUME NEW i \in 1..n
      PROVE  rank[i] \in 1..n /\ IsFiniteSet(before(i))
  <2>1. IsFiniteSet((1..n) \ {i}) /\ Cardinality((1..n) \ {i}) = n - 1
    BY <1>1, FS_RemoveElement
  <2>2. IsFiniteSet(before(i)) /\ Cardinality(before(i)) <= n - 1
    BY <1>2, <2>1, FS_Subset
  <2>3. Cardinality(before(i)) \in Nat
    BY <2>2, FS_CardinalityType
  <2> QED
    BY <2>2, <2>3
<1>4. ASSUME NEW i \in 1..n, NEW j \in 1..n, i \in before(j)
      PROVE  rank[i] < rank[j]
  <2>1. before(i) \cup {i} \in SUBSET before(j)
    <3>1. key[i] < key[j] \/ (key[i] = key[j] /\ i < j)
      BY <1>2, <1>4
    <3>2. \A k \in before(i) : k \in before(j)
      <4> SUFFICES ASSUME NEW k \in before(i) PROVE k \in before(j)
        OBVIOUS
      <4>1. k \in 1..n /\ (key[k] < key[i] \/ (key[k] = key[i] /\ k < i))
        BY <1>2
      <4>2. key[k] \in Int /\ key[i] \in Int /\ key[j] \in Int
        BY <4>1
      <4>3. key[k] < key[j] \/ (key[k] = key[j] /\ k < j)
        BY <3>1, <4>1, <4>2
      <4> QED
        BY <1>2, <4>1, <4>3
    <3> QED
      BY <1>4, <3>2
  <2>2. i \notin before(i)
    BY <1>2
  <2> HIDE DEF before
  <2>3. IsFiniteSet(before(i) \cup {i}) /\ Cardinality(before(i) \cup {i}) = Cardinality(before(i)) + 1
    BY <1>3, <2>2, FS_AddElement
  <2>4. Cardinality(before(i) \cup {i}) <= Cardinality(before(j))
    BY <1>3, <2>1, FS_Subset
  <2>5. Cardinality(before(i)) \in Nat /\ Cardinality(before(j)) \in Nat
    BY <1>3, FS_CardinalityType
  <2> QED
    BY <2>3, <2>4, <2>5
<1>5. ASSUME NEW i \in 1..n, NEW j \in 1..n, i # j
      PROVE  rank[i] # rank[j]
  <2>1. key[i] \in Int /\ key[j] \in Int
    OBVIOUS
  <2>2. i \in before(j) \/ j \in before(i)
    BY <1>2, <1>5, <2>1
  <2>3. rank[i] \in Int /\ rank[j] \in Int
    BY <1>3
  <2> QED
    BY <1>4, <2>2, <2>3
<1>6. rank \in [1..n -> 1..n]
  BY <1>3
<1> HIDE DEF rank
<1>7. rank \in Injection(1..n, 1..n)
  BY <1>5, <1>6 DEF Injection, IsInjective
<1>8. rank \in Surjection(1..n, 1..n)
  BY <1>1, <1>7, FS_Injection
<1>9. \A r \in 1..n : \E i \in 1..n : rank[i] = r
  BY <1>8 DEF Surjection
<1>10. \A i \in 1..n : Cardinality(Below(key, i)) \in Nat /\ rank[i] = Cardinality(Below(key, i)) + 1
  BY <1>3, FS_CardinalityType DEF rank
<1>11. DOMAIN SortedBy(key) = 1..n
  BY DEF SortedBy
<1> DEFINE size(i) == Cardinality(Below(key, i))
<1>12. \A i \in 1..n : size(i) \in Nat /\ rank[i] = size(i) + 1
  BY <1>10
<1>13. \A r \in 1..n : SortedBy(key)[r] = CHOOSE i \in 1..n : size(i) = r - 1
  BY DEF SortedBy
<1> HIDE DEF size
<1>14. ASSUME NEW r \in 1..n
       PROVE  SortedBy(key)[r] \in 1..n /\ size(SortedBy(key)[r]) = r - 1
  <2>1. PICK i \in 1..n : rank[i] = r
    BY <1>9
  <2> DEFINE x == size(i)
  <2>2. x \in Nat /\ rank[i] = x + 1
    BY <1>12
  <2> HIDE DEF x
  <2>3. x = r - 1
    BY <2>1, <2>2
  <2>4. size(i) = r - 1
    BY <2>3 DEF x
  <2> QED
    BY <1>13, <2>4
<1>15. ASSUME NEW i \in 1..n
       PROVE  \E r \in 1..n : SortedBy(key)[r] = i
  <2> DEFINE r == rank[i]  j == SortedBy(key)[r]
  <2>1. r \in 1..n
    BY <1>6
  <2>2. j \in 1..n /\ size(j) = r - 1
    BY <1>14, <2>1
  <2> HIDE DEF j
  <2>3. rank[j] = r
    BY <1>12, <2>1, <2>2
  <2>4. j = i
    BY <1>5, <2>2, <2>3
  <2> QED
    BY <2>1, <2>4 DEF j
<1> QED
  BY <1>11, <1>14, <1>15 DEF size

-----------------------------------------------------------------------------
(* A loop that appends, and what is made of each item of a list. *)

\* Induction over a list, as it grows.
LEMMA ListInduction ==
  ASSUME NEW T, NEW S, <<>> \in S, \A s \in Seq(T) : \A x \in T : s \in S => Append(s, x) \in S
  PROVE  Seq(T) \subseteq S
<1> SUFFICES ASSUME NEW t \in Seq(T) PROVE t \in S
  OBVIOUS
<1> DEFINE N == Len(t)  Q == {n \in 0..N : SubSeq(t, 1, n) \in S}
<1>0. N \in Nat
  OBVIOUS
<1>1. 0 \in Q
  <2>1. SubSeq(t, 1, 0) = <<>>
    OBVIOUS
  <2>2. SubSeq(t, 1, 0) \in S
    BY <2>1, Zenon
  <2>3. 0 \in 0..N
    BY <1>0
  <2> QED
    BY <2>2, <2>3, Zenon
<1>2. ASSUME NEW n \in 0..(N - 1), n \in Q PROVE n + 1 \in Q
  <2> DEFINE u == SubSeq(t, 1, n)
  <2>1. n + 1 \in 1..N /\ u \in Seq(T) /\ SubSeq(t, 1, n + 1) = Append(u, t[n + 1]) /\ t[n + 1] \in T
    BY <1>0
  <2>2. u \in S
    BY <1>2
  <2> HIDE DEF u
  <2>3. SubSeq(t, 1, n + 1) \in S
    BY <2>1, <2>2
  <2> QED
    BY <2>1, <2>3
<1>3. \A n \in 0..(N - 1) : n \in Q => n + 1 \in Q
  BY <1>2
<1> HIDE DEF Q
<1>4. N \in Q
  BY <1>0, <1>1, <1>3, LastTurn
<1>5. SubSeq(t, 1, N) = t
  OBVIOUS
<1> QED
  BY <1>4, <1>5 DEF Q

LEMMA FlattenOfConcat ==
  ASSUME NEW T, NEW s \in Seq(Seq(T)), NEW t \in Seq(Seq(T))
  PROVE  FlattenSeq(s \o t) = FlattenSeq(s) \o FlattenSeq(t)
<1> DEFINE S == {u \in Seq(Seq(T)) : FlattenSeq(s \o u) = FlattenSeq(s) \o FlattenSeq(u)}
<1>1. <<>> \in S
  <2>1. s \o <<>> = s /\ FlattenSeq(s) \in Seq(T) /\ <<>> \in Seq(Seq(T))
    BY FlattenIsOf
  <2>2. FlattenSeq(s) \o <<>> = FlattenSeq(s)
    BY <2>1
  <2> QED
    BY <2>1, <2>2, FlattenOfNone
<1>2. ASSUME NEW u \in Seq(Seq(T)), NEW x \in Seq(T), u \in S
      PROVE  Append(u, x) \in S
  <2>1. s \o u \in Seq(Seq(T)) /\ s \o Append(u, x) = Append(s \o u, x) /\ Append(u, x) \in Seq(Seq(T))
    OBVIOUS
  <2>2. FlattenSeq(Append(s \o u, x)) = FlattenSeq(s \o u) \o x
    BY <2>1, FlattenOfAppend
  <2>3. FlattenSeq(Append(u, x)) = FlattenSeq(u) \o x
    BY FlattenOfAppend
  <2>4. FlattenSeq(s) \in Seq(T) /\ FlattenSeq(u) \in Seq(T)
    BY FlattenIsOf
  <2> DEFINE a == FlattenSeq(s)  b == FlattenSeq(u)
  <2> HIDE DEF a, b
  <2>5. a \in Seq(T) /\ b \in Seq(T)
    BY <2>4 DEF a, b
  <2>6. (a \o b) \o x = a \o (b \o x)
    BY <2>5
  <2>7. FlattenSeq(s \o u) = a \o b
    BY <1>2 DEF a, b
  <2>8. FlattenSeq(s \o Append(u, x)) = a \o FlattenSeq(Append(u, x))
    BY <2>1, <2>2, <2>3, <2>6, <2>7 DEF b
  <2> QED
    BY <2>1, <2>8 DEF a
<1> HIDE DEF S
<1>3. Seq(Seq(T)) \subseteq S
  BY <1>1, <1>2, ListInduction
<1> QED
  BY <1>3 DEF S

-----------------------------------------------------------------------------
(* A list, element by element.                                             *)

Maps(F, X, Y) == F \in [X -> Y]
Mapped(F, s) == [i \in DOMAIN s |-> F[s[i]]]

LEMMA MappedIs ==
  ASSUME NEW X, NEW Y, NEW F, Maps(F, X, Y), NEW s \in Seq(X)
  PROVE  /\ Mapped(F, s) \in Seq(Y) /\ Len(Mapped(F, s)) = Len(s) /\ Mapped(F, <<>>) = <<>>
         /\ \A i \in 1..Len(s) : Mapped(F, s)[i] = F[s[i]]
         /\ \A x \in X : Mapped(F, Append(s, x)) = Append(Mapped(F, s), F[x])
<1> DEFINE N == Len(s)  m == Mapped(F, s)
<1>1. N \in Nat /\ DOMAIN s = 1..N /\ (\A i \in 1..N : s[i] \in X) /\ F \in [X -> Y]
  BY DEF Maps
<1>2. m = [i \in 1..N |-> F[s[i]]]
  BY <1>1 DEF Mapped
<1>3. Mapped(F, <<>>) = <<>>
  <2>1. DOMAIN Mapped(F, <<>>) = {} /\ Mapped(F, <<>>) = [i \in {} |-> F[(<<>>)[i]]]
    BY DEF Mapped
  <2>2. <<>> = [i \in {} |-> F[(<<>>)[i]]]
    OBVIOUS
  <2> QED
    BY <2>1, <2>2
<1> HIDE DEF N, m
<1>4. m \in [1..N -> Y]
  BY <1>1, <1>2
<1>5. m \in Seq(Y) /\ Len(m) = N /\ \A i \in 1..N : m[i] = F[s[i]]
  BY <1>1, <1>2, <1>4
<1>6. ASSUME NEW x \in X
      PROVE  Mapped(F, Append(s, x)) = Append(m, F[x])
  <2> DEFINE t == Append(s, x)  u == Append(m, F[x])
  <2>1. DOMAIN t = 1..(N + 1) /\ t[N + 1] = x /\ \A i \in 1..N : t[i] = s[i]
    BY DEF N
  <2>2. /\ u \in Seq(Y) /\ Len(u) = N + 1 /\ u[N + 1] = F[x] /\ \A i \in 1..N : u[i] = m[i]
        /\ u = [i \in 1..(N + 1) |-> u[i]]
    BY <1>1, <1>5, F[x] \in Y
  <2> HIDE DEF t, u
  <2>3. Mapped(F, t) = [i \in 1..(N + 1) |-> F[t[i]]]
    BY <2>1 DEF Mapped
  <2>4. \A i \in 1..(N + 1) : F[t[i]] = u[i]
    <3> TAKE i \in 1..(N + 1)
    <3>1. i = N + 1 \/ i \in 1..N
      BY <1>1
    <3> QED
      BY <1>5, <2>1, <2>2, <3>1
  <2>5. Mapped(F, t) = u
    BY <2>2, <2>3, <2>4
  <2> QED
    BY <2>5 DEF t, u
<1> QED
  BY <1>3, <1>5, <1>6 DEF N, m

LEMMA ConcatIs ==
  ASSUME NEW T, NEW s \in Seq(T), NEW t \in Seq(T)
  PROVE  /\ s \o t \in Seq(T) /\ Len(s \o t) = Len(s) + Len(t)
         /\ \A i \in 1..Len(s) : (s \o t)[i] = s[i]
         /\ \A i \in 1..Len(t) : (s \o t)[Len(s) + i] = t[i]
  OBVIOUS

LEMMA SameList ==
  ASSUME NEW T, NEW s \in Seq(T), NEW t \in Seq(T), Len(s) = Len(t),
         \A i \in 1..Len(s) : s[i] = t[i]
  PROVE  s = t
  OBVIOUS

LEMMA MappedConcat ==
  ASSUME NEW X, NEW Y, NEW F, Maps(F, X, Y), NEW s \in Seq(X), NEW t \in Seq(X)
  PROVE  Mapped(F, s \o t) = Mapped(F, s) \o Mapped(F, t)
<1> DEFINE n == Len(s)  m == Len(t)  w == s \o t
           a == Mapped(F, s)  b == Mapped(F, t)  v == a \o b  u == Mapped(F, w)
<1>1. /\ n \in Nat /\ m \in Nat /\ w \in Seq(X) /\ Len(w) = n + m
      /\ \A i \in 1..n : w[i] = s[i]
      /\ \A i \in 1..m : w[n + i] = t[i]
  BY ConcatIs
<1>2. /\ a \in Seq(Y) /\ Len(a) = n /\ \A i \in 1..n : a[i] = F[s[i]]
      /\ b \in Seq(Y) /\ Len(b) = m /\ \A i \in 1..m : b[i] = F[t[i]]
  BY MappedIs
<1>2a. w \in Seq(X)
  BY <1>1
<1>2b. a \in Seq(Y) /\ b \in Seq(Y)
  BY <1>2
<1> HIDE DEF w, a, b
<1>3. u \in Seq(Y) /\ Len(u) = Len(w) /\ \A i \in 1..Len(w) : u[i] = F[w[i]]
  BY <1>2a, MappedIs
<1>4. /\ v \in Seq(Y) /\ Len(v) = Len(a) + Len(b)
      /\ \A i \in 1..Len(a) : v[i] = a[i]
      /\ \A i \in 1..Len(b) : v[Len(a) + i] = b[i]
  BY <1>2b, ConcatIs
<1> HIDE DEF n, m, v, u
<1>5. Len(u) = n + m /\ Len(v) = n + m
  BY <1>1, <1>2, <1>3, <1>4
<1>6. ASSUME NEW i \in 1..(n + m)
      PROVE  u[i] = v[i]
  <2>1. u[i] = F[w[i]]
    BY <1>1, <1>3
  <2>2. CASE i <= n
    <3>1. i \in 1..n
      BY <1>1, <2>2
    <3>2. w[i] = s[i] /\ v[i] = a[i] /\ a[i] = F[s[i]]
      BY <1>1, <1>2, <1>4, <3>1
    <3> QED
      BY <2>1, <3>2
  <2>3. CASE ~(i <= n)
    <3> DEFINE j == i - n
    <3>1. j \in 1..m /\ i = n + j
      BY <1>1, <2>3
    <3> HIDE DEF j
    <3>2. w[n + j] = t[j] /\ v[n + j] = b[j] /\ b[j] = F[t[j]]
      BY <1>1, <1>2, <1>4, <3>1
    <3> QED
      BY <2>1, <3>1, <3>2
  <2> QED
    BY <2>2, <2>3
<1>7. u = v
  BY <1>3, <1>4, <1>5, <1>6, SameList
<1> QED
  BY <1>7 DEF u, v, w, a, b

\* What the elements of lists stand for, one after the other, is that of the lists.
Expanded(F, s) == FlattenSeq(Mapped(F, s))

LEMMA ExpandedIs ==
  ASSUME NEW X, NEW Y, NEW F, Maps(F, X, Seq(Y)), NEW s \in Seq(X)
  PROVE  Expanded(F, s) \in Seq(Y) /\ Expanded(F, <<>>) = <<>>
<1>1. Mapped(F, s) \in Seq(Seq(Y)) /\ Mapped(F, <<>>) = <<>>
  BY MappedIs
<1> QED
  BY <1>1, FlattenIsOf, FlattenOfNone DEF Expanded

LEMMA ExpandedAppend ==
  ASSUME NEW X, NEW Y, NEW F, Maps(F, X, Seq(Y)), NEW s \in Seq(X), NEW x \in X
  PROVE  Expanded(F, Append(s, x)) = Expanded(F, s) \o F[x]
<1>1. Mapped(F, Append(s, x)) = Append(Mapped(F, s), F[x]) /\ Mapped(F, s) \in Seq(Seq(Y))
  BY MappedIs
<1>2. F[x] \in Seq(Y)
  BY DEF Maps
<1> QED
  BY <1>1, <1>2, FlattenOfAppend DEF Expanded

LEMMA ExpandedOne ==
  ASSUME NEW X, NEW Y, NEW F, Maps(F, X, Seq(Y)), NEW x \in X
  PROVE  Expanded(F, <<x>>) = F[x]
<1>1. <<>> \in Seq(X) /\ Append(<<>>, x) = <<x>> /\ F[x] \in Seq(Y)
  BY DEF Maps
<1> DEFINE e == <<>>
<1>2. e \in Seq(X) /\ Expanded(F, e) = <<>> /\ Append(e, x) = <<x>>
  BY <1>1, ExpandedIs
<1> HIDE DEF e
<1>2a. Expanded(F, Append(e, x)) = Expanded(F, e) \o F[x]
  BY <1>2, ExpandedAppend
<1>3. <<>> \o F[x] = F[x]
  BY <1>1
<1> QED
  BY <1>2, <1>2a, <1>3

LEMMA ExpandedConcat ==
  ASSUME NEW X, NEW Y, NEW F, Maps(F, X, Seq(Y)), NEW s \in Seq(X), NEW t \in Seq(X)
  PROVE  Expanded(F, s \o t) = Expanded(F, s) \o Expanded(F, t)
<1>1. /\ Mapped(F, s) \in Seq(Seq(Y)) /\ Mapped(F, t) \in Seq(Seq(Y))
      /\ Mapped(F, s \o t) = Mapped(F, s) \o Mapped(F, t)
  BY MappedIs, MappedConcat
<1> QED
  BY <1>1, FlattenOfConcat DEF Expanded

LEMMA FlattenExpanded ==
  ASSUME NEW X, NEW Y, NEW F, Maps(F, X, Seq(Y)), NEW A \in Seq(Seq(X))
  PROVE  Expanded(F, FlattenSeq(A)) = Expanded([a \in Seq(X) |-> Expanded(F, a)], A)
<1> DEFINE G == [a \in Seq(X) |-> Expanded(F, a)]
           S == {B \in Seq(Seq(X)) : Expanded(F, FlattenSeq(B)) = Expanded(G, B)}
<1>0. Maps(G, Seq(X), Seq(Y)) /\ \A a \in Seq(X) : G[a] = Expanded(F, a)
  BY ExpandedIs DEF Maps
<1> HIDE DEF G
<1>1. <<>> \in S
  <2>1. <<>> \in Seq(Seq(X)) /\ <<>> \in Seq(X)
    OBVIOUS
  <2> QED
    BY <1>0, <2>1, ExpandedIs, FlattenOfNone
<1>2. ASSUME NEW B \in Seq(Seq(X)), NEW a \in Seq(X), B \in S
      PROVE  Append(B, a) \in S
  <2>1. FlattenSeq(Append(B, a)) = FlattenSeq(B) \o a /\ FlattenSeq(B) \in Seq(X)
    BY FlattenOfAppend
  <2>2. Expanded(F, FlattenSeq(B) \o a) = Expanded(F, FlattenSeq(B)) \o Expanded(F, a)
    BY <2>1, ExpandedConcat
  <2>3. Expanded(G, Append(B, a)) = Expanded(G, B) \o G[a]
    <3> DEFINE XX == Seq(X)
    <3>1. Maps(G, XX, Seq(Y)) /\ B \in Seq(XX) /\ a \in XX
      BY <1>0
    <3> HIDE DEF XX
    <3> QED
      BY <3>1, ExpandedAppend
  <2>4. Append(B, a) \in Seq(Seq(X))
    OBVIOUS
  <2> QED
    BY <1>0, <1>2, <2>1, <2>2, <2>3, <2>4
<1> HIDE DEF S
<1>3. Seq(Seq(X)) \subseteq S
  BY <1>1, <1>2, ListInduction
<1> QED
  BY <1>3 DEF S, G

-----------------------------------------------------------------------------
(* One list beside another: as long, with pairs that fit, or shorter.      *)

Alike(b, a, P) == Len(b) <= Len(a) /\ (Len(b) = Len(a) => \A i \in 1..Len(a) : <<b[i], a[i]>> \in P)

LEMMA ConcatAlike ==
  ASSUME NEW T, NEW V, NEW P, NEW a \in Seq(T), NEW c \in Seq(T), NEW b \in Seq(V), NEW d \in Seq(V),
         Alike(b, a, P), Alike(d, c, P)
  PROVE  /\ Alike(b \o d, a \o c, P)
         /\ Len(b) = Len(a) /\ Len(d) = Len(c) => Len(b \o d) = Len(a \o c)
<1> DEFINE n == Len(a)  m == Len(c)  k == Len(b)  l == Len(d)  u == b \o d  v == a \o c
<1>1. n \in Nat /\ m \in Nat /\ k \in Nat /\ l \in Nat
  OBVIOUS
<1>2. /\ Len(v) = n + m
      /\ \A i \in 1..n : v[i] = a[i]
      /\ \A i \in 1..m : v[n + i] = c[i]
  BY ConcatIs
<1>3. /\ Len(u) = k + l
      /\ \A i \in 1..k : u[i] = b[i]
      /\ \A i \in 1..l : u[k + i] = d[i]
  BY ConcatIs
<1>4. /\ k <= n /\ (k = n => \A i \in 1..n : <<b[i], a[i]>> \in P)
      /\ l <= m /\ (l = m => \A i \in 1..m : <<d[i], c[i]>> \in P)
  BY DEF Alike
<1> HIDE DEF n, m, k, l, u, v
<1>5. Len(u) <= Len(v) /\ (Len(u) = Len(v) <=> k = n /\ l = m)
  BY <1>1, <1>2, <1>3, <1>4
<1>6. ASSUME k = n, l = m, NEW i \in 1..(n + m)
      PROVE  <<u[i], v[i]>> \in P
  <2>1. CASE i <= n
    <3>1. i \in 1..n
      BY <1>1, <2>1
    <3>2. v[i] = a[i] /\ u[i] = b[i] /\ <<b[i], a[i]>> \in P
      BY <1>2, <1>3, <1>4, <1>6, <3>1
    <3> QED
      BY <3>2
  <2>2. CASE ~(i <= n)
    <3> DEFINE j == i - n
    <3>1. j \in 1..m /\ i = n + j
      BY <1>1, <2>2
    <3> HIDE DEF j
    <3>2. v[n + j] = c[j] /\ u[n + j] = d[j] /\ <<d[j], c[j]>> \in P
      BY <1>2, <1>3, <1>4, <1>6, <3>1
    <3> QED
      BY <3>1, <3>2
  <2> QED
    BY <2>1, <2>2
<1>7. Len(u) = Len(v) => \A i \in 1..Len(v) : <<u[i], v[i]>> \in P
  BY <1>2, <1>5, <1>6
<1> QED
  BY <1>5, <1>7 DEF Alike, u, v, n, m, k, l

LEMMA PrefixFlattened ==
  ASSUME NEW T, NEW ss \in Seq(Seq(T)), NEW n \in 0..(Len(ss) - 1)
  PROVE  /\ n + 1 \in 1..Len(ss) /\ ss[n + 1] \in Seq(T)
         /\ SubSeq(ss, 1, n) \in Seq(Seq(T)) /\ FlattenSeq(SubSeq(ss, 1, n)) \in Seq(T)
         /\ FlattenSeq(SubSeq(ss, 1, n + 1)) = FlattenSeq(SubSeq(ss, 1, n)) \o ss[n + 1]
<1> DEFINE u == SubSeq(ss, 1, n)
<1>1. /\ n + 1 \in 1..Len(ss) /\ ss[n + 1] \in Seq(T)
      /\ u \in Seq(Seq(T)) /\ SubSeq(ss, 1, n + 1) = Append(u, ss[n + 1])
  OBVIOUS
<1> HIDE DEF u
<1>2. FlattenSeq(u) \in Seq(T) /\ FlattenSeq(Append(u, ss[n + 1])) = FlattenSeq(u) \o ss[n + 1]
  BY <1>1, FlattenOfAppend
<1>3. FlattenSeq(SubSeq(ss, 1, n + 1)) = FlattenSeq(u) \o ss[n + 1]
  BY <1>1, <1>2
<1> QED
  BY <1>1, <1>2, <1>3 DEF u

LEMMA NoPrefix ==
  ASSUME NEW T, NEW ss \in Seq(Seq(T))
  PROVE  FlattenSeq(SubSeq(ss, 1, 0)) = <<>> /\ FlattenSeq(SubSeq(ss, 1, Len(ss))) = FlattenSeq(ss)
<1>1. SubSeq(ss, 1, 0) = <<>> /\ SubSeq(ss, 1, Len(ss)) = ss
  OBVIOUS
<1> QED
  BY <1>1, FlattenOfNone, Zenon

AllAlike(B, A, P) == Len(B) = Len(A) /\ \A k \in 1..Len(A) : Alike(B[k], A[k], P)
AllAsLong(B, A) == \A k \in 1..Len(A) : Len(B[k]) = Len(A[k])

LEMMA FlattenAlike ==
  ASSUME NEW T, NEW V, NEW P, NEW A \in Seq(Seq(T)), NEW B \in Seq(Seq(V)), AllAlike(B, A, P)
  PROVE  /\ Alike(FlattenSeq(B), FlattenSeq(A), P)
         /\ AllAsLong(B, A) => Len(FlattenSeq(B)) = Len(FlattenSeq(A))
<1> DEFINE K == Len(A)
           a(n) == FlattenSeq(SubSeq(A, 1, n))
           b(n) == FlattenSeq(SubSeq(B, 1, n))
           full == AllAsLong(B, A)
           Q == {n \in 0..K : Alike(b(n), a(n), P) /\ (full => Len(b(n)) = Len(a(n)))}
<1>0. K \in Nat /\ Len(B) = K /\ \A k \in 1..K : Alike(B[k], A[k], P)
  BY DEF AllAlike
<1>1. /\ a(0) = <<>> /\ b(0) = <<>> /\ a(K) = FlattenSeq(A) /\ b(K) = FlattenSeq(B)
  <2>1. b(K) = FlattenSeq(SubSeq(B, 1, Len(B)))
    BY <1>0
  <2>2. a(0) = <<>> /\ a(K) = FlattenSeq(A)
    BY NoPrefix
  <2>3. b(0) = <<>> /\ FlattenSeq(SubSeq(B, 1, Len(B))) = FlattenSeq(B)
    BY NoPrefix
  <2> QED
    BY <2>1, <2>2, <2>3
<1>2. ASSUME NEW n \in 0..(K - 1)
      PROVE  /\ n + 1 \in 1..K
             /\ a(n) \in Seq(T) /\ A[n + 1] \in Seq(T) /\ a(n + 1) = a(n) \o A[n + 1]
             /\ b(n) \in Seq(V) /\ B[n + 1] \in Seq(V) /\ b(n + 1) = b(n) \o B[n + 1]
  BY <1>0, PrefixFlattened
<1> HIDE DEF a, b
<1>3. 0 \in Q
  <2>1. Len(<<>>) = 0 /\ Alike(<<>>, <<>>, P)
    BY DEF Alike
  <2> QED
    BY <1>0, <1>1, <2>1
<1>4. ASSUME NEW n \in 0..(K - 1), n \in Q
      PROVE  n + 1 \in Q
  <2>1. Alike(B[n + 1], A[n + 1], P) /\ (full => Len(B[n + 1]) = Len(A[n + 1]))
    BY <1>0, <1>2 DEF AllAsLong
  <2>2. Alike(b(n), a(n), P) /\ (full => Len(b(n)) = Len(a(n)))
    BY <1>4
  <2> HIDE DEF full
  <2>3. /\ Alike(b(n) \o B[n + 1], a(n) \o A[n + 1], P)
        /\ full => Len(b(n) \o B[n + 1]) = Len(a(n) \o A[n + 1])
    <3> DEFINE p == a(n)  q == A[n + 1]  r == b(n)  t == B[n + 1]
    <3>1. p \in Seq(T) /\ q \in Seq(T) /\ r \in Seq(V) /\ t \in Seq(V)
      BY <1>2
    <3>2. Alike(t, q, P) /\ Alike(r, p, P)
      BY <2>1, <2>2
    <3>3. full => Len(t) = Len(q) /\ Len(r) = Len(p)
      BY <2>1, <2>2
    <3> HIDE DEF p, q, r, t
    <3>4. Alike(r \o t, p \o q, P) /\ (Len(r) = Len(p) /\ Len(t) = Len(q) => Len(r \o t) = Len(p \o q))
      BY <3>1, <3>2, ConcatAlike
    <3> QED
      BY <3>3, <3>4 DEF p, q, r, t
  <2>4. n + 1 \in 0..K
    BY <1>0
  <2> QED
    BY <1>2, <2>3, <2>4
<1> HIDE DEF Q
<1>5. K \in Q
  BY <1>0, <1>3, <1>4, LastTurn
<1> QED
  BY <1>1, <1>5 DEF Q, K

LEMMA SubSeqConcat ==
  ASSUME NEW T, NEW s \in Seq(T), NEW i \in 0..Len(s), NEW j \in i..Len(s)
  PROVE  SubSeq(s, 1, i) \o SubSeq(s, i + 1, j) = SubSeq(s, 1, j)
  OBVIOUS
-----------------------------------------------------------------------------
(* A list with one more in front, and lists of lists of lists.             *)

\* A list with one more in front.
IsPrepended(w, x, t) == Len(w) = Len(t) + 1 /\ w[1] = x /\ \A i \in 1..Len(t) : w[i + 1] = t[i]

LEMMA Prepended ==
  ASSUME NEW T, NEW x \in T, NEW t \in Seq(T)
  PROVE  <<x>> \o t \in Seq(T) /\ IsPrepended(<<x>> \o t, x, t)
BY DEF IsPrepended

LEMMA OnlyPrepended ==
  ASSUME NEW T, NEW x \in T, NEW t \in Seq(T), NEW w \in Seq(T), IsPrepended(w, x, t)
  PROVE  w = <<x>> \o t
<1>1. /\ Len(w) = Len(t) + 1 /\ w[1] = x /\ (\A i \in 1..Len(t) : w[i + 1] = t[i]) /\ Len(t) \in Nat
  BY DEF IsPrepended
<1> DEFINE u == <<x>> \o t
<1>2. u \in Seq(T) /\ Len(u) = Len(t) + 1 /\ u[1] = x /\ \A i \in 1..Len(t) : u[i + 1] = t[i]
  OBVIOUS
<1> HIDE DEF u
<1>3. \A i \in 1..Len(w) : w[i] = u[i]
  <2> TAKE i \in 1..Len(w)
  <2>1. i = 1 \/ (i - 1 \in 1..Len(t) /\ (i - 1) + 1 = i)
    BY <1>1
  <2> QED
    BY <1>1, <1>2, <2>1
<1>4. w = u
  BY <1>1, <1>2, <1>3, SameList
<1> QED
  BY <1>4 DEF u

LEMMA FlattenMapped ==
  ASSUME NEW X, NEW Y, NEW G, Maps(G, X, Y), NEW A \in Seq(Seq(X))
  PROVE  Mapped(G, FlattenSeq(A)) = Expanded([a \in Seq(X) |-> Mapped(G, a)], A)
<1> DEFINE H == [a \in Seq(X) |-> Mapped(G, a)]
           S == {B \in Seq(Seq(X)) : Mapped(G, FlattenSeq(B)) = Expanded(H, B)}
<1>0. Maps(H, Seq(X), Seq(Y)) /\ \A a \in Seq(X) : H[a] = Mapped(G, a)
  BY MappedIs DEF Maps
<1> HIDE DEF H
<1>1. <<>> \in S
  <2>1. <<>> \in Seq(Seq(X)) /\ <<>> \in Seq(X)
    OBVIOUS
  <2>2. Mapped(G, <<>>) = <<>>
    BY <2>1, MappedIs
  <2> QED
    BY <1>0, <2>1, <2>2, ExpandedIs, FlattenOfNone
<1>2. ASSUME NEW B \in Seq(Seq(X)), NEW a \in Seq(X), B \in S
      PROVE  Append(B, a) \in S
  <2>1. FlattenSeq(Append(B, a)) = FlattenSeq(B) \o a /\ FlattenSeq(B) \in Seq(X)
    BY FlattenOfAppend
  <2>2. Mapped(G, FlattenSeq(B) \o a) = Mapped(G, FlattenSeq(B)) \o Mapped(G, a)
    BY <2>1, MappedConcat
  <2>3. Expanded(H, Append(B, a)) = Expanded(H, B) \o H[a]
    <3> DEFINE XX == Seq(X)
    <3>1. Maps(H, XX, Seq(Y)) /\ B \in Seq(XX) /\ a \in XX
      BY <1>0
    <3> HIDE DEF XX
    <3> QED
      BY <3>1, ExpandedAppend
  <2>4. Append(B, a) \in Seq(Seq(X))
    OBVIOUS
  <2> QED
    BY <1>0, <1>2, <2>1, <2>2, <2>3, <2>4
<1> HIDE DEF S
<1>3. Seq(Seq(X)) \subseteq S
  BY <1>1, <1>2, ListInduction
<1> QED
  BY <1>3 DEF S, H

\* Lists of lists of lists, flattened from outside or from inside.
LEMMA FlattenFlattened ==
  ASSUME NEW X, NEW A \in Seq(Seq(Seq(X)))
  PROVE  FlattenSeq(FlattenSeq(A)) = FlattenSeq([i \in DOMAIN A |-> FlattenSeq(A[i])])
<1> DEFINE Z == Seq(X)
           I == [z \in Z |-> z]
           G == [a \in Seq(Z) |-> Expanded(I, a)]
<1>1. Maps(I, Z, Seq(X)) /\ \A z \in Z : I[z] = z
  BY DEF Maps
<1> HIDE DEF I
<1>2. ASSUME NEW a \in Seq(Z)
      PROVE  Expanded(I, a) = FlattenSeq(a)
  <2>1. Mapped(I, a) \in Seq(Z) /\ Len(Mapped(I, a)) = Len(a) /\ \A i \in 1..Len(a) : Mapped(I, a)[i] = I[a[i]]
    BY <1>1, MappedIs
  <2>2. \A i \in 1..Len(a) : Mapped(I, a)[i] = a[i]
    <3>1. \A i \in 1..Len(a) : a[i] \in Z
      <4> HIDE DEF Z
      <4> QED
        OBVIOUS
    <3> QED
      BY <1>1, <2>1, <3>1
  <2> DEFINE m == Mapped(I, a)
  <2> HIDE DEF m, Z
  <2>3. m = a
    BY <2>1, <2>2, SameList DEF m
  <2> QED
    BY <2>3 DEF m, Expanded
<1>3. A \in Seq(Seq(Z)) /\ FlattenSeq(A) \in Seq(Z)
  <2>1. A \in Seq(Seq(Z))
    OBVIOUS
  <2> HIDE DEF Z
  <2> QED
    BY <2>1, FlattenIsOf
<1> HIDE DEF Z
<1>4. Expanded(I, FlattenSeq(A)) = Expanded(G, A)
  BY <1>1, <1>3, FlattenExpanded
<1>5. Expanded(G, A) = FlattenSeq([i \in DOMAIN A |-> FlattenSeq(A[i])])
  <2>1. \A i \in DOMAIN A : A[i] \in Seq(Z)
    BY <1>3
  <2>2. \A i \in DOMAIN A : G[A[i]] = FlattenSeq(A[i])
    BY <1>2, <2>1
  <2> HIDE DEF G
  <2>3. Mapped(G, A) = [i \in DOMAIN A |-> FlattenSeq(A[i])]
    BY <2>2 DEF Mapped
  <2> QED
    BY <2>3 DEF Expanded
<1> QED
  BY <1>2, <1>3, <1>4, <1>5

\* Each element in a list of its own.
LEMMA FlattenSingles ==
  ASSUME NEW X, NEW s \in Seq(X)
  PROVE  FlattenSeq([i \in DOMAIN s |-> <<s[i]>>]) = s
<1> DEFINE F == [x \in X |-> <<x>>]
           S == {t \in Seq(X) : Expanded(F, t) = t}
<1>1. Maps(F, X, Seq(X)) /\ \A x \in X : F[x] = <<x>>
  BY DEF Maps
<1> HIDE DEF F
<1>2. <<>> \in S
  <2>1. <<>> \in Seq(X)
    OBVIOUS
  <2> QED
    BY <1>1, <2>1, ExpandedIs
<1>3. ASSUME NEW t \in Seq(X), NEW x \in X, t \in S
      PROVE  Append(t, x) \in S
  <2>0. Expanded(F, Append(t, x)) = Expanded(F, t) \o F[x]
    BY <1>1, ExpandedAppend
  <2>1. Expanded(F, Append(t, x)) = t \o <<x>>
    BY <1>1, <1>3, <2>0
  <2>2. t \o <<x>> = Append(t, x) /\ Append(t, x) \in Seq(X)
    OBVIOUS
  <2> QED
    BY <2>1, <2>2
<1> HIDE DEF S
<1>4. Seq(X) \subseteq S
  BY <1>2, <1>3, ListInduction
<1>5. Mapped(F, s) = [i \in DOMAIN s |-> <<s[i]>>]
  <2>1. \A i \in DOMAIN s : s[i] \in X
    OBVIOUS
  <2>2. \A i \in DOMAIN s : F[s[i]] = <<s[i]>>
    BY <1>1, <2>1
  <2> QED
    BY <2>2 DEF Mapped
<1> QED
  BY <1>4, <1>5 DEF S, Expanded
=============================================================================
