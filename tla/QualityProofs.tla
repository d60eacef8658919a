---------------------------- MODULE QualityProofs ----------------------------
(***************************************************************************)
(* Theorems about the assessment of a stored tree (RootedQuality), for any *)
(* graph, any sample size and any answers of the search.                   *)
(***************************************************************************)
EXTENDS RootedQuality, FiniteSetTheorems, NaturalsInduction, WellFoundedInduction, TLAPS

-----------------------------------------------------------------------------
(* Induction. *)

\* Induction over the natural numbers, for a set instead of a predicate.
LEMMA SetInduction ==
    ASSUME NEW S \in SUBSET Nat, 0 \in S, \A n \in S : n + 1 \in S
    PROVE  S = Nat
  <1> SUFFICES ASSUME S # Nat PROVE FALSE
    OBVIOUS
  <1>1. PICK R : R = OpToRel(<, Nat)
    OBVIOUS
  <1>2. IsWellFoundedOn(R, Nat)
    BY <1>1, NatLessThanWellFounded
  <1>3. PICK T : T = Nat \ S
    OBVIOUS
  <1>4. T \subseteq Nat /\ T # {}
    BY <1>3
  <1>5. PICK x \in T : \A y \in T : ~(<<y, x>> \in R)
    BY <1>2, <1>4, WFMin
  <1>6. \A y \in Nat : y < x => <<y, x>> \in R
    BY <1>1, <1>3 DEF OpToRel
  <1>7. x # 0 /\ x \in Nat
    BY <1>3
  <1>8. x - 1 \in Nat /\ x - 1 < x /\ (x - 1) + 1 = x
    BY <1>7
  <1>9. x - 1 \in S
    BY <1>3, <1>5, <1>6, <1>8
  <1> QED BY <1>3, <1>8, <1>9

\* What holds of the empty set and is kept by an element more holds of a finite set.
LEMMA SetGrows ==
    ASSUME NEW U, IsFiniteSet(U), NEW P \in SUBSET SUBSET U, {} \in P,
           \A S \in P : \A x \in U \ S : S \cup {x} \in P
    PROVE  U \in P
  <1>1. PICK N : N = {n \in Nat : \A S \in SUBSET U : Cardinality(S) = n => S \in P}
    OBVIOUS
  <1>2. \A S \in SUBSET U : IsFiniteSet(S) /\ Cardinality(S) \in Nat
    BY FS_Subset, FS_CardinalityType
  <1>3. 0 \in N
    BY <1>1, <1>2, FS_EmptySet
  <1>4. ASSUME NEW n \in N PROVE n + 1 \in N
    <2>1. n \in Nat
      BY <1>1
    <2>2. ASSUME NEW S \in SUBSET U, Cardinality(S) = n + 1 PROVE S \in P
      <3>1. S # {}
        BY <2>1, <2>2, FS_EmptySet
      <3>2. PICK x \in S : TRUE
        BY <3>1
      <3>3. PICK R : R = S \ {x}
        OBVIOUS
      <3>4. R \in SUBSET U /\ Cardinality(R) = n
        <4>1. Cardinality(R) = Cardinality(S) - 1
          BY <1>2, <3>3, FS_RemoveElement
        <4> QED BY <2>1, <2>2, <3>3, <4>1
      <3>5. R \in P
        BY <1>1, <3>4
      <3>6. x \in U \ R /\ R \cup {x} = S
        BY <3>3
      <3> QED BY <3>5, <3>6
    <2>3. n + 1 \in Nat
      BY <2>1
    <2> QED BY <1>1, <2>2, <2>3
  <1>5. N \in SUBSET Nat /\ \A n \in N : n + 1 \in N
    BY <1>1, <1>4
  <1>6. N = Nat
    BY <1>3, <1>5, SetInduction
  <1> QED BY <1>1, <1>2, <1>6

-----------------------------------------------------------------------------
(* Sums. *)

\* k is the sum of h over each set of places, whichever is added last.
Additive(k, S, h) ==
    /\ k \in [SUBSET S -> Nat] /\ k[{}] = 0
    /\ \A r \in SUBSET S : \A x \in r : k[r] = h[x] + k[r \ {x}]

\* One place more.
LEMMA AdditiveGrows ==
    ASSUME NEW S, NEW y, y \notin S, NEW h, h[y] \in Nat, NEW k, Additive(k, S, h),
           \A x \in S : h[x] \in Nat
    PROVE  \E j : Additive(j, S \cup {y}, h)
  <1>1. PICK T : T = S \cup {y}
    OBVIOUS
  <1>2. PICK j : j = [r \in SUBSET T |-> IF y \in r THEN h[y] + k[r \ {y}] ELSE k[r]]
    OBVIOUS
  <1>3. ASSUME NEW r \in SUBSET T
        PROVE  /\ y \in r => r \ {y} \in SUBSET S /\ k[r \ {y}] \in Nat /\ j[r] = h[y] + k[r \ {y}]
               /\ y \notin r => r \in SUBSET S /\ k[r] \in Nat /\ j[r] = k[r]
    BY <1>1, <1>2, <1>3 DEF Additive
  <1>4. j \in [SUBSET T -> Nat]
    <2>1. ASSUME NEW r \in SUBSET T PROVE j[r] \in Nat
      <3>1. CASE y \in r
        <4>1. k[r \ {y}] \in Nat /\ j[r] = h[y] + k[r \ {y}]
          BY <1>3, <3>1
        <4> QED BY <4>1
      <3>2. CASE y \notin r
        BY <1>3, <3>2
      <3> QED BY <3>1, <3>2
    <2>2. j = [r \in SUBSET T |-> j[r]]
      BY <1>2
    <2> QED BY <2>1, <2>2
  <1>5. j[{}] = 0
    BY <1>3 DEF Additive
  <1>6. ASSUME NEW r \in SUBSET T, NEW x \in r PROVE j[r] = h[x] + j[r \ {x}]
    <2>1. PICK q : q = r \ {x}
      OBVIOUS
    <2>2. q \in SUBSET T
      BY <2>1
    <2>3. CASE x = y
      <3>1. y \notin q /\ j[q] = k[q]
        BY <1>3, <2>1, <2>2, <2>3
      <3> QED BY <1>3, <2>1, <2>3, <3>1
    <2>4. CASE x # y /\ y \in r
      <3>1. PICK p : p = r \ {y}
        OBVIOUS
      <3>2. p \in SUBSET S /\ x \in p /\ j[r] = h[y] + k[p]
        BY <1>3, <2>4, <3>1
      <3>3. k[p] = h[x] + k[p \ {x}]
        BY <3>2 DEF Additive
      <3>4. y \in q /\ q \ {y} = p \ {x}
        BY <2>1, <2>4, <3>1
      <3>5. j[q] = h[y] + k[p \ {x}] /\ k[p \ {x}] \in Nat
        BY <1>3, <2>2, <3>4
      <3>6. h[x] \in Nat
        BY <1>1, <3>2
      <3> QED BY <2>1, <3>2, <3>3, <3>5, <3>6
    <2>5. CASE y \notin r
      <3>1. r \in SUBSET S /\ j[r] = k[r] /\ y \notin q
        BY <1>3, <2>1, <2>5
      <3>2. j[q] = k[q]
        BY <1>3, <2>2, <3>1
      <3>3. k[r] = h[x] + k[q]
        BY <2>1, <3>1 DEF Additive
      <3> QED BY <2>1, <3>1, <3>2, <3>3
    <2> QED BY <2>3, <2>4, <2>5
  <1>7. Additive(j, T, h)
    BY <1>4, <1>5, <1>6 DEF Additive
  <1> QED BY <1>1, <1>7

\* There are such sums.
LEMMA AdditiveExists ==
    ASSUME NEW S, IsFiniteSet(S), NEW h \in [S -> Nat]
    PROVE  \E k : Additive(k, S, h)
  <1>1. PICK P : P = {r \in SUBSET S : \E k : Additive(k, r, h)}
    OBVIOUS
  <1>2. {} \in P
    <2>1. Additive([r \in SUBSET {} |-> 0], {}, h)
      BY DEF Additive
    <2> QED BY <1>1, <2>1
  <1>3. ASSUME NEW R \in P, NEW x \in S \ R PROVE R \cup {x} \in P
    <2>1. R \in SUBSET S
      BY <1>1
    <2>2. PICK k : Additive(k, R, h)
      BY <1>1
    <2>3. h[x] \in Nat /\ x \notin R /\ \A y \in R : h[y] \in Nat
      BY <2>1
    <2>4. \E j : Additive(j, R \cup {x}, h)
      BY <2>2, <2>3, AdditiveGrows
    <2> QED BY <1>1, <2>1, <2>4
  <1>4. S \in P
    BY <1>1, <1>2, <1>3, SetGrows
  <1> QED BY <1>1, <1>4

\* Total is the sum over all places.
LEMMA TotalIs ==
    ASSUME NEW S, IsFiniteSet(S), NEW h \in [S -> Nat], NEW k, Additive(k, S, h)
    PROVE  Total(h) = k[S]
  <1> DEFINE Is(it) == it = [r \in SUBSET S |->
                 IF r = {} THEN 0
                 ELSE h[CHOOSE x \in r : TRUE] + it[r \ {CHOOSE x \in r : TRUE}]]
  <1>1. DOMAIN h = S
    OBVIOUS
  <1>2. Total(h) = (CHOOSE it : Is(it))[S]
    BY <1>1 DEF Total, FoldFunction, FoldFunctionOnSet, MapThenFoldSet
  <1>3. Is(k)
    <2>1. \A r \in SUBSET S : r # {} => (CHOOSE x \in r : TRUE) \in r
      OBVIOUS
    <2>2. \A r \in SUBSET S :
             k[r] = IF r = {} THEN 0
                    ELSE h[CHOOSE x \in r : TRUE] + k[r \ {CHOOSE x \in r : TRUE}]
      BY <2>1 DEF Additive
    <2>3. k = [r \in SUBSET S |-> k[r]]
      BY DEF Additive
    <2> QED BY <2>2, <2>3
  <1>4. PICK f : f = CHOOSE it : Is(it)
    OBVIOUS
  <1> HIDE DEF Is
  <1>5. Is(f)
    BY <1>3, <1>4
  <1>6. /\ f[{}] = 0
        /\ \A r \in SUBSET S : r # {} => \E x \in r : f[r] = h[x] + f[r \ {x}]
    <2>1. \A r \in SUBSET S : r # {} => (CHOOSE x \in r : TRUE) \in r
      OBVIOUS
    <2>2. \A r \in SUBSET S :
             f[r] = IF r = {} THEN 0
                    ELSE h[CHOOSE x \in r : TRUE] + f[r \ {CHOOSE x \in r : TRUE}]
      BY <1>5 DEF Is
    <2> QED BY <2>1, <2>2
  <1>7. PICK N : N = {n \in Nat : \A r \in SUBSET S : Cardinality(r) = n => f[r] = k[r]}
    OBVIOUS
  <1>8. \A r \in SUBSET S : IsFiniteSet(r) /\ Cardinality(r) \in Nat
    BY FS_Subset, FS_CardinalityType
  <1>9. 0 \in N
    <2>1. \A r \in SUBSET S : Cardinality(r) = 0 => r = {}
      BY <1>8, FS_EmptySet
    <2> QED BY <1>6, <1>7, <2>1 DEF Additive
  <1>10. ASSUME NEW n \in N PROVE n + 1 \in N
    <2>1. n \in Nat /\ n + 1 \in Nat
      BY <1>7
    <2>2. ASSUME NEW r \in SUBSET S, Cardinality(r) = n + 1 PROVE f[r] = k[r]
      <3>1. r # {}
        BY <2>1, <2>2, FS_EmptySet
      <3>2. PICK x \in r : f[r] = h[x] + f[r \ {x}]
        BY <1>6, <3>1
      <3>3. r \ {x} \in SUBSET S /\ Cardinality(r \ {x}) = n
        <4>1. Cardinality(r \ {x}) = Cardinality(r) - 1
          BY <1>8, FS_RemoveElement
        <4> QED BY <2>1, <2>2, <4>1
      <3>4. f[r \ {x}] = k[r \ {x}]
        BY <1>7, <3>3
      <3>5. k[r] = h[x] + k[r \ {x}]
        BY DEF Additive
      <3> QED BY <3>2, <3>4, <3>5
    <2> QED BY <1>7, <2>1, <2>2
  <1>11. N = Nat
    BY <1>7, <1>9, <1>10, SetInduction
  <1>12. f[S] = k[S]
    BY <1>7, <1>8, <1>11
  <1> QED BY <1>2, <1>4, <1>12

\* It is a number, the sum over a part is too, and one place may be split off.
LEMMA TotalParts ==
    ASSUME NEW S, IsFiniteSet(S), NEW h \in [S -> Nat]
    PROVE  \E k : /\ Additive(k, S, h) /\ Total(h) = k[S] /\ Total(h) \in Nat
                  /\ \A R \in SUBSET S : Total([x \in R |-> h[x]]) = k[R]
  <1>1. PICK k : Additive(k, S, h)
    BY AdditiveExists
  <1>2. ASSUME NEW R \in SUBSET S PROVE Total([x \in R |-> h[x]]) = k[R]
    <2>1. PICK e : e = [x \in R |-> h[x]]
      OBVIOUS
    <2>2. e \in [R -> Nat] /\ IsFiniteSet(R)
      BY <2>1, FS_Subset
    <2>3. PICK j : j = [r \in SUBSET R |-> k[r]]
      OBVIOUS
    <2>4. Additive(j, R, e)
      <3>1. j \in [SUBSET R -> Nat] /\ j[{}] = 0
        BY <1>1, <2>3 DEF Additive
      <3>2. ASSUME NEW r \in SUBSET R, NEW x \in r PROVE j[r] = e[x] + j[r \ {x}]
        <4>1. r \in SUBSET S /\ k[r] = h[x] + k[r \ {x}]
          BY <1>1 DEF Additive
        <4>2. j[r] = k[r] /\ j[r \ {x}] = k[r \ {x}] /\ e[x] = h[x]
          BY <2>1, <2>3
        <4> QED BY <4>1, <4>2
      <3> QED BY <3>1, <3>2 DEF Additive
    <2>5. Total(e) = j[R]
      BY <2>2, <2>4, TotalIs
    <2> QED BY <2>1, <2>3, <2>5
  <1>3. Total(h) = k[S] /\ k[S] \in Nat
    BY <1>1, TotalIs DEF Additive
  <1> QED BY <1>1, <1>2, <1>3

\* One place split off.
LEMMA TotalSplit ==
    ASSUME NEW S, IsFiniteSet(S), NEW h \in [S -> Nat], NEW x \in S
    PROVE  /\ Total([y \in S \ {x} |-> h[y]]) \in Nat
           /\ Total(h) = h[x] + Total([y \in S \ {x} |-> h[y]])
  <1>1. PICK k : /\ Additive(k, S, h) /\ Total(h) = k[S]
                 /\ \A R \in SUBSET S : Total([y \in R |-> h[y]]) = k[R]
    BY TotalParts
  <1>2. Total([y \in S \ {x} |-> h[y]]) = k[S \ {x}]
    BY <1>1
  <1>3. k[S \ {x}] \in Nat /\ k[S] = h[x] + k[S \ {x}]
    BY <1>1 DEF Additive
  <1> QED BY <1>1, <1>2, <1>3

\* h has the place x, and j the others.
Extends(h, j, S, R, x) ==
    /\ IsFiniteSet(S) /\ x \in S /\ R = S \ {x}
    /\ h \in [S -> Nat] /\ j \in [R -> Nat] /\ \A y \in R : j[y] = h[y]

\* One value more.
LEMMA TotalRest ==
    ASSUME NEW S, NEW R, NEW h, NEW x, NEW j, Extends(h, j, S, R, x)
    PROVE  Total(h) = h[x] + Total(j)
  <1>1. j = [y \in S \ {x} |-> h[y]]
    BY DEF Extends
  <1>2. IsFiniteSet(S) /\ x \in S /\ h \in [S -> Nat]
    BY DEF Extends
  <1> QED BY <1>1, <1>2, TotalSplit

\* A sum over no place.
LEMMA TotalNone ==
    ASSUME NEW h, h \in [{} -> Nat]
    PROVE  Total(h) = 0
  <1>1. IsFiniteSet({})
    BY FS_EmptySet
  <1>2. PICK k : Additive(k, {}, h) /\ Total(h) = k[{}]
    BY <1>1, TotalParts
  <1> QED BY <1>2 DEF Additive

\* Two functions that may differ at one place.
Bumps(h, j, S, x) ==
    /\ IsFiniteSet(S) /\ x \in S /\ h \in [S -> Nat] /\ j \in [S -> Nat]
    /\ \A y \in S : y # x => j[y] = h[y]

\* Sums that differ at one place.
LEMMA TotalBump ==
    ASSUME NEW S, NEW h, NEW j, NEW x, Bumps(h, j, S, x)
    PROVE  Total(j) + h[x] = Total(h) + j[x]
  <1> USE DEF Bumps
  <1>1. [y \in S \ {x} |-> h[y]] = [y \in S \ {x} |-> j[y]]
    OBVIOUS
  <1>2. PICK n \in Nat : n = Total([y \in S \ {x} |-> h[y]])
    BY TotalSplit
  <1>3. Total(h) = h[x] + n /\ Total(j) = j[x] + n
    BY <1>1, <1>2, TotalSplit
  <1>4. h[x] \in Nat /\ j[x] \in Nat
    OBVIOUS
  <1> QED BY <1>3, <1>4

\* Places of value zero do not count.
LEMMA TotalZeros ==
    ASSUME NEW S, IsFiniteSet(S), NEW h \in [S -> Nat], NEW T \in SUBSET S,
           \A x \in S \ T : h[x] = 0
    PROVE  Total(h) = Total([x \in T |-> h[x]])
  <1>1. PICK k : /\ Additive(k, S, h) /\ Total(h) = k[S]
                 /\ \A R \in SUBSET S : Total([y \in R |-> h[y]]) = k[R]
    BY TotalParts
  <1>2. PICK U, P : U = S \ T /\ P = {R \in SUBSET U : k[T \cup R] = k[T]}
    OBVIOUS
  <1>3. IsFiniteSet(U)
    BY <1>2, FS_Subset
  <1>4. {} \in P
    <2>1. T \cup {} = T
      OBVIOUS
    <2> QED BY <1>2, <2>1
  <1>5. ASSUME NEW R \in P, NEW x \in U \ R PROVE R \cup {x} \in P
    <2>1. PICK V : V = T \cup (R \cup {x})
      OBVIOUS
    <2>2. V \in SUBSET S /\ x \in V /\ V \ {x} = T \cup R /\ h[x] = 0
      BY <1>2, <2>1
    <2>3. k[V] = h[x] + k[V \ {x}]
      BY <1>1, <2>2 DEF Additive
    <2>4. k[T] \in Nat /\ k[T \cup R] = k[T]
      BY <1>1, <1>2 DEF Additive
    <2>5. R \cup {x} \in SUBSET U
      BY <1>2
    <2>6. k[V] = k[T]
      BY <2>2, <2>3, <2>4
    <2> QED BY <1>2, <2>1, <2>5, <2>6
  <1>6. U \in P
    <2>1. P \in SUBSET SUBSET U
      BY <1>2
    <2> QED BY <1>3, <1>4, <1>5, <2>1, SetGrows
  <1>7. T \cup U = S
    BY <1>2
  <1> QED BY <1>1, <1>2, <1>6, <1>7

\* The sum of sums.
LEMMA TotalPlus ==
    ASSUME NEW S, IsFiniteSet(S), NEW h \in [S -> Nat], NEW j \in [S -> Nat]
    PROVE  Total([x \in S |-> h[x] + j[x]]) = Total(h) + Total(j)
  <1>1. PICK a : Additive(a, S, h) /\ Total(h) = a[S]
    BY TotalParts
  <1>2. PICK b : Additive(b, S, j) /\ Total(j) = b[S]
    BY TotalParts
  <1>3. PICK e : e = [x \in S |-> h[x] + j[x]]
    OBVIOUS
  <1>4. PICK k : k = [r \in SUBSET S |-> a[r] + b[r]]
    OBVIOUS
  <1>5. Additive(k, S, e)
    <2>1. \A r \in SUBSET S : a[r] \in Nat /\ b[r] \in Nat /\ k[r] = a[r] + b[r]
      BY <1>1, <1>2, <1>4 DEF Additive
    <2>2. k \in [SUBSET S -> Nat]
      <3>1. \A r \in SUBSET S : k[r] \in Nat
        BY <2>1
      <3>2. k = [r \in SUBSET S |-> k[r]]
        BY <1>4
      <3> QED BY <3>1, <3>2
    <2>3. k[{}] = 0
      BY <1>1, <1>2, <2>1 DEF Additive
    <2>4. ASSUME NEW r \in SUBSET S, NEW x \in r PROVE k[r] = e[x] + k[r \ {x}]
      <3>1. a[r] = h[x] + a[r \ {x}] /\ b[r] = j[x] + b[r \ {x}]
        BY <1>1, <1>2 DEF Additive
      <3>2. r \ {x} \in SUBSET S /\ x \in S
        OBVIOUS
      <3>3. k[r] = a[r] + b[r] /\ k[r \ {x}] = a[r \ {x}] + b[r \ {x}]
            /\ a[r \ {x}] \in Nat /\ b[r \ {x}] \in Nat
        BY <2>1, <3>2
      <3>4. e[x] = h[x] + j[x] /\ h[x] \in Nat /\ j[x] \in Nat
        BY <1>3, <3>2
      <3> QED BY <3>1, <3>3, <3>4
    <2> QED BY <2>2, <2>3, <2>4 DEF Additive
  <1>6. e \in [S -> Nat]
    BY <1>3
  <1>7. Total(e) = k[S]
    BY <1>5, <1>6, TotalIs
  <1> QED BY <1>1, <1>2, <1>3, <1>4, <1>7

\* The elements of a set, counted by a mark they have.
LEMMA PartsCount ==
    ASSUME NEW V, IsFiniteSet(V), NEW L, IsFiniteSet(L), NEW f \in [V -> L]
    PROVE  Total([l \in L |-> Cardinality({b \in V : f[b] = l})]) = Cardinality(V)
  <1> DEFINE At(W, l) == {b \in W : f[b] = l}
             Counts(W) == [l \in L |-> Cardinality(At(W, l))]
  <1>1. PICK P : P = {W \in SUBSET V : Total(Counts(W)) = Cardinality(W)}
    OBVIOUS
  <1>2. \A W \in SUBSET V : IsFiniteSet(W) /\ Cardinality(W) \in Nat
    BY FS_Subset, FS_CardinalityType
  <1>3. ASSUME NEW W \in SUBSET V PROVE Counts(W) \in [L -> Nat]
    <2>1. \A l \in L : At(W, l) \in SUBSET V
      OBVIOUS
    <2>2. \A l \in L : Cardinality(At(W, l)) \in Nat
      BY <1>2, <2>1
    <2> QED BY <2>2
  <1>4. {} \in P
    <2>1. \A l \in L : At({}, l) = {}
      OBVIOUS
    <2>2. Cardinality({}) = 0
      BY FS_EmptySet
    <2>3. PICK h : h = Counts({})
      OBVIOUS
    <2>4. h \in [L -> Nat] /\ \A l \in L : h[l] = 0
      BY <1>3, <2>1, <2>2, <2>3
    <2>5. Total(h) = Total([l \in {} |-> h[l]])
      <3>1. PICK T \in SUBSET L : T = {}
        OBVIOUS
      <3>2. Total(h) = Total([l \in T |-> h[l]])
        BY <2>4, TotalZeros
      <3> QED BY <3>1, <3>2
    <2>6. Total([l \in {} |-> h[l]]) = 0
      BY TotalNone
    <2> QED BY <1>1, <2>2, <2>3, <2>5, <2>6
  <1>5. ASSUME NEW W \in P, NEW x \in V \ W PROVE W \cup {x} \in P
    <2>1. PICK U : U = W \cup {x}
      OBVIOUS
    <2>2. W \in SUBSET V /\ U \in SUBSET V /\ f[x] \in L /\ x \notin W
      BY <1>1, <2>1
    <2>3. PICK h, j : h = Counts(W) /\ j = Counts(U)
      OBVIOUS
    <2>4. h \in [L -> Nat] /\ j \in [L -> Nat]
      BY <1>3, <2>2, <2>3
    <2>5. \A l \in L : l # f[x] => At(U, l) = At(W, l)
      BY <2>1
    <2>6. At(U, f[x]) = At(W, f[x]) \cup {x} /\ x \notin At(W, f[x])
      BY <2>1, <2>2
    <2>7. Cardinality(At(U, f[x])) = Cardinality(At(W, f[x])) + 1
      <3>1. At(W, f[x]) \in SUBSET V
        BY <2>2
      <3> QED BY <1>2, <2>6, <3>1, FS_AddElement
    <2>8. h[f[x]] = Cardinality(At(W, f[x])) /\ j[f[x]] = Cardinality(At(U, f[x]))
      BY <2>2, <2>3
    <2>9. \A l \in L : l # f[x] => j[l] = h[l]
      BY <2>3, <2>5
    <2> HIDE DEF At, Counts
    <2>10. Total(j) + h[f[x]] = Total(h) + j[f[x]]
      <3>1. Bumps(h, j, L, f[x])
        BY <2>2, <2>4, <2>9 DEF Bumps
      <3> QED BY <3>1, TotalBump
    <2>11. Total(h) \in Nat /\ Total(j) \in Nat
      BY <2>4, TotalParts
    <2>12. Total(j) = Total(h) + 1
      BY <2>2, <2>4, <2>7, <2>8, <2>10, <2>11
    <2>13. Total(h) = Cardinality(W)
      BY <1>1, <2>3
    <2>14. Cardinality(U) = Cardinality(W) + 1
      BY <1>2, <2>1, <2>2, FS_AddElement
    <2> QED BY <1>1, <2>1, <2>2, <2>3, <2>12, <2>13, <2>14
  <1>6. V \in P
    BY <1>1, <1>4, <1>5, SetGrows
  <1> QED BY <1>1, <1>6

\* The order of two sums.
LEMMA TotalSwap ==
    ASSUME NEW I, IsFiniteSet(I), NEW L, IsFiniteSet(L), NEW m \in [I -> [L -> Nat]]
    PROVE  Total([i \in I |-> Total(m[i])]) = Total([l \in L |-> Total([i \in I |-> m[i][l]])])
  <1> DEFINE Rows(J) == [i \in J |-> Total(m[i])]
             Column(J, l) == [i \in J |-> m[i][l]]
             Columns(J) == [l \in L |-> Total(Column(J, l))]
  <1>1. PICK P : P = {J \in SUBSET I : Total(Rows(J)) = Total(Columns(J))}
    OBVIOUS
  <1>2. \A J \in SUBSET I : IsFiniteSet(J)
    BY FS_Subset
  <1>3. \A i \in I : Total(m[i]) \in Nat
    BY TotalParts
  <1>4. ASSUME NEW J \in SUBSET I
        PROVE  Rows(J) \in [J -> Nat] /\ Columns(J) \in [L -> Nat]
    <2>1. \A l \in L : Column(J, l) \in [J -> Nat]
      OBVIOUS
    <2>2. \A l \in L : Total(Column(J, l)) \in Nat
      BY <1>2, <2>1, TotalParts
    <2> QED BY <1>3, <2>2
  <1>5. {} \in P
    <2>1. Total(Rows({})) = 0
      BY <1>4, TotalNone
    <2>2. \A l \in L : Column({}, l) \in [{} -> Nat]
      OBVIOUS
    <2>3. \A l \in L : Total(Column({}, l)) = 0
      BY <2>2, TotalNone
    <2>4. PICK h : h = Columns({})
      OBVIOUS
    <2>5. h \in [L -> Nat] /\ \A l \in L : h[l] = 0
      BY <1>4, <2>3, <2>4
    <2>6. Total(h) = Total([l \in {} |-> h[l]])
      <3>1. PICK T \in SUBSET L : T = {}
        OBVIOUS
      <3>2. Total(h) = Total([l \in T |-> h[l]])
        BY <2>5, TotalZeros
      <3> QED BY <3>1, <3>2
    <2>7. Total([l \in {} |-> h[l]]) = 0
      BY TotalNone
    <2> QED BY <1>1, <2>1, <2>4, <2>6, <2>7
  <1>6. ASSUME NEW J \in P, NEW x \in I \ J PROVE J \cup {x} \in P
    <2>1. PICK U : U = J \cup {x}
      OBVIOUS
    <2>2. J \in SUBSET I /\ U \in SUBSET I /\ x \in U /\ U \ {x} = J
      BY <1>1, <2>1
    <2>3. Total(Rows(U)) = Total(m[x]) + Total(Rows(J))
      <3>1. PICK h : h = Rows(U)
        OBVIOUS
      <3>2. h \in [U -> Nat] /\ IsFiniteSet(U) /\ h[x] = Total(m[x])
        BY <1>2, <1>4, <2>2, <3>1
      <3>3. PICK j : j = Rows(J)
        OBVIOUS
      <3>4. j \in [U \ {x} -> Nat] /\ \A y \in U \ {x} : j[y] = h[y]
        BY <1>4, <2>2, <3>1, <3>3
      <3>5. Extends(h, j, U, J, x)
        BY <2>2, <3>2, <3>4 DEF Extends
      <3>6. Total(h) = h[x] + Total(j)
        BY <3>5, TotalRest
      <3> QED BY <3>1, <3>2, <3>3, <3>6
    <2>4. ASSUME NEW l \in L PROVE Total(Column(U, l)) = m[x][l] + Total(Column(J, l))
      <3>1. PICK h : h = Column(U, l)
        OBVIOUS
      <3>2. h \in [U -> Nat] /\ IsFiniteSet(U) /\ h[x] = m[x][l]
        BY <1>2, <2>2, <3>1
      <3>3. PICK j : j = Column(J, l)
        OBVIOUS
      <3>4. j \in [U \ {x} -> Nat] /\ \A y \in U \ {x} : j[y] = h[y]
        BY <2>2, <3>1, <3>3
      <3>5. Extends(h, j, U, J, x)
        BY <2>2, <3>2, <3>4 DEF Extends
      <3>6. Total(h) = h[x] + Total(j)
        BY <3>5, TotalRest
      <3> QED BY <3>1, <3>2, <3>3, <3>6
    <2>5. PICK r, c : r = m[x] /\ c = Columns(J)
      OBVIOUS
    <2>6. r \in [L -> Nat] /\ c \in [L -> Nat]
      BY <1>4, <2>2, <2>5
    <2>7. Columns(U) = [l \in L |-> r[l] + c[l]]
      BY <2>4, <2>5
    <2>8. Total([l \in L |-> r[l] + c[l]]) = Total(r) + Total(c)
      BY <2>6, TotalPlus
    <2>9. Total(Rows(J)) = Total(c)
      BY <1>1, <2>5
    <2>10. Total(Rows(U)) = Total(Columns(U))
      BY <2>3, <2>5, <2>7, <2>8, <2>9
    <2> QED BY <1>1, <2>1, <2>2, <2>10
  <1>7. I \in P
    BY <1>1, <1>5, <1>6, SetGrows
  <1> QED BY <1>1, <1>7

-----------------------------------------------------------------------------
(* What the root reaches. *)

\* The fields of a stored graph.
LEMMA GraphIs ==
    ASSUME NEW s \in Graphs
    PROVE  /\ s.kids \in [Blocks -> Seq(Blocks)] /\ s.leaf \in [Blocks -> BOOLEAN]
           /\ s.stored \in SUBSET Blocks /\ s.level \in [Blocks -> Nat]
           /\ s.spec \in [Blocks -> Nat] /\ s.vals \in [Blocks -> Seq(Nat)]
  BY QualityAssumption

\* A set with the root and the stored children of its blocks.
Closed(s, V) ==
    Root \in V /\ \A b \in V : \A i \in DOMAIN s.kids[b] :
                      s.kids[b][i] \in s.stored => s.kids[b][i] \in V

\* One step of the definition.
LEMMA StepIs ==
    ASSUME g \in Graphs, NEW S \in SUBSET Blocks
    PROVE  /\ ReachStep(S) \in SUBSET Blocks /\ S \subseteq ReachStep(S)
           /\ \A V \in SUBSET Blocks : Closed(g, V) /\ S \subseteq V => ReachStep(S) \subseteq V
           /\ Root \in S /\ ReachStep(S) = S => Closed(g, S)
  <1>1. g.kids \in [Blocks -> Seq(Blocks)] /\ g.stored \in SUBSET Blocks
    BY GraphIs
  <1>2. ReachStep(S) = {c \in Blocks : c \in S \/ (c \in g.stored /\ \E b \in S : \E i \in DOMAIN g.kids[b] : c = g.kids[b][i])}
    <2>1. \A b \in S : Range(g.kids[b]) = {g.kids[b][i] : i \in DOMAIN g.kids[b]}
      BY DEF Range
    <2>2. PICK K : K = UNION {Range(g.kids[b]) : b \in S}
      OBVIOUS
    <2>3. \A c : c \in K <=> \E b \in S : \E i \in DOMAIN g.kids[b] : c = g.kids[b][i]
      BY <2>1, <2>2
    <2>4. ReachStep(S) = S \cup (g.stored \cap K)
      BY <2>2 DEF ReachStep
    <2> QED BY <1>1, <2>3, <2>4
  <1>3. ReachStep(S) \in SUBSET Blocks /\ S \subseteq ReachStep(S)
    BY <1>2
  <1>4. ASSUME NEW V \in SUBSET Blocks, Closed(g, V), S \subseteq V PROVE ReachStep(S) \subseteq V
    BY <1>2, <1>4 DEF Closed
  <1>5. ASSUME Root \in S, ReachStep(S) = S PROVE Closed(g, S)
    <2> SUFFICES ASSUME NEW b \in S, NEW i \in DOMAIN g.kids[b], g.kids[b][i] \in g.stored
                 PROVE  g.kids[b][i] \in S
      BY <1>5 DEF Closed
    <2>1. g.kids[b][i] \in Blocks
      BY <1>1
    <2> QED BY <1>2, <1>5, <2>1
  <1> QED BY <1>3, <1>4, <1>5

\* f has the sets reached in so many steps.
Reaches(f, n) ==
    /\ f \in [0..n -> SUBSET Blocks] /\ f[0] = {Root}
    /\ \A i \in 1..n : f[i] = ReachStep(f[i - 1])

\* There is such a function.
LEMMA ReachExists ==
    ASSUME g \in Graphs, NEW w \in Nat
    PROVE  \E f : Reaches(f, w)
  <1>1. PICK S : S = {m \in Nat : \E f : Reaches(f, m)}
    OBVIOUS
  <1>2. 0 \in S
    <2>1. {Root} \in SUBSET Blocks
      BY QualityAssumption
    <2>2. Reaches([k \in 0..0 |-> {Root}], 0)
      BY <2>1 DEF Reaches
    <2> QED BY <1>1, <2>2
  <1>3. ASSUME NEW m \in S PROVE m + 1 \in S
    <2>1. m \in Nat /\ m + 1 \in Nat
      BY <1>1
    <2>2. PICK f : Reaches(f, m)
      BY <1>1
    <2>3. PICK d : d = ReachStep(f[m])
      OBVIOUS
    <2>4. d \in SUBSET Blocks
      <3>1. f[m] \in SUBSET Blocks
        BY <2>1, <2>2 DEF Reaches
      <3> QED BY <2>3, <3>1, StepIs
    <2>5. PICK h : h = [k \in 0..(m + 1) |-> IF k = m + 1 THEN d ELSE f[k]]
      OBVIOUS
    <2>6. h \in [0..(m + 1) -> SUBSET Blocks] /\ h[0] = {Root}
      BY <2>1, <2>2, <2>4, <2>5 DEF Reaches
    <2>7. ASSUME NEW k \in 1..(m + 1) PROVE h[k] = ReachStep(h[k - 1])
      <3>1. k - 1 \in 0..m /\ h[k - 1] = f[k - 1]
        BY <2>1, <2>5
      <3>2. CASE k = m + 1
        <4>1. k - 1 = m /\ h[k] = d
          BY <2>1, <2>5, <3>2
        <4> QED BY <2>3, <3>1, <4>1
      <3>3. CASE k # m + 1
        <4>1. k \in 1..m /\ h[k] = f[k]
          BY <2>1, <2>5, <3>3
        <4> QED BY <2>2, <3>1, <4>1 DEF Reaches
      <3> QED BY <3>2, <3>3
    <2>8. Reaches(h, m + 1)
      BY <2>6, <2>7 DEF Reaches
    <2> QED BY <1>1, <2>1, <2>8
  <1>4. S = Nat
    BY <1>1, <1>2, <1>3, SetInduction
  <1> QED BY <1>1, <1>4

\* The definition has such a function's last value.
LEMMA ReachableRuns ==
    ASSUME g \in Graphs
    PROVE  /\ Cardinality(Blocks) \in Nat
           /\ \E f : Reaches(f, Cardinality(Blocks)) /\ Reachable = f[Cardinality(Blocks)]
  <1>1. PICK n \in Nat : n = Cardinality(Blocks)
    BY QualityAssumption, FS_CardinalityType
  <1> DEFINE Is(r) == r = [k \in 0 .. n |-> IF k = 0 THEN {Root} ELSE ReachStep(r[k - 1])]
  <1>2. PICK f : Reaches(f, n)
    BY ReachExists
  <1>3. Is(f)
    <2>1. f = [k \in 0 .. n |-> f[k]]
      BY <1>2 DEF Reaches
    <2>2. \A k \in 0 .. n : f[k] = IF k = 0 THEN {Root} ELSE ReachStep(f[k - 1])
      BY <1>2 DEF Reaches
    <2> QED BY <2>1, <2>2
  <1>4. Reachable = (CHOOSE r : Is(r))[n]
    BY <1>1 DEF Reachable
  <1>5. PICK r : r = CHOOSE q : Is(q)
    OBVIOUS
  <1> HIDE DEF Is
  <1>6. Is(r)
    BY <1>3, <1>5
  <1>7. \A k \in 0 .. n : r[k] = IF k = 0 THEN {Root} ELSE ReachStep(r[k - 1])
    BY <1>6 DEF Is
  <1>8. PICK S : S = {m \in Nat : m <= n => r[m] = f[m]}
    OBVIOUS
  <1>9. 0 \in S
    <2>1. 0 \in 0 .. n
      OBVIOUS
    <2>2. r[0] = {Root}
      BY <1>7, <2>1
    <2>3. f[0] = {Root}
      BY <1>2 DEF Reaches
    <2> QED BY <1>8, <2>2, <2>3
  <1>10. ASSUME NEW m \in S PROVE m + 1 \in S
    <2>1. m \in Nat
      BY <1>8
    <2> SUFFICES ASSUME m + 1 <= n PROVE r[m + 1] = f[m + 1]
      BY <1>8, <2>1
    <2>2. r[m] = f[m]
      BY <1>8, <2>1
    <2>3. PICK k : k = m + 1
      OBVIOUS
    <2>4. k \in 0 .. n /\ k \in 1 .. n /\ k # 0 /\ k - 1 = m
      BY <2>1, <2>3
    <2>5. r[k] = ReachStep(r[m]) /\ f[k] = ReachStep(f[m])
      BY <1>2, <1>7, <2>4 DEF Reaches
    <2> QED BY <2>2, <2>3, <2>5
  <1>11. S = Nat
    BY <1>8, <1>9, <1>10, SetInduction
  <1>12. r[n] = f[n]
    BY <1>8, <1>11
  <1> QED BY <1>1, <1>2, <1>4, <1>5, <1>12

\* It is the least closed set: a step that adds nothing closes the set, and there are
\* not more blocks than steps.
LEMMA ReachableIs ==
    ASSUME g \in Graphs
    PROVE  /\ Reachable \in SUBSET Blocks /\ Closed(g, Reachable)
           /\ \A V \in SUBSET Blocks : Closed(g, V) => Reachable \subseteq V
  <1>1. PICK n \in Nat : n = Cardinality(Blocks)
    BY ReachableRuns
  <1>2. PICK f : Reaches(f, n) /\ Reachable = f[n]
    BY <1>1, ReachableRuns
  <1>3. \A m \in 0..n : f[m] \in SUBSET Blocks /\ IsFiniteSet(f[m]) /\ Cardinality(f[m]) \in Nat
                        /\ Cardinality(f[m]) <= n
    <2>1. \A m \in 0..n : f[m] \in SUBSET Blocks
      BY <1>2 DEF Reaches
    <2>2. IsFiniteSet(Blocks)
      BY QualityAssumption
    <2>3. \A V \in SUBSET Blocks : IsFiniteSet(V) /\ Cardinality(V) \in Nat /\ Cardinality(V) <= n
      BY <1>1, <2>2, FS_Subset, FS_CardinalityType
    <2> QED BY <2>1, <2>3
  <1>4. PICK S : S = {m \in Nat : m <= n =>
                        Root \in f[m] /\ (ReachStep(f[m]) = f[m] \/ Cardinality(f[m]) >= m + 1)}
    OBVIOUS
  <1>5. 0 \in S
    <2>1. f[0] = {Root} /\ Cardinality({Root}) = 1
      BY <1>2, FS_Singleton DEF Reaches
    <2> QED BY <1>4, <2>1
  <1>6. ASSUME NEW m \in S PROVE m + 1 \in S
    <2>1. m \in Nat /\ m + 1 \in Nat
      BY <1>4
    <2> SUFFICES ASSUME m + 1 <= n
                 PROVE  Root \in f[m + 1]
                        /\ (ReachStep(f[m + 1]) = f[m + 1] \/ Cardinality(f[m + 1]) >= (m + 1) + 1)
      BY <1>4, <2>1
    <2>2. PICK A, B : A = f[m] /\ B = f[m + 1]
      OBVIOUS
    <2>3. m \in 0..n /\ m + 1 \in 0..n /\ m + 1 \in 1..n /\ (m + 1) - 1 = m
      BY <2>1
    <2>4. B = ReachStep(A)
      BY <1>2, <2>2, <2>3 DEF Reaches
    <2>5. A \in SUBSET Blocks /\ Cardinality(A) \in Nat /\ IsFiniteSet(B) /\ Cardinality(B) \in Nat
      BY <1>3, <2>2, <2>3
    <2>6. A \subseteq B
      BY <2>4, <2>5, StepIs
    <2>7. Root \in A /\ (ReachStep(A) = A \/ Cardinality(A) >= m + 1)
      BY <1>4, <2>1, <2>2
    <2>8. CASE ReachStep(A) = A
      BY <2>2, <2>4, <2>6, <2>7, <2>8
    <2>9. CASE ReachStep(A) # A
      <3>1. A # B
        BY <2>4, <2>9
      <3>2. Cardinality(A) <= Cardinality(B) /\ (Cardinality(A) = Cardinality(B) => A = B)
        BY <2>5, <2>6, FS_Subset
      <3>3. Cardinality(B) >= (m + 1) + 1
        BY <2>1, <2>5, <2>7, <2>9, <3>1, <3>2
      <3> QED BY <2>2, <2>6, <2>7, <3>3
    <2> QED BY <2>8, <2>9
  <1>7. S = Nat
    BY <1>4, <1>5, <1>6, SetInduction
  <1>8. n \in 0..n
    OBVIOUS
  <1>9. f[n] \in SUBSET Blocks /\ Cardinality(f[n]) \in Nat /\ Cardinality(f[n]) <= n
    BY <1>3, <1>8
  <1>10. Root \in f[n] /\ ReachStep(f[n]) = f[n]
    BY <1>4, <1>7, <1>9
  <1>11. Closed(g, f[n])
    BY <1>9, <1>10, StepIs
  <1>12. ASSUME NEW V \in SUBSET Blocks, Closed(g, V) PROVE f[n] \subseteq V
    <2>1. PICK N : N = {m \in Nat : m <= n => f[m] \subseteq V}
      OBVIOUS
    <2>2. 0 \in N
      BY <1>2, <1>12, <2>1 DEF Reaches, Closed
    <2>3. ASSUME NEW m \in N PROVE m + 1 \in N
      <3>1. m \in Nat /\ m + 1 \in Nat
        BY <2>1
      <3> SUFFICES ASSUME m + 1 <= n PROVE f[m + 1] \subseteq V
        BY <2>1, <3>1
      <3>2. f[m] \subseteq V
        BY <2>1, <3>1
      <3>3. m \in 0..n /\ m + 1 \in 1..n /\ (m + 1) - 1 = m
        BY <3>1
      <3>4. f[m + 1] = ReachStep(f[m]) /\ f[m] \in SUBSET Blocks
        BY <1>2, <1>3, <3>3 DEF Reaches
      <3> QED BY <1>12, <3>2, <3>4, StepIs
    <2>4. N = Nat
      BY <2>1, <2>2, <2>3, SetInduction
    <2> QED BY <2>1, <2>4
  <1> QED BY <1>2, <1>9, <1>11, <1>12


-----------------------------------------------------------------------------
(* What the traversal knows of the edges it has handled. *)

FindingKinds == {"CycleDetected", "SharedChildReference", "MissingChildBlock",
                 "ChildLevelNotLowerThanParent", "EmbeddingSpecMismatch"}
FindingRecords == [kind : FindingKinds, block : Blocks, parent : Blocks]
DefectKinds == {"CycleDetected", "SharedChildReference", "MissingChildBlock"}
Defects(fs) == {i \in DOMAIN fs : fs[i].kind \in DefectKinds}

\* An edge is a block and the place of one of its entries.
EdgesOf(s, V) == {e \in V \X Nat : e[2] \in DOMAIN s.kids[e[1]]}
To(s, e) == s.kids[e[1]][e[2]]

\* Nothing is wrong with these edges.
NoneBad(s, H) ==
    \A e \in H :
        /\ To(s, e) # Root /\ To(s, e) \in s.stored
        /\ s.level[To(s, e)] < s.level[e[1]] /\ s.spec[To(s, e)] = s.spec[e[1]]
        /\ \A f \in H : To(s, f) = To(s, e) => f = e

\* The blocks entered are the root and the stored ends of the edges handled.
Entered(s, H, V) ==
    /\ V \in SUBSET s.stored /\ Root \in V /\ H \in SUBSET EdgesOf(s, V)
    /\ \A c \in V : c # Root => \E e \in H : To(s, e) = c
    /\ \A e \in H : To(s, e) \in s.stored => To(s, e) \in V
    /\ \A W \in SUBSET Blocks : Closed(s, W) => V \subseteq W

\* The counts agree with the edges handled and the blocks entered.
Counted(s, H, V, bl, kd, fs, ed) ==
    /\ bl \in Seq(Blocks) /\ kd \in [Blocks -> Seq(Blocks)] /\ ed \in Nat
    /\ IsFiniteSet(H) /\ ed = Cardinality(H) /\ Len(bl) = Cardinality(V)
    /\ Total([b \in Blocks |-> Len(kd[b])]) + 1 = Len(bl)
    /\ ed = Total([b \in Blocks |-> Len(kd[b])]) + Cardinality(Defects(fs))

\* There is a finding exactly when something is wrong.
Judged(s, H, fs) == fs \in Seq(FindingRecords) /\ (fs = <<>> <=> NoneBad(s, H))

\* Where an edge leads.
LEMMA EdgeIs ==
    ASSUME NEW s \in Graphs, NEW V \in SUBSET Blocks, NEW e \in EdgesOf(s, V)
    PROVE  e[1] \in V /\ e[1] \in Blocks /\ To(s, e) \in Blocks
  <1>1. s.kids \in [Blocks -> Seq(Blocks)]
    BY GraphIs
  <1>2. e[1] \in V /\ e[1] \in Blocks /\ e[2] \in DOMAIN s.kids[e[1]]
    BY DEF EdgesOf
  <1>3. s.kids[e[1]] \in Seq(Blocks)
    BY <1>1, <1>2
  <1>4. s.kids[e[1]][e[2]] \in Blocks
    BY <1>2, <1>3
  <1> QED BY <1>2, <1>4 DEF To

\* An edge with a defect leads to a block that was entered or is not stored.
LEMMA JudgedDefect ==
    ASSUME NEW s \in Graphs, NEW V \in SUBSET Blocks, NEW H, Entered(s, H, V),
           NEW fs, Judged(s, H, fs), NEW e \in EdgesOf(s, V), e \notin H,
           To(s, e) \in V \/ To(s, e) \notin s.stored, NEW d \in FindingRecords
    PROVE  Judged(s, H \cup {e}, Append(fs, d)) /\ Entered(s, H \cup {e}, V)
  <1>1. PICK K : K = H \cup {e}
    OBVIOUS
  <1>2. fs \in Seq(FindingRecords)
    BY DEF Judged
  <1>3. Append(fs, d) \in Seq(FindingRecords) /\ Append(fs, d) # <<>>
    BY <1>2
  <1>4. ~NoneBad(s, K)
    <2>1. CASE To(s, e) \notin s.stored
      BY <1>1, <2>1 DEF NoneBad
    <2>2. CASE To(s, e) = Root
      BY <1>1, <2>2 DEF NoneBad
    <2>3. CASE To(s, e) \in V /\ To(s, e) # Root
      <3>1. PICK f \in H : To(s, f) = To(s, e)
        BY <2>3 DEF Entered
      <3> QED BY <1>1, <3>1 DEF NoneBad
    <2> QED BY <2>1, <2>2, <2>3
  <1>5. Entered(s, K, V)
    BY <1>1 DEF Entered
  <1> QED BY <1>1, <1>3, <1>4, <1>5 DEF Judged

\* An edge without one enters its child; what is said of the child is about its level
\* and its spec.
LEMMA JudgedEntry ==
    ASSUME NEW s \in Graphs, NEW V \in SUBSET Blocks, NEW H, Entered(s, H, V),
           NEW fs, Judged(s, H, fs), NEW e \in EdgesOf(s, V), e \notin H,
           To(s, e) \notin V, To(s, e) \in s.stored, NEW X \in Seq(FindingRecords),
           X = <<>> <=> s.level[To(s, e)] < s.level[e[1]] /\ s.spec[To(s, e)] = s.spec[e[1]]
    PROVE  Judged(s, H \cup {e}, fs \o X) /\ Entered(s, H \cup {e}, V \cup {To(s, e)})
  <1>1. PICK K, c : K = H \cup {e} /\ c = To(s, e)
    OBVIOUS
  <1>2. fs \in Seq(FindingRecords)
    BY DEF Judged
  <1>3. fs \o X \in Seq(FindingRecords) /\ (fs \o X = <<>> <=> fs = <<>> /\ X = <<>>)
    <2>1. Len(fs \o X) = Len(fs) + Len(X) /\ Len(fs) \in Nat /\ Len(X) \in Nat
      BY <1>2
    <2>2. (fs = <<>> <=> Len(fs) = 0) /\ (X = <<>> <=> Len(X) = 0)
      BY <1>2
    <2>3. fs \o X \in Seq(FindingRecords)
      BY <1>2
    <2>4. fs \o X = <<>> <=> Len(fs \o X) = 0
      BY <2>3
    <2> QED BY <2>1, <2>2, <2>3, <2>4
  <1>4. \A f \in H : To(s, f) # c
    BY <1>1 DEF Entered
  <1>5. c # Root /\ c \in s.stored
    BY <1>1 DEF Entered
  <1>6. NoneBad(s, K) <=> NoneBad(s, H) /\ X = <<>>
    <2>1. ASSUME NoneBad(s, K) PROVE NoneBad(s, H) /\ X = <<>>
      BY <1>1, <2>1 DEF NoneBad
    <2>2. ASSUME NoneBad(s, H), X = <<>> PROVE NoneBad(s, K)
      <3>1. s.level[c] < s.level[e[1]] /\ s.spec[c] = s.spec[e[1]]
        BY <1>1, <2>2
      <3>2. ASSUME NEW a \in K
            PROVE  /\ To(s, a) # Root /\ To(s, a) \in s.stored
                   /\ s.level[To(s, a)] < s.level[a[1]] /\ s.spec[To(s, a)] = s.spec[a[1]]
        <4>1. CASE a \in H
          BY <2>2, <4>1 DEF NoneBad
        <4>2. CASE a = e
          BY <1>1, <1>5, <3>1, <4>2
        <4> QED BY <1>1, <4>1, <4>2
      <3>3. ASSUME NEW a \in K, NEW f \in K, To(s, f) = To(s, a) PROVE f = a
        <4>1. CASE a \in H /\ f \in H
          BY <2>2, <3>3, <4>1 DEF NoneBad
        <4>2. CASE a = e \/ f = e
          BY <1>1, <1>4, <3>3, <4>2
        <4> QED BY <1>1, <4>1, <4>2
      <3> QED BY <3>2, <3>3 DEF NoneBad
    <2> QED BY <2>1, <2>2
  <1>7. Entered(s, K, V \cup {c})
    <2>1. PICK U : U = V \cup {c}
      OBVIOUS
    <2>2. U \in SUBSET s.stored /\ Root \in U
      BY <1>5, <2>1 DEF Entered
    <2>3. K \in SUBSET EdgesOf(s, U)
      <3>1. EdgesOf(s, V) \subseteq EdgesOf(s, U)
        BY <2>1 DEF EdgesOf
      <3> QED BY <1>1, <3>1 DEF Entered
    <2>4. \A a \in U : a # Root => \E f \in K : To(s, f) = a
      BY <1>1, <2>1 DEF Entered
    <2>5. \A f \in K : To(s, f) \in s.stored => To(s, f) \in U
      BY <1>1, <2>1 DEF Entered
    <2>6. ASSUME NEW W \in SUBSET Blocks, Closed(s, W) PROVE U \subseteq W
      <3>1. V \subseteq W
        BY <2>6 DEF Entered
      <3>2. e[1] \in W /\ e[2] \in DOMAIN s.kids[e[1]]
        BY <3>1 DEF EdgesOf
      <3>3. s.kids[e[1]][e[2]] = c
        BY <1>1 DEF To
      <3>4. c \in W
        BY <1>5, <2>6, <3>2, <3>3 DEF Closed
      <3> QED BY <2>1, <3>1, <3>4
    <2>7. Entered(s, K, U)
      BY <2>2, <2>3, <2>4, <2>5, <2>6 DEF Entered
    <2> QED BY <2>1, <2>7
  <1> QED BY <1>1, <1>3, <1>6, <1>7 DEF Judged

\* The defects among the findings, when one is added and when others are.
LEMMA DefectsIs ==
    ASSUME NEW fs \in Seq(FindingRecords)
    PROVE  /\ IsFiniteSet(Defects(fs)) /\ Cardinality(Defects(fs)) \in Nat
           /\ \A d \in FindingRecords : d.kind \in DefectKinds =>
                 Cardinality(Defects(Append(fs, d))) = Cardinality(Defects(fs)) + 1
           /\ \A X \in Seq(FindingRecords) : Defects(X) = {} => Defects(fs \o X) = Defects(fs)
  <1>1. PICK n \in Nat : n = Len(fs) /\ DOMAIN fs = 1..n
    OBVIOUS
  <1>2. IsFiniteSet(Defects(fs))
    <2>1. IsFiniteSet(1..n)
      BY FS_Interval
    <2>2. Defects(fs) \in SUBSET (1..n)
      BY <1>1 DEF Defects
    <2> QED BY <2>1, <2>2, FS_Subset
  <1>3. ASSUME NEW d \in FindingRecords, d.kind \in DefectKinds
        PROVE  Cardinality(Defects(Append(fs, d))) = Cardinality(Defects(fs)) + 1
    <2>1. PICK r : r = Append(fs, d)
      OBVIOUS
    <2>2. DOMAIN r = 1..(n + 1) /\ (\A i \in 1..n : r[i] = fs[i]) /\ r[n + 1] = d
      BY <1>1, <2>1
    <2>3. n + 1 \notin Defects(fs)
      BY <1>1 DEF Defects
    <2>4. Defects(r) = Defects(fs) \cup {n + 1}
      <3>1. \A i \in 1..n : i \in Defects(r) <=> i \in Defects(fs)
        BY <1>1, <2>2 DEF Defects
      <3>2. n + 1 \in Defects(r)
        BY <1>3, <2>2 DEF Defects
      <3>3. Defects(r) \subseteq 1..(n + 1) /\ Defects(fs) \subseteq 1..n
        BY <1>1, <2>2 DEF Defects
      <3>4. \A i \in 1..(n + 1) : i \in 1..n \/ i = n + 1
        OBVIOUS
      <3> QED BY <3>1, <3>2, <3>3, <3>4
    <2> QED BY <1>2, <2>1, <2>3, <2>4, FS_AddElement
  <1>4. ASSUME NEW X \in Seq(FindingRecords), Defects(X) = {} PROVE Defects(fs \o X) = Defects(fs)
    <2>1. PICK m \in Nat : m = Len(X) /\ DOMAIN X = 1..m
      OBVIOUS
    <2>2. PICK r : r = fs \o X
      OBVIOUS
    <2>3. /\ DOMAIN r = 1..(n + m) /\ (\A i \in 1..n : r[i] = fs[i])
          /\ \A i \in 1..(n + m) : i > n => r[i] = X[i - n]
      BY <1>1, <2>1, <2>2
    <2>4. \A i \in 1..(n + m) : i > n => i \notin Defects(r)
      <3>1. ASSUME NEW i \in 1..(n + m), i > n PROVE i \notin Defects(r)
        <4>1. i - n \in DOMAIN X /\ r[i] = X[i - n]
          BY <2>1, <2>3, <3>1
        <4> QED BY <1>4, <4>1 DEF Defects
      <3> QED BY <3>1
    <2>5. \A i \in 1..n : i \in Defects(r) <=> i \in Defects(fs)
      BY <1>1, <2>3 DEF Defects
    <2>6. Defects(r) \subseteq 1..(n + m) /\ Defects(fs) \subseteq 1..n
      BY <1>1, <2>3 DEF Defects
    <2>7. \A i \in 1..(n + m) : i \in 1..n \/ i > n
      OBVIOUS
    <2> QED BY <2>2, <2>4, <2>5, <2>6, <2>7
  <1> QED BY <1>2, <1>3, <1>4, FS_CardinalityType

\* An edge with a defect is counted with its finding.
LEMMA CountedDefect ==
    ASSUME NEW s, NEW H, NEW V, NEW bl, NEW kd, NEW fs \in Seq(FindingRecords), NEW ed,
           Counted(s, H, V, bl, kd, fs, ed), NEW e, e \notin H,
           NEW d \in FindingRecords, d.kind \in DefectKinds
    PROVE  Counted(s, H \cup {e}, V, bl, kd, Append(fs, d), ed + 1)
  <1>1. PICK n : n = Total([b \in Blocks |-> Len(kd[b])])
    OBVIOUS
  <1>2. PICK k : k = Cardinality(Defects(fs))
    OBVIOUS
  <1>3. k \in Nat /\ Cardinality(Defects(Append(fs, d))) = k + 1
    BY <1>2, DefectsIs
  <1>4. IsFiniteSet(H) /\ Cardinality(H) \in Nat
    BY FS_CardinalityType DEF Counted
  <1>5. IsFiniteSet(H \cup {e}) /\ Cardinality(H \cup {e}) = Cardinality(H) + 1
    BY <1>4, FS_AddElement
  <1>6. bl \in Seq(Blocks) /\ kd \in [Blocks -> Seq(Blocks)] /\ ed \in Nat
    BY DEF Counted
  <1>7. ed = Cardinality(H) /\ Len(bl) = Cardinality(V) /\ n + 1 = Len(bl) /\ ed = n + k
    BY <1>1, <1>2 DEF Counted
  <1>8. n \in Nat
    <2>1. PICK h : h = [b \in Blocks |-> Len(kd[b])]
      OBVIOUS
    <2>2. h \in [Blocks -> Nat]
      BY <1>6, <2>1
    <2>3. IsFiniteSet(Blocks)
      BY QualityAssumption
    <2>4. Total(h) \in Nat
      BY <2>2, <2>3, TotalParts
    <2> QED BY <1>1, <2>1, <2>4
  <1>9. ed + 1 \in Nat /\ ed + 1 = Cardinality(H \cup {e}) /\ ed + 1 = n + (k + 1)
    BY <1>3, <1>4, <1>5, <1>6, <1>7, <1>8
  <1> QED BY <1>1, <1>3, <1>5, <1>6, <1>7, <1>9 DEF Counted

\* An edge that enters its child is counted with the child.
LEMMA CountedEntry ==
    ASSUME NEW s, NEW H, NEW V \in SUBSET Blocks, NEW bl, NEW kd, NEW fs \in Seq(FindingRecords),
           NEW ed, Counted(s, H, V, bl, kd, fs, ed), NEW e, e \notin H,
           NEW c \in Blocks, c \notin V, NEW p \in Blocks,
           NEW X \in Seq(FindingRecords), Defects(X) = {}
    PROVE  Counted(s, H \cup {e}, V \cup {c}, Append(bl, c), [kd EXCEPT ![p] = Append(@, c)],
                   fs \o X, ed + 1)
  <1>1. PICK h : h = [b \in Blocks |-> Len(kd[b])]
    OBVIOUS
  <1>2. PICK kn : kn = [kd EXCEPT ![p] = Append(@, c)]
    OBVIOUS
  <1>3. PICK j : j = [b \in Blocks |-> Len(kn[b])]
    OBVIOUS
  <1>4. PICK k : k = Cardinality(Defects(fs))
    OBVIOUS
  <1>5. k \in Nat /\ Cardinality(Defects(fs \o X)) = k
    BY <1>4, DefectsIs
  <1>6. IsFiniteSet(Blocks)
    BY QualityAssumption
  <1>7. IsFiniteSet(H) /\ Cardinality(H) \in Nat /\ IsFiniteSet(V) /\ Cardinality(V) \in Nat
    BY <1>6, FS_Subset, FS_CardinalityType DEF Counted
  <1>8. /\ IsFiniteSet(H \cup {e}) /\ Cardinality(H \cup {e}) = Cardinality(H) + 1
        /\ Cardinality(V \cup {c}) = Cardinality(V) + 1
    BY <1>7, FS_AddElement
  <1>9. bl \in Seq(Blocks) /\ kd \in [Blocks -> Seq(Blocks)] /\ ed \in Nat
    BY DEF Counted
  <1>10. Append(bl, c) \in Seq(Blocks) /\ Len(Append(bl, c)) = Len(bl) + 1 /\ Len(bl) \in Nat
    BY <1>9
  <1>11. kn \in [Blocks -> Seq(Blocks)] /\ kn[p] = Append(kd[p], c) /\ \A b \in Blocks : b # p => kn[b] = kd[b]
    <2>1. kd[p] \in Seq(Blocks) /\ Append(kd[p], c) \in Seq(Blocks)
      BY <1>9
    <2> QED BY <1>2, <1>9, <2>1
  <1>12. h \in [Blocks -> Nat] /\ j \in [Blocks -> Nat]
    <2>1. \A b \in Blocks : Len(kd[b]) \in Nat
      BY <1>9
    <2>2. \A b \in Blocks : Len(kn[b]) \in Nat
      BY <1>11
    <2>3. h \in [Blocks -> Nat]
      BY <1>1, <2>1
    <2> QED BY <1>3, <2>2, <2>3
  <1>13. j[p] = h[p] + 1 /\ \A b \in Blocks : b # p => j[b] = h[b]
    <2>1. kd[p] \in Seq(Blocks)
      BY <1>9
    <2>2. Len(Append(kd[p], c)) = Len(kd[p]) + 1
      BY <2>1
    <2> QED BY <1>1, <1>3, <1>11, <2>2
  <1>14. Total(j) + h[p] = Total(h) + j[p]
    <2>1. Bumps(h, j, Blocks, p)
      BY <1>6, <1>12, <1>13 DEF Bumps
    <2> QED BY <2>1, TotalBump
  <1>15. Total(j) \in Nat /\ Total(h) \in Nat
    BY <1>6, <1>12, TotalParts
  <1>16. h[p] \in Nat
    BY <1>12
  <1>17. Total(j) = Total(h) + 1
    BY <1>13, <1>14, <1>15, <1>16
  <1>18. ed = Cardinality(H) /\ Len(bl) = Cardinality(V) /\ Total(h) + 1 = Len(bl) /\ ed = Total(h) + k
    BY <1>1, <1>4 DEF Counted
  <1>19. /\ ed + 1 \in Nat /\ ed + 1 = Cardinality(H \cup {e})
         /\ Len(Append(bl, c)) = Cardinality(V \cup {c})
         /\ Total(j) + 1 = Len(Append(bl, c)) /\ ed + 1 = Total(j) + k
    <2>1. PICK x, y, z : x = Cardinality(H \cup {e}) /\ y = Cardinality(V \cup {c}) /\ z = Len(Append(bl, c))
      OBVIOUS
    <2>2. x = ed + 1 /\ y = Len(bl) + 1 /\ z = Len(bl) + 1
      BY <1>8, <1>10, <1>18, <2>1
    <2>3. Total(j) + 1 = z
      BY <1>15, <1>17, <1>18, <2>2
    <2>4. ed + 1 = Total(j) + k
      BY <1>5, <1>15, <1>17, <1>18
    <2> QED BY <1>9, <2>1, <2>2, <2>3, <2>4
  <1> QED BY <1>2, <1>3, <1>5, <1>8, <1>10, <1>11, <1>19 DEF Counted

-----------------------------------------------------------------------------
(* The recursion's frames say which edges are handled. *)

FrameRecords == [b : Blocks, i : Nat \ {0}]

\* Each block is being read once, and each was entered.
Framed(st, V) ==
    /\ st \in Seq(FrameRecords)
    /\ \A j \in DOMAIN st : st[j].b \in V
    /\ \A j, k \in DOMAIN st : st[j].b = st[k].b => j = k

\* All edges of the blocks entered, but those a frame has not come to.
Handled(s, st, V) ==
    {e \in EdgesOf(s, V) : \A j \in DOMAIN st : st[j].b = e[1] => e[2] < st[j].i}

\* e is the edge the last frame is at, nx the frames past it.
AtEntry(s, V, st, n, e, nx) ==
    /\ s \in Graphs /\ V \in SUBSET Blocks /\ Framed(st, V)
    /\ n \in Nat /\ n # 0 /\ n = Len(st) /\ st[n].i <= Len(s.kids[st[n].b])
    /\ e = <<st[n].b, st[n].i>> /\ nx = [st EXCEPT ![n].i = @ + 1]

\* The next entry of the last frame.
LEMMA FrameNext ==
    ASSUME NEW s, NEW V, NEW st, NEW n, NEW e, NEW nx, AtEntry(s, V, st, n, e, nx)
    PROVE  /\ e \in EdgesOf(s, V) /\ e \notin Handled(s, st, V)
           /\ Framed(nx, V) /\ Handled(s, nx, V) = Handled(s, st, V) \cup {e}
           /\ Len(nx) = n
  <1> USE DEF AtEntry
  <1>1. PICK p, i : p = st[n].b /\ i = st[n].i
    OBVIOUS
  <1>2. st \in Seq(FrameRecords) /\ n \in DOMAIN st /\ DOMAIN st = 1..n
    BY DEF Framed
  <1>3. p \in V /\ p \in Blocks /\ i \in Nat /\ i # 0
    <2>1. st[n] \in FrameRecords
      BY <1>2
    <2> QED BY <1>1, <1>2, <2>1 DEF FrameRecords, Framed
  <1>4. e = <<p, i>> /\ e[1] = p /\ e[2] = i
    BY <1>1
  <1>5. i \in DOMAIN s.kids[p]
    <2>1. s.kids[p] \in Seq(Blocks)
      BY <1>3, GraphIs
    <2> QED BY <1>1, <1>3, <2>1
  <1>6. e \in EdgesOf(s, V)
    BY <1>3, <1>4, <1>5 DEF EdgesOf
  <1>7. e \notin Handled(s, st, V)
    <2>1. ~(i < i)
      BY <1>3
    <2> QED BY <1>1, <1>2, <1>4, <2>1 DEF Handled
  <1>8. /\ nx \in Seq(FrameRecords) /\ DOMAIN nx = 1..n /\ Len(nx) = n
        /\ nx[n].b = p /\ nx[n].i = i + 1 /\ \A j \in 1..n : j # n => nx[j] = st[j]
    <2>1. PICK r : r = [st[n] EXCEPT !.i = @ + 1]
      OBVIOUS
    <2>2. st[n] \in FrameRecords
      BY <1>2
    <2>3. r \in FrameRecords /\ r.b = p /\ r.i = i + 1
      BY <1>1, <1>3, <2>1, <2>2 DEF FrameRecords
    <2>4. nx = [st EXCEPT ![n] = r]
      BY <1>2, <2>1
    <2>5. nx \in Seq(FrameRecords) /\ DOMAIN nx = 1..n /\ Len(nx) = n
      BY <1>2, <2>3, <2>4
    <2> QED BY <1>2, <2>3, <2>4, <2>5
  <1>9. \A j \in 1..n : nx[j].b = st[j].b
    BY <1>1, <1>8
  <1>10. Framed(nx, V)
    BY <1>2, <1>8, <1>9 DEF Framed
  <1>11. ASSUME NEW a \in EdgesOf(s, V) PROVE a \in Handled(s, nx, V) <=> a \in Handled(s, st, V) \/ a = e
    <2>1. a[2] \in Nat /\ a = <<a[1], a[2]>>
      BY DEF EdgesOf
    <2>2. CASE a[1] # p
      <3>1. \A j \in 1..n : (nx[j].b = a[1] => a[2] < nx[j].i) <=> (st[j].b = a[1] => a[2] < st[j].i)
        BY <1>1, <1>8, <2>2
      <3>2. a # e
        BY <1>4, <2>2
      <3> QED BY <1>2, <1>8, <3>1, <3>2 DEF Handled
    <2>3. CASE a[1] = p
      <3>1. \A j \in 1..n : st[j].b = p => j = n
        BY <1>1, <1>2 DEF Framed
      <3>2. a \in Handled(s, nx, V) <=> a[2] < i + 1
        <4>1. \A j \in 1..n : nx[j].b = a[1] => j = n
          BY <1>9, <2>3, <3>1
        <4>2. n \in 1..n /\ nx[n].b = a[1] /\ nx[n].i = i + 1
          BY <1>2, <1>8, <2>3
        <4>3. a \in Handled(s, nx, V) <=> \A j \in 1..n : nx[j].b = a[1] => a[2] < nx[j].i
          BY <1>8 DEF Handled
        <4> QED BY <4>1, <4>2, <4>3
      <3>3. a \in Handled(s, st, V) <=> a[2] < i
        BY <1>1, <1>2, <2>3, <3>1 DEF Handled
      <3>4. a = e <=> a[2] = i
        BY <1>4, <2>1, <2>3
      <3> QED BY <1>3, <2>1, <3>2, <3>3, <3>4
    <2> QED BY <2>2, <2>3
  <1>12. Handled(s, nx, V) = Handled(s, st, V) \cup {e}
    <2>1. Handled(s, nx, V) \subseteq EdgesOf(s, V) /\ Handled(s, st, V) \subseteq EdgesOf(s, V)
      BY DEF Handled
    <2> QED BY <1>6, <1>11, <2>1
  <1> QED BY <1>6, <1>7, <1>8, <1>10, <1>12

\* The frames with one for c.
Down(nx, st, c) == nx = Append(st, [b |-> c, i |-> 1])

\* A new frame.
LEMMA FrameEnter ==
    ASSUME NEW s \in Graphs, NEW V \in SUBSET Blocks, NEW st, Framed(st, V),
           NEW c \in Blocks, c \notin V, NEW nx, Down(nx, st, c)
    PROVE  Framed(nx, V \cup {c}) /\ Handled(s, nx, V \cup {c}) = Handled(s, st, V) /\ nx # <<>>
  <1>1. PICK n \in Nat : n = Len(st) /\ DOMAIN st = 1..n
    BY DEF Framed
  <1>2. PICK U : U = V \cup {c}
    OBVIOUS
  <1>3. PICK r : r = [b |-> c, i |-> 1] /\ nx = Append(st, r)
    BY DEF Down
  <1>4. r \in FrameRecords /\ r.b = c /\ r.i = 1
    BY <1>3 DEF FrameRecords
  <1>5. st \in Seq(FrameRecords)
    BY DEF Framed
  <1>6. /\ nx \in Seq(FrameRecords) /\ DOMAIN nx = 1..(n + 1) /\ nx # <<>>
        /\ nx[n + 1] = r /\ \A j \in 1..n : nx[j] = st[j]
    BY <1>1, <1>3, <1>4, <1>5
  <1>7. \A j \in 1..(n + 1) : j \in 1..n \/ j = n + 1
    OBVIOUS
  <1>8. \A j \in 1..n : j \in 1..(n + 1) /\ nx[j].b \in V /\ nx[j].b # c
    BY <1>1, <1>6 DEF Framed
  <1>9. Framed(nx, U)
    <2>1. \A j \in 1..(n + 1) : nx[j].b \in U
      BY <1>2, <1>4, <1>6, <1>7, <1>8
    <2>2. ASSUME NEW j \in 1..(n + 1), NEW k \in 1..(n + 1), nx[j].b = nx[k].b PROVE j = k
      <3>1. CASE j \in 1..n /\ k \in 1..n
        BY <1>1, <1>6, <2>2, <3>1 DEF Framed
      <3>2. CASE j = n + 1 \/ k = n + 1
        BY <1>4, <1>6, <1>7, <1>8, <2>2, <3>2
      <3> QED BY <1>7, <3>1, <3>2
    <2> QED BY <1>6, <2>1, <2>2 DEF Framed
  <1>10. ASSUME NEW a \in EdgesOf(s, U) PROVE a \in Handled(s, nx, U) <=> a \in Handled(s, st, V)
    <2>1. CASE a[1] = c
      <3>1. s.kids[c] \in Seq(Blocks)
        BY GraphIs
      <3>2. a[2] \in Nat /\ ~(a[2] < 1)
        BY <2>1, <3>1 DEF EdgesOf
      <3>3. a \notin Handled(s, nx, U)
        <4>1. n + 1 \in DOMAIN nx /\ nx[n + 1].b = a[1] /\ nx[n + 1].i = 1
          BY <1>4, <1>6, <2>1
        <4> QED BY <3>2, <4>1 DEF Handled
      <3>4. a \notin Handled(s, st, V)
        BY <2>1 DEF Handled, EdgesOf
      <3> QED BY <3>3, <3>4
    <2>2. CASE a[1] # c
      <3>1. a \in EdgesOf(s, V)
        BY <1>2, <2>2 DEF EdgesOf
      <3>2. (\A j \in 1..(n + 1) : nx[j].b = a[1] => a[2] < nx[j].i)
            <=> (\A j \in 1..n : st[j].b = a[1] => a[2] < st[j].i)
        <4>1. nx[n + 1].b # a[1]
          BY <1>4, <1>6, <2>2
        <4> QED BY <1>6, <1>7, <1>8, <4>1
      <3> QED BY <1>1, <1>6, <3>1, <3>2 DEF Handled
    <2> QED BY <2>1, <2>2
  <1>11. Handled(s, nx, U) = Handled(s, st, V)
    <2>1. Handled(s, nx, U) \subseteq EdgesOf(s, U) /\ Handled(s, st, V) \subseteq EdgesOf(s, V)
      BY DEF Handled
    <2>2. EdgesOf(s, V) \subseteq EdgesOf(s, U)
      BY <1>2 DEF EdgesOf
    <2> QED BY <1>10, <2>1, <2>2
  <1> QED BY <1>2, <1>6, <1>9, <1>11

\* A frame at its end is removed.
LEMMA FrameLeave ==
    ASSUME NEW s \in Graphs, NEW V \in SUBSET Blocks, NEW st, Framed(st, V), st # <<>>,
           ~(Last(st).i <= Len(s.kids[Last(st).b])), NEW nx, nx = Front(st)
    PROVE  /\ Framed(nx, V) /\ Handled(s, nx, V) = Handled(s, st, V)
           /\ nx = <<>> <=> Len(st) = 1
  <1>1. PICK n \in Nat : n = Len(st) /\ DOMAIN st = 1..n
    BY DEF Framed
  <1>2. st \in Seq(FrameRecords)
    BY DEF Framed
  <1>3. n # 0
    BY <1>1, <1>2
  <1>4. Last(st) = st[n] /\ nx = SubSeq(st, 1, n - 1)
    BY <1>1 DEF Last, Front
  <1>5. /\ nx \in Seq(FrameRecords) /\ DOMAIN nx = 1..(n - 1) /\ Len(nx) = n - 1
        /\ \A j \in 1..(n - 1) : nx[j] = st[j]
    BY <1>1, <1>2, <1>3, <1>4
  <1>6. \A j \in 1..(n - 1) : j \in 1..n
    BY <1>3
  <1>7. Framed(nx, V)
    <2>1. \A j \in 1..(n - 1) : nx[j].b \in V
      BY <1>1, <1>5, <1>6 DEF Framed
    <2>2. \A j, k \in 1..n : st[j].b = st[k].b => j = k
      BY <1>1 DEF Framed
    <2>3. \A j, k \in 1..(n - 1) : nx[j].b = nx[k].b => j = k
      BY <1>5, <1>6, <2>2
    <2> QED BY <1>5, <2>1, <2>3 DEF Framed
  <1>8. nx = <<>> <=> Len(st) = 1
    BY <1>1, <1>3, <1>5
  <1>9. ASSUME NEW a \in EdgesOf(s, V) PROVE a \in Handled(s, nx, V) <=> a \in Handled(s, st, V)
    <2>1. \A j \in 1..n : j \in 1..(n - 1) \/ j = n
      BY <1>3
    <2>2. st[n].b = a[1] => a[2] < st[n].i
      <3> SUFFICES ASSUME st[n].b = a[1] PROVE a[2] < st[n].i
        OBVIOUS
      <3>1. a[1] \in Blocks /\ a[2] \in Nat /\ a[2] \in DOMAIN s.kids[a[1]]
        BY DEF EdgesOf
      <3>2. s.kids[a[1]] \in Seq(Blocks)
        BY <3>1, GraphIs
      <3>3. a[2] <= Len(s.kids[a[1]]) /\ Len(s.kids[a[1]]) \in Nat
        BY <3>1, <3>2
      <3>4. st[n] \in FrameRecords
        BY <1>1, <1>2, <1>3
      <3>5. st[n].i \in Nat
        BY <3>4 DEF FrameRecords
      <3> QED BY <1>4, <3>1, <3>3, <3>5
    <2> QED BY <1>1, <1>5, <1>6, <2>1, <2>2 DEF Handled
  <1>10. Handled(s, nx, V) = Handled(s, st, V)
    <2>1. Handled(s, nx, V) \subseteq EdgesOf(s, V) /\ Handled(s, st, V) \subseteq EdgesOf(s, V)
      BY DEF Handled
    <2> QED BY <1>9, <2>1
  <1> QED BY <1>7, <1>8, <1>10

-----------------------------------------------------------------------------
(* The steps of the traversal. *)

Fields == {"blocks", "findings", "kids", "visited", "sample", "corpus", "zero", "edges", "depth"}

\* What is said of a block that is entered; p is empty for the root.
Said(b, p) == IF p = <<>> THEN <<>> ELSE EntryFindings(b, p[1])

\* r is the record s after a block is entered.
Enters(r, s, b, p, d) == DOMAIN s = Fields /\ r = EnterBlock(s, b, p, d)

\* What entering a block changes of what the report is made of.
LEMMA EnterIs ==
    ASSUME NEW s, NEW b, NEW p, NEW d, NEW r, Enters(r, s, b, p, d)
    PROVE  /\ DOMAIN r = Fields /\ r.visited = s.visited \cup {b} /\ r.blocks = Append(s.blocks, b)
           /\ r.findings = s.findings \o Said(b, p)
           /\ r.kids = s.kids /\ r.edges = s.edges
  <1> USE DEF Enters
  <1>1. PICK x, v, l, n : /\ x = Max({s.depth, d}) /\ v = s.visited \cup {b}
                          /\ l = Append(s.blocks, b)
                          /\ n = s.findings \o Said(b, p)
    OBVIOUS
  <1>2. PICK q : q = [s EXCEPT !.depth = x, !.visited = v, !.blocks = l, !.findings = n]
    OBVIOUS
  <1>3. /\ DOMAIN q = Fields /\ q.visited = v /\ q.blocks = l /\ q.findings = n
        /\ q.kids = s.kids /\ q.edges = s.edges
    BY <1>2 DEF Fields
  <1>4. r = IF g.leaf[b] THEN CollectCorpusEntries(q, b) ELSE q
    BY <1>1, <1>2 DEF EnterBlock, Said
  <1>5. PICK a, z, m : r = IF g.leaf[b] THEN [q EXCEPT !.corpus = a, !.zero = z, !.sample = m] ELSE q
    <2>1. PICK a, z, m : /\ a = q.corpus + Len(Usable(b)) /\ z = (q.zero \/ 0 \in Range(LeafVals(b)))
                         /\ m = FoldLeft(PushBoundedSample, q.sample, Usable(b))
      OBVIOUS
    <2>2. CollectCorpusEntries(q, b) = [q EXCEPT !.corpus = a, !.zero = z, !.sample = m]
      BY <2>1 DEF CollectCorpusEntries
    <2> QED BY <1>4, <2>2
  <1>6. /\ DOMAIN r = Fields /\ r.visited = q.visited /\ r.blocks = q.blocks
        /\ r.findings = q.findings /\ r.kids = q.kids /\ r.edges = q.edges
    BY <1>3, <1>5 DEF Fields
  <1> QED BY <1>1, <1>3, <1>6

\* What is said of a block when it is entered.
LEMMA EntryFindingsIs ==
    ASSUME g \in Graphs, NEW b \in Blocks, NEW p \in Blocks
    PROVE  /\ EntryFindings(b, p) \in Seq(FindingRecords) /\ Defects(EntryFindings(b, p)) = {}
           /\ EntryFindings(b, p) = <<>> <=> g.level[b] < g.level[p] /\ g.spec[b] = g.spec[p]
  <1>1. PICK x, y : /\ x = Finding("ChildLevelNotLowerThanParent", b, p)
                    /\ y = Finding("EmbeddingSpecMismatch", b, p)
    OBVIOUS
  <1>2. x \in FindingRecords /\ y \in FindingRecords /\ x.kind \notin DefectKinds /\ y.kind \notin DefectKinds
    <2>1. x.kind = "ChildLevelNotLowerThanParent" /\ y.kind = "EmbeddingSpecMismatch"
      BY <1>1 DEF Finding
    <2>2. x \in FindingRecords
      BY <1>1 DEF Finding, FindingRecords, FindingKinds
    <2>3. y \in FindingRecords
      BY <1>1 DEF Finding, FindingRecords, FindingKinds
    <2> QED BY <2>1, <2>2, <2>3 DEF DefectKinds, FindingKinds
  <1>3. g.level[b] \in Nat /\ g.level[p] \in Nat
    BY GraphIs
  <1>4. PICK X, Y : /\ X = IF g.level[b] >= g.level[p] THEN <<x>> ELSE <<>>
                    /\ Y = IF g.spec[b] # g.spec[p] THEN <<y>> ELSE <<>>
    OBVIOUS
  <1>5. EntryFindings(b, p) = X \o Y
    BY <1>1, <1>4 DEF EntryFindings
  <1>6. X \in Seq(FindingRecords) /\ Y \in Seq(FindingRecords)
    BY <1>2, <1>4
  <1>7. Defects(X) = {} /\ Defects(Y) = {}
    BY <1>2, <1>4 DEF Defects
  <1>8. X \o Y \in Seq(FindingRecords)
    BY <1>6
  <1>9. Defects(X \o Y) = {}
    BY <1>6, <1>7, DefectsIs
  <1>10. X \o Y = <<>> <=> X = <<>> /\ Y = <<>>
    <2>1. Len(X \o Y) = Len(X) + Len(Y) /\ Len(X) \in Nat /\ Len(Y) \in Nat
      BY <1>6
    <2>2. (X = <<>> <=> Len(X) = 0) /\ (Y = <<>> <=> Len(Y) = 0)
      BY <1>6
    <2>3. X \o Y = <<>> <=> Len(X \o Y) = 0
      BY <1>8
    <2> QED BY <2>1, <2>2, <2>3
  <1>11. (X = <<>> <=> g.level[b] < g.level[p]) /\ (Y = <<>> <=> g.spec[b] = g.spec[p])
    BY <1>3, <1>4
  <1> QED BY <1>5, <1>8, <1>9, <1>10, <1>11

\* The traversal's record is about the edges its frames have come past.
Ledger(s, st, tr) ==
    /\ DOMAIN tr = Fields /\ tr.visited \in SUBSET Blocks /\ Framed(st, tr.visited)
    /\ Entered(s, Handled(s, st, tr.visited), tr.visited)
    /\ Counted(s, Handled(s, st, tr.visited), tr.visited, tr.blocks, tr.kids, tr.findings, tr.edges)
    /\ Judged(s, Handled(s, st, tr.visited), tr.findings)

\* The frames and the record after the entry at hand.
Past(nx) == nx = [stack EXCEPT ![Len(stack)].i = @ + 1]
Refuted(tr) ==
    tr = [[t EXCEPT !.edges = @ + CountEdge(Child)] EXCEPT
             !.findings = Append(@, Finding(EdgeDefect(Child), Child, Frame.b))]
Followed(tr) ==
    tr = EnterBlock([[t EXCEPT !.edges = @ + CountEdge(Child)] EXCEPT
                        !.kids[Frame.b] = Append(@, Child)],
                    Child, <<Frame.b>>, Len(stack))

\* The edge at hand is the next one.
LEMMA EdgeAtHand ==
    ASSUME g \in Graphs, Ledger(g, stack, t), HasEntry,
           NEW nx, Past(nx)
    PROVE  LET V == t.visited
               H == Handled(g, stack, V)
           IN  /\ Frame.b \in V /\ Frame.b \in Blocks /\ Child \in Blocks
               /\ nx # <<>> /\ Framed(nx, V)
               /\ \E e \in EdgesOf(g, V) : /\ e \notin H /\ e[1] = Frame.b /\ To(g, e) = Child
                                           /\ Handled(g, nx, V) = H \cup {e}
  <1>1. PICK V, H : V = t.visited /\ H = Handled(g, stack, V)
    OBVIOUS
  <1>2. V \in SUBSET Blocks /\ Framed(stack, V) /\ stack \in Seq(FrameRecords) /\ stack # <<>>
    BY <1>1 DEF Ledger, Framed, HasEntry
  <1>3. PICK n \in Nat : n = Len(stack) /\ n # 0
    BY <1>2
  <1>4. Frame = stack[n] /\ stack[n].i <= Len(g.kids[stack[n].b])
    BY <1>3 DEF Frame, Last, HasEntry
  <1>5. PICK e : e = <<stack[n].b, stack[n].i>>
    OBVIOUS
  <1>6. nx = [stack EXCEPT ![n].i = @ + 1]
    BY <1>3 DEF Past
  <1>7. /\ e \in EdgesOf(g, V) /\ e \notin H
        /\ Framed(nx, V) /\ Handled(g, nx, V) = H \cup {e} /\ Len(nx) = n
    <2>1. AtEntry(g, V, stack, n, e, nx)
      BY <1>2, <1>3, <1>4, <1>5, <1>6 DEF AtEntry
    <2> QED BY <1>1, <2>1, FrameNext
  <1>8. e[1] = Frame.b /\ To(g, e) = Child
    BY <1>4, <1>5 DEF To, Child
  <1>9. e[1] \in V /\ e[1] \in Blocks /\ To(g, e) \in Blocks
    BY <1>2, <1>7, EdgeIs
  <1>10. nx # <<>>
    <2>1. nx \in Seq(FrameRecords)
      BY <1>7 DEF Framed
    <2> QED BY <1>3, <1>7, <2>1
  <1> QED BY <1>1, <1>7, <1>8, <1>9, <1>10

\* What the test of an edge says.
LEMMA EdgeDefectIs ==
    ASSUME Ledger(g, stack, t), NEW c \in Blocks
    PROVE  /\ EdgeDefect(c) = "none" <=> c \notin t.visited /\ c \in g.stored
           /\ EdgeDefect(c) # "none" => EdgeDefect(c) \in DefectKinds /\ EdgeDefect(c) \in FindingKinds
  <1>1. Ancestry \subseteq t.visited
    BY DEF Ledger, Framed, Ancestry
  <1>2. CASE c \in Ancestry
    <2>1. EdgeDefect(c) = "CycleDetected"
      BY <1>2 DEF EdgeDefect
    <2> QED BY <1>1, <1>2, <2>1 DEF DefectKinds, FindingKinds
  <1>3. CASE c \notin Ancestry /\ c \in t.visited
    <2>1. EdgeDefect(c) = "SharedChildReference"
      BY <1>3 DEF EdgeDefect
    <2> QED BY <1>3, <2>1 DEF DefectKinds, FindingKinds
  <1>4. CASE c \notin t.visited /\ c \notin g.stored
    <2>1. EdgeDefect(c) = "MissingChildBlock"
      BY <1>1, <1>4 DEF EdgeDefect
    <2> QED BY <1>4, <2>1 DEF DefectKinds, FindingKinds
  <1>5. CASE c \notin t.visited /\ c \in g.stored
    <2>1. EdgeDefect(c) = "none"
      BY <1>1, <1>5 DEF EdgeDefect
    <2> QED BY <1>5, <2>1
  <1> QED BY <1>2, <1>3, <1>4, <1>5

\* The step that records a defect.
LEMMA LedgerDefect ==
    ASSUME g \in Graphs, Ledger(g, stack, t), HasEntry, EdgeDefect(Child) # "none",
           NEW nx, Past(nx),
           NEW tr, Refuted(tr)
    PROVE  Ledger(g, nx, tr)
  <1>1. PICK V, H : V = t.visited /\ H = Handled(g, stack, V)
    OBVIOUS
  <1>2. /\ V \in SUBSET Blocks /\ DOMAIN t = Fields /\ Entered(g, H, V) /\ Judged(g, H, t.findings)
        /\ Counted(g, H, V, t.blocks, t.kids, t.findings, t.edges)
    BY <1>1 DEF Ledger
  <1>3. Frame.b \in Blocks /\ Child \in Blocks /\ Framed(nx, V)
    BY <1>1, EdgeAtHand
  <1>4. PICK e \in EdgesOf(g, V) : e \notin H /\ To(g, e) = Child /\ Handled(g, nx, V) = H \cup {e}
    BY <1>1, EdgeAtHand
  <1>5. PICK d : d = Finding(EdgeDefect(Child), Child, Frame.b)
    OBVIOUS
  <1>6. (Child \in V \/ Child \notin g.stored) /\ EdgeDefect(Child) \in DefectKinds /\ EdgeDefect(Child) \in FindingKinds
    BY <1>1, <1>3, EdgeDefectIs
  <1>7. d \in FindingRecords /\ d.kind \in DefectKinds
    BY <1>3, <1>5, <1>6 DEF Finding, FindingRecords, FindingKinds
  <1>8. PICK fs : fs = Append(t.findings, d)
    OBVIOUS
  <1>9. /\ DOMAIN tr = Fields /\ tr.visited = V /\ tr.blocks = t.blocks /\ tr.kids = t.kids
        /\ tr.findings = fs /\ tr.edges = t.edges + 1
    <2>1. tr = [[t EXCEPT !.edges = @ + 1] EXCEPT !.findings = Append(@, d)]
      BY <1>5 DEF CountEdge, Refuted
    <2> QED BY <1>1, <1>2, <1>8, <2>1 DEF Fields
  <1>10. Judged(g, H \cup {e}, fs) /\ Entered(g, H \cup {e}, V)
    BY <1>2, <1>4, <1>6, <1>7, <1>8, JudgedDefect
  <1>11. t.findings \in Seq(FindingRecords)
    BY <1>2 DEF Judged
  <1>12. Counted(g, H \cup {e}, V, t.blocks, t.kids, fs, t.edges + 1)
    BY <1>2, <1>4, <1>7, <1>8, <1>11, CountedDefect
  <1> QED BY <1>2, <1>3, <1>4, <1>9, <1>10, <1>12 DEF Ledger

\* The step that enters a child.
LEMMA LedgerEntry ==
    ASSUME g \in Graphs, Ledger(g, stack, t), HasEntry, EdgeDefect(Child) = "none",
           NEW nx, Past(nx),
           NEW st, Down(st, nx, Child),
           NEW tr, Followed(tr)
    PROVE  Ledger(g, st, tr) /\ st # <<>>
  <1>1. PICK V, H : V = t.visited /\ H = Handled(g, stack, V)
    OBVIOUS
  <1>2. /\ V \in SUBSET Blocks /\ DOMAIN t = Fields /\ Entered(g, H, V) /\ Judged(g, H, t.findings)
        /\ Counted(g, H, V, t.blocks, t.kids, t.findings, t.edges)
    BY <1>1 DEF Ledger
  <1>3. PICK c, p : c = Child /\ p = Frame.b
    OBVIOUS
  <1>4. p \in Blocks /\ c \in Blocks /\ Framed(nx, V)
    BY <1>1, <1>3, EdgeAtHand
  <1>5. PICK e \in EdgesOf(g, V) : /\ e \notin H /\ e[1] = p /\ To(g, e) = c
                                   /\ Handled(g, nx, V) = H \cup {e}
    BY <1>1, <1>3, EdgeAtHand
  <1>6. c \notin V /\ c \in g.stored
    BY <1>1, <1>3, <1>4, EdgeDefectIs
  <1>7. PICK X : X = EntryFindings(c, p)
    OBVIOUS
  <1>8. /\ X \in Seq(FindingRecords) /\ Defects(X) = {}
        /\ X = <<>> <=> g.level[c] < g.level[p] /\ g.spec[c] = g.spec[p]
    BY <1>4, <1>7, EntryFindingsIs
  <1>9. PICK q : q = [[t EXCEPT !.edges = @ + CountEdge(c)] EXCEPT !.kids[p] = Append(@, c)]
    OBVIOUS
  <1>10. PICK kd : kd = [t.kids EXCEPT ![p] = Append(@, c)]
    OBVIOUS
  <1>11. /\ DOMAIN q = Fields /\ q.kids = kd /\ q.edges = t.edges + 1 /\ q.visited = V
         /\ q.blocks = t.blocks /\ q.findings = t.findings
    <2>1. q = [[t EXCEPT !.edges = @ + 1] EXCEPT !.kids = kd]
      BY <1>2, <1>9, <1>10 DEF CountEdge, Fields
    <2> QED BY <1>1, <1>2, <2>1 DEF Fields
  <1>12. tr = EnterBlock(q, c, <<p>>, Len(stack))
    BY <1>3, <1>9 DEF Followed
  <1>13. PICK fs, U : fs = t.findings \o X /\ U = V \cup {c}
    OBVIOUS
  <1>14. /\ DOMAIN tr = Fields /\ tr.visited = U /\ tr.blocks = Append(t.blocks, c)
         /\ tr.findings = fs /\ tr.kids = kd /\ tr.edges = t.edges + 1
    <2>1. <<p>> # <<>> /\ <<p>>[1] = p
      OBVIOUS
    <2>2. PICK ps : ps = <<p>>
      OBVIOUS
    <2>3. /\ DOMAIN tr = Fields /\ tr.visited = q.visited \cup {c} /\ tr.blocks = Append(q.blocks, c)
          /\ tr.findings = q.findings \o Said(c, ps)
          /\ tr.kids = q.kids /\ tr.edges = q.edges
      <3>1. PICK d : d = Len(stack)
        OBVIOUS
      <3>2. Enters(tr, q, c, ps, d)
        BY <1>11, <1>12, <2>2, <3>1 DEF Enters
      <3> QED BY <3>2, EnterIs
    <2>4. tr.findings = t.findings \o X
      BY <1>7, <1>11, <2>1, <2>2, <2>3 DEF Said
    <2> QED BY <1>11, <1>13, <2>3, <2>4
  <1>15. Judged(g, H \cup {e}, fs) /\ Entered(g, H \cup {e}, U)
    BY <1>2, <1>5, <1>6, <1>8, <1>13, JudgedEntry
  <1>16. t.findings \in Seq(FindingRecords)
    BY <1>2 DEF Judged
  <1>17. Counted(g, H \cup {e}, U, Append(t.blocks, c), kd, fs, t.edges + 1)
    BY <1>2, <1>4, <1>5, <1>6, <1>8, <1>10, <1>13, <1>16, CountedEntry
  <1>18. Framed(st, U) /\ Handled(g, st, U) = H \cup {e} /\ st # <<>>
    <2>1. Down(st, nx, c)
      BY <1>3
    <2>2. Framed(st, V \cup {c}) /\ Handled(g, st, V \cup {c}) = Handled(g, nx, V) /\ st # <<>>
      BY <1>2, <1>4, <1>6, <2>1, FrameEnter
    <2> QED BY <1>5, <1>13, <2>2
  <1>19. U \in SUBSET Blocks
    BY <1>2, <1>4, <1>13
  <1> QED BY <1>14, <1>15, <1>17, <1>18, <1>19 DEF Ledger

\* The root is entered.
LEMMA LedgerStart ==
    ASSUME g \in Graphs, Root \in g.stored, NEW tr, Enters(tr, EmptyTraversal, Root, <<>>, 0),
           NEW st, st = <<[b |-> Root, i |-> 1]>>
    PROVE  Ledger(g, st, tr) /\ st # <<>>
  <1>1. PICK r : r = [b |-> Root, i |-> 1]
    OBVIOUS
  <1>2. Root \in Blocks /\ IsFiniteSet(Blocks)
    BY QualityAssumption
  <1>3. PICK kd : kd = [b \in Blocks |-> <<>>]
    OBVIOUS
  <1>4. /\ DOMAIN tr = Fields /\ tr.visited = {Root} /\ tr.blocks = <<Root>>
        /\ tr.findings = <<>> /\ tr.kids = kd /\ tr.edges = 0
    <2>1. PICK s, e : s = EmptyTraversal /\ e = <<>>
      OBVIOUS
    <2>2. /\ s.visited = {} /\ s.blocks = <<>> /\ s.findings = <<>> /\ s.kids = kd /\ s.edges = 0
      BY <1>3, <2>1 DEF EmptyTraversal
    <2>3. /\ DOMAIN tr = Fields /\ tr.visited = s.visited \cup {Root} /\ tr.blocks = Append(s.blocks, Root)
          /\ tr.findings = s.findings \o Said(Root, e) /\ tr.kids = s.kids /\ tr.edges = s.edges
      BY <2>1, EnterIs
    <2>4. Said(Root, e) = <<>>
      BY <2>1 DEF Said
    <2>5. <<>> \o <<>> = <<>> /\ Append(<<>>, Root) = <<Root>>
      OBVIOUS
    <2> QED BY <2>2, <2>3, <2>4, <2>5
  <1>5. Framed(st, {Root}) /\ Handled(g, st, {Root}) = {} /\ st # <<>>
    <2>1. PICK e : e = <<>>
      OBVIOUS
    <2>2. Framed(e, {})
      BY <2>1 DEF Framed
    <2>3. Handled(g, e, {}) = {}
      BY DEF Handled, EdgesOf
    <2>4. Down(st, e, Root)
      BY <2>1 DEF Down
    <2>5. PICK Z : Z = {} /\ Z \in SUBSET Blocks /\ Root \notin Z /\ Z \cup {Root} = {Root}
      OBVIOUS
    <2>6. Framed(e, Z)
      BY <2>2, <2>5
    <2>7. Framed(st, Z \cup {Root}) /\ Handled(g, st, Z \cup {Root}) = Handled(g, e, Z) /\ st # <<>>
      BY <1>2, <2>4, <2>5, <2>6, FrameEnter
    <2> QED BY <2>3, <2>5, <2>7
  <1>6. Entered(g, {}, {Root})
    BY DEF Entered, Closed
  <1>7. Judged(g, {}, <<>>)
    BY DEF Judged, NoneBad
  <1>8. Counted(g, {}, {Root}, <<Root>>, kd, <<>>, 0)
    <2>1. PICK h : h = [b \in Blocks |-> Len(kd[b])]
      OBVIOUS
    <2>2. h \in [Blocks -> Nat] /\ \A b \in Blocks : h[b] = 0
      BY <1>3, <2>1
    <2>3. Total(h) = 0
      <3>1. PICK T : T = {}
        OBVIOUS
      <3>2. T \in SUBSET Blocks /\ \A b \in Blocks \ T : h[b] = 0
        BY <2>2, <3>1
      <3>3. Total(h) = Total([b \in T |-> h[b]])
        BY <1>2, <2>2, <3>2, TotalZeros
      <3>4. PICK j : j = [b \in T |-> h[b]]
        OBVIOUS
      <3>5. j \in [{} -> Nat]
        BY <3>1, <3>4
      <3> QED BY <3>3, <3>4, <3>5, TotalNone
    <2>4. IsFiniteSet({}) /\ Cardinality({}) = 0 /\ Cardinality({Root}) = 1
      BY FS_EmptySet, FS_Singleton
    <2>5. Defects(<<>>) = {}
      BY DEF Defects
    <2>6. <<Root>> \in Seq(Blocks) /\ Len(<<Root>>) = 1
      BY <1>2
    <2>7. kd \in [Blocks -> Seq(Blocks)]
      BY <1>3
    <2>8. PICK bl, fs, Z : bl = <<Root>> /\ fs = <<>> /\ Z = {}
      OBVIOUS
    <2>9. Cardinality(Defects(fs)) = 0
      BY <2>4, <2>5, <2>8
    <2>10. Total([b \in Blocks |-> Len(kd[b])]) = 0
      BY <2>1, <2>3
    <2>11. bl \in Seq(Blocks) /\ Len(bl) = 1 /\ IsFiniteSet(Z) /\ Cardinality(Z) = 0
      BY <2>4, <2>6, <2>8
    <2>12. Counted(g, Z, {Root}, bl, kd, fs, 0)
      BY <2>4, <2>7, <2>9, <2>10, <2>11 DEF Counted
    <2> QED BY <2>8, <2>12
  <1> QED BY <1>2, <1>4, <1>5, <1>6, <1>7, <1>8 DEF Ledger

\* The end of a block.
LEMMA LedgerLeave ==
    ASSUME g \in Graphs, Ledger(g, stack, t), stack # <<>>, ~HasEntry,
           NEW nx, nx = Front(stack)
    PROVE  Ledger(g, nx, t) /\ (nx = <<>> <=> Len(stack) = 1)
  <1>1. PICK V : V = t.visited
    OBVIOUS
  <1>2. V \in SUBSET Blocks /\ Framed(stack, V)
    BY <1>1 DEF Ledger
  <1>3. ~(Last(stack).i <= Len(g.kids[Last(stack).b]))
    BY DEF HasEntry, Frame
  <1>4. /\ Framed(nx, V) /\ Handled(g, nx, V) = Handled(g, stack, V)
        /\ nx = <<>> <=> Len(stack) = 1
    BY <1>2, <1>3, FrameLeave
  <1> QED BY <1>1, <1>4 DEF Ledger

-----------------------------------------------------------------------------
(* The report. *)

LayersTotal(m) == Total([l \in DOMAIN m.layers |-> m.layers[l].blocks])
SplitsTotal(m) == Total([p \in DOMAIN m.splits |-> m.splits[p].children])

\* The summary is about the blocks V and the edges out of them.
SummaryOf(s, m, V) ==
    /\ m.blocks = Cardinality(V) /\ m.edges = Cardinality(EdgesOf(s, V))
    /\ m.findings = <<>> <=> NoneBad(s, EdgesOf(s, V))
    /\ LayersTotal(m) = m.blocks /\ SplitsTotal(m) = m.blocks - 1
    /\ m.edges = SplitsTotal(m) + Cardinality(Defects(m.findings))

\* These are the blocks the root reaches.
SummarySound(s, m) ==
    \E V \in SUBSET Blocks :
        /\ Closed(s, V) /\ \A W \in SUBSET Blocks : Closed(s, W) => V \subseteq W
        /\ SummaryOf(s, m, V)

\* The values of a function on a finite set.
LEMMA ImageFinite ==
    ASSUME NEW V, IsFiniteSet(V), NEW f, DOMAIN f = V
    PROVE  IsFiniteSet({f[b] : b \in V})
  <1>1. PICK L, h : L = {f[b] : b \in V} /\ h = [b \in V |-> f[b]]
    OBVIOUS
  <1>2. h \in Surjection(V, L)
    BY <1>1 DEF Surjection
  <1> QED BY <1>1, <1>2, FS_Surjection

\* The levels' blocks add up.
LEMMA LayersAddUp ==
    ASSUME g \in Graphs, NEW s, s.visited \in SUBSET Blocks, NEW m, m.layers = Layers(s)
    PROVE  LayersTotal(m) = Cardinality(s.visited)
  <1>1. PICK V : V = s.visited
    OBVIOUS
  <1>2. IsFiniteSet(V) /\ V \in SUBSET Blocks
    BY <1>1, QualityAssumption, FS_Subset
  <1>3. PICK f : f = [b \in V |-> g.level[b]]
    OBVIOUS
  <1>4. PICK L : L = {f[b] : b \in V}
    OBVIOUS
  <1>5. L = {g.level[b] : b \in V}
    BY <1>3, <1>4
  <1>6. IsFiniteSet(L) /\ f \in [V -> L]
    BY <1>2, <1>3, <1>4, ImageFinite
  <1>7. DOMAIN m.layers = L /\ \A l \in L : m.layers[l].blocks = Cardinality({b \in V : g.level[b] = l})
    BY <1>1, <1>5 DEF Layers
  <1>8. \A l \in L : {b \in V : g.level[b] = l} = {b \in V : f[b] = l}
    BY <1>3
  <1>9. [l \in DOMAIN m.layers |-> m.layers[l].blocks] = [l \in L |-> Cardinality({b \in V : f[b] = l})]
    BY <1>7, <1>8
  <1>10. Total([l \in L |-> Cardinality({b \in V : f[b] = l})]) = Cardinality(V)
    BY <1>2, <1>6, PartsCount
  <1> QED BY <1>1, <1>9, <1>10 DEF LayersTotal

\* The splits' children are those of all parents.
LEMMA SplitsAddUp ==
    ASSUME NEW s, s.kids \in [Blocks -> Seq(Blocks)], NEW m, m.splits = Splits(s)
    PROVE  SplitsTotal(m) = Total([b \in Blocks |-> Len(s.kids[b])])
  <1>1. PICK kd : kd = s.kids
    OBVIOUS
  <1>2. PICK h : h = [b \in Blocks |-> Len(kd[b])]
    OBVIOUS
  <1>3. PICK T : T = {b \in Blocks : kd[b] # <<>>}
    OBVIOUS
  <1>4. kd \in [Blocks -> Seq(Blocks)]
    BY <1>1
  <1>5. h \in [Blocks -> Nat]
    <2>1. \A b \in Blocks : Len(kd[b]) \in Nat
      BY <1>4
    <2> QED BY <1>2, <2>1
  <1>6. T \in SUBSET Blocks /\ \A b \in Blocks \ T : h[b] = 0
    BY <1>2, <1>3
  <1>7. IsFiniteSet(Blocks)
    BY QualityAssumption
  <1>8. Total(h) = Total([b \in T |-> h[b]])
    BY <1>5, <1>6, <1>7, TotalZeros
  <1>9. DOMAIN m.splits = T /\ \A p \in T : m.splits[p].children = Len(kd[p])
    BY <1>1, <1>3 DEF Splits
  <1>10. [p \in DOMAIN m.splits |-> m.splits[p].children] = [b \in T |-> h[b]]
    BY <1>2, <1>6, <1>9
  <1> QED BY <1>1, <1>2, <1>8, <1>10 DEF SplitsTotal

\* After the traversal every edge is handled and the blocks entered are those the root
\* reaches.
LEMMA LedgerDone ==
    ASSUME NEW s \in Graphs, NEW tr, Ledger(s, <<>>, tr), NEW V, V = tr.visited
    PROVE  /\ Handled(s, <<>>, V) = EdgesOf(s, V) /\ V \in SUBSET Blocks /\ Closed(s, V)
           /\ \A W \in SUBSET Blocks : Closed(s, W) => V \subseteq W
  <1>1. Handled(s, <<>>, V) = EdgesOf(s, V)
    BY DEF Handled
  <1>2. V \in SUBSET Blocks /\ Entered(s, EdgesOf(s, V), V)
    BY <1>1 DEF Ledger
  <1>3. Closed(s, V)
    <2> SUFFICES ASSUME NEW b \in V, NEW i \in DOMAIN s.kids[b], s.kids[b][i] \in s.stored
                 PROVE  s.kids[b][i] \in V
      BY <1>2 DEF Closed, Entered
    <2>1. PICK e : e = <<b, i>>
      OBVIOUS
    <2>2. i \in Nat
      <3>1. s.kids[b] \in Seq(Blocks)
        BY <1>2, GraphIs
      <3> QED BY <3>1
    <2>3. e \in EdgesOf(s, V) /\ To(s, e) = s.kids[b][i]
      BY <2>1, <2>2 DEF EdgesOf, To
    <2> QED BY <1>2, <2>3 DEF Entered
  <1> QED BY <1>1, <1>2, <1>3 DEF Entered

\* The summary of a finished traversal.
LEMMA SummaryIs ==
    ASSUME g \in Graphs, Ledger(g, <<>>, t), NEW m, m = Summary(t)
    PROVE  SummarySound(g, m)
  <1>1. PICK V, E : V = t.visited /\ E = EdgesOf(g, V)
    OBVIOUS
  <1>2. /\ Handled(g, <<>>, V) = E /\ V \in SUBSET Blocks /\ Closed(g, V)
        /\ \A W \in SUBSET Blocks : Closed(g, W) => V \subseteq W
    BY <1>1, LedgerDone
  <1>3. Judged(g, E, t.findings) /\ Counted(g, E, V, t.blocks, t.kids, t.findings, t.edges)
    BY <1>1, <1>2 DEF Ledger
  <1>4. /\ m.blocks = Len(t.blocks) /\ m.edges = t.edges /\ m.findings = t.findings
        /\ m.layers = Layers(t) /\ m.splits = Splits(t)
    BY DEF Summary
  <1>5. LayersTotal(m) = Cardinality(V)
    BY <1>1, <1>2, <1>4, LayersAddUp
  <1>6. t.kids \in [Blocks -> Seq(Blocks)]
    BY <1>3 DEF Counted
  <1>7. PICK n : n = Total([b \in Blocks |-> Len(t.kids[b])])
    OBVIOUS
  <1>8. SplitsTotal(m) = n
    BY <1>4, <1>6, <1>7, SplitsAddUp
  <1>9. /\ m.edges = Cardinality(E) /\ m.blocks = Cardinality(V) /\ n + 1 = m.blocks
        /\ m.edges = n + Cardinality(Defects(m.findings))
    BY <1>3, <1>4, <1>7 DEF Counted
  <1>10. n \in Nat
    <2>1. PICK h : h = [b \in Blocks |-> Len(t.kids[b])]
      OBVIOUS
    <2>2. h \in [Blocks -> Nat]
      <3>1. \A b \in Blocks : Len(t.kids[b]) \in Nat
        BY <1>6
      <3> QED BY <2>1, <3>1
    <2>3. Total(h) \in Nat
      BY <2>2, QualityAssumption, TotalParts
    <2> QED BY <1>7, <2>1, <2>3
  <1>11. n = m.blocks - 1
    BY <1>9, <1>10
  <1>12. m.findings = <<>> <=> NoneBad(g, E)
    BY <1>3, <1>4 DEF Judged
  <1>13. SummaryOf(g, m, V)
    BY <1>1, <1>5, <1>8, <1>9, <1>11, <1>12 DEF SummaryOf
  <1> QED BY <1>2, <1>13 DEF SummarySound

-----------------------------------------------------------------------------
(* The accesses of the queries. *)

\* Each answer names blocks.
Reads(x) == x.touched \in SUBSET Blocks
Searched(hs) == \E A : hs \in Seq(A) /\ \A x \in A : Reads(x)

\* The levels of the summary add up to its totals.
AccessSound(a) ==
    /\ a.touched = Total([l \in DOMAIN a.levels |-> a.levels[l].touched])
    /\ a.rtts = Total([l \in DOMAIN a.levels |-> a.levels[l].rtts])

\* Division rounds up a number, and nothing to nothing.
LEMMA RoundedUp ==
    ASSUME NEW n \in Nat, NEW w \in Nat \ {0}
    PROVE  (n + w - 1) \div w \in Nat /\ (n = 0 => (n + w - 1) \div w = 0)
  <1>1. PICK x, q, r : x = n + w - 1 /\ q = x \div w /\ r = x % w
    OBVIOUS
  <1>2. x \in Nat
    BY <1>1
  <1>3. q \in Int /\ r \in 0..(w - 1) /\ x = w * q + r
    BY <1>1, <1>2
  <1>4. q \in Nat
    <2>1. ASSUME q < 0 PROVE FALSE
      <3>1. w * q <= -w
        BY <1>3, <2>1
      <3> QED BY <1>2, <1>3, <3>1
    <2> QED BY <1>3, <2>1
  <1>5. ASSUME n = 0 PROVE q = 0
    <2>1. x = w - 1
      BY <1>1, <1>5
    <2>2. ASSUME q >= 1 PROVE FALSE
      <3>1. w * q >= w
        BY <1>3, <2>2
      <3> QED BY <1>3, <2>1, <3>1
    <2> QED BY <1>4, <2>2
  <1> QED BY <1>1, <1>4, <1>5

\* The round trips of a query on a level.
LEMMA RttsIs ==
    ASSUME g \in Graphs, NEW V \in SUBSET Blocks, NEW l
    PROVE  Rtts(V, l) \in Nat /\ (l \notin LevelsOf(V) => Rtts(V, l) = 0)
  <1>1. PICK W : W = {c \in V : g.level[c] = l}
    OBVIOUS
  <1>2. PICK h : h = [b \in W |-> BytesOf[b]]
    OBVIOUS
  <1>3. IsFiniteSet(W) /\ W \in SUBSET Blocks
    BY <1>1, QualityAssumption, FS_Subset
  <1>4. h \in [W -> Nat]
    BY <1>2, <1>3, QualityAssumption
  <1>5. PICK n \in Nat : n = Total(h)
    BY <1>3, <1>4, TotalParts
  <1>6. Rtts(V, l) = (n + Window - 1) \div Window
    BY <1>1, <1>2, <1>5 DEF Rtts, LevelBytes
  <1>7. Window \in Nat \ {0}
    BY QualityAssumption
  <1>8. (n + Window - 1) \div Window \in Nat /\ (n = 0 => (n + Window - 1) \div Window = 0)
    BY <1>5, <1>7, RoundedUp
  <1>9. ASSUME l \notin LevelsOf(V) PROVE n = 0
    <2>1. W = {}
      BY <1>1, <1>9 DEF LevelsOf
    <2>2. h \in [{} -> Nat]
      BY <1>4, <2>1
    <2> QED BY <1>5, <2>2, TotalNone
  <1> QED BY <1>6, <1>8, <1>9

\* What the summary of the accesses says.
LEMMA AccessIs ==
    ASSUME g \in Graphs, Searched(answers), NEW a, a = AccessSummary
    PROVE  AccessSound(a)
  <1>1. PICK I, T : I = DOMAIN answers /\ T = [i \in I |-> answers[i].touched]
    OBVIOUS
  <1>2. IsFiniteSet(I) /\ T \in [I -> SUBSET Blocks]
    <2>1. PICK A : answers \in Seq(A) /\ \A x \in A : x.touched \in SUBSET Blocks
      BY DEF Searched, Reads
    <2>2. PICK n \in Nat : I = 1..n
      BY <1>1, <2>1
    <2>3. IsFiniteSet(I)
      BY <2>2, FS_Interval
    <2>4. \A i \in I : answers[i] \in A
      BY <1>1, <2>1
    <2> QED BY <1>1, <2>1, <2>3, <2>4
  <1>3. PICK V : V = UNION {T[i] : i \in I}
    OBVIOUS
  <1>4. V \in SUBSET Blocks /\ IsFiniteSet(V) /\ \A i \in I : T[i] \subseteq V
    <2>1. V \in SUBSET Blocks
      BY <1>2, <1>3
    <2>2. IsFiniteSet(V)
      BY <2>1, QualityAssumption, FS_Subset
    <2> QED BY <1>3, <2>1, <2>2
  <1>5. UNION {answers[i].touched : i \in DOMAIN answers} = V
    BY <1>1, <1>3
  <1>6. PICK f : f = [b \in V |-> g.level[b]]
    OBVIOUS
  <1>7. PICK L : L = {f[b] : b \in V}
    OBVIOUS
  <1>8. L = LevelsOf(V)
    BY <1>6, <1>7 DEF LevelsOf
  <1>9. IsFiniteSet(L) /\ f \in [V -> L]
    BY <1>4, <1>6, <1>7, ImageFinite
  <1>10. PICK m : m = [i \in I |-> [l \in L |-> Rtts(T[i], l)]]
    OBVIOUS
  <1>11. m \in [I -> [L -> Nat]]
    <2>1. \A i \in I : \A l \in L : Rtts(T[i], l) \in Nat
      BY <1>2, RttsIs
    <2> QED BY <1>10, <2>1
  <1>12. \A i \in I : Total([l \in LevelsOf(T[i]) |-> Rtts(T[i], l)]) = Total(m[i])
    <2> SUFFICES ASSUME NEW i \in I
                 PROVE  Total([l \in LevelsOf(T[i]) |-> Rtts(T[i], l)]) = Total(m[i])
      OBVIOUS
    <2>1. PICK K, h : K = LevelsOf(T[i]) /\ h = m[i]
      OBVIOUS
    <2>2. K \in SUBSET L
      BY <1>4, <1>8, <2>1 DEF LevelsOf
    <2>3. h \in [L -> Nat]
      BY <1>11, <2>1
    <2>4. \A l \in L : h[l] = Rtts(T[i], l)
      BY <1>10, <2>1
    <2>5. \A l \in L \ K : h[l] = 0
      <3>1. T[i] \in SUBSET Blocks
        BY <1>2
      <3> QED BY <2>1, <2>4, <3>1, RttsIs
    <2>6. Total(h) = Total([l \in K |-> h[l]])
      BY <1>9, <2>2, <2>3, <2>5, TotalZeros
    <2>7. [l \in K |-> h[l]] = [l \in K |-> Rtts(T[i], l)]
      BY <2>2, <2>4
    <2> QED BY <2>1, <2>6, <2>7
  <1>13. Total([i \in I |-> Total(m[i])]) = Total([l \in L |-> Total([i \in I |-> m[i][l]])])
    BY <1>2, <1>9, <1>11, TotalSwap
  <1>14. a.touched = Cardinality(V)
    BY <1>5 DEF AccessSummary, TouchedInAll
  <1>15. DOMAIN a.levels = L
    BY <1>5, <1>8 DEF AccessSummary
  <1>16. \A l \in L : a.levels[l].touched = Cardinality({b \in V : g.level[b] = l})
    BY <1>5, <1>8 DEF AccessSummary
  <1>17. \A l \in L : a.levels[l].rtts = Total([i \in I |-> m[i][l]])
    <2> SUFFICES ASSUME NEW l \in L PROVE a.levels[l].rtts = Total([i \in I |-> m[i][l]])
      OBVIOUS
    <2>1. a.levels[l].rtts = Total([i \in DOMAIN answers |-> Rtts(answers[i].touched, l)])
      BY <1>5, <1>8 DEF AccessSummary
    <2>2. [i \in DOMAIN answers |-> Rtts(answers[i].touched, l)] = [i \in I |-> m[i][l]]
      BY <1>1, <1>10
    <2> QED BY <2>1, <2>2
  <1>18. a.rtts = Total([i \in I |-> Total(m[i])])
    <2>1. a.rtts = Total([i \in DOMAIN answers |->
                      Total([l \in LevelsOf(answers[i].touched) |-> Rtts(answers[i].touched, l)])])
      BY DEF AccessSummary
    <2>2. \A i \in I : Total([l \in LevelsOf(answers[i].touched) |-> Rtts(answers[i].touched, l)])
                       = Total(m[i])
      BY <1>1, <1>12
    <2>3. [i \in DOMAIN answers |->
                Total([l \in LevelsOf(answers[i].touched) |-> Rtts(answers[i].touched, l)])]
          = [i \in I |-> Total(m[i])]
      BY <1>1, <2>2
    <2> QED BY <2>1, <2>3
  <1>19. Total([l \in DOMAIN a.levels |-> a.levels[l].touched]) = Cardinality(V)
    <2>1. \A l \in L : {b \in V : g.level[b] = l} = {b \in V : f[b] = l}
      BY <1>6
    <2>2. [l \in DOMAIN a.levels |-> a.levels[l].touched] = [l \in L |-> Cardinality({b \in V : f[b] = l})]
      BY <1>15, <1>16, <2>1
    <2>3. Total([l \in L |-> Cardinality({b \in V : f[b] = l})]) = Cardinality(V)
      BY <1>4, <1>9, PartsCount
    <2> QED BY <2>2, <2>3
  <1>20. [l \in DOMAIN a.levels |-> a.levels[l].rtts] = [l \in L |-> Total([i \in I |-> m[i][l]])]
    BY <1>15, <1>17
  <1> QED BY <1>13, <1>14, <1>18, <1>19, <1>20 DEF AccessSound

\* One answer more.
LEMMA SearchedMore ==
    ASSUME NEW hs, Searched(hs), NEW x, Reads(x)
    PROVE  Searched(Append(hs, x))
  <1>1. PICK A : hs \in Seq(A) /\ \A y \in A : Reads(y)
    BY DEF Searched
  <1>2. PICK B : B = A \cup {x}
    OBVIOUS
  <1>3. hs \in Seq(B) /\ x \in B
    <2>1. DOMAIN hs = 1..Len(hs) /\ Len(hs) \in Nat /\ \A i \in DOMAIN hs : hs[i] \in B
      BY <1>1, <1>2
    <2> QED BY <1>1, <1>2, <2>1
  <1>4. Append(hs, x) \in Seq(B)
    BY <1>3
  <1>5. \A y \in B : Reads(y)
    BY <1>1, <1>2
  <1> QED BY <1>4, <1>5 DEF Searched

\* The search reads stored blocks and the root.
LEMMA TouchedIs ==
    ASSUME g \in Graphs, NEW hits \in SUBSET LeafEntries
    PROVE  Touched(hits) \in SUBSET Blocks
  <1>1. g.stored \in SUBSET Blocks /\ Root \in Blocks
    BY GraphIs, QualityAssumption
  <1>2. \A e \in LeafEntries : e.id[1] \in Blocks
    <2> SUFFICES ASSUME NEW e \in LeafEntries PROVE e.id[1] \in Blocks
      OBVIOUS
    <2>1. PICK P : P = UNION {{b} \X (Range(LeafVals(b)) \ {0}) : b \in {c \in g.stored : g.leaf[c]}}
      OBVIOUS
    <2>2. PICK x \in P : e = Corpus(x[1], x[2])
      BY <2>1 DEF LeafEntries
    <2>3. PICK b \in {c \in g.stored : g.leaf[c]} : x \in {b} \X (Range(LeafVals(b)) \ {0})
      BY <2>1
    <2>4. x[1] = b
      BY <2>3
    <2>5. e.id[1] = b
      BY <2>2, <2>4 DEF Corpus
    <2> QED BY <1>1, <2>3, <2>5
  <1>3. PICK ls : ls = {e.id[1] : e \in hits}
    OBVIOUS
  <1>4. ls \in SUBSET Blocks
    BY <1>2, <1>3
  <1>5. \A l \in ls : Above(l) \subseteq Blocks
    BY <1>1 DEF Above
  <1>6. UNION {Above(l) : l \in ls} \subseteq Blocks
    BY <1>5
  <1>7. Touched(hits) = {Root} \cup ls \cup UNION {Above(l) : l \in ls}
    BY <1>3 DEF Touched
  <1> QED BY <1>1, <1>4, <1>6, <1>7

-----------------------------------------------------------------------------
(* The inductive invariant. *)

\* What a report says is so.
Delivered(s, f, R) ==
    R.result = "report" =>
        (~f => SummarySound(s, R.summary)) /\ (R.recall.scored => AccessSound(R.access))

\* The traversal's record, during the traversal and after it.
Traversing ==
    /\ doing = "start" => t = EmptyTraversal
    /\ doing \in {"traverse", "recall", "exact"} => ~fast
    /\ doing = "walk" => fast
    /\ ~fast /\ doing \in {"traverse", "recall", "exact", "search"} => Ledger(g, stack, t)
    /\ ~fast /\ doing \in {"recall", "exact", "search"} => stack = <<>>

QualityInv ==
    /\ g \in Graphs /\ fast \in BOOLEAN /\ Traversing /\ Searched(answers)
    /\ doing # "done" => report = NoReport
    /\ doing = "done" => Delivered(g, fast, report)

\* A report of another kind says nothing.
LEMMA OtherReport ==
    ASSUME NEW s, NEW f, NEW w, w # "report", NEW R, R = [result |-> w]
    PROVE  Delivered(s, f, R)
  BY DEF Delivered

\* An assessment that fails.
LEMMA FailKeeps ==
    ASSUME QualityInv, NEW w, w # "report", Fail(w)
    PROVE  QualityInv'
  <1>1. /\ g' = g /\ fast' = fast /\ answers' = answers
        /\ doing' = "done" /\ report' = [result |-> w]
    BY DEF Fail
  <1>2. Delivered(g, fast, report')
    BY <1>1, OtherReport
  <1>3. Traversing'
    BY <1>1 DEF Traversing
  <1> QED BY <1>1, <1>2, <1>3 DEF QualityInv

\* A step that changes none of what the invariant is about but where the assessment is.
LEMMA MovesOn ==
    ASSUME QualityInv, doing # "done",
           UNCHANGED <<g, fast, t, stack, answers, report>>,
           doing' # "done", Traversing'
    PROVE  QualityInv'
  BY DEF QualityInv

\* The actions that start the assessment.
LEMMA StartsKeep ==
    ASSUME QualityInv, Refused \/ StartTraversal \/ StartWalk
    PROVE  QualityInv'
  <1>1. CASE Refused
    <2>1. Fail("sample_size") \/ Fail("missing_root") \/ Fail("undecodable")
      BY <1>1 DEF Refused
    <2> QED BY <2>1, FailKeeps
  <1>2. CASE StartTraversal
    <2>1. /\ doing = "start" /\ Root \in g.stored /\ ~fast /\ doing' = "traverse"
          /\ t' = EnterBlock(t, Root, <<>>, 0) /\ stack' = <<[b |-> Root, i |-> 1]>>
          /\ g' = g /\ fast' = fast /\ answers' = answers /\ report' = report
      BY <1>2 DEF StartTraversal
    <2>2. t = EmptyTraversal /\ g \in Graphs
      BY <2>1 DEF QualityInv, Traversing
    <2>3. DOMAIN EmptyTraversal = Fields
      BY DEF EmptyTraversal, Fields
    <2>4. Enters(t', EmptyTraversal, Root, <<>>, 0)
      BY <2>1, <2>2, <2>3 DEF Enters
    <2>5. Ledger(g, stack', t')
      BY <2>1, <2>2, <2>4, LedgerStart
    <2>6. Traversing'
      BY <2>1, <2>5 DEF Traversing
    <2> QED BY <2>1, <2>6 DEF QualityInv
  <1>3. CASE StartWalk
    <2>1. /\ doing = "start" /\ fast /\ doing' = "walk"
          /\ UNCHANGED <<g, fast, t, stack, answers, report>>
      BY <1>3 DEF StartWalk
    <2>2. Traversing'
      BY <2>1 DEF Traversing
    <2> QED BY <2>1, <2>2, MovesOn
  <1> QED BY <1>1, <1>2, <1>3

\* The actions of the traversal.
LEMMA TraversalKeeps ==
    ASSUME QualityInv, HandleChildEntry \/ LeaveBlock
    PROVE  QualityInv'
  <1>1. g \in Graphs
    BY DEF QualityInv
  <1>2. CASE HandleChildEntry
    <2>1. /\ doing = "traverse" /\ HasEntry
          /\ g' = g /\ fast' = fast /\ answers' = answers
      BY <1>2 DEF HandleChildEntry
    <2>2. ~fast /\ Ledger(g, stack, t) /\ report = NoReport
      BY <2>1 DEF QualityInv, Traversing
    <2>3. PICK nx : Past(nx)
      BY DEF Past
    <2>4. \/ /\ EdgeDefect(Child) # "none" /\ Refuted(t') /\ stack' = nx
             /\ doing' = doing /\ report' = report
          \/ /\ EdgeDefect(Child) = "none" /\ Followed(t') /\ Down(stack', nx, Child)
             /\ doing' = doing /\ report' = report
          \/ doing' = "done" /\ report' = [result |-> "undecodable"] /\ t' = t /\ stack' = stack
      BY <1>2, <2>3 DEF HandleChildEntry, Past, Refuted, Followed, Down
    <2>5. CASE EdgeDefect(Child) # "none" /\ Refuted(t') /\ stack' = nx /\ doing' = doing /\ report' = report
      <3>1. Ledger(g, stack', t')
        BY <1>1, <2>1, <2>2, <2>3, <2>5, LedgerDefect
      <3>2. Traversing'
        BY <2>1, <2>2, <2>5, <3>1 DEF Traversing
      <3> QED BY <2>1, <2>2, <2>5, <3>2 DEF QualityInv
    <2>6. CASE /\ EdgeDefect(Child) = "none" /\ Followed(t') /\ Down(stack', nx, Child)
               /\ doing' = doing /\ report' = report
      <3>1. Ledger(g, stack', t')
        BY <1>1, <2>1, <2>2, <2>3, <2>6, LedgerEntry
      <3>2. Traversing'
        BY <2>1, <2>2, <2>6, <3>1 DEF Traversing
      <3> QED BY <2>1, <2>2, <2>6, <3>2 DEF QualityInv
    <2>7. CASE doing' = "done" /\ report' = [result |-> "undecodable"] /\ t' = t /\ stack' = stack
      <3>1. Delivered(g, fast, report')
        BY <2>7, OtherReport
      <3>2. Traversing'
        BY <2>7 DEF Traversing
      <3> QED BY <2>1, <2>7, <3>1, <3>2 DEF QualityInv
    <2> QED BY <2>4, <2>5, <2>6, <2>7
  <1>3. CASE LeaveBlock
    <2>1. /\ doing = "traverse" /\ stack # <<>> /\ ~HasEntry /\ stack' = Front(stack)
          /\ doing' = IF Len(stack) = 1 THEN "recall" ELSE "traverse"
          /\ g' = g /\ fast' = fast /\ t' = t /\ answers' = answers /\ report' = report
      BY <1>3 DEF LeaveBlock
    <2>2. ~fast /\ Ledger(g, stack, t)
      BY <2>1 DEF QualityInv, Traversing
    <2>3. Ledger(g, stack', t) /\ (stack' = <<>> <=> Len(stack) = 1)
      BY <1>1, <2>1, <2>2, LedgerLeave
    <2>4. Traversing'
      <3>1. CASE Len(stack) = 1
        BY <2>1, <2>2, <2>3, <3>1 DEF Traversing
      <3>2. CASE Len(stack) # 1
        BY <2>1, <2>2, <2>3, <3>2 DEF Traversing
      <3> QED BY <3>1, <3>2
    <2>5. doing' # "done"
      BY <2>1
    <2> QED BY <2>1, <2>4, <2>5 DEF QualityInv
  <1> QED BY <1>2, <1>3

\* The actions of the recall that give no report.
LEMMA RecallKeeps ==
    ASSUME QualityInv, StartRecall \/ CollectExact \/ ExactDone \/ SearchQuery \/ SearchFails
    PROVE  QualityInv'
  <1>1. CASE StartRecall
    <2>1. doing = "recall" /\ doing' = "exact" /\ UNCHANGED <<g, fast, t, stack, answers, report>>
      BY <1>1 DEF StartRecall
    <2>2. Traversing'
      BY <2>1 DEF QualityInv, Traversing
    <2> QED BY <2>1, <2>2, MovesOn
  <1>2. CASE CollectExact
    <2>1. doing = "exact" /\ doing' = "exact" /\ UNCHANGED <<g, fast, t, stack, answers, report>>
      BY <1>2 DEF CollectExact
    <2>2. Traversing'
      BY <2>1 DEF QualityInv, Traversing
    <2> QED BY <2>1, <2>2, MovesOn
  <1>3. CASE ExactDone
    <2>1. doing = "exact" /\ doing' = "search" /\ UNCHANGED <<g, fast, t, stack, answers, report>>
      BY <1>3 DEF ExactDone
    <2>2. Traversing'
      BY <2>1 DEF QualityInv, Traversing
    <2> QED BY <2>1, <2>2, MovesOn
  <1>4. CASE SearchQuery
    <2>1. /\ doing = "search" /\ doing' = "search" /\ g' = g /\ fast' = fast /\ t' = t
          /\ stack' = stack /\ report' = report
      BY <1>4 DEF SearchQuery
    <2>2. PICK hits \in SUBSET LeafEntries :
              answers' = Append(answers, Answer(NextQuery, hits, IF fast THEN MaxExact ELSE MaxK))
      BY <1>4 DEF SearchQuery
    <2>3. PICK x : x = Answer(NextQuery, hits, IF fast THEN MaxExact ELSE MaxK)
      OBVIOUS
    <2>4. g \in Graphs
      BY DEF QualityInv
    <2>5. Reads(x)
      <3>1. x.touched = Touched(hits)
        BY <2>3 DEF Answer
      <3>2. Touched(hits) \in SUBSET Blocks
        BY <2>4, TouchedIs
      <3> QED BY <3>1, <3>2 DEF Reads
    <2>6. Searched(answers')
      <3>1. answers' = Append(answers, x) /\ Searched(answers)
        BY <2>2, <2>3 DEF QualityInv
      <3> QED BY <2>5, <3>1, SearchedMore
    <2>7. Traversing'
      BY <2>1 DEF QualityInv, Traversing
    <2> QED BY <2>1, <2>6, <2>7 DEF QualityInv
  <1>5. CASE SearchFails
    <2>1. Fail("search")
      BY <1>5 DEF SearchFails
    <2> QED BY <2>1, FailKeeps
  <1> QED BY <1>1, <1>2, <1>3, <1>4, <1>5

\* The actions that give the report.
LEMMA ReportKeeps ==
    ASSUME QualityInv, ZeroedRecall \/ Finish
    PROVE  QualityInv'
  <1>1. g \in Graphs /\ Searched(answers)
    BY DEF QualityInv
  <1>2. CASE ZeroedRecall
    <2>1. /\ doing = "recall" /\ doing' = "done" /\ g' = g /\ fast' = fast /\ answers' = answers
          /\ report' = [result |-> "report", summary |-> Summary(t), recall |-> [scored |-> FALSE]]
      BY <1>2 DEF ZeroedRecall
    <2>2. Ledger(g, <<>>, t) /\ ~fast
      BY <2>1 DEF QualityInv, Traversing
    <2>3. PICK m : m = Summary(t)
      OBVIOUS
    <2>4. SummarySound(g, m)
      BY <1>1, <2>2, <2>3, SummaryIs
    <2>5. report'.summary = m /\ ~report'.recall.scored
      BY <2>1, <2>3
    <2>6. Delivered(g, fast, report')
      BY <2>4, <2>5 DEF Delivered
    <2>7. Traversing'
      BY <2>1 DEF Traversing
    <2> QED BY <2>1, <2>6, <2>7 DEF QualityInv
  <1>3. CASE Finish
    <2>1. PICK a : a = AccessSummary
      OBVIOUS
    <2>2. AccessSound(a)
      BY <1>1, <2>1, AccessIs
    <2>3. doing = "search" /\ doing' = "done" /\ g' = g /\ fast' = fast /\ answers' = answers
      BY <1>3 DEF Finish
    <2>4. report'.access = a /\ (~fast => report'.summary = Summary(t))
      BY <1>3, <2>1 DEF Finish
    <2>5. ASSUME ~fast PROVE SummarySound(g, report'.summary)
      <3>1. Ledger(g, <<>>, t)
        BY <2>3, <2>5 DEF QualityInv, Traversing
      <3> QED BY <1>1, <2>4, <2>5, <3>1, SummaryIs
    <2>6. Delivered(g, fast, report')
      BY <2>2, <2>4, <2>5 DEF Delivered
    <2>7. Traversing'
      BY <2>3 DEF Traversing
    <2> QED BY <2>3, <2>6, <2>7 DEF QualityInv
  <1> QED BY <1>2, <1>3

\* The actions of the fast mode.
LEMMA WalkKeeps ==
    ASSUME QualityInv, WalkDown \/ WalkEnds \/ WalkEmpty
    PROVE  QualityInv'
  <1>1. doing = "walk" /\ UNCHANGED <<g, fast, t, stack, answers>>
    BY DEF WalkDown, WalkEnds, WalkEmpty, WalkUnchanged
  <1>2. \/ doing' \in {"walk", "search"} /\ report' = report
        \/ doing' = "done" /\ report' = [result |-> "missing_child"]
        \/ doing' = "done" /\ report' = [result |-> "undecodable"]
    BY <1>1 DEF WalkDown, WalkEnds, WalkEmpty, NextWalk
  <1>3. fast
    BY <1>1 DEF QualityInv, Traversing
  <1>4. Traversing'
    BY <1>1, <1>2, <1>3 DEF Traversing
  <1>5. CASE doing' \in {"walk", "search"} /\ report' = report
    <2>1. doing # "done" /\ doing' # "done" /\ UNCHANGED <<g, fast, t, stack, answers, report>>
      BY <1>1, <1>5
    <2> QED BY <1>4, <2>1, MovesOn
  <1>6. CASE doing' = "done" /\ report' = [result |-> "missing_child"]
    <2>1. Delivered(g, fast, report')
      BY <1>6, OtherReport
    <2> QED BY <1>1, <1>4, <1>6, <2>1 DEF QualityInv
  <1>7. CASE doing' = "done" /\ report' = [result |-> "undecodable"]
    <2>1. Delivered(g, fast, report')
      BY <1>7, OtherReport
    <2> QED BY <1>1, <1>4, <1>7, <2>1 DEF QualityInv
  <1> QED BY <1>2, <1>5, <1>6, <1>7

\* The invariant holds at the start and is kept by every action.
LEMMA QualityInvariant == QualitySpec => []QualityInv
  <1>1. ASSUME QualityInit PROVE QualityInv
    <2>1. PICK s \in Graphs, n \in SampleSizes, w \in BOOLEAN : QualityStart(s, n, w)
      BY <1>1 DEF QualityInit
    <2>2. /\ g = s /\ fast = w /\ doing = "start" /\ t = EmptyTraversal /\ answers = <<>>
          /\ report = NoReport
      BY <2>1 DEF QualityStart
    <2>3. Searched(answers)
      BY <2>2 DEF Searched
    <2>4. Traversing
      BY <2>2 DEF Traversing
    <2> QED BY <2>2, <2>3, <2>4 DEF QualityInv
  <1>2. ASSUME QualityInv, [QualityNext]_qualityVars PROVE QualityInv'
    <2>1. CASE UNCHANGED qualityVars
      BY <1>2, <2>1 DEF qualityVars, QualityInv, Traversing
    <2>2. CASE CtrlC
      <3>1. /\ doing # "done" /\ doing' = doing
            /\ UNCHANGED <<g, fast, t, stack, answers, report>>
        BY <2>2 DEF CtrlC
      <3>2. Traversing'
        BY <1>2, <3>1 DEF QualityInv, Traversing
      <3> QED BY <1>2, <3>1, <3>2, MovesOn
    <2>3. CASE Interrupted \/ BlockUnreadable
      <3>1. Fail("interrupted") \/ Fail("unreadable")
        BY <2>3 DEF Interrupted, BlockUnreadable
      <3> QED BY <1>2, <3>1, FailKeeps
    <2>4. CASE Refused \/ StartTraversal \/ StartWalk
      BY <1>2, <2>4, StartsKeep
    <2>5. CASE HandleChildEntry \/ LeaveBlock
      BY <1>2, <2>5, TraversalKeeps
    <2>6. CASE StartRecall \/ CollectExact \/ ExactDone \/ SearchQuery \/ SearchFails
      BY <1>2, <2>6, RecallKeeps
    <2>7. CASE ZeroedRecall \/ Finish
      BY <1>2, <2>7, ReportKeeps
    <2>8. CASE WalkDown \/ WalkEnds \/ WalkEmpty
      BY <1>2, <2>8, WalkKeeps
    <2> QED BY <1>2, <2>1, <2>2, <2>3, <2>4, <2>5, <2>6, <2>7, <2>8 DEF QualityNext, AssessStep
  <1> QED BY <1>1, <1>2, PTL DEF QualitySpec

-----------------------------------------------------------------------------
(* The report of the tree. *)

\* The edges as the property names them.
LEMMA EdgesFromIs ==
    ASSUME g \in Graphs, NEW V \in SUBSET Blocks
    PROVE  EdgesFrom(V) = EdgesOf(g, V) /\ IsFiniteSet(EdgesFrom(V))
  <1>1. \A p \in V : DOMAIN g.kids[p] \subseteq Nat
    <2>1. \A p \in V : g.kids[p] \in Seq(Blocks)
      BY GraphIs
    <2> QED BY <2>1
  <1>2. PICK F : F = {{p} \X (DOMAIN g.kids[p]) : p \in V}
    OBVIOUS
  <1>3. \A e : e \in UNION F <=> \E p \in V : e \in {p} \X (DOMAIN g.kids[p])
    BY <1>2
  <1>4. \A e : e \in EdgesOf(g, V) <=> \E p \in V : e \in {p} \X (DOMAIN g.kids[p])
    BY <1>1 DEF EdgesOf
  <1>5. EdgesFrom(V) = UNION F
    BY <1>2 DEF EdgesFrom
  <1>6. EdgesFrom(V) = EdgesOf(g, V)
    BY <1>3, <1>4, <1>5
  <1>7. IsFiniteSet(EdgesOf(g, V))
    <2>1. PICK P : P = {W \in SUBSET V : IsFiniteSet(EdgesOf(g, W))}
      OBVIOUS
    <2>2. {} \in P
      <3>1. EdgesOf(g, {}) = {}
        BY DEF EdgesOf
      <3> QED BY <2>1, <3>1, FS_EmptySet
    <2>3. ASSUME NEW W \in P, NEW x \in V \ W PROVE W \cup {x} \in P
      <3>1. PICK U, D : U = W \cup {x} /\ D = {x} \X (DOMAIN g.kids[x])
        OBVIOUS
      <3>2. EdgesOf(g, U) = EdgesOf(g, W) \cup D
        BY <1>1, <3>1 DEF EdgesOf
      <3>3. IsFiniteSet(D)
        <4>1. g.kids[x] \in Seq(Blocks)
          BY GraphIs
        <4>2. PICK n \in Nat : DOMAIN g.kids[x] = 1..n
          BY <4>1
        <4>3. PICK h : h = [i \in 1..n |-> <<x, i>>]
          OBVIOUS
        <4>4. IsFiniteSet(1..n) /\ DOMAIN h = 1..n
          BY <4>3, FS_Interval
        <4>5. D = {h[i] : i \in 1..n}
          BY <3>1, <4>2, <4>3
        <4> QED BY <4>4, <4>5, ImageFinite
      <3>4. IsFiniteSet(EdgesOf(g, W))
        BY <2>1
      <3>5. IsFiniteSet(EdgesOf(g, U))
        BY <3>2, <3>3, <3>4, FS_Union
      <3> QED BY <2>1, <3>1, <3>5
    <2>4. P \in SUBSET SUBSET V /\ \A W \in P : \A x \in V \ W : W \cup {x} \in P
      BY <2>1, <2>3
    <2>5. IsFiniteSet(V)
      BY QualityAssumption, FS_Subset
    <2>6. V \in P
      BY <2>2, <2>4, <2>5, SetGrows
    <2> QED BY <2>1, <2>6
  <1> QED BY <1>6, <1>7

\* A sound tree is one none of whose edges is bad.
LEMMA SoundTreeIs ==
    ASSUME g \in Graphs
    PROVE  IsSoundTree <=> NoneBad(g, EdgesOf(g, Reachable))
  <1>1. PICK V, E : V = Reachable /\ E = EdgesOf(g, V)
    OBVIOUS
  <1>2. V \in SUBSET Blocks
    BY <1>1, ReachableIs
  <1>3. EdgesFrom(V) = E /\ IsFiniteSet(E)
    BY <1>1, <1>2, EdgesFromIs
  <1>4. \A c : EdgesInto(V, c) = {e \in E : To(g, e) = c}
    BY <1>3 DEF EdgesInto, To
  <1>5. \A c : IsFiniteSet(EdgesInto(V, c))
    <2>1. \A c : EdgesInto(V, c) \in SUBSET E
      BY <1>4
    <2> QED BY <1>3, <2>1, FS_Subset
  <1>6. ASSUME NEW e \in E
        PROVE  Cardinality(EdgesInto(V, To(g, e))) = 1 <=> \A f \in E : To(g, f) = To(g, e) => f = e
    <2>1. PICK S : S = EdgesInto(V, To(g, e))
      OBVIOUS
    <2>2. e \in S /\ IsFiniteSet(S) /\ \A f : f \in S <=> f \in E /\ To(g, f) = To(g, e)
      BY <1>4, <1>5, <2>1
    <2>3. Cardinality(S) = 1 <=> \E x : S = {x}
      BY <2>2, FS_Singleton
    <2>4. (\E x : S = {x}) <=> \A f \in S : f = e
      BY <2>2
    <2> QED BY <2>1, <2>2, <2>3, <2>4
  <1>7. EdgesInto(V, Root) = {} <=> \A e \in E : To(g, e) # Root
    BY <1>4
  <1>8. IsSoundTree <=>
          /\ EdgesInto(V, Root) = {}
          /\ \A e \in E :
                /\ To(g, e) \in g.stored
                /\ Cardinality(EdgesInto(V, To(g, e))) = 1
                /\ g.level[To(g, e)] < g.level[e[1]] /\ g.spec[To(g, e)] = g.spec[e[1]]
    BY <1>1, <1>3 DEF IsSoundTree, To
  <1> QED BY <1>1, <1>6, <1>7, <1>8 DEF NoneBad

\* A sound summary is about what the root reaches.
LEMMA SummaryMeans ==
    ASSUME g \in Graphs, NEW m, SummarySound(g, m)
    PROVE  SummaryOf(g, m, Reachable)
  <1>1. PICK V \in SUBSET Blocks : /\ Closed(g, V) /\ SummaryOf(g, m, V)
                                   /\ \A W \in SUBSET Blocks : Closed(g, W) => V \subseteq W
    BY DEF SummarySound
  <1>2. /\ Reachable \in SUBSET Blocks /\ Closed(g, Reachable)
        /\ \A W \in SUBSET Blocks : Closed(g, W) => Reachable \subseteq W
    BY ReachableIs
  <1>3. V = Reachable
    BY <1>1, <1>2
  <1> QED BY <1>1, <1>3

\* The report of a tree is about the graph below its root, for every stored graph, cyclic
\* ones, shared blocks and missing ones included: no finding means a tree, every block
\* and every edge the root reaches is counted once, every edge enters its child or is a
\* finding, and the accesses add up level by level (traverse_block, handle_child_entry,
\* build_layer_metrics, build_split_metrics, summarize_query_accesses).
THEOREM TreeReportSafe == QualitySpec => []TreeReportSound
  <1>1. ASSUME QualityInv PROVE TreeReportSound
    <2>1. g \in Graphs
      BY <1>1 DEF QualityInv
    <2>2. ASSUME Reported PROVE Delivered(g, fast, report)
      <3>1. report # NoReport
        BY <2>2 DEF Reported, NoReport
      <3> QED BY <1>1, <3>1 DEF QualityInv
    <2>3. ASSUME FullReport PROVE SummaryOf(g, report.summary, Reachable)
      <3>1. SummarySound(g, report.summary)
        BY <2>2, <2>3 DEF FullReport, Reported, Delivered
      <3> QED BY <2>1, <3>1, SummaryMeans
    <2>4. Reachable \in SUBSET Blocks
      BY <2>1, ReachableIs
    <2>5. EdgesFrom(Reachable) = EdgesOf(g, Reachable)
      BY <2>1, <2>4, EdgesFromIs
    <2>6. FindingsTellATree
      BY <2>1, <2>3, SoundTreeIs DEF FindingsTellATree, SummaryOf
    <2>7. ReportAddsUp
      <3> SUFFICES ASSUME FullReport PROVE ReportAddsUp
        BY DEF ReportAddsUp
      <3>1. PICK m : m = report.summary
        OBVIOUS
      <3>2. SummaryOf(g, m, Reachable)
        BY <2>3, <3>1
      <3>3. PICK x, y, d : x = LayersTotal(m) /\ y = SplitsTotal(m) /\ d = Cardinality(Defects(m.findings))
        OBVIOUS
      <3>4. /\ m.blocks = Cardinality(Reachable) /\ x = m.blocks
            /\ m.edges = Cardinality(EdgesFrom(Reachable))
            /\ m.edges = y + d /\ y = m.blocks - 1
        BY <2>5, <3>2, <3>3 DEF SummaryOf
      <3> QED BY <3>1, <3>3, <3>4 DEF ReportAddsUp, LayersTotal, SplitsTotal, Defects, DefectKinds
    <2>8. AccessesAddUp
      BY <2>2 DEF AccessesAddUp, Delivered, AccessSound, Reported
    <2> QED BY <2>6, <2>7, <2>8 DEF TreeReportSound
  <1> QED BY <1>1, QualityInvariant, PTL

-----------------------------------------------------------------------------
(* The bounded heaps. *)

\* R is a strict weak order of the records C.
Orders(R, C) ==
    /\ \A x \in C : <<x, x>> \notin R
    /\ \A x, y, z \in C : <<x, y>> \in R /\ <<y, z>> \in R => <<x, z>> \in R
    /\ \A x, y, z \in C : <<x, z>> \in R => <<x, y>> \in R \/ <<y, z>> \in R

Sorted(h, R) == \A i, j \in DOMAIN h : i < j => <<h[j], h[i]>> \notin R

\* The places a new element goes behind, and the heap with it.
Behind(h, x, R) == {i \in DOMAIN h : <<x, h[i]>> \notin R}
PutAfter(h, x, n) == SubSeq(h, 1, n) \o <<x>> \o SubSeq(h, n + 1, Len(h))
Insert(h, x, R) == PutAfter(h, x, Cardinality(Behind(h, x, R)))

\* The step of a heap that is full at cap elements.
Push(h, x, cap, R) ==
    IF Len(h) < cap \/ (h # <<>> /\ <<x, Last(h)>> \in R)
    THEN Insert(IF Len(h) = cap THEN Front(h) ELSE h, x, R)
    ELSE h

\* The places up to some place are the places up to a number.
LEMMA InitialPlaces ==
    ASSUME NEW m \in Nat, NEW D \in SUBSET (1..m), \A i \in D : \A j \in 1..i : j \in D
    PROVE  \E n \in 0..m : D = 1..n /\ Cardinality(D) = n
  <1>1. PICK N : N = {k \in Nat : k <= m =>
                        ((\A i \in D : i <= k) => \E n \in 0..m : D = 1..n)}
    OBVIOUS
  <1>2. 0 \in N
    <2>1. ASSUME \A i \in D : i <= 0 PROVE D = 1..0
      BY <2>1
    <2>2. 0 \in 0..m
      OBVIOUS
    <2> QED BY <1>1, <2>1, <2>2
  <1>3. ASSUME NEW k \in N PROVE k + 1 \in N
    <2>1. k \in Nat
      BY <1>1
    <2> SUFFICES ASSUME k + 1 <= m, \A i \in D : i <= k + 1 PROVE \E n \in 0..m : D = 1..n
      BY <1>1, <2>1
    <2>2. CASE k + 1 \in D
      <3>a. \A j \in 1..(k + 1) : j \in D
        BY <2>2
      <3>b. \A j \in D : j \in 1..(k + 1)
        BY <2>1
      <3>1. D = 1..(k + 1)
        BY <3>a, <3>b
      <3>2. k + 1 \in 0..m
        BY <2>1
      <3> QED BY <3>1, <3>2
    <2>3. CASE k + 1 \notin D
      <3>1. \A i \in D : i <= k
        BY <2>1, <2>3
      <3> QED BY <1>1, <2>1, <3>1
    <2> QED BY <2>2, <2>3
  <1>4. N = Nat
    BY <1>1, <1>2, <1>3, SetInduction
  <1>5. PICK n \in 0..m : D = 1..n
    BY <1>1, <1>4
  <1>6. Cardinality(1..n) = n
    BY FS_Interval
  <1> QED BY <1>5, <1>6

\* A new element goes behind the first so many.
LEMMA BehindIs ==
    ASSUME NEW C, NEW R, Orders(R, C), NEW h \in Seq(C), Sorted(h, R), NEW x \in C
    PROVE  \E n \in 0..Len(h) : /\ Insert(h, x, R) = PutAfter(h, x, n)
                                /\ \A i \in DOMAIN h : i <= n <=> <<x, h[i]>> \notin R
  <1>1. PICK D : D = Behind(h, x, R)
    OBVIOUS
  <1>2. Len(h) \in Nat /\ DOMAIN h = 1..Len(h) /\ D \in SUBSET (1..Len(h))
    BY <1>1 DEF Behind
  <1>3. ASSUME NEW i \in D, NEW j \in 1..i PROVE j \in D
    <2>1. i \in DOMAIN h /\ j \in DOMAIN h /\ (j = i \/ j < i) /\ <<x, h[i]>> \notin R
      BY <1>1, <1>2 DEF Behind
    <2>2. h[i] \in C /\ h[j] \in C
      BY <2>1
    <2>3. CASE j = i
      BY <2>3
    <2>4. CASE j < i
      <3>1. <<h[i], h[j]>> \notin R
        BY <2>1, <2>4 DEF Sorted
      <3>2. <<x, h[j]>> \notin R
        BY <2>1, <2>2, <3>1 DEF Orders
      <3> QED BY <1>1, <2>1, <3>2 DEF Behind
    <2> QED BY <2>1, <2>3, <2>4
  <1>4. PICK n \in 0..Len(h) : D = 1..n /\ Cardinality(D) = n
    BY <1>2, <1>3, InitialPlaces
  <1>5. \A i \in DOMAIN h : i <= n <=> <<x, h[i]>> \notin R
    <2>1. \A i \in DOMAIN h : i \in D <=> <<x, h[i]>> \notin R
      BY <1>1 DEF Behind
    <2>2. \A i \in DOMAIN h : i \in D <=> i <= n
      BY <1>2, <1>4
    <2> QED BY <2>1, <2>2
  <1>6. Insert(h, x, R) = PutAfter(h, x, n)
    BY <1>1, <1>4 DEF Insert
  <1> QED BY <1>5, <1>6

\* The elements of a heap with an element more.
LEMMA InsertedIs ==
    ASSUME NEW C, NEW h \in Seq(C), NEW x \in C, NEW n \in 0..Len(h), NEW r, r = PutAfter(h, x, n)
    PROVE  /\ r \in Seq(C) /\ Len(r) = Len(h) + 1
           /\ \A i \in 1..Len(r) : r[i] = IF i <= n THEN h[i] ELSE IF i = n + 1 THEN x ELSE h[i - 1]
  <1>1. PICK p, q, o : p = SubSeq(h, 1, n) /\ q = SubSeq(h, n + 1, Len(h)) /\ o = <<x>>
    OBVIOUS
  <1>2. PICK m \in Nat : m = Len(h) /\ n \in 0..m
    OBVIOUS
  <1>3. p \in Seq(C) /\ Len(p) = n /\ \A i \in 1..n : p[i] = h[i]
    BY <1>1, <1>2
  <1>4. q \in Seq(C) /\ Len(q) = m - n /\ \A i \in 1..(m - n) : q[i] = h[i + n]
    <2>1. \A i \in (n + 1)..m : h[i] \in C
      BY <1>2
    <2>2. q \in Seq(C)
      BY <1>1, <1>2, <2>1
    <2>3. Len(q) = m - n
      BY <1>1, <1>2
    <2>4. ASSUME NEW i \in 1..(m - n) PROVE q[i] = h[i + n]
      <3>1. q[i] = h[(n + 1) + i - 1]
        BY <1>1, <1>2
      <3>2. (n + 1) + i - 1 = i + n
        BY <1>2
      <3> QED BY <3>1, <3>2
    <2> QED BY <2>2, <2>3, <2>4
  <1>5. o \in Seq(C) /\ Len(o) = 1 /\ o[1] = x
    BY <1>1
  <1>6. PICK s : s = p \o o
    OBVIOUS
  <1>7. s \in Seq(C) /\ Len(s) = n + 1 /\ \A i \in 1..(n + 1) : s[i] = IF i <= n THEN h[i] ELSE x
    <2>a. s \in Seq(C)
      BY <1>3, <1>5, <1>6
    <2>c. p \in Seq(C) /\ o \in Seq(C)
      BY <1>3, <1>5
    <2>b. Len(s) = Len(p) + Len(o)
      BY <1>6, <2>c
    <2>1. s \in Seq(C) /\ Len(s) = n + 1
      BY <1>2, <1>3, <1>5, <2>a, <2>b
    <2>2. ASSUME NEW i \in 1..(n + 1) PROVE s[i] = IF i <= n THEN h[i] ELSE x
      <3>1. CASE i <= n
        <4>1. i \in 1..n
          BY <1>2, <3>1
        <4>2. s[i] = p[i]
          BY <1>3, <1>5, <1>6, <4>1
        <4> QED BY <1>3, <3>1, <4>1, <4>2
      <3>2. CASE ~(i <= n)
        <4>1. i = n + 1 /\ i - n = 1
          BY <1>2, <3>2
        <4>a. s[i] = o[i - Len(p)]
          <5>1. i \in 1..(Len(p) + Len(o)) /\ i > Len(p)
            BY <1>2, <1>3, <1>5, <4>1
          <5> QED BY <1>3, <1>5, <1>6, <5>1
        <4>2. s[i] = o[1]
          BY <1>2, <1>3, <4>1, <4>a
        <4> QED BY <1>5, <3>2, <4>2
      <3> QED BY <3>1, <3>2
    <2> QED BY <2>1, <2>2
  <1>8. r = s \o q
    BY <1>1, <1>6 DEF PutAfter
  <1>9. r \in Seq(C) /\ Len(r) = m + 1
    BY <1>2, <1>4, <1>7, <1>8
  <1>10. ASSUME NEW i \in 1..Len(r)
         PROVE  r[i] = IF i <= n THEN h[i] ELSE IF i = n + 1 THEN x ELSE h[i - 1]
    <2>1. CASE i <= n + 1
      <3>1. i \in 1..(n + 1)
        BY <1>2, <2>1
      <3>2. r[i] = s[i]
        BY <1>4, <1>7, <1>8, <3>1
      <3>3. ~(i <= n) => i = n + 1
        BY <1>2, <2>1
      <3> QED BY <1>7, <3>1, <3>2, <3>3
    <2>2. CASE ~(i <= n + 1)
      <3>1. i - (n + 1) \in 1..(m - n) /\ (i - (n + 1)) + n = i - 1 /\ ~(i <= n) /\ i # n + 1
        BY <1>2, <1>9, <2>2
      <3>2. r[i] = q[i - (n + 1)]
        BY <1>2, <1>4, <1>7, <1>8, <1>9, <2>2
      <3>3. q[i - (n + 1)] = h[(i - (n + 1)) + n]
        BY <1>4, <3>1
      <3>4. r[i] = h[i - 1]
        BY <3>1, <3>2, <3>3
      <3> QED BY <3>1, <3>4
    <2> QED BY <2>1, <2>2
  <1> QED BY <1>2, <1>9, <1>10

\* r has what h has and x, in order.
Grown(r, h, x, R, C) ==
    /\ r \in Seq(C) /\ Len(r) = Len(h) + 1 /\ Sorted(r, R)
    /\ \A i \in DOMAIN h : \E j \in DOMAIN r : r[j] = h[i]
    /\ \E j \in DOMAIN r : r[j] = x
    /\ \A j \in DOMAIN r : r[j] = x \/ \E i \in DOMAIN h : r[j] = h[i]

\* A heap with an element more is in order and has the elements it had and the new one.
LEMMA InsertIs ==
    ASSUME NEW C, NEW R, Orders(R, C), NEW h \in Seq(C), Sorted(h, R), NEW x \in C,
           NEW r, r = Insert(h, x, R)
    PROVE  Grown(r, h, x, R, C)
  <1>1. PICK n \in 0..Len(h) : /\ r = PutAfter(h, x, n)
                               /\ \A i \in DOMAIN h : i <= n <=> <<x, h[i]>> \notin R
    BY BehindIs
  <1>2. PICK m \in Nat : m = Len(h) /\ n \in 0..m /\ DOMAIN h = 1..m
    OBVIOUS
  <1>3. /\ r \in Seq(C) /\ Len(r) = m + 1
        /\ \A i \in 1..Len(r) : r[i] = IF i <= n THEN h[i] ELSE IF i = n + 1 THEN x ELSE h[i - 1]
    BY <1>1, <1>2, InsertedIs
  <1>4. DOMAIN r = 1..(m + 1)
    BY <1>3
  <1>5. \A i \in 1..(m + 1) : /\ i <= n => i \in 1..m /\ r[i] = h[i]
                              /\ i = n + 1 => r[i] = x
                              /\ i > n + 1 => i - 1 \in 1..m /\ r[i] = h[i - 1]
    BY <1>2, <1>3
  <1>6. \A i \in 1..m : h[i] \in C /\ (i <= n <=> <<x, h[i]>> \notin R)
    BY <1>1, <1>2
  <1>7. Sorted(r, R)
    <2> SUFFICES ASSUME NEW i \in 1..(m + 1), NEW j \in 1..(m + 1), i < j
                 PROVE  <<r[j], r[i]>> \notin R
      BY <1>4 DEF Sorted
    <2>1. \A a, b \in 1..m : a < b => <<h[b], h[a]>> \notin R
      BY <1>2 DEF Sorted
    <2>2. CASE i <= n /\ j <= n
      BY <1>5, <2>1, <2>2
    <2>3. CASE i <= n /\ j = n + 1
      BY <1>5, <1>6, <2>3
    <2>4. CASE i <= n /\ j > n + 1
      <3>1. i < j - 1
        BY <1>2, <2>4
      <3> QED BY <1>5, <2>1, <2>4, <3>1
    <2>5. CASE i = n + 1 /\ j > n + 1
      <3>1. r[i] = x /\ j - 1 \in 1..m /\ r[j] = h[j - 1] /\ ~(j - 1 <= n)
        BY <1>2, <1>5, <2>5
      <3>2. <<x, h[j - 1]>> \in R /\ h[j - 1] \in C
        BY <1>6, <3>1
      <3>3. <<h[j - 1], x>> \notin R
        BY <3>2 DEF Orders
      <3> QED BY <3>1, <3>3
    <2>6. CASE i > n + 1 /\ j > n + 1
      <3>1. i - 1 < j - 1
        OBVIOUS
      <3> QED BY <1>5, <2>1, <2>6, <3>1
    <2> QED BY <1>2, <2>2, <2>3, <2>4, <2>5, <2>6
  <1>8. ASSUME NEW i \in DOMAIN h PROVE \E j \in DOMAIN r : r[j] = h[i]
    <2>1. i \in 1..m
      BY <1>2
    <2>2. CASE i <= n
      <3>1. i \in 1..(m + 1)
        BY <1>2, <2>1
      <3> QED BY <1>4, <1>5, <2>2, <3>1
    <2>3. CASE ~(i <= n)
      <3>1. i + 1 \in 1..(m + 1) /\ i + 1 > n + 1 /\ (i + 1) - 1 = i
        BY <1>2, <2>1, <2>3
      <3>2. r[i + 1] = h[i]
        BY <1>5, <3>1
      <3> QED BY <1>4, <3>1, <3>2
    <2> QED BY <2>2, <2>3
  <1>9. \E j \in DOMAIN r : r[j] = x
    <2>1. n + 1 \in 1..(m + 1)
      BY <1>2
    <2> QED BY <1>4, <1>5, <2>1
  <1>10. ASSUME NEW j \in DOMAIN r PROVE r[j] = x \/ \E i \in DOMAIN h : r[j] = h[i]
    <2>1. j \in 1..(m + 1) /\ (j <= n \/ j = n + 1 \/ j > n + 1)
      BY <1>2, <1>4
    <2> QED BY <1>2, <1>5, <2>1
  <1> QED BY <1>2, <1>3, <1>7, <1>8, <1>9, <1>10 DEF Grown

\* The best of what a heap has been offered: as many as it holds, in order, nothing else,
\* and nothing left out goes before anything in it.  The offers are the values that en
\* has at the places P.
Pool(P, en, C) == IsFiniteSet(P) /\ \A x \in P : en[x] \in C
Has(h, e) == \E i \in DOMAIN h : h[i] = e
Best(h, P, en, cap, R, C) ==
    /\ h \in Seq(C) /\ Sorted(h, R) /\ Len(h) <= cap
    /\ Len(h) <= Cardinality(P) /\ (Len(h) = cap \/ Len(h) = Cardinality(P))
    /\ \A i \in DOMAIN h : \E x \in P : h[i] = en[x]
    /\ \A x \in P : \/ Has(h, en[x])
                    \/ Len(h) = cap /\ \A i \in DOMAIN h : <<en[x], h[i]>> \notin R

\* A heap that is offered nothing.
LEMMA BestNone ==
    ASSUME NEW en, NEW cap \in Nat, NEW R, NEW C, NEW P, P = {}
    PROVE  Best(<<>>, P, en, cap, R, C)
  <1>1. <<>> \in Seq(C) /\ Len(<<>>) = 0 /\ DOMAIN <<>> = {}
    OBVIOUS
  <1>2. Cardinality(P) = 0
    BY FS_EmptySet
  <1> QED BY <1>1, <1>2 DEF Best, Sorted

\* A full heap without its last element.
LEMMA FrontIs ==
    ASSUME NEW C, NEW R, NEW h \in Seq(C), Sorted(h, R), h # <<>>
    PROVE  /\ Front(h) \in Seq(C) /\ Len(Front(h)) = Len(h) - 1 /\ Sorted(Front(h), R)
           /\ Len(h) \in DOMAIN h /\ Last(h) = h[Len(h)]
           /\ DOMAIN Front(h) = 1..(Len(h) - 1) /\ \A i \in 1..(Len(h) - 1) : Front(h)[i] = h[i]
  <1>1. PICK m \in Nat : m = Len(h) /\ m # 0 /\ DOMAIN h = 1..m
    OBVIOUS
  <1>2. PICK f : f = Front(h)
    OBVIOUS
  <1>3. f = SubSeq(h, 1, m - 1)
    BY <1>1, <1>2 DEF Front
  <1>4. m - 1 \in Nat /\ m - 1 <= m
    BY <1>1
  <1>5. f \in Seq(C) /\ Len(f) = m - 1
    BY <1>1, <1>3, <1>4
  <1>6. \A i \in 1..(m - 1) : f[i] = h[i]
    BY <1>1, <1>3, <1>4
  <1>7. DOMAIN f = 1..(m - 1)
    BY <1>4, <1>5
  <1>8. Sorted(f, R)
    BY <1>1, <1>6, <1>7 DEF Sorted
  <1> QED BY <1>1, <1>2, <1>5, <1>6, <1>7, <1>8 DEF Last

\* An offer more.
LEMMA BestPush ==
    ASSUME NEW C, NEW R, Orders(R, C), NEW cap \in Nat \ {0}, NEW P, NEW en, NEW h,
           Best(h, P, en, cap, R, C), Pool(P, en, C), NEW y, y \notin P, en[y] \in C,
           NEW r, r = Push(h, en[y], cap, R)
    PROVE  Best(r, P \cup {y}, en, cap, R, C)
  <1>1. PICK c, Q : c = en[y] /\ Q = P \cup {y}
    OBVIOUS
  <1>2. PICK m, k \in Nat : m = Len(h) /\ k = Cardinality(P)
    BY FS_CardinalityType DEF Pool, Best
  <1>3. Cardinality(Q) = k + 1
    BY <1>1, <1>2, FS_AddElement DEF Pool
  <1>4. /\ h \in Seq(C) /\ Sorted(h, R) /\ m <= cap /\ m <= k /\ (m = cap \/ m = k)
        /\ DOMAIN h = 1..m /\ c \in C
    BY <1>1, <1>2 DEF Best
  <1>5. \A i \in DOMAIN h : h[i] \in C /\ \E x \in P : h[i] = en[x]
    BY <1>4 DEF Best
  <1>6. \A x \in P : /\ en[x] \in C
                     /\ Has(h, en[x]) \/ (m = cap /\ \A i \in DOMAIN h : <<en[x], h[i]>> \notin R)
    BY <1>2 DEF Best, Pool
  <1>7. CASE m < cap
    <2>1. r = Insert(h, c, R)
      BY <1>1, <1>2, <1>7 DEF Push
    <2>2. /\ r \in Seq(C) /\ Len(r) = m + 1 /\ Sorted(r, R)
          /\ \A i \in DOMAIN h : \E j \in DOMAIN r : r[j] = h[i]
          /\ \E j \in DOMAIN r : r[j] = c
          /\ \A j \in DOMAIN r : r[j] = c \/ \E i \in DOMAIN h : r[j] = h[i]
      <3>1. Grown(r, h, c, R, C)
        BY <1>4, <2>1, InsertIs
      <3> QED BY <1>2, <3>1 DEF Grown
    <2>3. \A j \in DOMAIN r : \E x \in Q : r[j] = en[x]
      BY <1>1, <1>5, <2>2
    <2>4. \A x \in Q : Has(r, en[x])
      BY <1>1, <1>2, <1>6, <1>7, <2>2 DEF Has
    <2>5. Len(r) <= cap /\ Len(r) <= Cardinality(Q) /\ Len(r) = Cardinality(Q)
      BY <1>2, <1>3, <1>4, <1>7, <2>2
    <2>6. Best(r, Q, en, cap, R, C)
      BY <2>2, <2>3, <2>4, <2>5 DEF Best
    <2> QED BY <1>1, <2>6
  <1>8. CASE m = cap /\ <<c, Last(h)>> \in R
    <2>1. h # <<>> /\ m # 0
      BY <1>2, <1>4, <1>8
    <2>2. PICK f, l : f = Front(h) /\ l = Last(h)
      OBVIOUS
    <2>3. /\ f \in Seq(C) /\ Len(f) = m - 1 /\ Sorted(f, R) /\ m \in DOMAIN h /\ l = h[m]
          /\ DOMAIN f = 1..(m - 1) /\ \A i \in 1..(m - 1) : f[i] = h[i]
      BY <1>2, <1>4, <2>1, <2>2, FrontIs
    <2>4. r = Insert(f, c, R)
      BY <1>1, <1>2, <1>8, <2>1, <2>2 DEF Push
    <2>5. /\ r \in Seq(C) /\ Len(r) = (m - 1) + 1 /\ Sorted(r, R)
          /\ \A i \in DOMAIN f : \E j \in DOMAIN r : r[j] = f[i]
          /\ \E j \in DOMAIN r : r[j] = c
          /\ \A j \in DOMAIN r : r[j] = c \/ \E i \in DOMAIN f : r[j] = f[i]
      <3>1. Grown(r, f, c, R, C)
        BY <1>4, <2>3, <2>4, InsertIs
      <3> QED BY <2>3, <3>1 DEF Grown
    <2>6. Len(r) = cap /\ Len(r) <= Cardinality(Q)
      BY <1>2, <1>3, <1>4, <1>8, <2>5
    <2>7. \A i \in 1..(m - 1) : i \in DOMAIN h /\ f[i] = h[i] /\ i < m
      BY <1>2, <1>4, <2>3
    <2>8. ASSUME NEW j \in DOMAIN r PROVE \E x \in Q : r[j] = en[x]
      <3>1. CASE r[j] = c
        BY <1>1, <3>1
      <3>2. CASE r[j] # c
        <4>1. PICK i \in 1..(m - 1) : r[j] = f[i]
          BY <2>3, <2>5, <3>2
        <4>2. i \in DOMAIN h /\ r[j] = h[i]
          BY <2>7, <4>1
        <4>3. PICK x \in P : h[i] = en[x]
          BY <1>5, <4>2
        <4> QED BY <1>1, <4>2, <4>3
      <3> QED BY <3>1, <3>2
    <2>9. l \in C /\ <<c, l>> \in R /\ <<l, c>> \notin R
      <3>1. l \in C /\ <<c, l>> \in R
        BY <1>5, <1>8, <2>2, <2>3
      <3> QED BY <1>4, <3>1 DEF Orders
    <2>10. ASSUME NEW x \in Q PROVE Has(r, en[x]) \/ \A j \in DOMAIN r : <<en[x], r[j]>> \notin R
      <3>1. CASE x = y
        BY <1>1, <2>5, <3>1 DEF Has
      <3>2. CASE x \in P /\ \E i \in 1..(m - 1) : h[i] = en[x]
        <4>1. PICK i \in 1..(m - 1) : h[i] = en[x]
          BY <3>2
        <4>2. i \in DOMAIN f /\ f[i] = en[x]
          BY <2>3, <2>7, <4>1
        <4>3. PICK j \in DOMAIN r : r[j] = f[i]
          BY <2>5, <4>2
        <4> QED BY <4>2, <4>3 DEF Has
      <3>3. CASE x \in P /\ h[m] = en[x]
        <4>1. \A i \in 1..(m - 1) : <<l, f[i]>> \notin R
          BY <1>4, <2>3, <2>7 DEF Sorted
        <4>2. \A j \in DOMAIN r : <<l, r[j]>> \notin R
          BY <2>3, <2>5, <2>9, <4>1
        <4> QED BY <2>3, <3>3, <4>2
      <3>4. CASE x \in P /\ \A i \in DOMAIN h : <<en[x], h[i]>> \notin R
        <4>1. en[x] \in C /\ <<en[x], l>> \notin R /\ \A i \in 1..(m - 1) : <<en[x], f[i]>> \notin R
          BY <1>6, <2>3, <2>7, <3>4
        <4>2. <<en[x], c>> \notin R
          BY <1>4, <2>9, <4>1 DEF Orders
        <4> QED BY <2>3, <2>5, <4>1, <4>2
      <3>5. x = y \/ x \in P
        BY <1>1
      <3>6. ASSUME NEW i \in DOMAIN h PROVE i \in 1..(m - 1) \/ i = m
        BY <1>2, <1>4
      <3> QED BY <1>6, <3>1, <3>2, <3>3, <3>4, <3>5, <3>6 DEF Has
    <2>11. Best(r, Q, en, cap, R, C)
      BY <2>5, <2>6, <2>8, <2>10 DEF Best
    <2> QED BY <1>1, <2>11
  <1>9. CASE m = cap /\ <<c, Last(h)>> \notin R
    <2>1. h # <<>> /\ m # 0
      BY <1>2, <1>4, <1>9
    <2>2. r = h
      BY <1>1, <1>2, <1>9 DEF Push
    <2>3. PICK l : l = Last(h)
      OBVIOUS
    <2>4. m \in DOMAIN h /\ l = h[m] /\ l \in C
      BY <1>2, <1>4, <1>5, <2>1, <2>3, FrontIs
    <2>5. ASSUME NEW i \in DOMAIN h PROVE <<c, h[i]>> \notin R
      <3>1. i = m \/ i < m
        BY <1>2, <1>4
      <3>2. <<l, h[i]>> \notin R /\ h[i] \in C
        BY <1>4, <1>5, <2>4, <3>1 DEF Sorted, Orders
      <3> QED BY <1>4, <1>9, <2>3, <2>4, <3>2 DEF Orders
    <2>6. \A x \in Q : Has(h, en[x]) \/ \A i \in DOMAIN h : <<en[x], h[i]>> \notin R
      BY <1>1, <1>6, <2>5
    <2>7. \A i \in DOMAIN h : \E x \in Q : h[i] = en[x]
      BY <1>1, <1>5
    <2>8. Len(h) = cap /\ Len(h) <= cap /\ Len(h) <= Cardinality(Q)
      BY <1>2, <1>3, <1>4, <1>9
    <2>9. Best(h, Q, en, cap, R, C)
      BY <1>4, <2>6, <2>7, <2>8 DEF Best
    <2> QED BY <1>1, <2>2, <2>9
  <1> QED BY <1>2, <1>4, <1>7, <1>8, <1>9

-----------------------------------------------------------------------------
(* Folds over a sequence. *)

\* st steps from values in X by elements of Y.
StepOn(st, X, Y) == st \in [X \X Y -> X]

\* f has the values of a fold after each element.
Runs(f, X, b, st, s) ==
    /\ f \in [0..Len(s) -> X] /\ f[0] = b
    /\ \A i \in 1..Len(s) : f[i] = st[<<f[i - 1], s[i]>>]

\* The largest number of a set that goes up to n and has n.
LEMMA LargestIs ==
    ASSUME NEW n \in Nat, NEW S \in SUBSET (1..n), n \in S
    PROVE  Max(S) = n
  <1>1. \A x \in S : (\A y \in S : x >= y) => x = n
    OBVIOUS
  <1>2. \A y \in S : n >= y
    OBVIOUS
  <1> QED BY <1>1, <1>2 DEF Max

\* it has the values of the fold over each set of places, largest place last.
Iterates(it, X, b, st, s, n) ==
    /\ it \in [SUBSET (1..n) -> X] /\ it[{}] = b
    /\ \A S \in SUBSET (1..n) :
          S # {} => it[S] = st[<<it[S \ {Max(S)}], s[Max(S)]>>] /\ Max(S) \in S

\* There are such values.
LEMMA IterationExists ==
    ASSUME NEW X, NEW Y, NEW b \in X, NEW st, StepOn(st, X, Y), NEW s \in Seq(Y)
    PROVE  \E it : Iterates(it, X, b, st, s, Len(s))
  <1>1. PICK N : N = {n \in Nat : n <= Len(s) => \E it : Iterates(it, X, b, st, s, n)}
    OBVIOUS
  <1>2. 0 \in N
    <2>1. PICK it : it = [S \in SUBSET (1..0) |-> b]
      OBVIOUS
    <2>2. 1..0 = {} /\ SUBSET (1..0) = {{}}
      OBVIOUS
    <2>3. Iterates(it, X, b, st, s, 0)
      BY <2>1, <2>2 DEF Iterates
    <2> QED BY <1>1, <2>3
  <1>3. ASSUME NEW n \in N PROVE n + 1 \in N
    <2>1. n \in Nat
      BY <1>1
    <2> SUFFICES ASSUME n + 1 <= Len(s) PROVE \E h : Iterates(h, X, b, st, s, n + 1)
      BY <1>1, <2>1
    <2>2. PICK it : Iterates(it, X, b, st, s, n)
      BY <1>1, <2>1
    <2>3. PICK m : m = n + 1
      OBVIOUS
    <2>4. m \in Nat /\ m \in 1..Len(s) /\ s[m] \in Y
      BY <2>1, <2>3
    <2>5. \A S \in SUBSET (1..m) : S \ {m} \in SUBSET (1..n)
      BY <2>1, <2>3
    <2>6. PICK h : h = [S \in SUBSET (1..m) |-> IF m \in S THEN st[<<it[S \ {m}], s[m]>>] ELSE it[S]]
      OBVIOUS
    <2>7. ASSUME NEW S \in SUBSET (1..m), m \notin S PROVE S \in SUBSET (1..n)
      BY <2>5, <2>7
    <2>8. ASSUME NEW S \in SUBSET (1..m)
          PROVE  /\ h[S] \in X
                 /\ S # {} => h[S] = st[<<h[S \ {Max(S)}], s[Max(S)]>>] /\ Max(S) \in S
      <3>1. CASE m \in S
        <4>1. Max(S) = m
          BY <2>4, <3>1, LargestIs
        <4>2. S \ {m} \in SUBSET (1..n) /\ S \ {m} \in SUBSET (1..m) /\ m \notin S \ {m}
          BY <2>5
        <4>3. h[S \ {m}] = it[S \ {m}]
          BY <2>6, <4>2
        <4>4. h[S] = st[<<it[S \ {m}], s[m]>>]
          BY <2>6, <3>1
        <4>5. it[S \ {m}] \in X
          BY <2>2, <4>2 DEF Iterates
        <4>6. h[S] \in X
          BY <2>4, <4>4, <4>5 DEF StepOn
        <4> QED BY <3>1, <4>1, <4>3, <4>4, <4>6
      <3>2. CASE m \notin S
        <4>1. S \in SUBSET (1..n)
          BY <2>7, <3>2
        <4>2. h[S] = it[S]
          BY <2>6, <3>2
        <4>3. it[S] \in X /\ (S # {} => it[S] = st[<<it[S \ {Max(S)}], s[Max(S)]>>] /\ Max(S) \in S)
          BY <2>2, <4>1 DEF Iterates
        <4>4. S \ {Max(S)} \in SUBSET (1..m) /\ m \notin S \ {Max(S)}
          BY <3>2
        <4>5. h[S \ {Max(S)}] = it[S \ {Max(S)}]
          BY <2>6, <4>4
        <4> QED BY <4>2, <4>3, <4>5
      <3> QED BY <3>1, <3>2
    <2>9. h[{}] = b
      <3>1. {} \in SUBSET (1..m) /\ m \notin {}
        OBVIOUS
      <3>2. it[{}] = b
        BY <2>2 DEF Iterates
      <3> QED BY <2>6, <3>1, <3>2
    <2>10. h \in [SUBSET (1..m) -> X]
      BY <2>6, <2>8
    <2>11. Iterates(h, X, b, st, s, m)
      BY <2>8, <2>9, <2>10 DEF Iterates
    <2> QED BY <2>3, <2>11
  <1>4. N = Nat
    BY <1>1, <1>2, <1>3, SetInduction
  <1>5. Len(s) \in N
    BY <1>4
  <1> QED BY <1>1, <1>5

\* it follows the recursion of FoldLeft, as far as its values are of their type.
FoldsBack(it, X, b, st, s) ==
    /\ it[{}] = b
    /\ \A S \in SUBSET (1..Len(s)) :
          S # {} /\ it[S \ {Max(S)}] \in X => it[S] = st[<<it[S \ {Max(S)}], s[Max(S)]>>]

\* What is defined by the recursion of FoldLeft runs through the elements.
LEMMA IterationRuns ==
    ASSUME NEW X, NEW Y, NEW b \in X, NEW st, StepOn(st, X, Y), NEW s \in Seq(Y), NEW it,
           FoldsBack(it, X, b, st, s)
    PROVE  \E f : Runs(f, X, b, st, s) /\ it[1..Len(s)] = f[Len(s)]
  <1>1. PICK l \in Nat : l = Len(s)
    OBVIOUS
  <1>2. PICK N : N = {n \in Nat : n <= l =>
                        it[1..n] \in X /\ (n # 0 => it[1..n] = st[<<it[1..(n - 1)], s[n]>>])}
    OBVIOUS
  <1>3. 0 \in N
    <2>1. 1..0 = {}
      OBVIOUS
    <2>2. it[1..0] \in X
      BY <2>1 DEF FoldsBack
    <2> QED BY <1>2, <2>2
  <1>4. ASSUME NEW n \in N PROVE n + 1 \in N
    <2>1. n \in Nat
      BY <1>2
    <2> SUFFICES ASSUME n + 1 <= l
                 PROVE  /\ it[1..(n + 1)] \in X
                        /\ it[1..(n + 1)] = st[<<it[1..((n + 1) - 1)], s[n + 1]>>]
      BY <1>1, <1>2, <2>1
    <2>2. it[1..n] \in X
      BY <1>1, <1>2, <2>1
    <2>3. PICK m, S : m = n + 1 /\ S = 1..m
      OBVIOUS
    <2>4. m \in 1..Len(s) /\ m \in Nat /\ m - 1 = n
      BY <1>1, <2>1, <2>3
    <2>5. S \in SUBSET (1..Len(s)) /\ m \in S /\ S \in SUBSET (1..m)
      BY <2>3, <2>4
    <2>6. Max(S) = m
      BY <2>4, <2>5, LargestIs
    <2>7. S \ {m} = 1..n
      BY <2>1, <2>3
    <2>8. it[S] = st[<<it[1..n], s[m]>>]
      BY <2>2, <2>5, <2>6, <2>7 DEF FoldsBack
    <2>9. s[m] \in Y
      BY <2>4
    <2>10. it[S] \in X
      BY <2>2, <2>8, <2>9 DEF StepOn
    <2> QED BY <2>3, <2>4, <2>8, <2>10
  <1>5. N = Nat
    BY <1>2, <1>3, <1>4, SetInduction
  <1>6. PICK f : f = [i \in 0..l |-> it[1..i]]
    OBVIOUS
  <1>7. f \in [0..l -> X]
    <2>1. ASSUME NEW i \in 0..l PROVE it[1..i] \in X
      <3>1. i \in N /\ i <= l
        BY <1>1, <1>5
      <3> QED BY <1>2, <3>1
    <2> QED BY <1>6, <2>1
  <1>8. f[0] = b
    <2>1. 1..0 = {} /\ 0 \in 0..l
      BY <1>1
    <2> QED BY <1>6, <2>1 DEF FoldsBack
  <1>9. ASSUME NEW i \in 1..l PROVE f[i] = st[<<f[i - 1], s[i]>>]
    <2>1. i \in Nat /\ i <= l /\ i # 0 /\ i \in 0..l /\ i - 1 \in 0..l
      BY <1>1
    <2>2. it[1..i] = st[<<it[1..(i - 1)], s[i]>>]
      BY <1>2, <1>5, <2>1
    <2> QED BY <1>6, <2>1, <2>2
  <1>10. f[l] = it[1..l]
    BY <1>1, <1>6
  <1>11. Runs(f, X, b, st, s)
    BY <1>1, <1>7, <1>8, <1>9 DEF Runs
  <1> QED BY <1>1, <1>10, <1>11

-----------------------------------------------------------------------------
(* A heap that is offered the entries of a leaf. *)

\* The step: entries whose id is in D are passed over.
StepOf(D, cap, R, C) ==
    [p \in Seq(C) \X C |-> IF p[2].id \in D THEN p[1] ELSE Push(p[1], p[2], cap, R)]

\* The places of the entries u of the block b.
Offers(b, u, D) == {x \in {b} \X Nat : x[2] \in DOMAIN u /\ u[x[2]].id \notin D}
Feeding(u, b, P, en, C) ==
    /\ u \in Seq(C) /\ Pool(P, en, C)
    /\ \A i \in DOMAIN u : en[<<b, i>>] = u[i] /\ <<b, i>> \notin P

\* A heap stays one of these records.
LEMMA PushType ==
    ASSUME NEW C, NEW R, NEW cap \in Nat \ {0}, NEW h \in Seq(C), NEW x \in C
    PROVE  Push(h, x, cap, R) \in Seq(C)
  <1>1. ASSUME NEW s \in Seq(C) PROVE Insert(s, x, R) \in Seq(C)
    <2>1. PICK m \in Nat : m = Len(s) /\ DOMAIN s = 1..m
      OBVIOUS
    <2>2. PICK D, n : D = Behind(s, x, R) /\ n = Cardinality(D)
      OBVIOUS
    <2>3. D \in SUBSET (1..m)
      BY <2>1, <2>2 DEF Behind
    <2>4. IsFiniteSet(1..m) /\ Cardinality(1..m) = m
      BY FS_Interval
    <2>5. n \in Nat /\ n <= m
      BY <2>2, <2>3, <2>4, FS_Subset, FS_CardinalityType
    <2>6. n \in 0..Len(s)
      BY <2>1, <2>5
    <2>7. Insert(s, x, R) = PutAfter(s, x, n)
      BY <2>2 DEF Insert
    <2> QED BY <2>6, <2>7, InsertedIs
  <1>2. Len(h) = cap => Front(h) \in Seq(C)
    <2>1. Len(h) = cap => 1..(Len(h) - 1) \subseteq 1..Len(h)
      OBVIOUS
    <2> QED BY <2>1 DEF Front
  <1> QED BY <1>1, <1>2 DEF Push

\* The step's type.
LEMMA StepOfIs ==
    ASSUME NEW D, NEW cap \in Nat \ {0}, NEW R, NEW C
    PROVE  StepOn(StepOf(D, cap, R, C), Seq(C), C)
  <1>1. ASSUME NEW h \in Seq(C), NEW x \in C
        PROVE  (IF x.id \in D THEN h ELSE Push(h, x, cap, R)) \in Seq(C)
    BY PushType
  <1>2. StepOf(D, cap, R, C) \in [Seq(C) \X C -> Seq(C)]
    BY <1>1 DEF StepOf
  <1> QED BY <1>2 DEF StepOn

\* It ends with the best of what it had been offered and the entries.
LEMMA BestRun ==
    ASSUME NEW C, NEW R, Orders(R, C), NEW cap \in Nat \ {0}, NEW D, NEW P, NEW en, NEW h,
           Best(h, P, en, cap, R, C), NEW u, NEW b, Feeding(u, b, P, en, C),
           NEW f, Runs(f, Seq(C), h, StepOf(D, cap, R, C), u)
    PROVE  /\ Best(f[Len(u)], P \cup Offers(b, u, D), en, cap, R, C)
           /\ Pool(P \cup Offers(b, u, D), en, C)
  <1>1. u \in Seq(C) /\ Pool(P, en, C) /\ \A i \in DOMAIN u : en[<<b, i>>] = u[i] /\ <<b, i>> \notin P
    BY DEF Feeding
  <1>2. PICK l \in Nat : l = Len(u) /\ DOMAIN u = 1..l
    BY <1>1
  <1> DEFINE Off(j) == {x \in Offers(b, u, D) : x[2] <= j}
             Ok(j) == Best(f[j], P \cup Off(j), en, cap, R, C) /\ Pool(P \cup Off(j), en, C)
  <1> HIDE DEF Ok
  <1>3. PICK N : N = {j \in Nat : j <= l => Ok(j)}
    OBVIOUS
  <1>4. 0 \in N
    <2>1. Off(0) = {}
      BY <1>2 DEF Offers
    <2>2. f[0] = h
      BY DEF Runs
    <2>3. P \cup Off(0) = P
      BY <2>1
    <2> QED BY <1>1, <1>3, <2>2, <2>3 DEF Ok
  <1>5. ASSUME NEW j \in N PROVE j + 1 \in N
    <2>1. j \in Nat
      BY <1>3
    <2>2. PICK k : k = j + 1
      OBVIOUS
    <2> SUFFICES ASSUME k <= l PROVE Ok(k)
      BY <1>3, <2>1, <2>2
    <2>3. k \in 1..l /\ k - 1 = j /\ k \in DOMAIN u /\ j <= l /\ k \in Nat /\ j \in 0..l
      BY <1>2, <2>1, <2>2
    <2>4. PICK Q, q, c : Q = P \cup Off(j) /\ q = f[j] /\ c = u[k]
      OBVIOUS
    <2>5. Best(q, Q, en, cap, R, C) /\ Pool(Q, en, C)
      BY <1>3, <2>3, <2>4 DEF Ok
    <2>6. c \in C /\ en[<<b, k>>] = c /\ <<b, k>> \notin P
      BY <1>1, <2>3, <2>4
    <2>7. q \in Seq(C)
      BY <2>5 DEF Best
    <2>8. f[k] = IF c.id \in D THEN q ELSE Push(q, c, cap, R)
      <3>1. f[k] = StepOf(D, cap, R, C)[<<q, c>>]
        BY <1>2, <2>3, <2>4 DEF Runs
      <3>2. <<q, c>> \in Seq(C) \X C /\ <<q, c>>[1] = q /\ <<q, c>>[2] = c
        BY <2>6, <2>7
      <3> QED BY <3>1, <3>2 DEF StepOf
    <2>9. CASE c.id \in D
      <3>1. Off(k) = Off(j)
        BY <1>2, <2>1, <2>2, <2>4, <2>9 DEF Offers
      <3> QED BY <2>4, <2>5, <2>8, <2>9, <3>1 DEF Ok
    <2>10. CASE c.id \notin D
      <3>1. PICK y : y = <<b, k>>
        OBVIOUS
      <3>2. Off(k) = Off(j) \cup {y}
        BY <1>2, <2>1, <2>2, <2>3, <2>4, <2>10, <3>1 DEF Offers
      <3>3. y \notin Q
        BY <2>1, <2>2, <2>4, <2>6, <3>1
      <3>4. P \cup Off(k) = Q \cup {y}
        BY <2>4, <3>2
      <3>5. en[y] = c /\ en[y] \in C
        BY <2>6, <3>1
      <3>6. f[k] = Push(q, en[y], cap, R)
        BY <2>8, <2>10, <3>5
      <3>7. Best(f[k], Q \cup {y}, en, cap, R, C)
        BY <2>5, <3>3, <3>5, <3>6, BestPush
      <3>8. Pool(Q \cup {y}, en, C)
        BY <2>5, <3>5, FS_AddElement DEF Pool
      <3> QED BY <3>4, <3>7, <3>8 DEF Ok
    <2> QED BY <2>9, <2>10
  <1>6. N = Nat
    BY <1>3, <1>4, <1>5, SetInduction
  <1>7. Off(l) = Offers(b, u, D)
    BY <1>2 DEF Offers
  <1>8. Ok(l)
    BY <1>3, <1>6
  <1> QED BY <1>2, <1>7, <1>8 DEF Ok

-----------------------------------------------------------------------------
(* The entries of the leaves, and the two orders of them. *)

CorpusRecords == {c \in [id : Blocks \X Nat, val : Nat] : KeyOf(c.id) \in Nat}
SampleOrder == {p \in CorpusRecords \X CorpusRecords : SampleBefore(p[1], p[2])}
NearOrder(q) == {p \in CorpusRecords \X CorpusRecords : Nearer(q, p[1], p[2])}

\* The order of the sample is one.
LEMMA SampleOrders == Orders(SampleOrder, CorpusRecords)
  <1>1. \A x \in CorpusRecords : KeyOf(x.id) \in Nat
    BY DEF CorpusRecords
  <1>2. PICK k : k = [x \in CorpusRecords |-> KeyOf(x.id)]
    OBVIOUS
  <1>3. \A x \in CorpusRecords : k[x] \in Nat
    BY <1>1, <1>2
  <1>4. \A x, y \in CorpusRecords : <<x, y>> \in SampleOrder <=> k[x] < k[y]
    BY <1>2 DEF SampleOrder, SampleBefore
  <1>5. \A x \in CorpusRecords : <<x, x>> \notin SampleOrder
    BY <1>3, <1>4
  <1>6. ASSUME NEW x \in CorpusRecords, NEW y \in CorpusRecords, NEW z \in CorpusRecords
        PROVE  /\ <<x, y>> \in SampleOrder /\ <<y, z>> \in SampleOrder => <<x, z>> \in SampleOrder
               /\ <<x, z>> \in SampleOrder => <<x, y>> \in SampleOrder \/ <<y, z>> \in SampleOrder
    <2>1. k[x] \in Nat /\ k[y] \in Nat /\ k[z] \in Nat
      BY <1>3
    <2> QED BY <1>4, <2>1
  <1> QED BY <1>5, <1>6 DEF Orders

\* Three numbers in order, the first deciding.
Lexically(a, b, c, x, y, z) == a < x \/ (a = x /\ b < y) \/ (a = x /\ b = y /\ c < z)

\* The order of a query's neighbours is one.
LEMMA NearOrders ==
    ASSUME NEW q \in CorpusRecords
    PROVE  Orders(NearOrder(q), CorpusRecords)
  <1>1. \A x \in CorpusRecords : x.val \in Nat /\ x.id[1] \in Nat /\ x.id[2] \in Nat
    <2>1. Blocks \subseteq Nat
      BY QualityAssumption
    <2> QED BY <2>1 DEF CorpusRecords
  <1>2. PICK d, i, j : /\ d = [x \in CorpusRecords |-> Distance(q, x)]
                       /\ i = [x \in CorpusRecords |-> x.id[1]]
                       /\ j = [x \in CorpusRecords |-> x.id[2]]
    OBVIOUS
  <1>3. \A x \in CorpusRecords : d[x] \in Int /\ i[x] \in Int /\ j[x] \in Int
    <2>1. \A x \in CorpusRecords : Distance(q, x) \in Int
      BY <1>1 DEF Distance
    <2> QED BY <1>1, <1>2, <2>1
  <1>4. \A x, y \in CorpusRecords :
            <<x, y>> \in NearOrder(q) <=> Lexically(d[x], i[x], j[x], d[y], i[y], j[y])
    BY <1>2 DEF NearOrder, Nearer, Lexically
  <1>5. ASSUME NEW x \in CorpusRecords PROVE <<x, x>> \notin NearOrder(q)
    <2>1. d[x] \in Int /\ i[x] \in Int /\ j[x] \in Int
      BY <1>3
    <2> QED BY <1>4, <2>1 DEF Lexically
  <1>6. ASSUME NEW x \in CorpusRecords, NEW y \in CorpusRecords, NEW z \in CorpusRecords
        PROVE  /\ <<x, y>> \in NearOrder(q) /\ <<y, z>> \in NearOrder(q) => <<x, z>> \in NearOrder(q)
               /\ <<x, z>> \in NearOrder(q) => <<x, y>> \in NearOrder(q) \/ <<y, z>> \in NearOrder(q)
    <2>1. /\ d[x] \in Int /\ i[x] \in Int /\ j[x] \in Int
          /\ d[y] \in Int /\ i[y] \in Int /\ j[y] \in Int
          /\ d[z] \in Int /\ i[z] \in Int /\ j[z] \in Int
      BY <1>3
    <2> QED BY <1>4, <2>1 DEF Lexically
  <1> QED BY <1>5, <1>6 DEF Orders

\* The steps of the two heaps.
LEMMA SampleStepIs ==
    ASSUME NEW n, n = size, NEW h \in Seq(CorpusRecords), NEW e \in CorpusRecords
    PROVE  PushBoundedSample(h, e) = StepOf({}, n, SampleOrder, CorpusRecords)[<<h, e>>]
  <1>1. StepOf({}, n, SampleOrder, CorpusRecords)[<<h, e>>] = Push(h, e, n, SampleOrder)
    BY DEF StepOf
  <1>2. ASSUME NEW s \in Seq(CorpusRecords)
        PROVE  InsertBy(s, e, SampleBefore) = Insert(s, e, SampleOrder)
    <2>1. \A i \in DOMAIN s : s[i] \in CorpusRecords
      OBVIOUS
    <2>2. {i \in DOMAIN s : ~SampleBefore(e, s[i])} = Behind(s, e, SampleOrder)
      BY <2>1 DEF Behind, SampleOrder
    <2> QED BY <2>2 DEF InsertBy, Insert, PutAfter
  <1>3. h # <<>> => Last(h) \in CorpusRecords
    BY DEF Last
  <1>4. h # <<>> => (SampleBefore(e, Last(h)) <=> <<e, Last(h)>> \in SampleOrder)
    BY <1>3 DEF SampleOrder
  <1>5. ASSUME Len(h) < n \/ (h # <<>> /\ SampleBefore(e, Last(h)))
        PROVE  (IF Len(h) = n THEN Front(h) ELSE h) \in Seq(CorpusRecords)
    <2>1. CASE Len(h) = n
      <3>1. h # <<>> /\ Len(h) \in Nat
        BY <1>5, <2>1
      <3>2. Len(h) - 1 \in 0..Len(h)
        BY <3>1
      <3> QED BY <2>1, <3>2 DEF Front
    <2> QED BY <2>1
  <1>6. PushBounded(h, e, n, SampleBefore) = Push(h, e, n, SampleOrder)
    BY <1>2, <1>4, <1>5 DEF PushBounded, Push
  <1> QED BY <1>1, <1>6 DEF PushBoundedSample

\* The step of an exact heap passes the query itself over.
LEMMA ScoreStepIs ==
    ASSUME NEW q, NEW h \in Seq(CorpusRecords), NEW e \in CorpusRecords
    PROVE  ScoreEntry(q, h, e) = StepOf({q.id}, MaxExact, NearOrder(q), CorpusRecords)[<<h, e>>]
  <1>1. StepOf({q.id}, MaxExact, NearOrder(q), CorpusRecords)[<<h, e>>]
            = IF e.id = q.id THEN h ELSE Push(h, e, MaxExact, NearOrder(q))
    BY DEF StepOf
  <1>2. ASSUME NEW s \in Seq(CorpusRecords)
        PROVE  InsertBy(s, e, LAMBDA a, b : Nearer(q, a, b)) = Insert(s, e, NearOrder(q))
    <2>1. \A i \in DOMAIN s : s[i] \in CorpusRecords
      OBVIOUS
    <2>2. {i \in DOMAIN s : ~Nearer(q, e, s[i])} = Behind(s, e, NearOrder(q))
      BY <2>1 DEF Behind, NearOrder
    <2> QED BY <2>2 DEF InsertBy, Insert, PutAfter
  <1>3. h # <<>> => Last(h) \in CorpusRecords
    BY DEF Last
  <1>4. h # <<>> => (Nearer(q, e, Last(h)) <=> <<e, Last(h)>> \in NearOrder(q))
    BY <1>3 DEF NearOrder
  <1>5. ASSUME Len(h) < MaxExact \/ (h # <<>> /\ Nearer(q, e, Last(h)))
        PROVE  (IF Len(h) = MaxExact THEN Front(h) ELSE h) \in Seq(CorpusRecords)
    <2>1. CASE Len(h) = MaxExact
      <3>1. h # <<>> /\ Len(h) \in Nat
        BY <1>5, <2>1, QualityAssumption
      <3>2. Len(h) - 1 \in 0..Len(h)
        BY <3>1
      <3> QED BY <2>1, <3>2 DEF Front
    <2> QED BY <2>1
  <1>6. PushBounded(h, e, MaxExact, LAMBDA a, b : Nearer(q, a, b)) = Push(h, e, MaxExact, NearOrder(q))
    BY <1>2, <1>4, <1>5 DEF PushBounded, Push
  <1> QED BY <1>1, <1>6 DEF ScoreEntry

-----------------------------------------------------------------------------
(* The folds of the model. *)

UsableIn(s, b) ==
    FoldLeft(LAMBDA es, v : IF v = 0 THEN es ELSE Append(es, Corpus(b, v)), <<>>, s.vals[b])
Hashed(b) == {v \in Nat : KeyOf(<<b, v>>) \in Nat}
UsableStep(b) ==
    [p \in Seq(CorpusRecords) \X Hashed(b) |-> IF p[2] = 0 THEN p[1] ELSE Append(p[1], Corpus(b, p[2]))]

\* The step that reads an entry of a leaf.
LEMMA UsableStepIs ==
    ASSUME NEW b \in Blocks
    PROVE  StepOn(UsableStep(b), Seq(CorpusRecords), Hashed(b)) /\ <<>> \in Seq(CorpusRecords)
  <1>1. ASSUME NEW v \in Hashed(b) PROVE Corpus(b, v) \in CorpusRecords
    <2>1. v \in Nat /\ KeyOf(<<b, v>>) \in Nat
      BY DEF Hashed
    <2>2. Corpus(b, v) \in [id : Blocks \X Nat, val : Nat] /\ Corpus(b, v).id = <<b, v>>
      BY <2>1 DEF Corpus
    <2> QED BY <2>1, <2>2 DEF CorpusRecords
  <1>2. ASSUME NEW u \in Seq(CorpusRecords), NEW v \in Hashed(b)
        PROVE  (IF v = 0 THEN u ELSE Append(u, Corpus(b, v))) \in Seq(CorpusRecords)
    BY <1>1
  <1>3. UsableStep(b) \in [Seq(CorpusRecords) \X Hashed(b) -> Seq(CorpusRecords)]
    BY <1>2 DEF UsableStep
  <1> QED BY <1>3 DEF StepOn

\* The entries of a leaf are read one by one.
LEMMA UsableFold ==
    ASSUME NEW b \in Blocks, NEW vs \in Seq(Hashed(b)), NEW s, s.vals[b] = vs
    PROVE  \E f : Runs(f, Seq(CorpusRecords), <<>>, UsableStep(b), vs) /\ UsableIn(s, b) = f[Len(vs)]
  <1> DEFINE F(it) == [S \in SUBSET DOMAIN vs |->
                         IF S = {} THEN <<>> ELSE (IF vs[Max(S)] = 0 THEN it[S \ {Max(S)}] ELSE Append(it[S \ {Max(S)}], Corpus(b, vs[Max(S)])))]
             rec == CHOOSE it : it = F(it)
  <1>1. StepOn(UsableStep(b), Seq(CorpusRecords), Hashed(b)) /\ <<>> \in Seq(CorpusRecords)
    BY UsableStepIs
  <1>2. vs \in Seq(Hashed(b)) /\ DOMAIN vs = 1..Len(vs)
    OBVIOUS
  <1>3. PICK h : Iterates(h, Seq(CorpusRecords), <<>>, UsableStep(b), vs, Len(vs))
    BY <1>1, <1>2, IterationExists
  <1>4. \A x \in Seq(CorpusRecords), c \in Hashed(b) : UsableStep(b)[<<x, c>>] = (IF c = 0 THEN x ELSE Append(x, Corpus(b, c)))
    BY DEF UsableStep
  <1>5. ASSUME NEW S \in SUBSET DOMAIN vs, S # {}
        PROVE  h[S] = (IF vs[Max(S)] = 0 THEN h[S \ {Max(S)}] ELSE Append(h[S \ {Max(S)}], Corpus(b, vs[Max(S)])))
    <2>1. h[S] = UsableStep(b)[<<h[S \ {Max(S)}], vs[Max(S)]>>] /\ Max(S) \in S
      BY <1>2, <1>3, <1>5 DEF Iterates
    <2>2. h[S \ {Max(S)}] \in Seq(CorpusRecords)
      BY <1>2, <1>3 DEF Iterates
    <2>3. Max(S) \in 1..Len(vs)
      BY <1>2, <1>5, <2>1
    <2>4. vs[Max(S)] \in Hashed(b)
      BY <1>2, <2>3
    <2> QED BY <1>4, <2>1, <2>2, <2>4
  <1>6. h = F(h)
    <2>1. h \in [SUBSET DOMAIN vs -> Seq(CorpusRecords)] /\ h[{}] = <<>>
      BY <1>2, <1>3 DEF Iterates
    <2> QED BY <1>5, <2>1
  <1>7. rec = F(rec)
    BY <1>6
  <1>8. UsableIn(s, b) = rec[DOMAIN vs]
    BY DEF UsableIn, FoldLeft, MapThenFoldSet
  <1> HIDE DEF rec
  <1>9. rec[{}] = <<>>
    BY <1>7
  <1>10. ASSUME NEW S \in SUBSET DOMAIN vs, S # {}
         PROVE  rec[S] = (IF vs[Max(S)] = 0 THEN rec[S \ {Max(S)}] ELSE Append(rec[S \ {Max(S)}], Corpus(b, vs[Max(S)])))
    BY <1>7, <1>10
  <1>11. ASSUME NEW S \in SUBSET (1..Len(vs)), S # {}, rec[S \ {Max(S)}] \in Seq(CorpusRecords)
         PROVE  rec[S] = UsableStep(b)[<<rec[S \ {Max(S)}], vs[Max(S)]>>]
    <2>1. Max(S) \in S
      BY <1>3, <1>11 DEF Iterates
    <2>2. Max(S) \in 1..Len(vs)
      BY <1>11, <2>1
    <2>3. vs[Max(S)] \in Hashed(b)
      BY <1>2, <2>2
    <2>4. rec[S] = (IF vs[Max(S)] = 0 THEN rec[S \ {Max(S)}] ELSE Append(rec[S \ {Max(S)}], Corpus(b, vs[Max(S)])))
      BY <1>2, <1>10, <1>11
    <2> QED BY <1>4, <1>11, <2>3, <2>4
  <1>12. FoldsBack(rec, Seq(CorpusRecords), <<>>, UsableStep(b), vs)
    BY <1>9, <1>11 DEF FoldsBack
  <1>13. \E f : Runs(f, Seq(CorpusRecords), <<>>, UsableStep(b), vs) /\ rec[1..Len(vs)] = f[Len(vs)]
    <2>1. PICK k, e, r, X, Y : k = UsableStep(b) /\ e = <<>> /\ r = rec /\ X = Seq(CorpusRecords) /\ Y = Hashed(b)
      OBVIOUS
    <2>2. StepOn(k, X, Y) /\ e \in X /\ vs \in Seq(Y)
      BY <1>1, <1>2, <2>1
    <2>3. FoldsBack(r, X, e, k, vs)
      BY <1>12, <2>1
    <2>4. \E f : Runs(f, X, e, k, vs) /\ r[1..Len(vs)] = f[Len(vs)]
      BY <2>2, <2>3, IterationRuns
    <2> QED BY <2>1, <2>4
  <1> QED BY <1>2, <1>8, <1>13

\* They are entries.
LEMMA UsableIs ==
    ASSUME NEW s \in Graphs, NEW b \in Blocks
    PROVE  UsableIn(s, b) \in Seq(CorpusRecords)
  <1>1. PICK vs : vs = s.vals[b]
    OBVIOUS
  <1>2. vs \in Seq(Nat)
    BY <1>1, GraphIs
  <1>3. \A i \in DOMAIN vs : KeyOf(<<b, vs[i]>>) \in Nat
    BY <1>1, QualityAssumption
  <1>4. vs \in Seq(Hashed(b))
    <2>1. DOMAIN vs = 1..Len(vs) /\ Len(vs) \in Nat
      BY <1>2
    <2>2. \A i \in 1..Len(vs) : vs[i] \in Hashed(b)
      BY <1>2, <1>3, <2>1 DEF Hashed
    <2>3. vs = [i \in 1..Len(vs) |-> vs[i]]
      BY <1>2
    <2> QED BY <2>1, <2>2, <2>3
  <1>5. PICK f : /\ Runs(f, Seq(CorpusRecords), <<>>, UsableStep(b), vs)
                 /\ UsableIn(s, b) = f[Len(vs)]
    BY <1>1, <1>4, UsableFold
  <1>6. Len(vs) \in 0..Len(vs)
    BY <1>2
  <1> QED BY <1>5, <1>6 DEF Runs

\* What the two heaps become.
SampledBy(w, b, u) == w = FoldLeft(PushBoundedSample, b, u)
ScoredBy(w, q, b, u) == w = ScoreEntries(q, b, u)

\* The entries of a leaf are offered to the sample one by one.
LEMMA SampleFold ==
    ASSUME NEW n \in Nat \ {0}, n = size, NEW b \in Seq(CorpusRecords), NEW u \in Seq(CorpusRecords), NEW w,
           SampledBy(w, b, u)
    PROVE  \E f : Runs(f, Seq(CorpusRecords), b, StepOf({}, n, SampleOrder, CorpusRecords), u) /\ w = f[Len(u)]
  <1> DEFINE F(it) == [S \in SUBSET DOMAIN u |->
                         IF S = {} THEN b ELSE PushBoundedSample(it[S \ {Max(S)}], u[Max(S)])]
             rec == CHOOSE it : it = F(it)
  <1>1. StepOn(StepOf({}, n, SampleOrder, CorpusRecords), Seq(CorpusRecords), CorpusRecords) /\ b \in Seq(CorpusRecords)
    BY StepOfIs
  <1>2. u \in Seq(CorpusRecords) /\ DOMAIN u = 1..Len(u)
    OBVIOUS
  <1>3. PICK h : Iterates(h, Seq(CorpusRecords), b, StepOf({}, n, SampleOrder, CorpusRecords), u, Len(u))
    BY <1>1, <1>2, IterationExists
  <1>4. \A x \in Seq(CorpusRecords), c \in CorpusRecords : StepOf({}, n, SampleOrder, CorpusRecords)[<<x, c>>] = PushBoundedSample(x, c)
    BY SampleStepIs
  <1>5. ASSUME NEW S \in SUBSET DOMAIN u, S # {}
        PROVE  h[S] = PushBoundedSample(h[S \ {Max(S)}], u[Max(S)])
    <2>1. h[S] = StepOf({}, n, SampleOrder, CorpusRecords)[<<h[S \ {Max(S)}], u[Max(S)]>>] /\ Max(S) \in S
      BY <1>2, <1>3, <1>5 DEF Iterates
    <2>2. h[S \ {Max(S)}] \in Seq(CorpusRecords)
      BY <1>2, <1>3 DEF Iterates
    <2>3. Max(S) \in 1..Len(u)
      BY <1>2, <1>5, <2>1
    <2>4. u[Max(S)] \in CorpusRecords
      BY <1>2, <2>3
    <2> QED BY <1>4, <2>1, <2>2, <2>4
  <1>6. h = F(h)
    <2>1. h \in [SUBSET DOMAIN u -> Seq(CorpusRecords)] /\ h[{}] = b
      BY <1>2, <1>3 DEF Iterates
    <2> QED BY <1>5, <2>1
  <1>7. rec = F(rec)
    BY <1>6
  <1>8. w = rec[DOMAIN u]
    BY DEF SampledBy, FoldLeft, MapThenFoldSet
  <1> HIDE DEF rec
  <1>9. rec[{}] = b
    BY <1>7
  <1>10. ASSUME NEW S \in SUBSET DOMAIN u, S # {}
         PROVE  rec[S] = PushBoundedSample(rec[S \ {Max(S)}], u[Max(S)])
    BY <1>7, <1>10
  <1>11. ASSUME NEW S \in SUBSET (1..Len(u)), S # {}, rec[S \ {Max(S)}] \in Seq(CorpusRecords)
         PROVE  rec[S] = StepOf({}, n, SampleOrder, CorpusRecords)[<<rec[S \ {Max(S)}], u[Max(S)]>>]
    <2>1. Max(S) \in S
      BY <1>3, <1>11 DEF Iterates
    <2>2. Max(S) \in 1..Len(u)
      BY <1>11, <2>1
    <2>3. u[Max(S)] \in CorpusRecords
      BY <1>2, <2>2
    <2>4. rec[S] = PushBoundedSample(rec[S \ {Max(S)}], u[Max(S)])
      BY <1>2, <1>10, <1>11
    <2> QED BY <1>4, <1>11, <2>3, <2>4
  <1>12. FoldsBack(rec, Seq(CorpusRecords), b, StepOf({}, n, SampleOrder, CorpusRecords), u)
    BY <1>9, <1>11 DEF FoldsBack
  <1>13. \E f : Runs(f, Seq(CorpusRecords), b, StepOf({}, n, SampleOrder, CorpusRecords), u) /\ rec[1..Len(u)] = f[Len(u)]
    <2>1. PICK k, e, r, X, Y : k = StepOf({}, n, SampleOrder, CorpusRecords) /\ e = b /\ r = rec /\ X = Seq(CorpusRecords) /\ Y = CorpusRecords
      OBVIOUS
    <2>2. StepOn(k, X, Y) /\ e \in X /\ u \in Seq(Y)
      BY <1>1, <1>2, <2>1
    <2>3. FoldsBack(r, X, e, k, u)
      BY <1>12, <2>1
    <2>4. \E f : Runs(f, X, e, k, u) /\ r[1..Len(u)] = f[Len(u)]
      BY <2>2, <2>3, IterationRuns
    <2> QED BY <2>1, <2>4
  <1> QED BY <1>2, <1>8, <1>13

\* The entries of a leaf are offered to a query's heap one by one.
LEMMA ScoreFold ==
    ASSUME NEW q, NEW b \in Seq(CorpusRecords), NEW u \in Seq(CorpusRecords), NEW w,
           ScoredBy(w, q, b, u)
    PROVE  \E f : Runs(f, Seq(CorpusRecords), b, StepOf({q.id}, MaxExact, NearOrder(q), CorpusRecords), u) /\ w = f[Len(u)]
  <1> DEFINE F(it) == [S \in SUBSET DOMAIN u |->
                         IF S = {} THEN b ELSE ScoreEntry(q, it[S \ {Max(S)}], u[Max(S)])]
             rec == CHOOSE it : it = F(it)
  <1>1. StepOn(StepOf({q.id}, MaxExact, NearOrder(q), CorpusRecords), Seq(CorpusRecords), CorpusRecords) /\ b \in Seq(CorpusRecords)
    BY StepOfIs, QualityAssumption
  <1>2. u \in Seq(CorpusRecords) /\ DOMAIN u = 1..Len(u)
    OBVIOUS
  <1>3. PICK h : Iterates(h, Seq(CorpusRecords), b, StepOf({q.id}, MaxExact, NearOrder(q), CorpusRecords), u, Len(u))
    BY <1>1, <1>2, IterationExists
  <1>4. \A x \in Seq(CorpusRecords), c \in CorpusRecords : StepOf({q.id}, MaxExact, NearOrder(q), CorpusRecords)[<<x, c>>] = ScoreEntry(q, x, c)
    BY ScoreStepIs
  <1>5. ASSUME NEW S \in SUBSET DOMAIN u, S # {}
        PROVE  h[S] = ScoreEntry(q, h[S \ {Max(S)}], u[Max(S)])
    <2>1. h[S] = StepOf({q.id}, MaxExact, NearOrder(q), CorpusRecords)[<<h[S \ {Max(S)}], u[Max(S)]>>] /\ Max(S) \in S
      BY <1>2, <1>3, <1>5 DEF Iterates
    <2>2. h[S \ {Max(S)}] \in Seq(CorpusRecords)
      BY <1>2, <1>3 DEF Iterates
    <2>3. Max(S) \in 1..Len(u)
      BY <1>2, <1>5, <2>1
    <2>4. u[Max(S)] \in CorpusRecords
      BY <1>2, <2>3
    <2> QED BY <1>4, <2>1, <2>2, <2>4
  <1>6. h = F(h)
    <2>1. h \in [SUBSET DOMAIN u -> Seq(CorpusRecords)] /\ h[{}] = b
      BY <1>2, <1>3 DEF Iterates
    <2> QED BY <1>5, <2>1
  <1>7. rec = F(rec)
    BY <1>6
  <1>8. w = rec[DOMAIN u]
    BY DEF ScoredBy, ScoreEntries, FoldLeft, MapThenFoldSet
  <1> HIDE DEF rec
  <1>9. rec[{}] = b
    BY <1>7
  <1>10. ASSUME NEW S \in SUBSET DOMAIN u, S # {}
         PROVE  rec[S] = ScoreEntry(q, rec[S \ {Max(S)}], u[Max(S)])
    BY <1>7, <1>10
  <1>11. ASSUME NEW S \in SUBSET (1..Len(u)), S # {}, rec[S \ {Max(S)}] \in Seq(CorpusRecords)
         PROVE  rec[S] = StepOf({q.id}, MaxExact, NearOrder(q), CorpusRecords)[<<rec[S \ {Max(S)}], u[Max(S)]>>]
    <2>1. Max(S) \in S
      BY <1>3, <1>11 DEF Iterates
    <2>2. Max(S) \in 1..Len(u)
      BY <1>11, <2>1
    <2>3. u[Max(S)] \in CorpusRecords
      BY <1>2, <2>2
    <2>4. rec[S] = ScoreEntry(q, rec[S \ {Max(S)}], u[Max(S)])
      BY <1>2, <1>10, <1>11
    <2> QED BY <1>4, <1>11, <2>3, <2>4
  <1>12. FoldsBack(rec, Seq(CorpusRecords), b, StepOf({q.id}, MaxExact, NearOrder(q), CorpusRecords), u)
    BY <1>9, <1>11 DEF FoldsBack
  <1>13. \E f : Runs(f, Seq(CorpusRecords), b, StepOf({q.id}, MaxExact, NearOrder(q), CorpusRecords), u) /\ rec[1..Len(u)] = f[Len(u)]
    <2>1. PICK k, e, r, X, Y : k = StepOf({q.id}, MaxExact, NearOrder(q), CorpusRecords) /\ e = b /\ r = rec /\ X = Seq(CorpusRecords) /\ Y = CorpusRecords
      OBVIOUS
    <2>2. StepOn(k, X, Y) /\ e \in X /\ u \in Seq(Y)
      BY <1>1, <1>2, <2>1
    <2>3. FoldsBack(r, X, e, k, u)
      BY <1>12, <2>1
    <2>4. \E f : Runs(f, X, e, k, u) /\ r[1..Len(u)] = f[Len(u)]
      BY <2>2, <2>3, IterationRuns
    <2> QED BY <2>1, <2>4
  <1> QED BY <1>2, <1>8, <1>13
-----------------------------------------------------------------------------
(* The entries below a set of blocks. *)

\* An entry is named by its leaf and its place there; D has the ids that are passed over.
EntriesOf(s, V) ==
    {x \in Blocks \X Nat : x[1] \in V /\ s.leaf[x[1]] /\ x[2] \in DOMAIN UsableIn(s, x[1])}
EntryAt(s) == [x \in Blocks \X Nat |-> UsableIn(s, x[1])[x[2]]]
OthersOf(s, D, V) == {x \in EntriesOf(s, V) : EntryAt(s)[x].id \notin D}

\* A heap has the best of these entries.
Kept(h, P, s, cap, R) ==
    Best(h, P, EntryAt(s), cap, R, CorpusRecords) /\ Pool(P, EntryAt(s), CorpusRecords)

\* A leaf more.
LEMMA LeafMore ==
    ASSUME NEW s \in Graphs, NEW D, NEW V \in SUBSET Blocks, NEW b \in Blocks \ V, s.leaf[b]
    PROVE  /\ OthersOf(s, D, V \cup {b}) = OthersOf(s, D, V) \cup Offers(b, UsableIn(s, b), D)
           /\ Pool(OthersOf(s, D, V), EntryAt(s), CorpusRecords)
                => Feeding(UsableIn(s, b), b, OthersOf(s, D, V), EntryAt(s), CorpusRecords)
  <1>1. PICK u : u = UsableIn(s, b)
    OBVIOUS
  <1>2. u \in Seq(CorpusRecords)
    BY <1>1, UsableIs
  <1>3. DOMAIN u \subseteq Nat
    BY <1>2
  <1>4. \A i \in DOMAIN u : <<b, i>> \in Blocks \X Nat /\ EntryAt(s)[<<b, i>>] = u[i]
    BY <1>1, <1>3 DEF EntryAt
  <1>5. \A x : x \in EntriesOf(s, V \cup {b}) <=> x \in EntriesOf(s, V) \/ x \in {b} \X (DOMAIN u)
    BY <1>1, <1>3 DEF EntriesOf
  <1>6. \A x : x \in Offers(b, u, D) <=> x \in {b} \X (DOMAIN u) /\ EntryAt(s)[x].id \notin D
    <2>1. \A x : x \in {b} \X (DOMAIN u) => EntryAt(s)[x] = u[x[2]]
      BY <1>4
    <2>2. \A x : x \in Offers(b, u, D) <=> x \in {b} \X (DOMAIN u) /\ u[x[2]].id \notin D
      BY <1>3 DEF Offers
    <2> QED BY <2>1, <2>2
  <1>7. OthersOf(s, D, V \cup {b}) = OthersOf(s, D, V) \cup Offers(b, u, D)
    BY <1>5, <1>6 DEF OthersOf
  <1>8. \A i \in DOMAIN u : <<b, i>> \notin OthersOf(s, D, V)
    BY DEF OthersOf, EntriesOf
  <1>9. Pool(OthersOf(s, D, V), EntryAt(s), CorpusRecords)
          => Feeding(u, b, OthersOf(s, D, V), EntryAt(s), CorpusRecords)
    BY <1>2, <1>4, <1>8 DEF Feeding
  <1> QED BY <1>1, <1>7, <1>9

\* A block more that is no leaf, or none at all.
LEMMA BranchMore ==
    ASSUME NEW s \in Graphs, NEW D, NEW V \in SUBSET Blocks, NEW b \in Blocks, ~s.leaf[b] \/ b \in V
    PROVE  OthersOf(s, D, V \cup {b}) = OthersOf(s, D, V)
  <1>1. EntriesOf(s, V \cup {b}) = EntriesOf(s, V)
    BY DEF EntriesOf
  <1> QED BY <1>1 DEF OthersOf

\* The heap that is offered the entries of a leaf more.
LEMMA LeafKept ==
    ASSUME NEW s \in Graphs, NEW D, NEW V \in SUBSET Blocks, NEW b \in Blocks \ V, s.leaf[b],
           NEW cap \in Nat \ {0}, NEW R, Orders(R, CorpusRecords),
           NEW h, Kept(h, OthersOf(s, D, V), s, cap, R), NEW u, u = UsableIn(s, b),
           NEW f, Runs(f, Seq(CorpusRecords), h, StepOf(D, cap, R, CorpusRecords), u)
    PROVE  Kept(f[Len(u)], OthersOf(s, D, V \cup {b}), s, cap, R)
  <1>1. PICK P, en, C : P = OthersOf(s, D, V) /\ en = EntryAt(s) /\ C = CorpusRecords
    OBVIOUS
  <1>2. Best(h, P, en, cap, R, C) /\ Pool(P, en, C)
    BY <1>1 DEF Kept
  <1>3. OthersOf(s, D, V \cup {b}) = P \cup Offers(b, u, D) /\ Feeding(u, b, P, en, C)
    BY <1>1, <1>2, LeafMore
  <1>4. Orders(R, C) /\ Runs(f, Seq(C), h, StepOf(D, cap, R, C), u)
    BY <1>1
  <1>5. /\ Best(f[Len(u)], P \cup Offers(b, u, D), en, cap, R, C)
        /\ Pool(P \cup Offers(b, u, D), en, C)
    BY <1>2, <1>3, <1>4, BestRun
  <1> QED BY <1>1, <1>3, <1>5 DEF Kept

\* How many entries a leaf adds.
LEMMA LeafCounts ==
    ASSUME NEW s \in Graphs, NEW V \in SUBSET Blocks, NEW b \in Blocks \ V, s.leaf[b],
           IsFiniteSet(EntriesOf(s, V))
    PROVE  Cardinality(EntriesOf(s, V \cup {b})) = Cardinality(EntriesOf(s, V)) + Len(UsableIn(s, b))
  <1>1. PICK u, P, O : u = UsableIn(s, b) /\ P = EntriesOf(s, V) /\ O = {b} \X (1..Len(u))
    OBVIOUS
  <1>2. u \in Seq(CorpusRecords) /\ Len(u) \in Nat /\ DOMAIN u = 1..Len(u)
    <2>1. u \in Seq(CorpusRecords)
      BY <1>1, UsableIs
    <2> QED BY <2>1
  <1>3. EntriesOf(s, V \cup {b}) = P \cup O
    BY <1>1, <1>2 DEF EntriesOf
  <1>4. P \cap O = {}
    BY <1>1 DEF EntriesOf
  <1>5. IsFiniteSet(O) /\ Cardinality(O) = Len(u)
    <2>1. IsFiniteSet({b}) /\ Cardinality({b}) = 1
      BY FS_Singleton
    <2>2. IsFiniteSet(1..Len(u)) /\ Cardinality(1..Len(u)) = Len(u)
      BY <1>2, FS_Interval
    <2>3. IsFiniteSet(O) /\ Cardinality(O) = Cardinality({b}) * Cardinality(1..Len(u))
      BY <1>1, <2>1, <2>2, FS_Product
    <2> QED BY <1>2, <2>1, <2>2, <2>3
  <1>6. Cardinality(P \cup O) = Cardinality(P) + Cardinality(O) - Cardinality(P \cap O)
    BY <1>1, <1>5, FS_Union
  <1>7. Cardinality(P \cap O) = 0 /\ Cardinality(P) \in Nat
    BY <1>1, <1>4, FS_EmptySet, FS_CardinalityType
  <1>8. Cardinality(P \cup O) = Cardinality(P) + Len(u)
    <2>1. PICK k, m, l \in Nat : k = Cardinality(P) /\ m = Cardinality(O) /\ l = Len(u)
      BY <1>2, <1>5, <1>7
    <2>2. m = l /\ Cardinality(P \cup O) = k + m - 0
      BY <1>5, <1>6, <1>7, <2>1
    <2> QED BY <2>1, <2>2
  <1> QED BY <1>1, <1>3, <1>8

-----------------------------------------------------------------------------
(* The sample. *)

\* What the first walk has collected is about the blocks it has entered.
Collected(s, tr, n) ==
    /\ Kept(tr.sample, EntriesOf(s, tr.visited), s, n, SampleOrder)
    /\ tr.corpus = Cardinality(EntriesOf(s, tr.visited))

Took(r, q, s, b) ==
    /\ ~s.leaf[b] => r.sample = q.sample /\ r.corpus = q.corpus
    /\ s.leaf[b] => /\ SampledBy(r.sample, q.sample, UsableIn(s, b))
                    /\ r.corpus = q.corpus + Len(UsableIn(s, b))

\* Its record after a block is entered.
LEMMA EnterCollects ==
    ASSUME g \in Graphs, NEW q, NEW b \in Blocks, NEW p, NEW d, NEW r, Enters(r, q, b, p, d)
    PROVE  Took(r, q, g, b)
  <1> USE DEF Enters
  <1>1. PICK x, v, l, n : /\ x = Max({q.depth, d}) /\ v = q.visited \cup {b}
                          /\ l = Append(q.blocks, b)
                          /\ n = q.findings \o Said(b, p)
    OBVIOUS
  <1>2. PICK e : e = [q EXCEPT !.depth = x, !.visited = v, !.blocks = l, !.findings = n]
    OBVIOUS
  <1>3. DOMAIN e = Fields /\ e.sample = q.sample /\ e.corpus = q.corpus
    BY <1>2 DEF Fields
  <1>4. r = IF g.leaf[b] THEN CollectCorpusEntries(e, b) ELSE e
    BY <1>1, <1>2 DEF EnterBlock, Said
  <1>5. Usable(b) = UsableIn(g, b)
    BY DEF Usable, UsableIn, LeafVals
  <1>6. PICK a, z, m : /\ a = e.corpus + Len(Usable(b)) /\ z = (e.zero \/ 0 \in Range(LeafVals(b)))
                       /\ m = FoldLeft(PushBoundedSample, e.sample, Usable(b))
    OBVIOUS
  <1>7. CollectCorpusEntries(e, b) = [e EXCEPT !.corpus = a, !.zero = z, !.sample = m]
    BY <1>6 DEF CollectCorpusEntries
  <1>8. ASSUME g.leaf[b] PROVE r.corpus = a /\ r.sample = m
    BY <1>3, <1>4, <1>7, <1>8 DEF Fields
  <1>9. SampledBy(m, e.sample, Usable(b))
    BY <1>6 DEF SampledBy
  <1> QED BY <1>3, <1>4, <1>5, <1>6, <1>8, <1>9 DEF Took

\* The sample after a block is entered.
LEMMA CollectedMore ==
    ASSUME g \in Graphs, NEW n \in Nat \ {0}, n = size, NEW q, Collected(g, q, n),
           q.visited \in SUBSET Blocks, NEW b \in Blocks \ q.visited, NEW p, NEW d, NEW r,
           Enters(r, q, b, p, d), r.visited = q.visited \cup {b}
    PROVE  Collected(g, r, n)
  <1>1. PICK V, U, E : V = q.visited /\ U = V \cup {b} /\ E = {}
    OBVIOUS
  <1>2. V \in SUBSET Blocks /\ b \in Blocks \ V /\ r.visited = U
    BY <1>1
  <1>3. /\ Kept(q.sample, EntriesOf(g, V), g, n, SampleOrder)
        /\ q.corpus = Cardinality(EntriesOf(g, V))
    BY <1>1 DEF Collected
  <1>4. EntriesOf(g, V) = OthersOf(g, E, V) /\ EntriesOf(g, U) = OthersOf(g, E, U)
    BY <1>1 DEF OthersOf
  <1>5. /\ ~g.leaf[b] => r.sample = q.sample /\ r.corpus = q.corpus
        /\ g.leaf[b] => /\ SampledBy(r.sample, q.sample, UsableIn(g, b))
                        /\ r.corpus = q.corpus + Len(UsableIn(g, b))
    <2>1. Took(r, q, g, b)
      BY <1>2, EnterCollects
    <2> QED BY <2>1 DEF Took
  <1>6. CASE ~g.leaf[b]
    <2>1. OthersOf(g, E, U) = OthersOf(g, E, V)
      BY <1>1, <1>2, <1>6, BranchMore
    <2> QED BY <1>2, <1>3, <1>4, <1>5, <1>6, <2>1 DEF Collected
  <1>7. CASE g.leaf[b]
    <2>1. PICK u, h, w : u = UsableIn(g, b) /\ h = q.sample /\ w = r.sample
      OBVIOUS
    <2>2. u \in Seq(CorpusRecords)
      BY <2>1, UsableIs
    <2>3. h \in Seq(CorpusRecords)
      BY <1>3, <2>1 DEF Kept, Best
    <2>4. SampledBy(w, h, u)
      BY <1>5, <1>7, <2>1
    <2>5. PICK f : /\ Runs(f, Seq(CorpusRecords), h, StepOf({}, n, SampleOrder, CorpusRecords), u)
                   /\ w = f[Len(u)]
      BY <2>2, <2>3, <2>4, SampleFold
    <2>6. Runs(f, Seq(CorpusRecords), h, StepOf(E, n, SampleOrder, CorpusRecords), u)
      BY <1>1, <2>5
    <2>7. Kept(h, OthersOf(g, E, V), g, n, SampleOrder)
      BY <1>3, <1>4, <2>1
    <2>8. Kept(f[Len(u)], OthersOf(g, E, V \cup {b}), g, n, SampleOrder)
      BY <1>2, <1>7, <2>1, <2>6, <2>7, SampleOrders, LeafKept
    <2>9. Cardinality(EntriesOf(g, V \cup {b})) = Cardinality(EntriesOf(g, V)) + Len(u)
      <3>1. IsFiniteSet(EntriesOf(g, V))
        BY <1>3 DEF Kept, Pool
      <3> QED BY <1>2, <1>7, <2>1, <3>1, LeafCounts
    <2>10. r.corpus = Cardinality(EntriesOf(g, U))
      BY <1>1, <1>3, <1>5, <1>7, <2>1, <2>9
    <2>11. Kept(r.sample, EntriesOf(g, U), g, n, SampleOrder)
      BY <1>1, <1>4, <2>1, <2>5, <2>8
    <2> QED BY <1>2, <2>10, <2>11 DEF Collected
  <1> QED BY <1>6, <1>7

\* A finding tells of a block with another embedding spec than its parent's.
Mismatch(fs) == \E i \in DOMAIN fs : fs[i].kind = "EmbeddingSpecMismatch"
OneSpec(s, tr) == Mismatch(tr.findings) \/ \A b \in tr.visited : s.spec[b] = s.spec[Root]

\* Findings stay.
LEMMA MismatchStays ==
    ASSUME NEW A, NEW fs \in Seq(A), NEW xs \in Seq(A), Mismatch(fs) \/ Mismatch(xs)
    PROVE  Mismatch(fs \o xs)
  <1>1. PICK m, l \in Nat : m = Len(fs) /\ l = Len(xs) /\ DOMAIN fs = 1..m /\ DOMAIN xs = 1..l
    OBVIOUS
  <1>2. PICK ys : ys = fs \o xs
    OBVIOUS
  <1>3. DOMAIN ys = 1..(m + l)
    BY <1>1, <1>2
  <1>4. CASE Mismatch(fs)
    <2>1. PICK i \in 1..m : fs[i].kind = "EmbeddingSpecMismatch"
      BY <1>1, <1>4 DEF Mismatch
    <2>2. i \in 1..(m + l) /\ ys[i] = fs[i]
      BY <1>1, <1>2
    <2> QED BY <1>2, <1>3, <2>1, <2>2 DEF Mismatch
  <1>5. CASE Mismatch(xs)
    <2>1. PICK i \in 1..l : xs[i].kind = "EmbeddingSpecMismatch"
      BY <1>1, <1>5 DEF Mismatch
    <2>2. PICK j : j = m + i
      OBVIOUS
    <2>3. j \in 1..(m + l) /\ j > m /\ j - m = i
      BY <1>1, <2>1, <2>2
    <2>4. ys[j] = xs[j - m]
      BY <1>1, <1>2, <2>3
    <2> QED BY <1>2, <1>3, <2>1, <2>3, <2>4 DEF Mismatch
  <1> QED BY <1>4, <1>5

\* A block with another spec is told.
LEMMA SpecTold ==
    ASSUME g \in Graphs, NEW b \in Blocks, NEW p \in Blocks, g.spec[b] # g.spec[p]
    PROVE  Mismatch(EntryFindings(b, p))
  <1>1. PICK x, y : /\ x = Finding("ChildLevelNotLowerThanParent", b, p)
                    /\ y = Finding("EmbeddingSpecMismatch", b, p)
    OBVIOUS
  <1>2. x \in FindingRecords /\ y \in FindingRecords /\ y.kind = "EmbeddingSpecMismatch"
    <2>1. x \in FindingRecords
      BY <1>1 DEF Finding, FindingRecords, FindingKinds
    <2>2. y \in FindingRecords /\ y.kind = "EmbeddingSpecMismatch"
      BY <1>1 DEF Finding, FindingRecords, FindingKinds
    <2> QED BY <2>1, <2>2
  <1>3. PICK X, Y : X = (IF g.level[b] >= g.level[p] THEN <<x>> ELSE <<>>) /\ Y = <<y>>
    OBVIOUS
  <1>4. X \in Seq(FindingRecords) /\ Y \in Seq(FindingRecords)
    BY <1>2, <1>3
  <1>5. Mismatch(Y)
    BY <1>2, <1>3 DEF Mismatch
  <1>6. EntryFindings(b, p) = X \o Y
    BY <1>1, <1>3 DEF EntryFindings
  <1> QED BY <1>4, <1>5, <1>6, MismatchStays

\* The step that records a defect collects nothing.
LEMMA CollectDefect ==
    ASSUME g \in Graphs, Ledger(g, stack, t), HasEntry, EdgeDefect(Child) # "none",
           NEW tr, Refuted(tr), NEW n, Collected(g, t, n), OneSpec(g, t)
    PROVE  Collected(g, tr, n) /\ OneSpec(g, tr)
  <1>1. PICK nx : Past(nx)
    BY DEF Past
  <1>2. Frame.b \in Blocks /\ Child \in Blocks
    BY <1>1, EdgeAtHand
  <1>3. EdgeDefect(Child) \in FindingKinds
    BY <1>2, EdgeDefectIs
  <1>4. PICK d : d = Finding(EdgeDefect(Child), Child, Frame.b)
    OBVIOUS
  <1>5. d \in FindingRecords
    BY <1>2, <1>3, <1>4 DEF Finding, FindingRecords
  <1>6. DOMAIN t = Fields /\ t.findings \in Seq(FindingRecords)
    BY DEF Ledger, Judged
  <1>7. /\ tr.visited = t.visited /\ tr.sample = t.sample /\ tr.corpus = t.corpus
        /\ tr.findings = Append(t.findings, d)
    <2>1. tr = [[t EXCEPT !.edges = @ + 1] EXCEPT !.findings = Append(@, d)]
      BY <1>4 DEF CountEdge, Refuted
    <2> QED BY <1>6, <2>1 DEF Fields
  <1>8. Collected(g, tr, n)
    BY <1>7 DEF Collected
  <1>9. Mismatch(t.findings) => Mismatch(tr.findings)
    <2>1. PICK fs : fs = t.findings
      OBVIOUS
    <2>2. \A i \in DOMAIN fs : i \in DOMAIN Append(fs, d) /\ Append(fs, d)[i] = fs[i]
      BY <1>5, <1>6, <2>1
    <2> QED BY <1>7, <2>1, <2>2 DEF Mismatch
  <1> QED BY <1>7, <1>8, <1>9 DEF OneSpec

\* The step that enters a child collects its entries.
LEMMA CollectEntry ==
    ASSUME g \in Graphs, Ledger(g, stack, t), HasEntry, EdgeDefect(Child) = "none",
           NEW tr, Followed(tr), NEW n \in Nat \ {0}, n = size, Collected(g, t, n), OneSpec(g, t)
    PROVE  Collected(g, tr, n) /\ OneSpec(g, tr)
  <1>1. PICK nx : Past(nx)
    BY DEF Past
  <1>2. PICK V, c, p : V = t.visited /\ c = Child /\ p = Frame.b
    OBVIOUS
  <1>3. p \in Blocks /\ c \in Blocks /\ p \in V
    BY <1>1, <1>2, EdgeAtHand
  <1>4. c \notin V /\ V \in SUBSET Blocks /\ DOMAIN t = Fields /\ t.findings \in Seq(FindingRecords)
    <2>1. c \notin V
      BY <1>2, <1>3, EdgeDefectIs
    <2> QED BY <1>2, <2>1 DEF Ledger, Judged
  <1>5. PICK kd : kd = [t.kids EXCEPT ![p] = Append(@, c)]
    OBVIOUS
  <1>6. PICK q : q = [[t EXCEPT !.edges = @ + CountEdge(c)] EXCEPT !.kids[p] = Append(@, c)]
    OBVIOUS
  <1>7. /\ DOMAIN q = Fields /\ q.visited = V /\ q.sample = t.sample /\ q.corpus = t.corpus
        /\ q.findings = t.findings
    <2>1. q = [[t EXCEPT !.edges = @ + 1] EXCEPT !.kids = kd]
      BY <1>4, <1>5, <1>6 DEF CountEdge, Fields
    <2> QED BY <1>2, <1>4, <2>1 DEF Fields
  <1>8. PICK ps, d : ps = <<p>> /\ d = Len(stack)
    OBVIOUS
  <1>9. Enters(tr, q, c, ps, d)
    BY <1>2, <1>6, <1>7, <1>8 DEF Enters, Followed
  <1>10. tr.visited = q.visited \cup {c} /\ tr.findings = q.findings \o Said(c, ps)
    BY <1>9, EnterIs
  <1>11. Said(c, ps) = EntryFindings(c, p)
    <2>1. <<p>> # <<>> /\ <<p>>[1] = p
      OBVIOUS
    <2> QED BY <1>8, <2>1 DEF Said
  <1>12. Collected(g, tr, n)
    <2>1. Collected(g, q, n)
      BY <1>2, <1>7 DEF Collected
    <2>2. q.visited \in SUBSET Blocks /\ c \in Blocks \ q.visited
      BY <1>3, <1>4, <1>7
    <2> QED BY <1>9, <1>10, <2>1, <2>2, CollectedMore
  <1>13. PICK fs, xs : fs = t.findings /\ xs = EntryFindings(c, p)
    OBVIOUS
  <1>14. fs \in Seq(FindingRecords) /\ xs \in Seq(FindingRecords) /\ tr.findings = fs \o xs
    BY <1>3, <1>4, <1>7, <1>10, <1>11, <1>13, EntryFindingsIs
  <1>15. OneSpec(g, tr)
    <2>1. CASE Mismatch(fs) \/ Mismatch(xs)
      BY <1>14, <2>1, MismatchStays DEF OneSpec
    <2>2. CASE ~Mismatch(fs) /\ ~Mismatch(xs)
      <3>1. g.spec[c] = g.spec[p]
        BY <1>3, <1>13, <2>2, SpecTold
      <3>2. \A b \in V : g.spec[b] = g.spec[Root]
        BY <1>2, <1>13, <2>2 DEF OneSpec
      <3>3. \A b \in tr.visited : g.spec[b] = g.spec[Root]
        BY <1>3, <1>7, <1>10, <3>1, <3>2
      <3> QED BY <3>3 DEF OneSpec
    <2> QED BY <2>1, <2>2
  <1> QED BY <1>12, <1>15

\* The root is entered with nothing collected.
LEMMA CollectStart ==
    ASSUME g \in Graphs, NEW tr, Enters(tr, EmptyTraversal, Root, <<>>, 0),
           NEW n \in Nat \ {0}, n = size
    PROVE  Collected(g, tr, n) /\ OneSpec(g, tr)
  <1>1. PICK q, e : q = EmptyTraversal /\ e = <<>>
    OBVIOUS
  <1>2. q.visited = {} /\ q.sample = <<>> /\ q.corpus = 0
    BY <1>1 DEF EmptyTraversal
  <1>3. Enters(tr, q, Root, e, 0)
    BY <1>1
  <1>4. tr.visited = q.visited \cup {Root}
    BY <1>3, EnterIs
  <1>5. Collected(g, q, n)
    <2>1. PICK P : P = EntriesOf(g, q.visited)
      OBVIOUS
    <2>2. P = {}
      BY <1>2, <2>1 DEF EntriesOf
    <2>3. Best(<<>>, P, EntryAt(g), n, SampleOrder, CorpusRecords)
      BY <2>2, BestNone
    <2>4. IsFiniteSet(P) /\ Cardinality(P) = 0
      BY <2>2, FS_EmptySet
    <2>5. Pool(P, EntryAt(g), CorpusRecords)
      BY <2>2, <2>4 DEF Pool
    <2> QED BY <1>2, <2>1, <2>3, <2>4, <2>5 DEF Collected, Kept
  <1>6. Root \in Blocks \ q.visited /\ q.visited \in SUBSET Blocks
    BY <1>2, QualityAssumption
  <1>7. Collected(g, tr, n)
    BY <1>3, <1>4, <1>5, <1>6, CollectedMore
  <1>8. OneSpec(g, tr)
    BY <1>2, <1>4 DEF OneSpec
  <1> QED BY <1>7, <1>8

-----------------------------------------------------------------------------
(* The second walk. *)

\* The least closed set: what the root reaches.
Least(s, V) == /\ V \in SUBSET Blocks /\ Closed(s, V)
               /\ \A W \in SUBSET Blocks : Closed(s, W) => V \subseteq W

\* What is known of the blocks read and the blocks to read: their stored ones are
\* reached, and a child of a block read is one of them.
Known(b, S, td) == b \in S \/ \E i \in DOMAIN td : td[i] = b
Walked(s, S, td) ==
    /\ td \in Seq(Blocks) /\ S \in SUBSET Blocks /\ Known(Root, S, td)
    /\ \A b \in S \cap s.stored : \A i \in DOMAIN s.kids[b] : Known(s.kids[b][i], S, td)
    /\ \A W \in SUBSET Blocks : Closed(s, W) =>
          \A b \in s.stored : Known(b, S, td) => b \in W

\* The blocks to read after one is.
Ahead(nt, s, td, fresh) == nt = (IF fresh THEN s.kids[Head(td)] ELSE <<>>) \o Tail(td)

\* The walk starts at the root.
LEMMA WalkedStart ==
    ASSUME NEW s \in Graphs, NEW td, td = <<Root>>
    PROVE  Walked(s, {}, td)
  <1>1. Root \in Blocks
    BY QualityAssumption
  <1>2. td \in Seq(Blocks) /\ DOMAIN td = {1} /\ td[1] = Root
    BY <1>1
  <1>3. \A b : Known(b, {}, td) <=> b = Root
    BY <1>2 DEF Known
  <1> QED BY <1>2, <1>3 DEF Walked, Closed

\* A block is read.
LEMMA WalkedOn ==
    ASSUME NEW s \in Graphs, NEW S, NEW td, Walked(s, S, td), td # <<>>, NEW b, b = Head(td),
           NEW fresh \in BOOLEAN, fresh <=> b \notin S /\ b \in s.stored,
           NEW nt, Ahead(nt, s, td, fresh)
    PROVE  Walked(s, S \cup {b}, nt) /\ b \in Blocks
  <1>1. td \in Seq(Blocks) /\ S \in SUBSET Blocks
    BY DEF Walked
  <1>2. PICK k, r : k = (IF fresh THEN s.kids[b] ELSE <<>>) /\ r = Tail(td)
    OBVIOUS
  <1>3. b \in Blocks /\ r \in Seq(Blocks) /\ k \in Seq(Blocks) /\ nt = k \o r
    <2>1. b \in Blocks /\ r \in Seq(Blocks)
      BY <1>1, <1>2
    <2>2. k \in Seq(Blocks)
      BY <1>2, <2>1, GraphIs
    <2> QED BY <1>2, <2>1, <2>2 DEF Ahead
  <1>4. nt \in Seq(Blocks)
    BY <1>3
  <1>5. PICK U : U = S \cup {b}
    OBVIOUS
  <1>6. ASSUME NEW c
        PROVE  (\E i \in DOMAIN td : td[i] = c) <=> c = b \/ \E i \in DOMAIN r : r[i] = c
    <2>1. PICK m \in Nat : m = Len(td) /\ m # 0 /\ DOMAIN td = 1..m
      BY <1>1
    <2>2. DOMAIN r = 1..(m - 1) /\ \A i \in 1..(m - 1) : r[i] = td[i + 1]
      BY <1>1, <1>2, <2>1
    <2>3. b = td[1] /\ 1 \in 1..m
      BY <1>1, <2>1
    <2>4. \A i \in 1..m : i = 1 \/ (i - 1 \in 1..(m - 1) /\ (i - 1) + 1 = i)
      BY <2>1
    <2>5. \A i \in 1..(m - 1) : i + 1 \in 1..m
      BY <2>1
    <2>6. ASSUME NEW i \in 1..m PROVE td[i] = b \/ \E j \in 1..(m - 1) : r[j] = td[i]
      <3>1. CASE i = 1
        BY <2>3, <3>1
      <3>2. CASE i # 1
        <4>1. i - 1 \in 1..(m - 1) /\ (i - 1) + 1 = i
          BY <2>4, <3>2
        <4> QED BY <2>2, <4>1
      <3> QED BY <3>1, <3>2
    <2>7. ASSUME NEW j \in 1..(m - 1) PROVE \E i \in 1..m : td[i] = r[j]
      BY <2>2, <2>5
    <2>8. ASSUME NEW i \in 1..m, td[i] = c PROVE c = b \/ \E j \in 1..(m - 1) : r[j] = c
      BY <2>6, <2>8
    <2>9. ASSUME NEW j \in 1..(m - 1), r[j] = c PROVE \E i \in 1..m : td[i] = c
      BY <2>7, <2>9
    <2>10. c = b => \E i \in 1..m : td[i] = c
      BY <2>3
    <2> QED BY <2>1, <2>2, <2>8, <2>9, <2>10
  <1>7. ASSUME NEW c
        PROVE  (\E i \in DOMAIN nt : nt[i] = c)
                 <=> (\E i \in DOMAIN k : k[i] = c) \/ (\E i \in DOMAIN r : r[i] = c)
    <2>1. PICK m, l \in Nat : m = Len(k) /\ l = Len(r) /\ DOMAIN k = 1..m /\ DOMAIN r = 1..l
      BY <1>3
    <2>2. DOMAIN nt = 1..(m + l)
      BY <1>3, <2>1
    <2>3. \A i \in 1..m : i \in 1..(m + l) /\ nt[i] = k[i]
      BY <1>3, <2>1
    <2>4. ASSUME NEW i \in 1..(m + l), i > m PROVE i - m \in 1..l /\ nt[i] = r[i - m]
      BY <1>3, <2>1, <2>4
    <2>5. ASSUME NEW j \in 1..l PROVE m + j \in 1..(m + l) /\ nt[m + j] = r[j]
      <3>1. m + j \in 1..(m + l) /\ m + j > m /\ (m + j) - m = j
        BY <2>1
      <3> QED BY <2>4, <3>1
    <2>6. \A i \in 1..(m + l) : i \in 1..m \/ i > m
      BY <2>1
    <2>7. ASSUME NEW i \in 1..(m + l), nt[i] = c
          PROVE  (\E j \in 1..m : k[j] = c) \/ (\E j \in 1..l : r[j] = c)
      BY <2>3, <2>4, <2>6, <2>7
    <2>8. ASSUME NEW j \in 1..m, k[j] = c PROVE \E i \in 1..(m + l) : nt[i] = c
      BY <2>3, <2>8
    <2>9. ASSUME NEW j \in 1..l, r[j] = c PROVE \E i \in 1..(m + l) : nt[i] = c
      BY <2>5, <2>9
    <2> QED BY <2>1, <2>2, <2>7, <2>8, <2>9
  <1>8. ASSUME NEW c
        PROVE  Known(c, U, nt) <=> Known(c, S, td) \/ \E i \in DOMAIN k : k[i] = c
    BY <1>5, <1>6, <1>7 DEF Known
  <1>9. Known(b, S, td)
    BY <1>6 DEF Known
  <1>10. Known(Root, U, nt)
    BY <1>8 DEF Walked
  <1>11. ASSUME NEW a \in U \cap s.stored, NEW i \in DOMAIN s.kids[a] PROVE Known(s.kids[a][i], U, nt)
    <2>1. CASE a \in S
      BY <1>8, <2>1 DEF Walked
    <2>2. CASE a \notin S
      <3>1. a = b /\ fresh
        BY <1>5, <2>2
      <3>2. k = s.kids[a]
        BY <1>2, <3>1
      <3> QED BY <1>8, <3>2
    <2> QED BY <2>1, <2>2
  <1>12. ASSUME NEW W \in SUBSET Blocks, Closed(s, W), NEW a \in s.stored, Known(a, U, nt) PROVE a \in W
    <2>1. CASE Known(a, S, td)
      BY <1>12, <2>1 DEF Walked
    <2>2. CASE \E i \in DOMAIN k : k[i] = a
      <3>1. PICK i \in DOMAIN k : k[i] = a
        BY <2>2
      <3>2. fresh
        BY <1>2, <3>1
      <3>3. b \in s.stored /\ b \in W
        BY <1>9, <1>12, <3>2 DEF Walked
      <3>4. i \in DOMAIN s.kids[b] /\ s.kids[b][i] = a
        BY <1>2, <3>1, <3>2
      <3> QED BY <1>12, <3>3, <3>4 DEF Closed
    <2> QED BY <1>8, <1>12, <2>1, <2>2
  <1>13. U \in SUBSET Blocks
    BY <1>1, <1>3, <1>5
  <1>14. Walked(s, U, nt)
    BY <1>4, <1>10, <1>11, <1>12, <1>13 DEF Walked
  <1> QED BY <1>3, <1>5, <1>14

\* When nothing is left to read, the stored blocks read are those the root reaches.
LEMMA WalkedOut ==
    ASSUME NEW s \in Graphs, Root \in s.stored, NEW S, NEW td, Walked(s, S, td), td = <<>>
    PROVE  Least(s, S \cap s.stored)
  <1>1. \A b : Known(b, S, td) <=> b \in S
    BY DEF Known
  <1>2. S \in SUBSET Blocks /\ Root \in S
    BY <1>1 DEF Walked
  <1>3. Closed(s, S \cap s.stored)
    BY <1>1, <1>2 DEF Walked, Closed
  <1>4. ASSUME NEW W \in SUBSET Blocks, Closed(s, W) PROVE S \cap s.stored \subseteq W
    BY <1>1, <1>4 DEF Walked
  <1> QED BY <1>2, <1>3, <1>4 DEF Least

\* There is one such set.
LEMMA LeastIs ==
    ASSUME NEW s, NEW V, Least(s, V), NEW W, Least(s, W)
    PROVE  V = W
  <1>1. V \subseteq W
    BY DEF Least
  <1>2. W \subseteq V
    BY DEF Least
  <1> QED BY <1>1, <1>2

\* Each query's heap has the nearest of the other entries of the blocks read.
Scored(s, qs, ex, S) ==
    /\ DOMAIN ex = DOMAIN qs
    /\ \A q \in DOMAIN qs :
          /\ qs[q] \in CorpusRecords
          /\ Kept(ex[q], OthersOf(s, {qs[q].id}, S \cap s.stored), s, MaxExact, NearOrder(qs[q]))

\* Before the walk.
LEMMA ScoredStart ==
    ASSUME NEW s \in Graphs, NEW qs \in Seq(CorpusRecords),
           NEW ex, ex = [i \in DOMAIN qs |-> <<>>]
    PROVE  Scored(s, qs, ex, {})
  <1>1. ASSUME NEW q \in DOMAIN qs
        PROVE  Kept(ex[q], OthersOf(s, {qs[q].id}, {} \cap s.stored), s, MaxExact, NearOrder(qs[q]))
    <2>1. PICK P : P = OthersOf(s, {qs[q].id}, {} \cap s.stored)
      OBVIOUS
    <2>2. P = {}
      BY <2>1 DEF OthersOf, EntriesOf
    <2>3. MaxExact \in Nat
      BY QualityAssumption
    <2>4. Best(<<>>, P, EntryAt(s), MaxExact, NearOrder(qs[q]), CorpusRecords)
      BY <2>2, <2>3, BestNone
    <2>5. Pool(P, EntryAt(s), CorpusRecords)
      BY <2>2, FS_EmptySet DEF Pool
    <2>6. ex[q] = <<>>
      OBVIOUS
    <2> QED BY <2>1, <2>4, <2>5, <2>6 DEF Kept
  <1>2. \A q \in DOMAIN qs : qs[q] \in CorpusRecords
    OBVIOUS
  <1> QED BY <1>1, <1>2 DEF Scored

\* A block that adds no entry.
LEMMA ScoredIdle ==
    ASSUME NEW s \in Graphs, NEW qs, NEW ex, NEW S \in SUBSET Blocks, Scored(s, qs, ex, S),
           NEW b \in Blocks, b \in S \/ b \notin s.stored \/ ~s.leaf[b]
    PROVE  Scored(s, qs, ex, S \cup {b})
  <1>1. PICK V, U : V = S \cap s.stored /\ U = (S \cup {b}) \cap s.stored
    OBVIOUS
  <1>2. V \in SUBSET Blocks
    BY <1>1
  <1>3. ASSUME NEW D PROVE OthersOf(s, D, U) = OthersOf(s, D, V)
    <2>1. CASE b \in S \/ b \notin s.stored
      <3>1. U = V
        BY <1>1, <2>1
      <3> QED BY <3>1
    <2>2. CASE b \in s.stored /\ ~s.leaf[b]
      <3>1. U = V \cup {b}
        BY <1>1, <2>2
      <3> QED BY <1>2, <2>2, <3>1, BranchMore
    <2> QED BY <2>1, <2>2
  <1> QED BY <1>1, <1>3 DEF Scored

\* The heaps after a leaf is scored.
Scores(ne, s, ex, b) == s = g /\ ne = ScoreBatch(ex, Usable(b))

\* The entries of a leaf are scored.
LEMMA ScoredMore ==
    ASSUME NEW s \in Graphs, NEW ex, NEW S \in SUBSET Blocks,
           Scored(s, queries, ex, S), NEW b \in Blocks, b \notin S, b \in s.stored, s.leaf[b],
           NEW ne, Scores(ne, s, ex, b)
    PROVE  Scored(s, queries, ne, S \cup {b})
  <1>1. PICK V, U, u : V = S \cap s.stored /\ U = (S \cup {b}) \cap s.stored /\ u = UsableIn(s, b)
    OBVIOUS
  <1>2. V \in SUBSET Blocks /\ U = V \cup {b} /\ b \in Blocks \ V
    BY <1>1
  <1>3. u \in Seq(CorpusRecords)
    BY <1>1, UsableIs
  <1>4. DOMAIN ex = DOMAIN queries
    BY DEF Scored
  <1>5. Usable(b) = u
    BY <1>1 DEF Usable, UsableIn, LeafVals, Scores
  <1>6. DOMAIN ne = DOMAIN ex
    BY DEF Scores, ScoreBatch
  <1>7. ASSUME NEW q \in DOMAIN queries
        PROVE  Kept(ne[q], OthersOf(s, {queries[q].id}, U), s, MaxExact, NearOrder(queries[q]))
    <2>1. PICK y, h, w : y = queries[q] /\ h = ex[q] /\ w = ne[q]
      OBVIOUS
    <2>2. y \in CorpusRecords /\ Kept(h, OthersOf(s, {y.id}, V), s, MaxExact, NearOrder(y))
      BY <1>1, <2>1 DEF Scored
    <2>3. h \in Seq(CorpusRecords)
      BY <2>2 DEF Kept, Best
    <2>4. ScoredBy(w, y, h, u)
      BY <1>4, <1>5, <2>1 DEF Scores, ScoreBatch, ScoredBy
    <2>5. PICK f : /\ Runs(f, Seq(CorpusRecords), h, StepOf({y.id}, MaxExact, NearOrder(y), CorpusRecords), u)
                   /\ w = f[Len(u)]
      BY <1>3, <2>3, <2>4, ScoreFold
    <2>6. PICK D, R : D = {y.id} /\ R = NearOrder(y)
      OBVIOUS
    <2>7. Orders(R, CorpusRecords)
      BY <2>2, <2>6, NearOrders
    <2>8. MaxExact \in Nat \ {0}
      BY QualityAssumption
    <2>9. /\ Kept(h, OthersOf(s, D, V), s, MaxExact, R)
          /\ Runs(f, Seq(CorpusRecords), h, StepOf(D, MaxExact, R, CorpusRecords), u)
      BY <2>2, <2>5, <2>6
    <2>10. Kept(f[Len(u)], OthersOf(s, D, V \cup {b}), s, MaxExact, R)
      BY <1>1, <1>2, <2>7, <2>8, <2>9, LeafKept
    <2> QED BY <1>2, <2>1, <2>5, <2>6, <2>10
  <1> QED BY <1>1, <1>4, <1>6, <1>7 DEF Scored

-----------------------------------------------------------------------------
(* The score of a query. *)

\* The smaller of two numbers.
LEMMA SmallerIs ==
    ASSUME NEW a \in Int, NEW b \in Int
    PROVE  Min({a, b}) = IF a <= b THEN a ELSE b
  <1>1. PICK m : m = IF a <= b THEN a ELSE b
    OBVIOUS
  <1>2. m \in {a, b} /\ \A y \in {a, b} : m <= y
    BY <1>1
  <1>3. \A x \in {a, b} : (\A y \in {a, b} : x <= y) => x = m
    BY <1>1
  <1> QED BY <1>1, <1>2, <1>3 DEF Min

\* The first k of a sequence.
LEMMA TakeIs ==
    ASSUME NEW A, NEW s \in Seq(A), NEW k \in Nat
    PROVE  \E l \in Nat : /\ l = (IF k <= Len(s) THEN k ELSE Len(s)) /\ Len(Take(s, k)) = l
                          /\ DOMAIN Take(s, k) = 1..l
                          /\ \A i \in 1..l : i \in DOMAIN s /\ Take(s, k)[i] = s[i]
  <1>1. PICK l \in Nat : l = (IF k <= Len(s) THEN k ELSE Len(s))
    OBVIOUS
  <1>2. Min({k, Len(s)}) = l
    <2>1. k \in Int /\ Len(s) \in Int
      OBVIOUS
    <2> QED BY <1>1, <2>1, SmallerIs
  <1>3. PICK r : r = SubSeq(s, 1, l)
    OBVIOUS
  <1>4. Take(s, k) = r
    BY <1>2, <1>3 DEF Take
  <1>5. l <= Len(s)
    BY <1>1
  <1>6. r \in Seq(A) /\ Len(r) = l
    BY <1>3, <1>5
  <1>7. \A i \in 1..l : i \in DOMAIN s /\ r[i] = s[i]
    BY <1>3, <1>5
  <1> QED BY <1>1, <1>4, <1>6, <1>7

\* The numbers up to another.
LEMMA CountTo ==
    ASSUME NEW l \in Nat
    PROVE  IsFiniteSet(1..l) /\ Cardinality(1..l) = l
  <1>1. 1 \in Int /\ l \in Int /\ l - 1 + 1 = l
    OBVIOUS
  <1> QED BY <1>1, FS_Interval

\* A query scores at most the exact neighbours it is measured with, and scores them all
\* when its search found the same.
LEMMA MatchedIs ==
    ASSUME NEW ex \in Seq(CorpusRecords), NEW k \in Nat, NEW ap, NEW l \in Nat,
           l = (IF k <= Len(ex) THEN k ELSE Len(ex)), NEW x, x = Matched(ex, ap, k)
    PROVE  x \in Nat /\ x <= l /\ (Take(ap, k) = Take(ex, k) => x = l)
  <1>1. PICK f : f = Take(ex, k)
    OBVIOUS
  <1>2. /\ Len(f) = l /\ DOMAIN f = 1..l /\ \A i \in 1..l : i \in DOMAIN ex /\ f[i] = ex[i]
    BY <1>1, TakeIs
  <1>3. PICK S, n : S = {i \in DOMAIN f : ex[i].id \in IdsOf(Take(ap, k))} /\ n = Cardinality(S)
    OBVIOUS
  <1>4. S \in SUBSET (1..l)
    BY <1>2, <1>3
  <1>5. IsFiniteSet(1..l) /\ Cardinality(1..l) = l
    BY CountTo
  <1>6. n \in Nat /\ n <= l
    BY <1>3, <1>4, <1>5, FS_Subset, FS_CardinalityType
  <1>7. x = Min({n, l})
    BY <1>1, <1>2, <1>3 DEF Matched
  <1>8. x = n
    BY <1>6, <1>7, SmallerIs
  <1>9. ASSUME Take(ap, k) = Take(ex, k) PROVE n = l
    <2>1. IdsOf(Take(ap, k)) = {f[i].id : i \in 1..l}
      BY <1>1, <1>2, <1>9 DEF IdsOf
    <2>2. \A i \in 1..l : i \in S
      BY <1>2, <1>3, <2>1
    <2>3. S = 1..l
      BY <1>4, <2>2
    <2> QED BY <1>3, <1>5, <2>3
  <1> QED BY <1>6, <1>8, <1>9

\* No two entries share an id.
Distinct(s, V) ==
    \A x, y \in EntriesOf(s, V) : x # y => EntryAt(s)[x].id # EntryAt(s)[y].id

\* How many other entries a query has: those with another id than its own.
LEMMA OthersCount ==
    ASSUME NEW s \in Graphs, NEW V \in SUBSET Blocks, IsFiniteSet(EntriesOf(s, V)),
           NEW z \in EntriesOf(s, V), NEW q, q = EntryAt(s)[z]
    PROVE  LET n == Cardinality(EntriesOf(s, V))
               m == Cardinality(OthersOf(s, {q.id}, V))
           IN  n \in Nat /\ m \in Nat /\ m <= n - 1 /\ (Distinct(s, V) => m = n - 1)
  <1>1. PICK P, O, n, m : /\ P = EntriesOf(s, V) /\ O = OthersOf(s, {q.id}, V)
                          /\ n = Cardinality(P) /\ m = Cardinality(O)
    OBVIOUS
  <1>2. PICK T : T = P \ {z}
    OBVIOUS
  <1>3. \A x : x \in O <=> x \in P /\ EntryAt(s)[x].id # EntryAt(s)[z].id
    BY <1>1 DEF OthersOf
  <1>4. O \subseteq T
    BY <1>2, <1>3
  <1>5. n \in Nat /\ IsFiniteSet(T) /\ Cardinality(T) = n - 1
    BY <1>1, <1>2, FS_RemoveElement, FS_CardinalityType
  <1>6. m \in Nat /\ m <= n - 1
    BY <1>1, <1>4, <1>5, FS_Subset, FS_CardinalityType
  <1>7. ASSUME Distinct(s, V) PROVE m = n - 1
    <2>1. O = T
      BY <1>1, <1>2, <1>3, <1>7 DEF Distinct
    <2> QED BY <1>1, <1>5, <2>1
  <1> QED BY <1>1, <1>5, <1>6, <1>7

\* The rows of the recall are fractions.
Fraction(s, V, rows, an, ex) ==
    \A k \in RecallAt : \A i \in DOMAIN rows[k].matched :
        /\ rows[k].matched[i] <= rows[k].denominator
        /\ Distinct(s, V) /\ Take(an[i].approx, k) = Take(ex[i], k)
              => rows[k].matched[i] = rows[k].denominator

\* The rows that are reported.
LEMMA RowsAre ==
    ASSUME NEW s \in Graphs, NEW V \in SUBSET Blocks, NEW n, Collected(s, t, n), V = t.visited,
           NEW S, Scored(s, queries, exact, S), V = S \cap s.stored, queries = t.sample,
           Searched(answers), Len(answers) = Len(queries),
           NEW rows, rows = RecallRows
    PROVE  Fraction(s, V, rows, answers, exact)
  <1>1. PICK P, m : P = EntriesOf(s, V) /\ m = Cardinality(P)
    OBVIOUS
  <1>2. /\ Best(queries, P, EntryAt(s), n, SampleOrder, CorpusRecords) /\ IsFiniteSet(P)
        /\ t.corpus = m
    BY <1>1 DEF Collected, Kept, Pool
  <1>3. queries \in Seq(CorpusRecords) /\ m \in Nat
    BY <1>1, <1>2, FS_CardinalityType DEF Best
  <1>4. DOMAIN answers = DOMAIN queries
    <2>1. PICK A : answers \in Seq(A)
      BY DEF Searched
    <2> QED BY <1>3, <2>1
  <1> SUFFICES ASSUME NEW k \in RecallAt, NEW i \in DOMAIN rows[k].matched
               PROVE  /\ rows[k].matched[i] <= rows[k].denominator
                      /\ Distinct(s, V) /\ Take(answers[i].approx, k) = Take(exact[i], k)
                            => rows[k].matched[i] = rows[k].denominator
    BY DEF Fraction
  <1>5. /\ rows[k].denominator = Min({k, m - 1}) /\ i \in DOMAIN answers
        /\ rows[k].matched[i] = Matched(exact[i], answers[i].approx, k)
    BY <1>2 DEF RecallRows
  <1>6. k \in Nat /\ MaxExact \in Nat /\ k <= MaxExact
    BY QualityAssumption
  <1>7. PICK q, O, c, ex, ap : /\ q = queries[i] /\ O = OthersOf(s, {q.id}, V) /\ c = Cardinality(O)
                               /\ ex = exact[i] /\ ap = answers[i].approx
    OBVIOUS
  <1>8. Kept(ex, O, s, MaxExact, NearOrder(q))
    BY <1>4, <1>5, <1>7 DEF Scored
  <1>9. ex \in Seq(CorpusRecords) /\ Len(ex) <= MaxExact /\ Len(ex) <= c /\ (Len(ex) = MaxExact \/ Len(ex) = c)
    BY <1>7, <1>8 DEF Kept, Best
  <1>10. PICK z \in P : q = EntryAt(s)[z]
    BY <1>2, <1>4, <1>5, <1>7 DEF Best
  <1>11. c \in Nat /\ c <= m - 1 /\ (Distinct(s, V) => c = m - 1)
    BY <1>1, <1>2, <1>7, <1>10, OthersCount
  <1>12. PICK l \in Nat : l = IF k <= Len(ex) THEN k ELSE Len(ex)
    BY <1>6, <1>9
  <1>13. PICK x, d : x = rows[k].matched[i] /\ d = rows[k].denominator
    OBVIOUS
  <1>14. x \in Nat /\ x <= l /\ (Take(ap, k) = Take(ex, k) => x = l)
    <2>1. x = Matched(ex, ap, k)
      BY <1>5, <1>7, <1>13
    <2> QED BY <1>6, <1>9, <1>12, <2>1, MatchedIs
  <1>15. d = IF k <= m - 1 THEN k ELSE m - 1
    BY <1>3, <1>5, <1>6, <1>13, SmallerIs
  <1>16. Len(ex) \in Nat
    BY <1>9
  <1>17. x <= d
    BY <1>3, <1>6, <1>9, <1>11, <1>12, <1>14, <1>15, <1>16
  <1>18. ASSUME Distinct(s, V), Take(ap, k) = Take(ex, k) PROVE x = d
    BY <1>3, <1>6, <1>9, <1>11, <1>12, <1>14, <1>15, <1>16, <1>18
  <1> QED BY <1>7, <1>13, <1>17, <1>18

-----------------------------------------------------------------------------
(* The recall is measured on what it claims. *)

\* What the first walk has gathered.
Gathered ==
    /\ size \in Nat
    /\ ~fast /\ doing \in {"start", "traverse", "recall"} => seen = {}
    /\ ~fast /\ doing \in {"traverse", "recall", "exact", "search"} =>
          size # 0 /\ Root \in g.stored /\ Collected(g, t, size) /\ OneSpec(g, t)

\* What the second walk has scored.
Asked ==
    /\ ~fast /\ doing \in {"exact", "search"} =>
          /\ queries = t.sample /\ ~Mismatch(t.findings)
          /\ Walked(g, seen, todo) /\ Scored(g, queries, exact, seen)
    /\ ~fast /\ doing = "search" => todo = <<>>

\* What the report says of the recall.
Told(s, R, an, ex) ==
    R.result = "report" /\ R.recall.scored => \E V : Least(s, V) /\ Fraction(s, V, R.recall.rows, an, ex)

RecallInv == Gathered /\ Asked /\ (~fast /\ doing = "done" => Told(g, report, answers, exact))

\* A report of another kind says nothing of the recall.
LEMMA NothingTold ==
    ASSUME NEW s, NEW w, w # "report", NEW R, R = [result |-> w], NEW an, NEW ex
    PROVE  Told(s, R, an, ex)
  BY DEF Told

\* The blocks entered are those the root reaches.
LEMMA VisitedLeast ==
    ASSUME QualityInv, ~fast, doing \in {"recall", "exact", "search"}
    PROVE  Least(g, t.visited)
  <1>1. g \in Graphs /\ Ledger(g, <<>>, t)
    BY DEF QualityInv, Traversing
  <1>2. PICK V : V = t.visited
    OBVIOUS
  <1>3. /\ V \in SUBSET Blocks /\ Closed(g, V)
        /\ \A W \in SUBSET Blocks : Closed(g, W) => V \subseteq W
    BY <1>1, <1>2, LedgerDone
  <1> QED BY <1>2, <1>3 DEF Least

\* An assessment that fails.
LEMMA FailRecalls ==
    ASSUME RecallInv, NEW w, w # "report", Fail(w)
    PROVE  RecallInv'
  <1>1. /\ g' = g /\ size' = size /\ fast' = fast /\ answers' = answers /\ exact' = exact
        /\ doing' = "done" /\ report' = [result |-> w]
    BY DEF Fail
  <1>2. Told(g, report', answers, exact)
    BY <1>1, NothingTold
  <1>3. Gathered'
    BY <1>1 DEF RecallInv, Gathered
  <1>4. Asked'
    BY <1>1 DEF Asked
  <1> QED BY <1>1, <1>2, <1>3, <1>4 DEF RecallInv

\* A step of the fast mode.
LEMMA FastRecalls ==
    ASSUME RecallInv, fast' = fast, fast, size' = size
    PROVE  RecallInv'
  <1>1. Gathered'
    BY DEF RecallInv, Gathered
  <1>2. Asked'
    BY DEF Asked
  <1> QED BY <1>1, <1>2 DEF RecallInv

\* The actions that start the assessment.
LEMMA StartsRecall ==
    ASSUME QualityInv, RecallInv, fast \in BOOLEAN, Refused \/ StartTraversal \/ StartWalk
    PROVE  RecallInv'
  <1>1. CASE Refused
    <2>1. Fail("sample_size") \/ Fail("missing_root") \/ Fail("undecodable")
      BY <1>1 DEF Refused
    <2> QED BY <2>1, FailRecalls
  <1>2. CASE StartTraversal
    <2>1. /\ doing = "start" /\ Root \in g.stored /\ ~fast /\ size # 0 /\ doing' = "traverse"
          /\ t' = EnterBlock(t, Root, <<>>, 0)
          /\ g' = g /\ fast' = fast /\ size' = size /\ seen' = seen
      BY <1>2 DEF StartTraversal
    <2>2. t = EmptyTraversal /\ g \in Graphs
      BY <2>1 DEF QualityInv, Traversing
    <2>3. DOMAIN EmptyTraversal = Fields
      BY DEF EmptyTraversal, Fields
    <2>4. Enters(t', EmptyTraversal, Root, <<>>, 0)
      BY <2>1, <2>2, <2>3 DEF Enters
    <2>5. PICK n \in Nat \ {0} : n = size
      BY <2>1 DEF RecallInv, Gathered
    <2>6. Collected(g, t', n) /\ OneSpec(g, t')
      BY <2>2, <2>4, <2>5, CollectStart
    <2>7. Gathered'
      BY <2>1, <2>5, <2>6 DEF RecallInv, Gathered
    <2>8. Asked'
      BY <2>1 DEF Asked
    <2> QED BY <2>1, <2>7, <2>8 DEF RecallInv
  <1>3. CASE StartWalk
    <2>1. fast /\ fast' = fast /\ size' = size
      BY <1>3 DEF StartWalk
    <2> QED BY <2>1, FastRecalls
  <1> QED BY <1>1, <1>2, <1>3

\* The actions of the traversal.
LEMMA TraversalRecalls ==
    ASSUME QualityInv, RecallInv, HandleChildEntry \/ LeaveBlock
    PROVE  RecallInv'
  <1>1. doing = "traverse" /\ g' = g /\ fast' = fast /\ size' = size /\ seen' = seen
    BY DEF HandleChildEntry, LeaveBlock
  <1>2. g \in Graphs /\ ~fast /\ Ledger(g, stack, t)
    BY <1>1 DEF QualityInv, Traversing
  <1>3. PICK n \in Nat \ {0} : n = size
    BY <1>1, <1>2 DEF RecallInv, Gathered
  <1>4. Root \in g.stored /\ Collected(g, t, n) /\ OneSpec(g, t) /\ seen = {}
    BY <1>1, <1>2, <1>3 DEF RecallInv, Gathered
  <1>5. ASSUME doing' \in {"traverse", "recall"}, Collected(g, t', n), OneSpec(g, t') PROVE RecallInv'
    <2>1. Gathered'
      BY <1>1, <1>3, <1>4, <1>5 DEF Gathered
    <2>2. Asked'
      BY <1>5 DEF Asked
    <2> QED BY <1>5, <2>1, <2>2 DEF RecallInv
  <1>6. CASE HandleChildEntry
    <2>1. HasEntry
      BY <1>6 DEF HandleChildEntry
    <2>2. \/ EdgeDefect(Child) # "none" /\ Refuted(t') /\ doing' = doing
          \/ EdgeDefect(Child) = "none" /\ Followed(t') /\ doing' = doing
          \/ doing' = "done" /\ report' = [result |-> "undecodable"]
      BY <1>6 DEF HandleChildEntry, Refuted, Followed
    <2>3. CASE EdgeDefect(Child) # "none" /\ Refuted(t') /\ doing' = doing
      <3>1. Collected(g, t', n) /\ OneSpec(g, t')
        BY <1>2, <1>4, <2>1, <2>3, CollectDefect
      <3> QED BY <1>1, <1>5, <2>3, <3>1
    <2>4. CASE EdgeDefect(Child) = "none" /\ Followed(t') /\ doing' = doing
      <3>1. Collected(g, t', n) /\ OneSpec(g, t')
        BY <1>2, <1>3, <1>4, <2>1, <2>4, CollectEntry
      <3> QED BY <1>1, <1>5, <2>4, <3>1
    <2>5. CASE doing' = "done" /\ report' = [result |-> "undecodable"]
      <3>1. Told(g, report', answers', exact')
        BY <2>5, NothingTold
      <3>2. Gathered'
        BY <1>1, <2>5 DEF RecallInv, Gathered
      <3>3. Asked'
        BY <2>5 DEF Asked
      <3> QED BY <1>1, <3>1, <3>2, <3>3 DEF RecallInv
    <2> QED BY <2>2, <2>3, <2>4, <2>5
  <1>7. CASE LeaveBlock
    <2>1. t' = t /\ doing' \in {"traverse", "recall"}
      BY <1>7 DEF LeaveBlock
    <2> QED BY <1>4, <1>5, <2>1
  <1> QED BY <1>6, <1>7

\* The sample becomes the queries, and the second walk starts.
LEMMA RecallStarts ==
    ASSUME QualityInv, RecallInv, StartRecall
    PROVE  RecallInv'
  <1>1. /\ doing = "recall" /\ doing' = "exact" /\ queries' = t.sample /\ todo' = <<Root>>
        /\ exact' = [i \in DOMAIN t.sample |-> <<>>] /\ ~SpecMismatch(t)
        /\ g' = g /\ size' = size /\ fast' = fast /\ t' = t /\ seen' = seen
    BY DEF StartRecall, CanComputeRecall
  <1>2. g \in Graphs /\ ~fast
    BY <1>1 DEF QualityInv, Traversing
  <1>3. size # 0 /\ Root \in g.stored /\ Collected(g, t, size) /\ OneSpec(g, t) /\ seen = {}
    BY <1>1, <1>2 DEF RecallInv, Gathered
  <1>4. t.sample \in Seq(CorpusRecords)
    BY <1>3 DEF Collected, Kept, Best
  <1>5. Walked(g, {}, todo')
    BY <1>1, <1>2, WalkedStart
  <1>6. Scored(g, queries', exact', {})
    BY <1>1, <1>2, <1>4, ScoredStart
  <1>7. ~Mismatch(t.findings)
    BY <1>1 DEF SpecMismatch, Mismatch
  <1>8. Gathered'
    BY <1>1, <1>3 DEF RecallInv, Gathered
  <1>9. Asked'
    BY <1>1, <1>3, <1>5, <1>6, <1>7 DEF Asked
  <1> QED BY <1>1, <1>8, <1>9 DEF RecallInv

\* A block of the second walk.
LEMMA ExactCollects ==
    ASSUME QualityInv, RecallInv, CollectExact
    PROVE  RecallInv'
  <1> PICK b : b = Head(todo)
    OBVIOUS
  <1>1. PICK fresh \in BOOLEAN : fresh <=> b \notin seen /\ b \in g.stored
    <2>1. CASE b \notin seen /\ b \in g.stored
      BY <2>1, Zenon
    <2>2. CASE ~(b \notin seen /\ b \in g.stored)
      BY <2>2, Zenon
    <2> QED BY <2>1, <2>2, Zenon
  <1>2. /\ doing = "exact" /\ doing' = "exact" /\ todo # <<>> /\ seen' = seen \cup {b}
        /\ g' = g /\ size' = size /\ fast' = fast /\ t' = t /\ queries' = queries
    BY <1>1 DEF CollectExact
  <1>3. /\ Ahead(todo', g, todo, fresh)
        /\ fresh /\ g.leaf[b] => Scores(exact', g, exact, b)
        /\ ~(fresh /\ g.leaf[b]) => exact' = exact
    BY <1>1 DEF CollectExact, Ahead, Scores
  <1>4. g \in Graphs /\ ~fast
    BY <1>2 DEF QualityInv, Traversing
  <1>5. /\ size # 0 /\ Root \in g.stored /\ Collected(g, t, size) /\ OneSpec(g, t)
        /\ queries = t.sample /\ ~Mismatch(t.findings)
        /\ Walked(g, seen, todo) /\ Scored(g, queries, exact, seen)
    BY <1>2, <1>4 DEF RecallInv, Gathered, Asked
  <1>6. Walked(g, seen', todo') /\ b \in Blocks
    BY <1>1, <1>2, <1>3, <1>4, <1>5, WalkedOn
  <1>7. seen \in SUBSET Blocks
    BY <1>5 DEF Walked
  <1>8. Scored(g, queries, exact', seen')
    <2>1. CASE fresh /\ g.leaf[b]
      BY <1>1, <1>2, <1>3, <1>4, <1>5, <1>6, <1>7, <2>1, ScoredMore
    <2>2. CASE ~(fresh /\ g.leaf[b])
      BY <1>1, <1>2, <1>3, <1>4, <1>5, <1>6, <1>7, <2>2, ScoredIdle
    <2> QED BY <2>1, <2>2
  <1>9. Gathered'
    BY <1>2, <1>5 DEF RecallInv, Gathered
  <1>10. Asked'
    BY <1>2, <1>5, <1>6, <1>8 DEF Asked
  <1> QED BY <1>2, <1>9, <1>10 DEF RecallInv

\* The actions of the search that give no report.
LEMMA SearchRecalls ==
    ASSUME QualityInv, RecallInv, ExactDone \/ SearchQuery \/ SearchFails
    PROVE  RecallInv'
  <1>1. CASE ExactDone
    <2>1. /\ doing = "exact" /\ doing' = "search" /\ todo = <<>>
          /\ UNCHANGED <<g, size, fast, t, todo, seen, queries, exact>>
      BY <1>1 DEF ExactDone
    <2>2. Gathered'
      BY <2>1 DEF RecallInv, Gathered
    <2>3. Asked'
      BY <2>1 DEF RecallInv, Asked
    <2> QED BY <2>1, <2>2, <2>3 DEF RecallInv
  <1>2. CASE SearchQuery
    <2>1. /\ doing = "search" /\ doing' = doing
          /\ UNCHANGED <<g, size, fast, t, todo, seen, queries, exact>>
      BY <1>2 DEF SearchQuery
    <2>2. Gathered'
      BY <2>1 DEF RecallInv, Gathered
    <2>3. Asked'
      BY <2>1 DEF RecallInv, Asked
    <2> QED BY <2>1, <2>2, <2>3 DEF RecallInv
  <1>3. CASE SearchFails
    <2>1. Fail("search")
      BY <1>3 DEF SearchFails
    <2> QED BY <2>1, FailRecalls
  <1> QED BY <1>1, <1>2, <1>3

\* The two walks have met the same blocks, and the rows are about their entries.
LEMMA RowsTold ==
    ASSUME QualityInv, RecallInv, ~fast, doing = "search", Len(answers) = Len(queries)
    PROVE  \E V : Least(g, V) /\ Fraction(g, V, RecallRows, answers, exact)
  <1>1. g \in Graphs /\ Searched(answers)
    BY DEF QualityInv
  <1>2. /\ Root \in g.stored /\ Collected(g, t, size) /\ queries = t.sample /\ todo = <<>>
        /\ Walked(g, seen, todo) /\ Scored(g, queries, exact, seen)
    BY DEF RecallInv, Gathered, Asked
  <1>3. PICK V, S : V = t.visited /\ S = seen
    OBVIOUS
  <1>4. Least(g, V)
    BY <1>3, VisitedLeast
  <1>5. Least(g, S \cap g.stored)
    BY <1>1, <1>2, <1>3, WalkedOut
  <1>6. V = S \cap g.stored
    BY <1>4, <1>5, LeastIs
  <1>7. V \in SUBSET Blocks
    BY <1>4 DEF Least
  <1>8. PICK rows : rows = RecallRows
    OBVIOUS
  <1>9. Fraction(g, V, rows, answers, exact)
    BY <1>1, <1>2, <1>3, <1>6, <1>7, <1>8, RowsAre
  <1> QED BY <1>4, <1>8, <1>9

\* The actions that give the report.
LEMMA ReportRecalls ==
    ASSUME QualityInv, RecallInv, fast \in BOOLEAN, ZeroedRecall \/ Finish
    PROVE  RecallInv'
  <1>1. doing' = "done" /\ g' = g /\ size' = size /\ fast' = fast /\ answers' = answers /\ exact' = exact
    BY DEF ZeroedRecall, Finish
  <1>2. Gathered'
    BY <1>1 DEF RecallInv, Gathered
  <1>3. Asked'
    BY <1>1 DEF Asked
  <1>4. ASSUME ~fast PROVE Told(g, report', answers, exact)
    <2>1. CASE ZeroedRecall
      <3>1. ~report'.recall.scored
        BY <2>1 DEF ZeroedRecall
      <3> QED BY <3>1 DEF Told
    <2>2. CASE Finish
      <3>1. doing = "search" /\ Len(answers) = Len(queries)
        BY <2>2 DEF Finish
      <3>2. PICK rows : rows = RecallRows
        OBVIOUS
      <3>3. \E V : Least(g, V) /\ Fraction(g, V, rows, answers, exact)
        BY <1>4, <3>1, <3>2, RowsTold
      <3>4. PICK m, a : m = Summary(t) /\ a = AccessSummary
        OBVIOUS
      <3>5. report' = [result |-> "report", summary |-> m, access |-> a,
                       recall |-> [scored |-> TRUE, rows |-> rows]]
        BY <1>4, <2>2, <3>2, <3>4 DEF Finish
      <3>6. report'.recall.rows = rows
        BY <3>5
      <3> QED BY <3>3, <3>6 DEF Told
    <2> QED BY <2>1, <2>2
  <1> QED BY <1>1, <1>2, <1>3, <1>4 DEF RecallInv

\* The recall's invariant holds at the start and is kept by every action.
LEMMA RecallInvariant == QualitySpec => [](QualityInv /\ RecallInv)
  <1>1. ASSUME QualityInit PROVE RecallInv
    <2>1. PICK s \in Graphs, n \in SampleSizes, w \in BOOLEAN : QualityStart(s, n, w)
      BY <1>1 DEF QualityInit
    <2>2. size = n /\ doing = "start" /\ seen = {}
      BY <2>1 DEF QualityStart
    <2>3. size \in Nat
      BY <2>2, QualityAssumption
    <2> QED BY <2>2, <2>3 DEF RecallInv, Gathered, Asked
  <1>2. ASSUME QualityInv, RecallInv, [QualityNext]_qualityVars PROVE RecallInv'
    <2>1. CASE UNCHANGED qualityVars
      <3>1. UNCHANGED <<g, size, fast, doing, t, todo, seen, queries, exact, answers, report>>
        BY <2>1 DEF qualityVars
      <3>2. Gathered'
        BY <1>2, <3>1 DEF RecallInv, Gathered
      <3>3. Asked'
        BY <1>2, <3>1 DEF RecallInv, Asked
      <3> QED BY <1>2, <3>1, <3>2, <3>3 DEF RecallInv
    <2>2. CASE CtrlC
      <3>1. UNCHANGED <<g, size, fast, doing, t, todo, seen, queries, exact, answers, report>>
        BY <2>2 DEF CtrlC
      <3>2. Gathered'
        BY <1>2, <3>1 DEF RecallInv, Gathered
      <3>3. Asked'
        BY <1>2, <3>1 DEF RecallInv, Asked
      <3> QED BY <1>2, <3>1, <3>2, <3>3 DEF RecallInv
    <2>3. fast \in BOOLEAN
      BY <1>2 DEF QualityInv
    <2>4. CASE Interrupted \/ BlockUnreadable
      <3>1. Fail("interrupted") \/ Fail("unreadable")
        BY <2>4 DEF Interrupted, BlockUnreadable
      <3> QED BY <1>2, <3>1, FailRecalls
    <2>5. CASE Refused \/ StartTraversal \/ StartWalk
      BY <1>2, <2>3, <2>5, StartsRecall
    <2>6. CASE HandleChildEntry \/ LeaveBlock
      BY <1>2, <2>6, TraversalRecalls
    <2>7. CASE StartRecall
      BY <1>2, <2>7, RecallStarts
    <2>8. CASE CollectExact
      BY <1>2, <2>8, ExactCollects
    <2>9. CASE ExactDone \/ SearchQuery \/ SearchFails
      BY <1>2, <2>9, SearchRecalls
    <2>10. CASE ZeroedRecall \/ Finish
      BY <1>2, <2>3, <2>10, ReportRecalls
    <2>11. CASE WalkDown \/ WalkEnds \/ WalkEmpty
      <3>1. doing = "walk" /\ size' = size /\ fast' = fast
        BY <2>11 DEF WalkDown, WalkEnds, WalkEmpty, WalkUnchanged
      <3>2. fast
        BY <1>2, <3>1 DEF QualityInv, Traversing
      <3> QED BY <1>2, <3>1, <3>2, FastRecalls
    <2> QED
      BY <1>2, <2>1, <2>2, <2>4, <2>5, <2>6, <2>7, <2>8, <2>9, <2>10, <2>11 DEF QualityNext, AssessStep
  <1> QED BY <1>1, <1>2, QualityInvariant, PTL DEF QualitySpec

\* The entries of a leaf, of the graph at hand.
LEMMA UsableHere ==
    ASSUME NEW b
    PROVE  Usable(b) = UsableIn(g, b)
  BY DEF Usable, UsableIn, LeafVals

\* The entries as the property names them.
LEMMA EntriesIs ==
    ASSUME g \in Graphs
    PROVE  /\ Entries = EntriesOf(g, Reachable)
           /\ \A x \in Entries : Usable(x[1])[x[2]] = EntryAt(g)[x]
  <1>1. PICK V : V = Reachable
    OBVIOUS
  <1>2. V \in SUBSET Blocks
    BY <1>1, ReachableIs
  <1>3. PICK L : L = {b \in V : g.leaf[b]}
    OBVIOUS
  <1>4. PICK u : u = [b \in Blocks |-> UsableIn(g, b)]
    OBVIOUS
  <1>5. \A b \in Blocks : u[b] = UsableIn(g, b) /\ DOMAIN u[b] \subseteq Nat
    <2>1. \A b \in Blocks : u[b] \in Seq(CorpusRecords)
      BY <1>4, UsableIs
    <2> QED BY <1>4, <2>1
  <1>6. \A x : x \in UNION {{<<b, i>> : i \in DOMAIN u[b]} : b \in L} <=> x \in EntriesOf(g, V)
    BY <1>2, <1>3, <1>5 DEF EntriesOf
  <1>7. Entries = UNION {{<<b, i>> : i \in DOMAIN u[b]} : b \in L}
    <2>1. \A b \in L : Usable(b) = u[b]
      BY <1>2, <1>3, <1>5, UsableHere
    <2>2. ReachableLeaves = L
      BY <1>1, <1>3 DEF ReachableLeaves
    <2> QED BY <2>1, <2>2 DEF Entries
  <1>8. ASSUME NEW x \in EntriesOf(g, V) PROVE Usable(x[1])[x[2]] = EntryAt(g)[x]
    BY UsableHere DEF EntriesOf, EntryAt
  <1> QED BY <1>1, <1>6, <1>7, <1>8

\* The sample.
LEMMA SampleMeans ==
    ASSUME QualityInv, RecallInv
    PROVE  SampleIsSmallest
  <1> SUFFICES ASSUME doing \in {"recall", "exact"} PROVE SampleIsSmallest
    BY DEF SampleIsSmallest
  <1>1. g \in Graphs /\ ~fast
    BY DEF QualityInv, Traversing
  <1>2. size \in Nat /\ Collected(g, t, size)
    BY <1>1 DEF RecallInv, Gathered
  <1>3. Least(g, Reachable)
    BY <1>1, ReachableIs DEF Least
  <1>4. Reachable = t.visited
    BY <1>1, <1>3, VisitedLeast, LeastIs
  <1>5. PICK P, h : P = Entries /\ h = t.sample
    OBVIOUS
  <1>6. Best(h, P, EntryAt(g), size, SampleOrder, CorpusRecords) /\ Pool(P, EntryAt(g), CorpusRecords)
    BY <1>1, <1>2, <1>4, <1>5, EntriesIs DEF Collected, Kept
  <1>7. PICK m \in Nat : m = Cardinality(P)
    BY <1>6, FS_CardinalityType DEF Pool
  <1>8. h \in Seq(CorpusRecords) /\ Len(h) \in Nat
    BY <1>6 DEF Best
  <1>9. Len(h) = Min({size, m})
    <2>1. Min({size, m}) = IF size <= m THEN size ELSE m
      BY <1>2, <1>7, SmallerIs
    <2> QED BY <1>2, <1>6, <1>7, <1>8, <2>1 DEF Best
  <1>10. ASSUME NEW x \in P, NEW e, e = EntryAt(g)[x]
         PROVE  e \in Range(h) \/ \A i \in DOMAIN h : KeyOf(h[i].id) <= KeyOf(e.id)
    <2>1. CASE Has(h, e)
      BY <2>1 DEF Has, Range
    <2>2. CASE \A i \in DOMAIN h : <<e, h[i]>> \notin SampleOrder
      <3>1. e \in CorpusRecords
        BY <1>6, <1>10 DEF Pool
      <3> SUFFICES ASSUME NEW i \in DOMAIN h PROVE KeyOf(h[i].id) <= KeyOf(e.id)
        OBVIOUS
      <3>2. h[i] \in CorpusRecords
        BY <1>8
      <3>3. KeyOf(h[i].id) \in Nat /\ KeyOf(e.id) \in Nat
        BY <3>1, <3>2 DEF CorpusRecords
      <3>4. ~(KeyOf(e.id) < KeyOf(h[i].id))
        BY <2>2, <3>1, <3>2 DEF SampleOrder, SampleBefore
      <3> QED BY <3>3, <3>4
    <2> QED BY <1>6, <1>10, <2>1, <2>2 DEF Best
  <1>11. \A x \in Entries : Usable(x[1])[x[2]] = EntryAt(g)[x]
    BY <1>1, EntriesIs
  <1> QED BY <1>5, <1>7, <1>9, <1>10, <1>11 DEF SampleIsSmallest

\* The exact neighbours.
LEMMA ExactMeans ==
    ASSUME QualityInv, RecallInv
    PROVE  ExactAreNearest
  <1> SUFFICES ASSUME doing = "search", ~fast, NEW q \in DOMAIN queries
               PROVE  /\ Len(exact[q]) = Min({MaxExact, Cardinality(OtherEntries(q))})
                      /\ \A x \in OtherEntries(q) :
                            LET e == Usable(x[1])[x[2]]
                            IN  \/ e \in Range(exact[q])
                                \/ ~\E i \in DOMAIN exact[q] : Nearer(queries[q], e, exact[q][i])
    BY DEF ExactAreNearest
  <1>1. g \in Graphs
    BY DEF QualityInv
  <1>2. /\ Root \in g.stored /\ todo = <<>> /\ Walked(g, seen, todo)
        /\ Scored(g, queries, exact, seen)
    BY DEF RecallInv, Gathered, Asked
  <1>3. Least(g, Reachable)
    BY <1>1, ReachableIs DEF Least
  <1>4. Reachable = seen \cap g.stored
    BY <1>1, <1>2, <1>3, WalkedOut, LeastIs
  <1>5. PICK O, h, y : O = OtherEntries(q) /\ h = exact[q] /\ y = queries[q]
    OBVIOUS
  <1>6. \A x \in Entries : Usable(x[1])[x[2]] = EntryAt(g)[x]
    BY <1>1, EntriesIs
  <1>7. O = OthersOf(g, {y.id}, Reachable) /\ O \subseteq Entries
    <2>1. Entries = EntriesOf(g, Reachable)
      BY <1>1, EntriesIs
    <2>2. O = {x \in Entries : EntryAt(g)[x].id # y.id}
      BY <1>5, <1>6 DEF OtherEntries
    <2> QED BY <2>1, <2>2 DEF OthersOf
  <1>8. Kept(h, O, g, MaxExact, NearOrder(y))
    BY <1>2, <1>4, <1>5, <1>7 DEF Scored
  <1>9. Best(h, O, EntryAt(g), MaxExact, NearOrder(y), CorpusRecords) /\ Pool(O, EntryAt(g), CorpusRecords)
    BY <1>8 DEF Kept
  <1>10. PICK m \in Nat : m = Cardinality(O)
    BY <1>9, FS_CardinalityType DEF Pool
  <1>11. h \in Seq(CorpusRecords) /\ Len(h) \in Nat /\ MaxExact \in Nat
    BY <1>9, QualityAssumption DEF Best
  <1>12. Len(h) = Min({MaxExact, m})
    <2>1. Min({MaxExact, m}) = IF MaxExact <= m THEN MaxExact ELSE m
      BY <1>10, <1>11, SmallerIs
    <2> QED BY <1>9, <1>10, <1>11, <2>1 DEF Best
  <1>13. ASSUME NEW x \in O, NEW e, e = EntryAt(g)[x]
         PROVE  e \in Range(h) \/ ~\E i \in DOMAIN h : Nearer(y, e, h[i])
    <2>1. CASE Has(h, e)
      BY <2>1 DEF Has, Range
    <2>2. CASE \A i \in DOMAIN h : <<e, h[i]>> \notin NearOrder(y)
      <3>1. e \in CorpusRecords
        BY <1>9, <1>13 DEF Pool
      <3>2. \A i \in DOMAIN h : h[i] \in CorpusRecords
        BY <1>11
      <3> QED BY <2>2, <3>1, <3>2 DEF NearOrder
    <2> QED BY <1>9, <1>13, <2>1, <2>2 DEF Best
  <1> QED BY <1>5, <1>6, <1>7, <1>10, <1>12, <1>13

\* The specs of the entries.
LEMMA ComparableMeans ==
    ASSUME QualityInv, RecallInv
    PROVE  ScoredCorpusIsComparable
  <1> SUFFICES ASSUME doing \in {"exact", "search"}, ~fast, NEW b \in ReachableLeaves
               PROVE  g.spec[b] = g.spec[Root]
    BY DEF ScoredCorpusIsComparable
  <1>1. g \in Graphs
    BY DEF QualityInv
  <1>2. OneSpec(g, t) /\ ~Mismatch(t.findings)
    BY DEF RecallInv, Gathered, Asked
  <1>3. Least(g, Reachable)
    BY <1>1, ReachableIs DEF Least
  <1>4. Reachable = t.visited
    BY <1>3, VisitedLeast, LeastIs
  <1> QED BY <1>2, <1>4 DEF OneSpec, ReachableLeaves

\* The fractions.
LEMMA FractionMeans ==
    ASSUME QualityInv, RecallInv
    PROVE  RecallIsAFraction
  <1> SUFFICES ASSUME FullReport, report.recall.scored PROVE RecallIsAFraction
    BY DEF RecallIsAFraction
  <1>1. g \in Graphs
    BY DEF QualityInv
  <1>2. doing = "done" /\ ~fast /\ report.result = "report"
    BY DEF QualityInv, FullReport, Reported, NoReport
  <1>3. PICK V : Least(g, V) /\ Fraction(g, V, report.recall.rows, answers, exact)
    BY <1>2 DEF RecallInv, Told
  <1>4. Least(g, Reachable)
    BY <1>1, ReachableIs DEF Least
  <1>5. V = Reachable
    BY <1>3, <1>4, LeastIs
  <1>6. NoTwins => Distinct(g, V)
    <2>1. Entries = EntriesOf(g, V) /\ \A x \in Entries : Usable(x[1])[x[2]] = EntryAt(g)[x]
      BY <1>1, <1>5, EntriesIs
    <2> QED BY <2>1 DEF NoTwins, Distinct
  <1> QED BY <1>3, <1>6 DEF RecallIsAFraction, Fraction

\* The recall is measured on what it claims, for every stored graph, sample size and hash:
\* the sample has the smallest keys of what the root reaches whatever the order of the
\* walk, each query has its true nearest neighbours, all entries have the root's embedding
\* spec, and no query scores above a denominator that it can reach (push_bounded_sample,
\* score_exact_batch, has_embedding_spec_mismatch, build_corpus_tnn_recall_report).
THEOREM RecallSafe == QualitySpec => []RecallSound
  <1>1. ASSUME QualityInv, RecallInv PROVE RecallSound
    BY <1>1, SampleMeans, ExactMeans, ComparableMeans, FractionMeans DEF RecallSound
  <1> QED BY <1>1, RecallInvariant, PTL
=============================================================================
