-------------------------- MODULE SingleCopyProofs --------------------------
(***************************************************************************)
(* Proofs about the single-worker copy (SingleWorkerCopy): its buffer and  *)
(* its futures in flight stay within the limits, and what it reports when  *)
(* it returns is true for every root.  TaskProofs is extended for its      *)
(* lemma on functions defined by recursion on a number.                    *)
(***************************************************************************)
EXTENDS SingleWorkerCopy, CopyTrackerProofs, TaskProofs

-----------------------------------------------------------------------------
(* The single-worker copy: sums over sequences. *)

\* The sums of the prefixes of a sequence.
SumsTo(f, s) ==
    /\ f \in [0..Len(s) -> Nat] /\ f[0] = 0
    /\ \A i \in 1..Len(s) : f[i] = f[i - 1] + s[i]

\* SumOf is the sum of the longest of them.
LEMMA SumIs ==
    ASSUME NEW s \in Seq(Nat)
    PROVE  \E f : SumsTo(f, s) /\ SumOf(s) = f[Len(s)]
  <1>1. PICK n : n = Len(s)
    OBVIOUS
  <1>2. n \in Nat /\ \A i \in 1..n : s[i] \in Nat
    BY <1>1
  <1>3. PICK g : g = [q \in Nat \X (1..n) |-> q[1] + s[q[2]]]
    OBVIOUS
  <1>4. g \in [Nat \X (1..n) -> Nat]
    BY <1>2, <1>3
  <1>5. PICK f : Steps(f, Nat, 0, n, g)
    <2>1. PICK Y : Y = Nat
      OBVIOUS
    <2>2. PICK b : b = 0
      OBVIOUS
    <2>3. b \in Y /\ g \in [Y \X (1..n) -> Y] /\ n \in Nat
      BY <1>2, <1>4, <2>1, <2>2
    <2>4. \E f : Steps(f, Y, b, n, g)
      BY <2>3, StepsExist
    <2> QED BY <2>1, <2>2, <2>4
  <1>6. f \in [0..n -> Nat] /\ f[0] = 0 /\ \A i \in 1..n : f[i] = g[<<f[i - 1], i>>]
    BY <1>5 DEF Steps
  <1>7. ASSUME NEW i \in 1..n PROVE f[i] = f[i - 1] + s[i]
    <2>1. f[i - 1] \in Nat
      BY <1>2, <1>6
    <2> QED BY <1>3, <1>6, <2>1
  <1>8. SumsTo(f, s)
    BY <1>1, <1>6, <1>7 DEF SumsTo
  <1> DEFINE F(k) == [i \in 0..Len(s) |-> IF i = 0 THEN 0 ELSE k[i - 1] + s[i]]
             sum == CHOOSE k : k = F(k)
  <1>9. f = F(f)
    <2>1. ASSUME NEW i \in 0..n PROVE f[i] = IF i = 0 THEN 0 ELSE f[i - 1] + s[i]
      <3>1. i # 0 => i \in 1..n
        BY <1>2
      <3> QED BY <1>6, <1>7, <3>1
    <2> QED BY <1>1, <1>6, <2>1
  <1>10. sum = F(sum)
    BY <1>9
  <1>11. SumOf(s) = sum[n]
    BY <1>1 DEF SumOf
  <1>12. \A i \in 0..n : sum[i] = IF i = 0 THEN 0 ELSE sum[i - 1] + s[i]
    <2> HIDE DEF sum
    <2> QED BY <1>1, <1>10
  <1> HIDE DEF sum, F
  <1>13. Agree(f, sum, n)
    <2>1. f[0] = sum[0]
      BY <1>2, <1>6, <1>12
    <2>2. ASSUME NEW i \in 1..n, f[i - 1] = sum[i - 1] PROVE f[i] = sum[i]
      <3>1. i \in 0..n /\ i # 0
        BY <1>2
      <3> QED BY <1>7, <1>12, <2>2, <3>1
    <2> QED BY <2>1, <2>2 DEF Agree
  <1>14. f[n] = sum[n]
    BY <1>2, <1>13, StepsAgree
  <1> QED BY <1>1, <1>8, <1>11, <1>14

\* An empty sequence, and one more number.
LEMMA SumAppend ==
    ASSUME NEW s \in Seq(Nat), NEW x \in Nat
    PROVE  SumOf(s) \in Nat /\ SumOf(Append(s, x)) = SumOf(s) + x
  <1>1. PICK n : n = Len(s)
    OBVIOUS
  <1>2. PICK t : t = Append(s, x)
    OBVIOUS
  <1>3. n \in Nat /\ t \in Seq(Nat) /\ Len(t) = n + 1 /\ t[n + 1] = x /\ \A i \in 1..n : t[i] = s[i]
    BY <1>1, <1>2
  <1>4. PICK f : SumsTo(f, s) /\ SumOf(s) = f[n]
    BY <1>1, SumIs
  <1>5. PICK h : SumsTo(h, t) /\ SumOf(t) = h[n + 1]
    BY <1>3, SumIs
  <1>6. f[0] = 0 /\ f \in [0..n -> Nat] /\ \A i \in 1..n : f[i] = f[i - 1] + s[i]
    BY <1>1, <1>4 DEF SumsTo
  <1>7. h[0] = 0 /\ \A i \in 1..(n + 1) : h[i] = h[i - 1] + t[i]
    BY <1>3, <1>5 DEF SumsTo
  <1>8. Agree(f, h, n)
    <2>1. ASSUME NEW i \in 1..n, f[i - 1] = h[i - 1] PROVE f[i] = h[i]
      <3>1. i \in 1..(n + 1) /\ t[i] = s[i]
        BY <1>3
      <3> QED BY <1>6, <1>7, <2>1, <3>1
    <2> QED BY <1>6, <1>7, <2>1 DEF Agree
  <1>9. f[n] = h[n]
    BY <1>3, <1>8, StepsAgree
  <1>10. f[n] \in Nat
    BY <1>3, <1>6
  <1>11. h[n + 1] = h[n] + x
    <2>1. n + 1 \in 1..(n + 1) /\ (n + 1) - 1 = n
      BY <1>3
    <2> QED BY <1>3, <1>7, <2>1
  <1> QED BY <1>2, <1>4, <1>5, <1>9, <1>10, <1>11

\* The sum of nothing.
LEMMA SumEmpty == SumOf(<<>>) = 0
  <1>1. PICK s : s = <<>>
    OBVIOUS
  <1>2. s \in Seq(Nat) /\ Len(s) = 0
    BY <1>1
  <1>3. PICK f : SumsTo(f, s) /\ SumOf(s) = f[0]
    BY <1>2, SumIs
  <1> QED BY <1>1, <1>3 DEF SumsTo

\* A sequence without one of its elements.
Removed(X, s, i, t) ==
    /\ t \in Seq(X) /\ Len(t) = Len(s) - 1
    /\ \A k \in 1..(Len(s) - 1) : t[k] = IF k < i THEN s[k] ELSE s[k + 1]

\* RemoveAt returns it.
LEMMA RemoveAtIs ==
    ASSUME NEW X, NEW s \in Seq(X), NEW i \in 1..Len(s)
    PROVE  Removed(X, s, i, RemoveAt(s, i))
  <1>1. Len(s) \in Nat /\ i \in Nat /\ i >= 1 /\ i <= Len(s)
    OBVIOUS
  <1>2. PICK a : a = SubSeq(s, 1, i - 1)
    OBVIOUS
  <1>3. a \in Seq(X) /\ Len(a) = i - 1 /\ \A k \in 1..(i - 1) : a[k] = s[k]
    BY <1>1, <1>2
  <1>4. PICK b : b = SubSeq(s, i + 1, Len(s))
    OBVIOUS
  <1>5. Len(b) = Len(s) - i
    BY <1>1, <1>4
  <1>6. b \in Seq(X) /\ \A k \in 1..(Len(s) - i) : b[k] = s[i + k]
    BY <1>1, <1>4, <1>5
  <1>7. RemoveAt(s, i) = a \o b
    BY <1>2, <1>4 DEF RemoveAt
  <1>8. a \o b \in Seq(X) /\ Len(a \o b) = Len(s) - 1
    <2>1. Len(a \o b) = Len(a) + Len(b) /\ a \o b \in Seq(X)
      <3>1. a \in Seq(X) /\ b \in Seq(X)
        BY <1>3, <1>6
      <3> QED BY <3>1
    <2> QED BY <1>1, <1>3, <1>5, <2>1
  <1>9. ASSUME NEW k \in 1..(Len(s) - 1) PROVE (a \o b)[k] = IF k < i THEN s[k] ELSE s[k + 1]
    <2>1. CASE k < i
      <3>1. k \in 1..(i - 1) /\ k <= Len(a)
        BY <1>1, <1>3, <2>1
      <3>2. (a \o b)[k] = a[k]
        BY <1>3, <1>6, <3>1
      <3> QED BY <1>3, <2>1, <3>1, <3>2
    <2>2. CASE ~(k < i)
      <3>1. k - (i - 1) \in 1..(Len(s) - i) /\ i + (k - (i - 1)) = k + 1 /\ ~(k <= Len(a))
        BY <1>1, <1>3, <2>2
      <3>2. (a \o b)[k] = b[k - (i - 1)]
        BY <1>1, <1>3, <1>5, <1>6, <3>1
      <3> QED BY <1>6, <2>2, <3>1, <3>2
    <2> QED BY <2>1, <2>2
  <1> QED BY <1>7, <1>8, <1>9 DEF Removed

\* Its sum is less by that element.
LEMMA SumRemove ==
    ASSUME NEW s \in Seq(Nat), NEW i \in 1..Len(s)
    PROVE  SumOf(s) = SumOf(RemoveAt(s, i)) + s[i]
  <1>1. PICK n : n = Len(s)
    OBVIOUS
  <1>2. n \in Nat /\ n >= 1 /\ i \in Nat /\ i >= 1 /\ i <= n /\ \A k \in 1..n : s[k] \in Nat
    BY <1>1
  <1>3. PICK r : r = RemoveAt(s, i)
    OBVIOUS
  <1>4. r \in Seq(Nat) /\ Len(r) = n - 1 /\ \A k \in 1..(n - 1) : r[k] = IF k < i THEN s[k] ELSE s[k + 1]
    <2>1. Removed(Nat, s, i, r)
      BY <1>3, RemoveAtIs
    <2> QED BY <1>1, <2>1 DEF Removed
  <1>5. PICK f : SumsTo(f, s) /\ SumOf(s) = f[n]
    BY <1>1, SumIs
  <1>6. PICK h : SumsTo(h, r) /\ SumOf(r) = h[n - 1]
    BY <1>4, SumIs
  <1>7. f[0] = 0 /\ f \in [0..n -> Nat] /\ \A k \in 1..n : f[k] = f[k - 1] + s[k]
    BY <1>1, <1>5 DEF SumsTo
  <1>8. h[0] = 0 /\ \A k \in 1..(n - 1) : h[k] = h[k - 1] + r[k]
    BY <1>4, <1>6 DEF SumsTo
  <1>9. PICK e : e = [k \in 0..(n - 1) |-> IF k < i THEN f[k] ELSE f[k + 1] - s[i]]
    OBVIOUS
  <1>10. \A k \in 0..(n - 1) : /\ k < i => e[k] = f[k]
                               /\ ~(k < i) => e[k] = f[k + 1] - s[i]
    BY <1>9
  <1>11. s[i] \in Nat
    BY <1>2
  <1>12. Agree(h, e, n - 1)
    <2>1. h[0] = e[0]
      BY <1>2, <1>7, <1>8, <1>10
    <2>2. ASSUME NEW k \in 1..(n - 1), h[k - 1] = e[k - 1] PROVE h[k] = e[k]
      <3>1. /\ k \in 0..(n - 1) /\ k - 1 \in 0..(n - 1) /\ k \in 1..n /\ k + 1 \in 1..n
            /\ k - 1 \in 0..n /\ k \in 0..n /\ k + 1 \in 0..n /\ (k + 1) - 1 = k /\ (k - 1) + 1 = k
        BY <1>2
      <3>2. f[k - 1] \in Nat /\ f[k] \in Nat /\ s[k] \in Nat /\ s[k + 1] \in Nat
        BY <1>2, <1>7, <3>1
      <3>3. f[k] = f[k - 1] + s[k] /\ f[k + 1] = f[k] + s[k + 1]
        BY <1>7, <3>1
      <3>4. h[k] = e[k - 1] + r[k]
        BY <1>8, <2>2
      <3>5. CASE k < i
        <4>1. e[k] = f[k] /\ e[k - 1] = f[k - 1] /\ r[k] = s[k]
          BY <1>2, <1>4, <1>10, <3>1, <3>5
        <4> QED BY <3>3, <3>4, <4>1
      <3>6. CASE k = i
        <4>1. e[k] = f[k + 1] - s[i] /\ e[k - 1] = f[k - 1] /\ r[k] = s[k + 1]
          BY <1>2, <1>4, <1>10, <3>1, <3>6
        <4>2. s[k] = s[i]
          BY <3>6
        <4>3. h[k] = f[k - 1] + s[k + 1]
          BY <3>4, <4>1
        <4>4. e[k] = ((f[k - 1] + s[k]) + s[k + 1]) - s[k]
          BY <3>3, <4>1, <4>2
        <4>5. ((f[k - 1] + s[k]) + s[k + 1]) - s[k] = f[k - 1] + s[k + 1]
          <5>1. \A x, y, z \in Nat : ((x + y) + z) - y = x + z
            OBVIOUS
          <5> QED BY <3>2, <5>1
        <4> QED BY <4>3, <4>4, <4>5
      <3>7. CASE k > i
        <4>1. e[k] = f[k + 1] - s[i] /\ e[k - 1] = f[k] - s[i] /\ r[k] = s[k + 1]
          <5>1. ~(k - 1 < i) /\ ~(k < i)
            BY <1>2, <3>7
          <5> QED BY <1>4, <1>10, <3>1, <5>1
        <4>2. h[k] = (f[k] - s[i]) + s[k + 1] /\ e[k] = (f[k] + s[k + 1]) - s[i]
          BY <3>3, <3>4, <4>1
        <4>3. \A x, y, z \in Nat : (x - y) + z = (x + z) - y
          OBVIOUS
        <4> QED BY <1>11, <3>2, <4>2, <4>3
      <3> QED BY <1>2, <3>5, <3>6, <3>7
    <2> QED BY <2>1, <2>2 DEF Agree
  <1>13. h[n - 1] = e[n - 1]
    <2>1. PICK m : m = n - 1
      OBVIOUS
    <2>2. m \in Nat /\ Agree(h, e, m)
      BY <1>2, <1>12, <2>1
    <2>3. h[m] = e[m]
      BY <2>2, StepsAgree
    <2> QED BY <2>1, <2>3
  <1>14. f[n] = e[n - 1] + s[i]
    <2>1. n - 1 \in 0..(n - 1) /\ n \in 1..n /\ n - 1 \in 0..n /\ n \in 0..n /\ (n - 1) + 1 = n
      BY <1>2
    <2>2. f[n] \in Nat /\ f[n] = f[n - 1] + s[n]
      BY <1>7, <2>1
    <2>3. CASE i = n
      <3>1. e[n - 1] = f[n - 1]
        BY <1>2, <1>10, <2>1, <2>3
      <3> QED BY <2>2, <2>3, <3>1
    <2>4. CASE i # n
      <3>1. e[n - 1] = f[n] - s[i]
        <4>1. ~(n - 1 < i)
          BY <1>2, <2>4
        <4> QED BY <1>10, <2>1, <4>1
      <3> QED BY <1>11, <2>2, <3>1
    <2> QED BY <2>3, <2>4
  <1> QED BY <1>3, <1>5, <1>6, <1>13, <1>14

\* The sum of a measure over the elements of a sequence.
Measures(m, s) == [i \in DOMAIN s |-> m[s[i]]]
SumBy(m, s) == SumOf(Measures(m, s))

\* They are as many numbers as there are elements.
Measured(m, s, a) ==
    /\ a \in Seq(Nat) /\ Len(a) = Len(s)
    /\ \A i \in 1..Len(s) : a[i] = m[s[i]] /\ m[s[i]] \in Nat

\* That is what Measures returns.
LEMMA MeasuresType ==
    ASSUME NEW X, NEW m \in [X -> Nat], NEW s \in Seq(X)
    PROVE  Measured(m, s, Measures(m, s))
  <1>1. PICK n : n = Len(s)
    OBVIOUS
  <1>2. n \in Nat /\ DOMAIN s = 1..n /\ \A i \in 1..n : s[i] \in X
    BY <1>1
  <1>3. \A i \in 1..n : m[s[i]] \in Nat
    BY <1>2
  <1>4. Measures(m, s) = [i \in 1..n |-> m[s[i]]]
    BY <1>2 DEF Measures
  <1>5. Measures(m, s) \in [1..n -> Nat]
    BY <1>3, <1>4
  <1>6. Measures(m, s) \in Seq(Nat)
    BY <1>2, <1>5, SeqDef
  <1>7. Len(Measures(m, s)) = n
    <2>1. PICK t : t = Measures(m, s)
      OBVIOUS
    <2>2. Len(t) \in Nat /\ DOMAIN t = 1..Len(t) /\ DOMAIN t = 1..n
      BY <1>5, <1>6, <2>1, LenProperties
    <2>3. Len(t) = n
      <3>1. \A a, b \in Nat : 1..a = 1..b => a = b
        OBVIOUS
      <3>2. 1..Len(t) = 1..n
        BY <2>2
      <3> QED BY <1>2, <2>2, <3>1, <3>2
    <2> QED BY <2>1, <2>3
  <1> QED BY <1>1, <1>3, <1>4, <1>6, <1>7 DEF Measured

\* One more element.
LEMMA SumByAppend ==
    ASSUME NEW X, NEW m \in [X -> Nat], NEW s \in Seq(X), NEW x \in X
    PROVE  SumBy(m, s) \in Nat /\ SumBy(m, Append(s, x)) = SumBy(m, s) + m[x]
  <1>1. PICK t : t = Append(s, x)
    OBVIOUS
  <1>2. /\ t \in Seq(X) /\ Len(s) \in Nat /\ Len(t) = Len(s) + 1 /\ t[Len(s) + 1] = x
        /\ \A i \in 1..Len(s) : t[i] = s[i]
    BY <1>1
  <1>3. PICK a : a = Measures(m, s)
    OBVIOUS
  <1>4. a \in Seq(Nat) /\ Len(a) = Len(s) /\ \A i \in 1..Len(s) : a[i] = m[s[i]]
    BY <1>3, MeasuresType DEF Measured
  <1>5. PICK b : b = Measures(m, t)
    OBVIOUS
  <1>6. b \in Seq(Nat) /\ Len(b) = Len(t) /\ \A i \in 1..Len(t) : b[i] = m[t[i]]
    <2>1. t \in Seq(X)
      BY <1>2
    <2>2. Measured(m, t, b)
      BY <1>5, <2>1, MeasuresType
    <2> QED BY <2>2 DEF Measured
  <1>7. m[x] \in Nat
    OBVIOUS
  <1>8. PICK c : c = Append(a, m[x])
    OBVIOUS
  <1>9. /\ c \in Seq(Nat) /\ Len(c) = Len(s) + 1 /\ c[Len(s) + 1] = m[x]
        /\ \A i \in 1..Len(s) : c[i] = a[i]
    BY <1>4, <1>7, <1>8
  <1>10. ASSUME NEW i \in 1..Len(b) PROVE b[i] = c[i]
    <2>1. i \in 1..Len(t) /\ (i \in 1..Len(s) \/ i = Len(s) + 1)
      BY <1>2, <1>6
    <2> QED BY <1>2, <1>4, <1>6, <1>9, <2>1
  <1>11. b = c
    <2>1. Len(b) = Len(c)
      BY <1>2, <1>6, <1>9
    <2> QED BY <1>6, <1>9, <1>10, <2>1, SeqEqual
  <1>12. SumOf(a) \in Nat /\ SumOf(c) = SumOf(a) + m[x]
    BY <1>4, <1>7, <1>8, SumAppend
  <1> QED BY <1>1, <1>3, <1>5, <1>11, <1>12 DEF SumBy

\* Of no elements.
LEMMA SumByEmpty ==
    ASSUME NEW m
    PROVE  SumBy(m, <<>>) = 0
  <1>1. Measures(m, <<>>) = <<>>
    BY DEF Measures
  <1> QED BY <1>1, SumEmpty DEF SumBy

\* Without one of them.
LEMMA SumByRemove ==
    ASSUME NEW X, NEW m \in [X -> Nat], NEW s \in Seq(X), NEW i \in 1..Len(s)
    PROVE  /\ SumBy(m, RemoveAt(s, i)) \in Nat /\ m[s[i]] \in Nat
           /\ SumBy(m, s) = SumBy(m, RemoveAt(s, i)) + m[s[i]]
  <1>1. PICK t : t = RemoveAt(s, i)
    OBVIOUS
  <1>2. /\ t \in Seq(X) /\ Len(s) \in Nat /\ Len(t) = Len(s) - 1
        /\ \A k \in 1..(Len(s) - 1) : t[k] = IF k < i THEN s[k] ELSE s[k + 1]
    <2>1. Removed(X, s, i, t)
      BY <1>1, RemoveAtIs
    <2>2. Len(s) \in Nat
      OBVIOUS
    <2> QED BY <2>1, <2>2, Zenon DEF Removed
  <1>3. PICK a : a = Measures(m, s)
    OBVIOUS
  <1>4. /\ a \in Seq(Nat) /\ Len(a) = Len(s)
        /\ \A k \in 1..Len(s) : a[k] = m[s[k]] /\ m[s[k]] \in Nat
    BY <1>3, MeasuresType DEF Measured
  <1>5. PICK b : b = Measures(m, t)
    OBVIOUS
  <1>6. b \in Seq(Nat) /\ Len(b) = Len(t) /\ \A k \in 1..Len(t) : b[k] = m[t[k]]
    <2>1. t \in Seq(X)
      BY <1>2
    <2>2. Measured(m, t, b)
      BY <1>5, <2>1, MeasuresType
    <2> QED BY <2>2 DEF Measured
  <1>7. PICK c : c = RemoveAt(a, i)
    OBVIOUS
  <1>8. /\ c \in Seq(Nat) /\ Len(c) = Len(s) - 1
        /\ \A k \in 1..(Len(s) - 1) : c[k] = IF k < i THEN a[k] ELSE a[k + 1]
    <2>1. a \in Seq(Nat) /\ i \in 1..Len(a)
      BY <1>4
    <2>2. Removed(Nat, a, i, c)
      BY <1>7, <2>1, RemoveAtIs
    <2> QED BY <1>4, <2>2 DEF Removed
  <1>9. ASSUME NEW k \in 1..Len(b) PROVE b[k] = c[k]
    <2>1. k \in 1..(Len(s) - 1) /\ k \in 1..Len(s) /\ k + 1 \in 1..Len(s)
      BY <1>2, <1>6
    <2>2. b[k] = m[t[k]]
      BY <1>6
    <2>3. CASE k < i
      <3>1. t[k] = s[k] /\ c[k] = a[k]
        BY <1>2, <1>8, <2>1, <2>3
      <3> QED BY <1>4, <2>1, <2>2, <3>1
    <2>4. CASE ~(k < i)
      <3>1. t[k] = s[k + 1] /\ c[k] = a[k + 1]
        BY <1>2, <1>8, <2>1, <2>4
      <3> QED BY <1>4, <2>1, <2>2, <3>1
    <2> QED BY <2>3, <2>4
  <1>10. b = c
    <2>1. Len(b) = Len(c)
      BY <1>2, <1>6, <1>8
    <2> QED BY <1>6, <1>8, <1>9, <2>1, SeqEqual
  <1>11. SumOf(a) = SumOf(c) + a[i]
    BY <1>4, <1>7, SumRemove
  <1>12. SumOf(b) \in Nat
    BY <1>6, SumAppend
  <1> QED BY <1>1, <1>3, <1>4, <1>5, <1>10, <1>11, <1>12 DEF SumBy

\* A sequence with another element in the place of one of its own.
Replaced(s, i, x, t) == t = [s EXCEPT ![i] = x]

\* One of the same measure.
SameMeasure(X, m, s, i, x) ==
    /\ m \in [X -> Nat] /\ s \in Seq(X) /\ i \in 1..Len(s) /\ x \in X
    /\ m[x] = m[s[i]]

\* An element that is replaced by one of the same measure.
LEMMA SumByReplace ==
    ASSUME NEW X, NEW m, NEW s, NEW i, NEW x, NEW t,
           SameMeasure(X, m, s, i, x), Replaced(s, i, x, t)
    PROVE  SumBy(m, t) = SumBy(m, s)
  <1> USE DEF SameMeasure
  <1>1. PICK n : n = Len(s)
    OBVIOUS
  <1>2. n \in Nat /\ DOMAIN s = 1..n
    BY <1>1
  <1>3. t = [s EXCEPT ![i] = x]
    BY DEF Replaced
  <1>4. DOMAIN t = 1..n /\ \A k \in 1..n : t[k] = IF k = i THEN x ELSE s[k]
    BY <1>2, <1>3
  <1>5. \A k \in 1..n : m[t[k]] = m[s[k]]
    BY <1>4
  <1>6. Measures(m, t) = Measures(m, s)
    BY <1>2, <1>4, <1>5 DEF Measures
  <1> QED BY <1>3, <1>6 DEF SumBy

-----------------------------------------------------------------------------
(* The single-worker copy: its buffer and the publications in flight. *)

TaskPlaces == {"pop", "read", "destination", "enqueue", "buffer", "push", "push_last",
           "flush_full", "buffered", "checkpoint_flush", "checkpoint_drain", "compact",
           "capacity", "final_flush", "final_drain", "returned"}

Publications == [jobs : Seq(Blocks), at : {"new", "batch", "one_by_one"}, results : Seq(BOOLEAN)]

SingleTypes ==
    /\ pc \in TaskPlaces /\ resume \in {"push", "push_last", "buffered", "checkpoint_drain", "final_drain"}
    /\ queue \in Seq(Blocks \X Blocks) /\ children \in Seq(Blocks)
    /\ visited \subseteq Blocks /\ destination \subseteq Blocks
    /\ buffered \in Seq(Blocks) /\ publication \in Seq(Blocks)
    /\ pending \in Seq(Publications)
    /\ capability \in {"Unknown", "Probing", "Supported", "Unsupported"}
    /\ \/ current \in Blocks \X Blocks
       \/ /\ queue = <<>> /\ buffered = <<>>
          /\ pc \in {"pop", "final_flush", "final_drain", "returned"}

\* A publication in flight has a job without a result.
JobsRemain == \A i \in 1..Len(pending) : Len(pending[i].results) < Len(pending[i].jobs)

\* What is buffered, or taken to be published, may be in flight alone.
Fits(jobs) ==
    /\ Len(jobs) <= effective_write_limit
    /\ ByteLimited /\ Len(jobs) > 1 => Total(jobs) <= max_in_flight_destination_write_bytes

\* A block about to be buffered leaves that so.
RoomForBlock ==
    pc \in {"push", "push_last"} =>
        /\ Len(buffered) + 1 <= effective_write_limit
        /\ ByteLimited /\ buffered # <<>> =>
              Total(buffered) + len[Block] <= max_in_flight_destination_write_bytes

\* Where nothing is buffered, taken or in flight.
EmptiedAt ==
    /\ pc = "capacity" <=> publication # <<>>
    /\ pc \in {"capacity", "checkpoint_drain", "compact", "final_drain", "returned"} => buffered = <<>>
    /\ pc \in {"compact", "returned"} => pending = <<>>

CopyTaskInv ==
    /\ SingleTypes /\ JobsRemain /\ Fits(buffered) /\ Fits(publication) /\ RoomForBlock
    /\ EmptiedAt /\ WritesWithinLimits

\* The measures of a publication.
jobsOf == [p \in Publications |-> Len(p.jobs)]
bytesOf == [p \in Publications |-> Total(p.jobs)]

\* The total of a list of jobs.
LEMMA TotalIs ==
    /\ Total(<<>>) = 0
    /\ \A jobs \in Seq(Blocks), b \in Blocks :
          Total(jobs) \in Nat /\ len[b] \in Nat /\ Total(Append(jobs, b)) = Total(jobs) + len[b]
  <1>1. \A jobs : Total(jobs) = SumBy(len, jobs)
    BY DEF Total, SumBy, Measures
  <1>2. len \in [Blocks -> Nat]
    BY SingleCopyAssumption
  <1>3. ASSUME NEW jobs \in Seq(Blocks), NEW b \in Blocks
        PROVE  Total(jobs) \in Nat /\ len[b] \in Nat /\ Total(Append(jobs, b)) = Total(jobs) + len[b]
    BY <1>1, <1>2, SumByAppend
  <1> QED BY <1>1, <1>3, SumByEmpty

\* One job alone: its total is a number too.
LEMMA TotalType ==
    ASSUME NEW jobs \in Seq(Blocks)
    PROVE  Total(jobs) \in Nat
  <1>1. Total(jobs) = SumBy(len, jobs)
    BY DEF Total, SumBy, Measures
  <1>2. len \in [Blocks -> Nat]
    BY SingleCopyAssumption
  <1>3. Measured(len, jobs, Measures(len, jobs))
    BY <1>2, MeasuresType
  <1>4. Measures(len, jobs) \in Seq(Nat)
    BY <1>3 DEF Measured
  <1>5. SumOf(Measures(len, jobs)) \in Nat
    BY <1>4, SumAppend
  <1> QED BY <1>1, <1>5 DEF SumBy

\* They are numbers.
LEMMA MeasureTypes == jobsOf \in [Publications -> Nat] /\ bytesOf \in [Publications -> Nat]
  <1>1. \A p \in Publications : p.jobs \in Seq(Blocks)
    BY DEF Publications
  <1>2. \A p \in Publications : Len(p.jobs) \in Nat
    BY <1>1
  <1>3. \A p \in Publications : Total(p.jobs) \in Nat
    BY <1>1, TotalType
  <1> QED BY <1>2, <1>3 DEF jobsOf, bytesOf

\* What is in flight, as the sums of these measures.
LEMMA InFlightIs ==
    ASSUME pending \in Seq(Publications)
    PROVE  InFlightJobs = SumBy(jobsOf, pending) /\ InFlightBytes = SumBy(bytesOf, pending)
  <1>1. \A i \in DOMAIN pending : pending[i] \in Publications
    OBVIOUS
  <1>2. Measures(jobsOf, pending) = [i \in DOMAIN pending |-> Len(pending[i].jobs)]
    BY <1>1 DEF Measures, jobsOf
  <1>3. Measures(bytesOf, pending) = [i \in DOMAIN pending |-> Total(pending[i].jobs)]
    BY <1>1 DEF Measures, bytesOf
  <1> QED BY <1>2, <1>3 DEF InFlightJobs, InFlightBytes, SumBy

\* And after a step.
LEMMA InFlightIsNext ==
    ASSUME pending' \in Seq(Publications)
    PROVE  InFlightJobs' = SumBy(jobsOf, pending') /\ InFlightBytes' = SumBy(bytesOf, pending')
  <1>1. \A i \in DOMAIN pending' : pending'[i] \in Publications
    OBVIOUS
  <1>2. Measures(jobsOf, pending') = [i \in DOMAIN pending' |-> Len(pending'[i].jobs)]
    BY <1>1 DEF Measures, jobsOf
  <1>3. Measures(bytesOf, pending') = [i \in DOMAIN pending' |-> Total(pending'[i].jobs)]
    BY <1>1 DEF Measures, bytesOf
  <1> QED BY <1>2, <1>3 DEF InFlightJobs, InFlightBytes, SumBy

\* Nothing is in flight at the start.
LEMMA SingleInitInv ==
    ASSUME SingleInit
    PROVE  CopyTaskInv
  <1>1. PICK blind, whole \in BOOLEAN : SingleStart(blind, whole)
    BY DEF SingleInit
  <1>2. /\ pc = "pop" /\ resume = "push" /\ children = <<>> /\ visited = {} /\ buffered = <<>>
        /\ buffered_write_bytes = 0 /\ publication = <<>> /\ pending = <<>> /\ in_flight_count = 0
        /\ in_flight_bytes = 0 /\ capability = "Unknown" /\ destination = Stored
        /\ queue = [i \in 1..Len(RootIds) |-> <<RootIds[i], RootIds[i]>>]
        /\ current = <<RootIds[1], RootIds[1]>>
    BY <1>1 DEF SingleStart
  <1>3. Len(RootIds) \in Nat /\ \A i \in 1..Len(RootIds) : RootIds[i] \in Blocks
    BY GraphAssumption
  <1>4. queue \in Seq(Blocks \X Blocks)
    <2>1. queue \in [1..Len(RootIds) -> Blocks \X Blocks]
      BY <1>2, <1>3
    <2> QED BY <1>3, <2>1, SeqDef
  <1>5. current \in Blocks \X Blocks \/ queue = <<>>
    <2>1. CASE Len(RootIds) = 0
      <3>1. 1..Len(RootIds) = {}
        BY <2>1
      <3> QED BY <1>2, <3>1
    <2>2. CASE Len(RootIds) # 0
      <3>1. 1 \in 1..Len(RootIds)
        BY <1>3, <2>2
      <3> QED BY <1>2, <1>3, <3>1
    <2> QED BY <2>1, <2>2
  <1>6. SingleTypes
    BY <1>2, <1>4, <1>5, SingleCopyAssumption DEF SingleTypes, TaskPlaces
  <1>7. effective_write_limit \in Nat
    BY SingleCopyAssumption DEF effective_write_limit
  <1>8. Fits(<<>>)
    BY <1>7 DEF Fits
  <1>9. InFlightJobs = 0 /\ InFlightBytes = 0
    BY <1>2, <1>6, InFlightIs, SumByEmpty DEF SingleTypes
  <1>10. WritesWithinLimits
    BY <1>2, <1>7, <1>9, TotalIs DEF WritesWithinLimits
  <1> QED BY <1>2, <1>6, <1>8, <1>10 DEF CopyTaskInv, JobsRemain, RoomForBlock, EmptiedAt

\* The invariant says what the properties say.
LEMMA CopyTaskInvSound ==
    ASSUME CopyTaskInv
    PROVE  CopyTaskSound
  <1>1. SingleTypeOK
    <2>1. \A jobs \in Seq(Blocks) : ToSet(jobs) \subseteq Blocks
      BY DEF ToSet
    <2> QED BY <2>1 DEF CopyTaskInv, SingleTypes, SingleTypeOK, TaskPlaces
  <1>2. CapacityIsReachable
    <2> SUFFICES ASSUME pc = "capacity", OverCapacity, pending = <<>> PROVE FALSE
      BY DEF CapacityIsReachable
    <2>1. in_flight_count = 0
      BY InFlightIs, SumByEmpty DEF CopyTaskInv, SingleTypes, WritesWithinLimits
    <2>2. Len(publication) \in Nat /\ Len(publication) <= effective_write_limit
      BY DEF CopyTaskInv, SingleTypes, Fits
    <2>3. effective_write_limit \in Nat
      BY SingleCopyAssumption DEF effective_write_limit
    <2> QED BY <2>1, <2>2, <2>3 DEF OverCapacity
  <1>3. StoreIsUnborrowed
    BY DEF CopyTaskInv, EmptiedAt, StoreIsUnborrowed
  <1> QED BY <1>1, <1>2, <1>3 DEF CopyTaskInv, CopyTaskSound

\* A step of the walk: neither the buffer nor what is in flight changes.
LEMMA WalkStepKeeps ==
    ASSUME CopyTaskInv, UNCHANGED <<bufferVars, flightVars>>, SingleTypes', EmptiedAt',
           pc' \notin {"push", "push_last"}
    PROVE  CopyTaskInv'
  <1>1. JobsRemain' /\ Fits(buffered)' /\ Fits(publication)' /\ RoomForBlock'
    BY DEF CopyTaskInv, JobsRemain, Fits, RoomForBlock, bufferVars, flightVars
  <1>2. InFlightJobs' = InFlightJobs /\ InFlightBytes' = InFlightBytes
    BY DEF InFlightJobs, InFlightBytes, flightVars
  <1>3. WritesWithinLimits'
    BY <1>2 DEF CopyTaskInv, WritesWithinLimits, bufferVars, flightVars
  <1> QED BY <1>1, <1>3 DEF CopyTaskInv

\* The buffer is discarded: what is in flight stays.
LEMMA BreakKeeps ==
    ASSUME CopyTaskInv, pc # "capacity", BreakDiscarding, UNCHANGED flightVars,
           queue' \in Seq(Blocks \X Blocks), current' \in Blocks \X Blocks,
           UNCHANGED <<children, visited, destination>>
    PROVE  CopyTaskInv'
  <1>1. buffered' = <<>> /\ buffered_write_bytes' = 0 /\ pc' = "final_flush"
        /\ UNCHANGED <<publication, resume>>
    BY DEF BreakDiscarding
  <1>2. SingleTypes'
    BY <1>1 DEF CopyTaskInv, SingleTypes, TaskPlaces, flightVars
  <1>3. effective_write_limit \in Nat
    BY SingleCopyAssumption DEF effective_write_limit
  <1>4. Fits(buffered)'
    BY <1>1, <1>3 DEF Fits
  <1>5. JobsRemain' /\ Fits(publication)' /\ RoomForBlock' /\ EmptiedAt'
    BY <1>1 DEF CopyTaskInv, JobsRemain, Fits, RoomForBlock, EmptiedAt, flightVars
  <1>6. InFlightJobs' = InFlightJobs /\ InFlightBytes' = InFlightBytes
    BY DEF InFlightJobs, InFlightBytes, flightVars
  <1>7. WritesWithinLimits'
    BY <1>1, <1>6, TotalIs DEF CopyTaskInv, WritesWithinLimits, flightVars
  <1> QED BY <1>2, <1>4, <1>5, <1>7 DEF CopyTaskInv

\* The next pair of the walk.
LEMMA SinglePopKeeps ==
    ASSUME CopyTaskInv, Pop
    PROVE  CopyTaskInv'
  <1>1. /\ queue \in Seq(Blocks \X Blocks) /\ queue # <<>> /\ visited \subseteq Blocks
        /\ pc = "pop" /\ queue' = Tail(queue) /\ current' = Head(queue)
        /\ UNCHANGED <<children, flightVars, destination>>
    BY DEF CopyTaskInv, SingleTypes, Pop, storeVars
  <1>2. queue' \in Seq(Blocks \X Blocks) /\ current' \in Blocks \X Blocks
    BY <1>1
  <1>3. Head(queue)[2] \in Blocks
    BY <1>1, <1>2
  <1>4. CASE interrupted
    <2>1. BreakDiscarding /\ UNCHANGED visited
      BY <1>4 DEF Pop
    <2> QED BY <1>1, <1>2, <2>1, BreakKeeps
  <1>5. CASE ~interrupted
    <2>1. /\ visited' = visited \cup {Head(queue)[2]} /\ pc' \in {"pop", "read"}
          /\ UNCHANGED bufferVars
      BY <1>5 DEF Pop
    <2>2. SingleTypes'
      BY <1>1, <1>2, <1>3, <2>1 DEF CopyTaskInv, SingleTypes, TaskPlaces, bufferVars, flightVars
    <2>3. EmptiedAt'
      BY <1>1, <2>1 DEF CopyTaskInv, EmptiedAt, bufferVars
    <2> QED BY <1>1, <2>1, <2>2, <2>3, WalkStepKeeps
  <1> QED BY <1>4, <1>5

\* The steps of the walk between two pops that buffer nothing, the checkpoint's
\* action and the end.
LEMMA SingleWalkKeeps ==
    ASSUME CopyTaskInv,
           \/ PopEnds \/ ReadFails \/ ReadAndDecode \/ CheckDestination \/ AfterBuffering
           \/ Compact \/ Return
    PROVE  CopyTaskInv'
  <1>1. /\ UNCHANGED <<bufferVars, flightVars, queue, current, visited, destination>>
        /\ pc # "capacity"
        /\ children' = children \/ (children' \in {<<>>, Children[Block]} /\ pc = "read")
    BY DEF PopEnds, ReadFails, ReadAndDecode, CheckDestination, AfterBuffering, Compact, Return,
           walkVars, storeVars
  <1>2. /\ pc \in {"pop", "final_drain"} => pc' \in {"final_flush", "returned"}
        /\ pc \notin {"pop", "final_drain"} =>
              pc' \in {"pop", "buffer", "destination", "enqueue", "checkpoint_flush", "final_flush"}
        /\ pc \notin {"final_flush", "returned"}
        /\ pc' = "returned" => pc = "final_drain" /\ pending = <<>>
    BY DEF PopEnds, ReadFails, ReadAndDecode, CheckDestination, AfterBuffering, Compact, Return
  <1>3. children' \in Seq(Blocks)
    <2>1. CASE children' = children
      BY <2>1 DEF CopyTaskInv, SingleTypes
    <2>2. CASE children' # children
      <3>1. current \in Blocks \X Blocks /\ children' \in {<<>>, Children[Block]}
        BY <1>1, <2>2 DEF CopyTaskInv, SingleTypes
      <3>2. Children[Block] \in Seq(Blocks)
        BY <3>1, GraphAssumption DEF Block
      <3>3. <<>> \in Seq(Blocks)
        OBVIOUS
      <3>4. children' = <<>> \/ children' = Children[Block]
        BY <3>1
      <3> QED BY <3>2, <3>3, <3>4
    <2> QED BY <2>1, <2>2
  <1>4. SingleTypes'
    BY <1>1, <1>2, <1>3 DEF CopyTaskInv, SingleTypes, TaskPlaces, bufferVars, flightVars
  <1>5. EmptiedAt'
    BY <1>1, <1>2 DEF CopyTaskInv, EmptiedAt, bufferVars, flightVars
  <1> QED BY <1>1, <1>2, <1>4, <1>5, WalkStepKeeps

\* Children join the walk.
LEMMA EnqueueChildrenKeeps ==
    ASSUME CopyTaskInv, EnqueueChildren
    PROVE  CopyTaskInv'
  <1>1. /\ pc = "enqueue" /\ pc' = "pop" /\ UNCHANGED <<bufferVars, flightVars, current, children, visited, destination>>
        /\ queue' = queue \o [i \in 1..Len(children) |-> <<current[1], children[i]>>]
        /\ queue \in Seq(Blocks \X Blocks) /\ children \in Seq(Blocks) /\ current \in Blocks \X Blocks
    BY DEF CopyTaskInv, SingleTypes, EnqueueChildren, storeVars
  <1>2. PICK more : more = [i \in 1..Len(children) |-> <<current[1], children[i]>>]
    OBVIOUS
  <1>3. more \in Seq(Blocks \X Blocks)
    <2>1. Len(children) \in Nat /\ current[1] \in Blocks /\ \A i \in 1..Len(children) : children[i] \in Blocks
      BY <1>1
    <2>2. more \in [1..Len(children) -> Blocks \X Blocks]
      BY <1>2, <2>1
    <2> QED BY <2>1, <2>2, SeqDef
  <1>4. PICK B : B = Blocks \X Blocks
    OBVIOUS
  <1>5. queue' \in Seq(B)
    <2>1. queue \in Seq(B) /\ more \in Seq(B)
      BY <1>1, <1>3, <1>4
    <2>2. queue \o more \in Seq(B)
      BY <2>1
    <2> QED BY <1>1, <1>2, <2>2
  <1>6. SingleTypes'
    BY <1>1, <1>4, <1>5 DEF CopyTaskInv, SingleTypes, TaskPlaces, bufferVars, flightVars
  <1>7. EmptiedAt'
    BY <1>1 DEF CopyTaskInv, EmptiedAt, bufferVars
  <1> QED BY <1>1, <1>6, <1>7, WalkStepKeeps

\* Nothing is in flight, buffered or taken when the checkpoint's action begins.
LEMMA CheckpointDrainedKeeps ==
    ASSUME CopyTaskInv, CheckpointDrained
    PROVE  CopyTaskInv'
  <1>1. /\ pc = "checkpoint_drain" /\ pending = <<>> /\ UNCHANGED <<flightVars, walkVars, destination>>
        /\ current \in Blocks \X Blocks
    BY DEF CopyTaskInv, SingleTypes, CheckpointDrained, storeVars
  <1>2. CASE interrupted
    <2>1. BreakDiscarding
      BY <1>2 DEF CheckpointDrained
    <2>2. queue' \in Seq(Blocks \X Blocks) /\ current' \in Blocks \X Blocks
          /\ UNCHANGED <<children, visited, destination>>
      BY <1>1 DEF CopyTaskInv, SingleTypes, walkVars
    <2> QED BY <1>1, <2>1, <2>2, BreakKeeps
  <1>3. CASE ~interrupted
    <2>1. pc' = "compact" /\ UNCHANGED bufferVars
      BY <1>3 DEF CheckpointDrained
    <2>2. SingleTypes'
      BY <1>1, <2>1 DEF CopyTaskInv, SingleTypes, TaskPlaces, bufferVars, flightVars, walkVars
    <2>3. EmptiedAt'
      BY <1>1, <2>1 DEF CopyTaskInv, EmptiedAt, bufferVars, flightVars
    <2> QED BY <1>1, <2>1, <2>2, <2>3, WalkStepKeeps
  <1> QED BY <1>2, <1>3

\* The limits are numbers, and at least one write may be in flight.
LEMMA LimitsAre ==
    /\ effective_write_limit \in Nat /\ effective_write_limit >= 1
    /\ max_in_flight_destination_write_bytes \in Nat
  BY SingleCopyAssumption DEF effective_write_limit

\* A flush takes what is buffered, or goes on if there is nothing.
LEMMA TaskFlushKeeps ==
    ASSUME CopyTaskInv, pc # "capacity", pc \notin {"compact", "returned"},
           NEW after \in {"push", "push_last", "buffered", "checkpoint_drain", "final_drain"},
           Flush(after), UNCHANGED <<walkVars, destination>>,
           buffered = <<>> => /\ after \notin {"push", "push_last"}
                              /\ current \in Blocks \X Blocks \/ after = "final_drain"
    PROVE  CopyTaskInv'
  <1>1. CASE buffered = <<>>
    <2>1. pc' = after /\ UNCHANGED <<bufferVars, flightVars>>
      BY <1>1 DEF Flush
    <2>2. SingleTypes'
      BY <1>1, <2>1 DEF CopyTaskInv, SingleTypes, TaskPlaces, walkVars, bufferVars, flightVars
    <2>3. EmptiedAt'
      BY <1>1, <2>1 DEF CopyTaskInv, EmptiedAt, bufferVars
    <2> QED BY <1>1, <2>1, <2>2, <2>3, WalkStepKeeps
  <1>2. CASE buffered # <<>>
    <2>1. /\ publication' = buffered /\ buffered' = <<>> /\ buffered_write_bytes' = 0
          /\ capability' \in {"Probing", capability} /\ pc' = "capacity" /\ resume' = after
          /\ UNCHANGED <<pending, in_flight_count, in_flight_bytes>>
      BY <1>2 DEF Flush
    <2>2. SingleTypes'
      <3>1. current' \in Blocks \X Blocks
        BY <1>2 DEF CopyTaskInv, SingleTypes, walkVars
      <3>2. buffered' \in Seq(Blocks) /\ publication' \in Seq(Blocks)
        BY <2>1 DEF CopyTaskInv, SingleTypes
      <3> QED BY <2>1, <3>1, <3>2 DEF CopyTaskInv, SingleTypes, TaskPlaces, walkVars
    <2>3. Fits(buffered)' /\ Fits(publication)'
      BY <2>1, LimitsAre DEF CopyTaskInv, Fits
    <2>4. JobsRemain' /\ RoomForBlock' /\ EmptiedAt'
      BY <1>2, <2>1 DEF CopyTaskInv, JobsRemain, RoomForBlock, EmptiedAt
    <2>5. InFlightJobs' = InFlightJobs /\ InFlightBytes' = InFlightBytes
      BY <2>1 DEF InFlightJobs, InFlightBytes
    <2>6. WritesWithinLimits'
      BY <2>1, <2>5, TotalIs DEF CopyTaskInv, WritesWithinLimits
    <2> QED BY <2>2, <2>3, <2>4, <2>6 DEF CopyTaskInv
  <1> QED BY <1>1, <1>2

\* The length a batch may have is at least one and within the limit.
LEMMA BatchLenIs ==
    destination_write_batch_len \in Nat /\ destination_write_batch_len >= 1
    /\ destination_write_batch_len <= effective_write_limit
  <1>1. CASE capability = "Supported"
    BY <1>1, LimitsAre DEF destination_write_batch_len
  <1>2. CASE capability = "Unknown"
    BY <1>2, LimitsAre DEF destination_write_batch_len
  <1>3. CASE capability \notin {"Supported", "Unknown"}
    BY <1>3, LimitsAre DEF destination_write_batch_len
  <1> QED BY <1>1, <1>2, <1>3

\* A block is buffered only where it fits.
LEMMA BufferJobKeeps ==
    ASSUME CopyTaskInv, BufferJob
    PROVE  CopyTaskInv'
  <1>1. /\ pc = "buffer" /\ current \in Blocks \X Blocks /\ buffered \in Seq(Blocks)
        /\ UNCHANGED <<walkVars, destination>> /\ buffered_write_bytes = Total(buffered)
    BY DEF BufferJob, CopyTaskInv, SingleTypes, WritesWithinLimits, storeVars
  <1>2. PICK target : target = destination_write_batch_len
    OBVIOUS
  <1>3. target \in Nat /\ target >= 1 /\ target <= effective_write_limit
    BY <1>2, BatchLenIs
  <1> DEFINE Tight == /\ ByteLimited
                      /\ buffered_write_bytes + len[Block] > max_in_flight_destination_write_bytes
             full == buffered # <<>> /\ (Len(buffered) >= target \/ Tight)
  <1>5. IF full THEN Flush(IF target = 1 THEN "push_last" ELSE "push")
        ELSE /\ pc' = IF Len(buffered) + 1 >= target THEN "push_last" ELSE "push"
             /\ UNCHANGED <<bufferVars, flightVars>>
    BY <1>2 DEF BufferJob
  <1>6. CASE full
    <2>1. buffered # <<>>
      BY <1>6
    <2>2. PICK after \in {"push", "push_last"} : Flush(after)
      BY <1>5, <1>6
    <2> QED BY <1>1, <2>1, <2>2, TaskFlushKeeps
  <1>7. CASE ~full
    <2>1. pc' \in {"push", "push_last"} /\ UNCHANGED <<bufferVars, flightVars>>
      BY <1>5, <1>7
    <2>2. SingleTypes'
      BY <1>1, <2>1 DEF CopyTaskInv, SingleTypes, TaskPlaces, walkVars, bufferVars, flightVars
    <2>3. JobsRemain' /\ Fits(buffered)' /\ Fits(publication)' /\ EmptiedAt'
      BY <1>1, <2>1 DEF CopyTaskInv, JobsRemain, Fits, EmptiedAt, bufferVars, flightVars
    <2>4. RoomForBlock'
      <3>1. Len(buffered) + 1 <= effective_write_limit
        <4>1. CASE buffered = <<>>
          BY <4>1, LimitsAre
        <4>2. CASE buffered # <<>>
          <5>1. Len(buffered) < target /\ Len(buffered) \in Nat
            BY <1>1, <1>3, <1>7, <4>2
          <5> QED BY <1>3, <5>1, LimitsAre
        <4> QED BY <4>1, <4>2
      <3>2. Block \in Blocks
        BY <1>1 DEF Block
      <3>3. ByteLimited /\ buffered # <<>> =>
               Total(buffered) + len[Block] <= max_in_flight_destination_write_bytes
        <4>1. Total(buffered) \in Nat /\ len[Block] \in Nat
          BY <1>1, <3>2, TotalIs
        <4> QED BY <1>1, <1>7, <4>1, LimitsAre
      <3>4. Block' = Block /\ buffered' = buffered
        BY <1>1, <2>1 DEF Block, walkVars, bufferVars
      <3> QED BY <3>1, <3>3, <3>4 DEF RoomForBlock
    <2>5. InFlightJobs' = InFlightJobs /\ InFlightBytes' = InFlightBytes
      BY <2>1 DEF InFlightJobs, InFlightBytes, flightVars
    <2>6. WritesWithinLimits'
      BY <2>1, <2>5 DEF CopyTaskInv, WritesWithinLimits, bufferVars, flightVars
    <2> QED BY <2>2, <2>3, <2>4, <2>6 DEF CopyTaskInv
  <1> QED BY <1>6, <1>7

\* The buffer has room for the block that is pushed (RoomForBlock).
LEMMA PushJobKeeps ==
    ASSUME CopyTaskInv, PushJob
    PROVE  CopyTaskInv'
  <1>1. /\ pc \in {"push", "push_last"} /\ current \in Blocks \X Blocks /\ buffered \in Seq(Blocks)
        /\ buffered' = Append(buffered, Block) /\ buffered_write_bytes' = Total(buffered) + len[Block]
        /\ pc' \in {"flush_full", "buffered"}
        /\ UNCHANGED <<walkVars, publication, resume, flightVars, destination>>
    BY DEF PushJob, CopyTaskInv, SingleTypes, WritesWithinLimits, storeVars
  <1>2. Block \in Blocks
    BY <1>1 DEF Block
  <1>3. /\ Total(buffered) \in Nat /\ len[Block] \in Nat
        /\ Total(buffered') = Total(buffered) + len[Block]
    BY <1>1, <1>2, TotalIs
  <1>4. buffered' \in Seq(Blocks) /\ Len(buffered') = Len(buffered) + 1 /\ Len(buffered) \in Nat
    BY <1>1, <1>2
  <1>5. SingleTypes'
    BY <1>1, <1>4 DEF CopyTaskInv, SingleTypes, TaskPlaces, walkVars, flightVars
  <1>6. Fits(buffered')
    <2>1. Len(buffered') <= effective_write_limit
      BY <1>1, <1>4 DEF CopyTaskInv, RoomForBlock
    <2>2. ASSUME ByteLimited, Len(buffered') > 1
          PROVE  Total(buffered') <= max_in_flight_destination_write_bytes
      <3>1. buffered # <<>>
        BY <1>4, <2>2
      <3> QED BY <1>1, <1>3, <2>2, <3>1 DEF CopyTaskInv, RoomForBlock
    <2> QED BY <2>1, <2>2 DEF Fits
  <1>7. JobsRemain' /\ Fits(publication)' /\ RoomForBlock' /\ EmptiedAt'
    BY <1>1 DEF CopyTaskInv, JobsRemain, Fits, RoomForBlock, EmptiedAt, flightVars
  <1>8. InFlightJobs' = InFlightJobs /\ InFlightBytes' = InFlightBytes
    BY <1>1 DEF InFlightJobs, InFlightBytes, flightVars
  <1>9. WritesWithinLimits'
    BY <1>1, <1>3, <1>8 DEF CopyTaskInv, WritesWithinLimits, flightVars
  <1>10. Fits(buffered)'
    BY <1>6 DEF Fits
  <1> QED BY <1>5, <1>7, <1>9, <1>10 DEF CopyTaskInv

\* The flushes of a full buffer, of a checkpoint and at the end.
LEMMA FlushBufferedKeeps ==
    ASSUME CopyTaskInv, FlushBuffered
    PROVE  CopyTaskInv'
  <1>1. UNCHANGED <<walkVars, destination>>
    BY DEF FlushBuffered, storeVars
  <1>2. CASE pc = "flush_full" /\ Flush("buffered")
    BY <1>1, <1>2, TaskFlushKeeps DEF CopyTaskInv, SingleTypes
  <1>3. CASE pc = "checkpoint_flush" /\ Flush("checkpoint_drain")
    BY <1>1, <1>3, TaskFlushKeeps DEF CopyTaskInv, SingleTypes
  <1>4. CASE pc = "final_flush" /\ Flush("final_drain")
    BY <1>1, <1>4, TaskFlushKeeps
  <1> QED BY <1>2, <1>3, <1>4 DEF FlushBuffered

\* No publication is in flight when no job is.
LEMMA NoneInFlight ==
    ASSUME CopyTaskInv, in_flight_count = 0
    PROVE  pending = <<>> /\ in_flight_bytes = 0
  <1>1. pending \in Seq(Publications)
    BY DEF CopyTaskInv, SingleTypes
  <1>2. SumBy(jobsOf, pending) = 0 /\ in_flight_bytes = SumBy(bytesOf, pending)
    BY <1>1, InFlightIs DEF CopyTaskInv, WritesWithinLimits
  <1>3. ASSUME pending # <<>> PROVE FALSE
    <2>1. 1 \in 1..Len(pending)
      BY <1>1, <1>3
    <2>2. PICK p : p = pending[1]
      OBVIOUS
    <2>3. p \in Publications /\ Len(p.results) < Len(p.jobs)
      BY <1>1, <2>1, <2>2 DEF CopyTaskInv, JobsRemain
    <2>4. p.jobs \in Seq(Blocks) /\ p.results \in Seq(BOOLEAN)
      BY <2>3 DEF Publications
    <2>5. Len(p.jobs) \in Nat /\ Len(p.jobs) > 0
      BY <2>3, <2>4
    <2>6. PICK rest : rest = SumBy(jobsOf, RemoveAt(pending, 1))
      OBVIOUS
    <2>7. rest \in Nat /\ SumBy(jobsOf, pending) = rest + jobsOf[p]
      BY <1>1, <2>1, <2>2, <2>6, MeasureTypes, SumByRemove
    <2>8. jobsOf[p] = Len(p.jobs)
      BY <2>3 DEF jobsOf
    <2> QED BY <1>2, <2>5, <2>7, <2>8
  <1> QED BY <1>2, <1>3, SumByEmpty

\* A publication joins those in flight only where it fits.
LEMMA EnqueueBatchKeeps ==
    ASSUME CopyTaskInv, EnqueueBatch
    PROVE  CopyTaskInv'
  <1>1. PICK p : p = [jobs |-> publication, at |-> "new", results |-> <<>>]
    OBVIOUS
  <1>2. /\ pc = "capacity" /\ ~OverCapacity /\ pending' = Append(pending, p)
        /\ in_flight_count' = in_flight_count + Len(publication)
        /\ in_flight_bytes' = in_flight_bytes + Total(publication)
        /\ publication' = <<>> /\ pc' = resume
        /\ UNCHANGED <<walkVars, buffered, buffered_write_bytes, resume, capability, destination>>
    BY <1>1 DEF EnqueueBatch, storeVars
  <1>3. /\ publication \in Seq(Blocks) /\ publication # <<>> /\ buffered = <<>>
        /\ pending \in Seq(Publications) /\ current \in Blocks \X Blocks /\ Fits(publication)
        /\ resume \in {"push", "push_last", "buffered", "checkpoint_drain", "final_drain"}
    BY <1>2 DEF CopyTaskInv, SingleTypes, EmptiedAt
  <1>4. p \in Publications /\ p.jobs = publication /\ p.results = <<>>
    BY <1>1, <1>3 DEF Publications
  <1>5. pending' \in Seq(Publications)
    BY <1>2, <1>3, <1>4
  <1>6. SingleTypes'
    BY <1>2, <1>3, <1>5 DEF CopyTaskInv, SingleTypes, TaskPlaces, walkVars
  <1>7. Len(publication) \in Nat /\ Len(publication) > 0 /\ Total(publication) \in Nat
    BY <1>3, TotalType
  <1>8. JobsRemain'
    <2> SUFFICES ASSUME NEW i \in 1..Len(pending')
                 PROVE  Len(pending'[i].results) < Len(pending'[i].jobs)
      BY DEF JobsRemain
    <2>1. CASE i = Len(pending) + 1
      <3>1. pending'[i] = p
        BY <1>2, <1>3, <2>1
      <3> QED BY <1>4, <1>7, <3>1
    <2>2. CASE i # Len(pending) + 1
      <3>1. i \in 1..Len(pending) /\ pending'[i] = pending[i]
        BY <1>2, <1>3, <2>2
      <3> QED BY <3>1 DEF CopyTaskInv, JobsRemain
    <2> QED BY <2>1, <2>2
  <1>9. Fits(buffered)' /\ Fits(publication)' /\ RoomForBlock' /\ EmptiedAt'
    BY <1>2, <1>3, LimitsAre DEF CopyTaskInv, Fits, RoomForBlock, EmptiedAt
  <1>10. /\ in_flight_count = SumBy(jobsOf, pending) /\ in_flight_count \in Nat
         /\ InFlightJobs' = in_flight_count'
    <2>1. /\ SumBy(jobsOf, pending) \in Nat
          /\ SumBy(jobsOf, pending') = SumBy(jobsOf, pending) + jobsOf[p]
      BY <1>2, <1>3, <1>4, MeasureTypes, SumByAppend
    <2>2. jobsOf[p] = Len(publication)
      BY <1>4 DEF jobsOf
    <2>3. InFlightJobs' = SumBy(jobsOf, pending')
      BY <1>5, InFlightIsNext
    <2> QED BY <1>2, <1>3, <2>1, <2>2, <2>3, InFlightIs DEF CopyTaskInv, WritesWithinLimits
  <1>11. /\ in_flight_bytes = SumBy(bytesOf, pending) /\ in_flight_bytes \in Nat
         /\ InFlightBytes' = in_flight_bytes'
    <2>1. /\ SumBy(bytesOf, pending) \in Nat
          /\ SumBy(bytesOf, pending') = SumBy(bytesOf, pending) + bytesOf[p]
      BY <1>2, <1>3, <1>4, MeasureTypes, SumByAppend
    <2>2. bytesOf[p] = Total(publication)
      BY <1>4 DEF bytesOf
    <2>3. InFlightBytes' = SumBy(bytesOf, pending')
      BY <1>5, InFlightIsNext
    <2> QED BY <1>2, <1>3, <2>1, <2>2, <2>3, InFlightIs DEF CopyTaskInv, WritesWithinLimits
  <1>12. in_flight_count' <= effective_write_limit
    BY <1>2, <1>7, <1>10, LimitsAre DEF OverCapacity
  <1>13. ByteLimited /\ in_flight_count' > 1 => in_flight_bytes' <= max_in_flight_destination_write_bytes
    <2>1. CASE in_flight_count = 0
      <3>1. in_flight_bytes = 0
        BY <2>1, NoneInFlight
      <3>2. in_flight_count' = Len(publication) /\ in_flight_bytes' = Total(publication)
        BY <1>2, <1>7, <2>1, <3>1
      <3> QED BY <1>3, <3>2 DEF Fits
    <2>2. CASE in_flight_count > 0
      BY <1>2, <1>7, <1>11, <2>2, LimitsAre DEF OverCapacity
    <2> QED BY <1>10, <2>1, <2>2
  <1>14. WritesWithinLimits'
    <2>1. (buffered_write_bytes = Total(buffered))'
      BY <1>2 DEF CopyTaskInv, WritesWithinLimits
    <2> QED BY <1>10, <1>11, <1>12, <1>13, <2>1 DEF WritesWithinLimits
  <1> QED BY <1>6, <1>8, <1>9, <1>14 DEF CopyTaskInv

\* A publication goes on without being ready.
LEMMA ReplaceKeeps ==
    ASSUME CopyTaskInv, pc \in {"capacity", "checkpoint_drain", "final_drain"},
           NEW i \in 1..Len(pending), NEW q \in Publications,
           q.jobs = pending[i].jobs, Len(q.results) < Len(q.jobs),
           Replaced(pending, i, q, pending'),
           UNCHANGED <<pc, walkVars, bufferVars, in_flight_count, in_flight_bytes>>,
           capability' \in {"Unknown", "Probing", "Supported", "Unsupported"},
           destination' \subseteq Blocks
    PROVE  CopyTaskInv'
  <1>1. pending \in Seq(Publications)
    BY DEF CopyTaskInv, SingleTypes
  <1>2. /\ pending' \in Seq(Publications) /\ Len(pending') = Len(pending)
        /\ \A k \in 1..Len(pending) : pending'[k] = IF k = i THEN q ELSE pending[k]
    BY <1>1 DEF Replaced
  <1>3. JobsRemain'
    BY <1>2 DEF CopyTaskInv, JobsRemain
  <1>4. SingleTypes'
    BY <1>2 DEF CopyTaskInv, SingleTypes, walkVars, bufferVars
  <1>5. Fits(buffered)' /\ Fits(publication)' /\ RoomForBlock' /\ EmptiedAt'
    BY DEF CopyTaskInv, Fits, RoomForBlock, EmptiedAt, bufferVars
  <1>6. pending[i] \in Publications
    BY <1>1
  <1>7. jobsOf[q] = jobsOf[pending[i]] /\ bytesOf[q] = bytesOf[pending[i]]
    BY <1>6 DEF jobsOf, bytesOf
  <1>8. SumBy(jobsOf, pending') = SumBy(jobsOf, pending)
    <2>1. SameMeasure(Publications, jobsOf, pending, i, q)
      BY <1>1, <1>7, MeasureTypes DEF SameMeasure
    <2> QED BY <2>1, SumByReplace
  <1>9. SumBy(bytesOf, pending') = SumBy(bytesOf, pending)
    <2>1. SameMeasure(Publications, bytesOf, pending, i, q)
      BY <1>1, <1>7, MeasureTypes DEF SameMeasure
    <2> QED BY <2>1, SumByReplace
  <1>10. InFlightJobs' = InFlightJobs /\ InFlightBytes' = InFlightBytes
    BY <1>1, <1>2, <1>8, <1>9, InFlightIs, InFlightIsNext
  <1>11. WritesWithinLimits'
    BY <1>10 DEF CopyTaskInv, WritesWithinLimits, bufferVars
  <1> QED BY <1>3, <1>4, <1>5, <1>11 DEF CopyTaskInv

\* A publication that is ready leaves with what it counted for.
LEMMA CompletionsKeep ==
    ASSUME CopyTaskInv, pc \in {"capacity", "checkpoint_drain", "final_drain"},
           NEW i \in 1..Len(pending), NEW results, RecordWriteCompletions(i, results),
           UNCHANGED <<pc, walkVars, bufferVars>>,
           capability' \in {"Unknown", "Probing", "Supported", "Unsupported"},
           destination' \subseteq Blocks
    PROVE  CopyTaskInv'
  <1>1. /\ pending' = RemoveAt(pending, i)
        /\ in_flight_count' = Monus(in_flight_count, Len(pending[i].jobs))
        /\ in_flight_bytes' = Monus(in_flight_bytes, Total(pending[i].jobs))
    BY DEF RecordWriteCompletions
  <1>2. pending \in Seq(Publications)
    BY DEF CopyTaskInv, SingleTypes
  <1>3. Removed(Publications, pending, i, pending')
    BY <1>1, <1>2, RemoveAtIs
  <1>4. /\ pending' \in Seq(Publications) /\ Len(pending') = Len(pending) - 1 /\ Len(pending) \in Nat
        /\ \A k \in 1..(Len(pending) - 1) : pending'[k] = IF k < i THEN pending[k] ELSE pending[k + 1]
    BY <1>2, <1>3 DEF Removed
  <1>5. JobsRemain'
    <2> SUFFICES ASSUME NEW k \in 1..Len(pending')
                 PROVE  Len(pending'[k].results) < Len(pending'[k].jobs)
      BY DEF JobsRemain
    <2>1. k \in 1..Len(pending) /\ k + 1 \in 1..Len(pending)
      BY <1>4
    <2>2. PICK h \in 1..Len(pending) : pending'[k] = pending[h]
      BY <1>4, <2>1
    <2> QED BY <2>2 DEF CopyTaskInv, JobsRemain
  <1>6. SingleTypes'
    BY <1>4 DEF CopyTaskInv, SingleTypes, walkVars, bufferVars
  <1>7. Fits(buffered)' /\ Fits(publication)' /\ RoomForBlock' /\ EmptiedAt'
    BY DEF CopyTaskInv, Fits, RoomForBlock, EmptiedAt, bufferVars
  <1>8. PICK p \in Publications : p = pending[i]
    BY <1>2
  <1>9. /\ SumBy(jobsOf, pending') \in Nat /\ jobsOf[p] \in Nat
        /\ SumBy(jobsOf, pending) = SumBy(jobsOf, pending') + jobsOf[p]
    BY <1>1, <1>2, <1>8, MeasureTypes, SumByRemove
  <1>10. /\ SumBy(bytesOf, pending') \in Nat /\ bytesOf[p] \in Nat
         /\ SumBy(bytesOf, pending) = SumBy(bytesOf, pending') + bytesOf[p]
    BY <1>1, <1>2, <1>8, MeasureTypes, SumByRemove
  <1>11. jobsOf[p] = Len(p.jobs) /\ bytesOf[p] = Total(p.jobs)
    BY <1>8 DEF jobsOf, bytesOf
  <1>12. \A m, n \in Nat : Monus(m + n, n) = m
    BY DEF Monus
  <1>13. /\ InFlightJobs = SumBy(jobsOf, pending) /\ InFlightBytes = SumBy(bytesOf, pending)
         /\ InFlightJobs' = SumBy(jobsOf, pending') /\ InFlightBytes' = SumBy(bytesOf, pending')
    BY <1>2, <1>4, InFlightIs, InFlightIsNext
  <1>14. in_flight_count = InFlightJobs /\ in_flight_bytes = InFlightBytes
    BY DEF CopyTaskInv, WritesWithinLimits
  <1>15. in_flight_count' = InFlightJobs' /\ in_flight_bytes' = InFlightBytes'
    <2>1. in_flight_count' = Monus(SumBy(jobsOf, pending') + jobsOf[p], jobsOf[p])
      BY <1>1, <1>8, <1>9, <1>11, <1>13, <1>14
    <2>2. in_flight_bytes' = Monus(SumBy(bytesOf, pending') + bytesOf[p], bytesOf[p])
      BY <1>1, <1>8, <1>10, <1>11, <1>13, <1>14
    <2> QED BY <1>9, <1>10, <1>12, <1>13, <2>1, <2>2
  <1>16. /\ InFlightJobs \in Nat /\ InFlightJobs' \in Nat /\ InFlightJobs' <= InFlightJobs
         /\ InFlightBytes \in Nat /\ InFlightBytes' \in Nat /\ InFlightBytes' <= InFlightBytes
    BY <1>9, <1>10, <1>13
  <1>17. /\ InFlightJobs <= effective_write_limit /\ (buffered_write_bytes = Total(buffered))'
         /\ ByteLimited /\ InFlightJobs > 1 => InFlightBytes <= max_in_flight_destination_write_bytes
    BY DEF CopyTaskInv, WritesWithinLimits, bufferVars
  <1>18. InFlightJobs' <= effective_write_limit
    BY <1>16, <1>17, LimitsAre
  <1>19. ByteLimited /\ InFlightJobs' > 1 => InFlightBytes' <= max_in_flight_destination_write_bytes
    BY <1>16, <1>17, LimitsAre
  <1>20. WritesWithinLimits'
    BY <1>15, <1>17, <1>18, <1>19 DEF WritesWithinLimits
  <1> QED BY <1>5, <1>6, <1>7, <1>20 DEF CopyTaskInv

\* A publication starts.
LEMMA StartPublicationKeeps ==
    ASSUME CopyTaskInv, StartPublication
    PROVE  CopyTaskInv'
  <1>1. PICK i \in 1..Len(pending) : pending' = [pending EXCEPT ![i].at =
                IF Len(pending[i].jobs) = 1 /\ capability \notin {"Unknown", "Probing"}
                THEN "one_by_one" ELSE "batch"]
    BY DEF StartPublication
  <1>2. PICK at \in {"one_by_one", "batch"} : pending' = [pending EXCEPT ![i].at = at]
    BY <1>1
  <1>3. pending[i] \in Publications /\ Len(pending[i].results) < Len(pending[i].jobs)
    BY DEF CopyTaskInv, SingleTypes, JobsRemain
  <1>4. PICK q : q = [pending[i] EXCEPT !.at = at]
    OBVIOUS
  <1>5. q \in Publications /\ q.jobs = pending[i].jobs /\ q.results = pending[i].results
    BY <1>3, <1>4 DEF Publications
  <1>6. Replaced(pending, i, q, pending')
    BY <1>2, <1>4 DEF Replaced
  <1>7. /\ UNCHANGED <<pc, walkVars, bufferVars, in_flight_count, in_flight_bytes, capability, destination>>
        /\ pc \in {"capacity", "checkpoint_drain", "final_drain"}
    BY DEF StartPublication, Waiting, storeVars
  <1>8. capability' \in {"Unknown", "Probing", "Supported", "Unsupported"} /\ destination' \subseteq Blocks
    BY <1>7 DEF CopyTaskInv, SingleTypes
  <1> QED BY <1>3, <1>5, <1>6, <1>7, <1>8, ReplaceKeeps

\* A batch returns, or is refused and its jobs go one by one.
LEMMA BatchReturnsKeeps ==
    ASSUME CopyTaskInv, BatchReturns
    PROVE  CopyTaskInv'
  <1>1. PICK i \in 1..Len(pending) :
          \/ /\ \E ok \in BOOLEAN :
                    /\ RecordWriteCompletions(i, [k \in 1..Len(pending[i].jobs) |-> ok])
                    /\ destination' = destination \cup IF ok THEN ToSet(pending[i].jobs) ELSE {}
             /\ capability' = "Supported"
          \/ /\ pending' = [pending EXCEPT ![i].at = "one_by_one"]
             /\ capability' = "Unsupported"
             /\ UNCHANGED <<in_flight_count, in_flight_bytes, destination>>
    BY DEF BatchReturns
  <1>2. /\ UNCHANGED <<pc, walkVars, bufferVars>>
        /\ pc \in {"capacity", "checkpoint_drain", "final_drain"}
    BY DEF BatchReturns, Waiting
  <1>3. pending[i] \in Publications /\ Len(pending[i].results) < Len(pending[i].jobs)
        /\ destination \subseteq Blocks
    BY DEF CopyTaskInv, SingleTypes, JobsRemain
  <1>4. ASSUME NEW ok \in BOOLEAN,
               RecordWriteCompletions(i, [k \in 1..Len(pending[i].jobs) |-> ok]),
               destination' = destination \cup IF ok THEN ToSet(pending[i].jobs) ELSE {},
               capability' = "Supported"
        PROVE  CopyTaskInv'
    <2>1. pending[i].jobs \in Seq(Blocks)
      BY <1>3 DEF Publications
    <2>2. ToSet(pending[i].jobs) \subseteq Blocks
      BY <2>1 DEF ToSet
    <2>3. destination' \subseteq Blocks
      BY <1>3, <1>4, <2>2
    <2> QED BY <1>2, <1>4, <2>3, CompletionsKeep
  <1>5. CASE /\ pending' = [pending EXCEPT ![i].at = "one_by_one"]
             /\ capability' = "Unsupported"
             /\ UNCHANGED <<in_flight_count, in_flight_bytes, destination>>
    <2>1. PICK q : q = [pending[i] EXCEPT !.at = "one_by_one"]
      OBVIOUS
    <2>2. q \in Publications /\ q.jobs = pending[i].jobs /\ q.results = pending[i].results
      BY <1>3, <2>1 DEF Publications
    <2>3. Replaced(pending, i, q, pending')
      BY <1>5, <2>1 DEF Replaced
    <2> QED BY <1>2, <1>3, <1>5, <2>2, <2>3, ReplaceKeeps
  <1> QED BY <1>1, <1>4, <1>5

\* One block of a publication is written, or was refused.
LEMMA PutReturnsKeeps ==
    ASSUME CopyTaskInv, PutReturns
    PROVE  CopyTaskInv'
  <1>1. PICK i \in 1..Len(pending), ok \in BOOLEAN :
          /\ destination' = destination \cup IF ok THEN {pending[i].jobs[Len(pending[i].results) + 1]} ELSE {}
          /\ IF Len(Append(pending[i].results, ok)) = Len(pending[i].jobs)
             THEN RecordWriteCompletions(i, Append(pending[i].results, ok))
             ELSE /\ pending' = [pending EXCEPT ![i].results = Append(pending[i].results, ok)]
                  /\ UNCHANGED <<in_flight_count, in_flight_bytes>>
    BY DEF PutReturns
  <1>2. /\ UNCHANGED <<pc, walkVars, bufferVars, capability>>
        /\ pc \in {"capacity", "checkpoint_drain", "final_drain"}
    BY DEF PutReturns, Waiting
  <1>3. PICK p : p = pending[i]
    OBVIOUS
  <1>4. p \in Publications /\ Len(p.results) < Len(p.jobs) /\ destination \subseteq Blocks
    BY <1>3 DEF CopyTaskInv, SingleTypes, JobsRemain
  <1>5. p.jobs \in Seq(Blocks) /\ p.results \in Seq(BOOLEAN)
    BY <1>4 DEF Publications
  <1>6. /\ Len(p.results) + 1 \in 1..Len(p.jobs) /\ Append(p.results, ok) \in Seq(BOOLEAN)
        /\ Len(Append(p.results, ok)) = Len(p.results) + 1
    BY <1>4, <1>5
  <1>7. p.jobs[Len(p.results) + 1] \in Blocks
    BY <1>5, <1>6
  <1>8. destination' \subseteq Blocks
    BY <1>1, <1>3, <1>4, <1>7
  <1>9. capability' \in {"Unknown", "Probing", "Supported", "Unsupported"}
    BY <1>2 DEF CopyTaskInv, SingleTypes
  <1>10. PICK results : results = Append(p.results, ok)
    OBVIOUS
  <1>11. CASE Len(results) = Len(p.jobs)
    <2>1. RecordWriteCompletions(i, results)
      BY <1>1, <1>3, <1>10, <1>11
    <2> QED BY <1>2, <1>8, <1>9, <2>1, CompletionsKeep
  <1>12. CASE Len(results) # Len(p.jobs)
    <2>1. /\ pending' = [pending EXCEPT ![i].results = results]
          /\ UNCHANGED <<in_flight_count, in_flight_bytes>>
      BY <1>1, <1>3, <1>10, <1>12
    <2>2. PICK q : q = [p EXCEPT !.results = results]
      OBVIOUS
    <2>3. q \in Publications /\ q.jobs = p.jobs /\ q.results = results
      BY <1>4, <1>6, <1>10, <2>2 DEF Publications
    <2>4. Replaced(pending, i, q, pending')
      BY <1>3, <2>1, <2>2 DEF Replaced
    <2>5. Len(q.results) < Len(q.jobs)
      BY <1>4, <1>5, <1>6, <1>10, <1>12, <2>3
    <2> QED BY <1>2, <1>3, <1>8, <1>9, <2>1, <2>3, <2>4, <2>5, ReplaceKeeps
  <1> QED BY <1>11, <1>12

\* Steps that leave the task, its buffer and its futures alone.
LEMMA TaskStutters ==
    ASSUME CopyTaskInv, UNCHANGED <<pc, walkVars, bufferVars, flightVars, destination>>
    PROVE  CopyTaskInv'
  <1>1. InFlightJobs' = InFlightJobs /\ InFlightBytes' = InFlightBytes
    BY DEF InFlightJobs, InFlightBytes, flightVars
  <1>2. SingleTypes'
    BY DEF CopyTaskInv, SingleTypes, walkVars, bufferVars, flightVars
  <1>3. JobsRemain' /\ Fits(buffered)' /\ Fits(publication)' /\ EmptiedAt'
    BY DEF CopyTaskInv, JobsRemain, Fits, EmptiedAt, bufferVars, flightVars
  <1>4. RoomForBlock'
    BY DEF CopyTaskInv, RoomForBlock, Block, walkVars, bufferVars
  <1>5. WritesWithinLimits'
    BY <1>1 DEF CopyTaskInv, WritesWithinLimits, bufferVars, flightVars
  <1> QED BY <1>2, <1>3, <1>4, <1>5 DEF CopyTaskInv

\* Every step of the copy keeps that invariant.
LEMMA CopyTaskInvStep ==
    ASSUME CopyTaskInv, [SingleNext]_singleVars
    PROVE  CopyTaskInv'
  <1>1. CASE Pop
    BY <1>1, SinglePopKeeps
  <1>2. CASE \/ PopEnds \/ ReadFails \/ ReadAndDecode \/ CheckDestination \/ AfterBuffering
             \/ Compact \/ Return
    BY <1>2, SingleWalkKeeps
  <1>3. CASE EnqueueChildren
    BY <1>3, EnqueueChildrenKeeps
  <1>4. CASE BufferJob
    BY <1>4, BufferJobKeeps
  <1>5. CASE PushJob
    BY <1>5, PushJobKeeps
  <1>6. CASE FlushBuffered
    BY <1>6, FlushBufferedKeeps
  <1>7. CASE EnqueueBatch
    BY <1>7, EnqueueBatchKeeps
  <1>8. CASE StartPublication
    BY <1>8, StartPublicationKeeps
  <1>9. CASE BatchReturns
    BY <1>9, BatchReturnsKeeps
  <1>10. CASE PutReturns
    BY <1>10, PutReturnsKeeps
  <1>11. CASE CheckpointDrained
    BY <1>11, CheckpointDrainedKeeps
  <1>12. CASE OperatorInterrupt
    BY <1>12, TaskStutters DEF OperatorInterrupt, storeVars
  <1>13. CASE UNCHANGED singleVars
    BY <1>13, TaskStutters DEF singleVars, storeVars
  <1> QED
    BY <1>1, <1>2, <1>3, <1>4, <1>5, <1>6, <1>7, <1>8, <1>9, <1>10, <1>11, <1>12, <1>13
       DEF SingleNext, CopyStep

\* The single-worker copy keeps its limits, never waits for nothing and has the
\* store to itself during a checkpoint and after its return, for every graph of
\* blocks, every limit and checkpoint interval, and every order in which batches
\* and single writes are answered, refused or fail.
THEOREM CopyTaskSafe == SingleSpec => []CopyTaskSound
  <1>1. SingleInit => CopyTaskInv
    BY SingleInitInv
  <1>2. CopyTaskInv /\ [SingleNext]_singleVars => CopyTaskInv'
    BY CopyTaskInvStep
  <1>3. CopyTaskInv => CopyTaskSound
    BY CopyTaskInvSound
  <1> QED BY <1>1, <1>2, <1>3, PTL DEF SingleSpec

-----------------------------------------------------------------------------
(* The single-worker copy: what its report says.  The invariant follows     *)
(* every visited block through the places it can be in.                     *)

\* A copy that was interrupted or whose checkpoint failed.
Cut == interrupted \/ DestinationStore \in FailedIds(tracker)

\* The blocks of a list of jobs, and a list that names none twice.
JobsIn(jobs) == {jobs[k] : k \in 1..Len(jobs)}
Distinct(jobs) == \A k, m \in 1..Len(jobs) : jobs[k] = jobs[m] => k = m

\* The block that the walk has taken and neither buffered nor dropped yet; while it
\* is read, and once it is known to be missing from the destination.
InHand == \/ pc \in {"read", "destination", "buffer", "push", "push_last"}
          \/ pc = "capacity" /\ resume \in {"push", "push_last"}
Handled == IF InHand THEN {Block} ELSE {}
BeingRead == IF pc = "read" THEN {Block} ELSE {}
Checked == IF pc \in {"read", "destination"} THEN {} ELSE Handled

\* The jobs of publications, and those of them that were written.
JobsOf(p) == JobsIn(p.jobs)
WrittenOf(p) == {p.jobs[k] : k \in {m \in 1..Len(p.results) : p.results[m]}}
FlightOf(s) == UNION {JobsOf(s[i]) : i \in 1..Len(s)}
WrittenIn(s) == UNION {WrittenOf(s[i]) : i \in 1..Len(s)}

\* Publications that share no job; only those written one by one have results yet.
ApartIn(s) ==
    /\ \A i \in 1..Len(s) : /\ Distinct(s[i].jobs)
                            /\ s[i].at # "one_by_one" => s[i].results = <<>>
    /\ \A i, j \in 1..Len(s) : i # j => JobsOf(s[i]) \cap JobsOf(s[j]) = {}

Buffered == JobsIn(buffered)
Published == JobsIn(publication)
InFlight == FlightOf(pending)
Written == WrittenIn(pending)

\* The blocks on which one of the operations failed, and those this copy has added.
FailedBlocks(t, ops) == {b \in Blocks : \E o \in ops : BagIn(o, t.failure_templates[b])}
Lost == FailedBlocks(tracker, LosingOperations)
Unread == FailedBlocks(tracker, {"ReadSourceBlock"})
Undecoded == FailedBlocks(tracker, {"ReadSourceBlock", "DecodeSourceBlock"})
Added == destination \ Stored

\* The walk is over; what is buffered is still written.
WalkEnded == \/ pc \in {"final_flush", "final_drain", "returned"}
             \/ pc = "capacity" /\ resume = "final_drain"

\* Types, and that a walk that began had a root.
ReportTypes ==
    /\ tracker \in Trackers /\ IsFiniteSet(visited) /\ IsFiniteSet(Added)
    /\ Stored \subseteq destination
    /\ blind_write \in BOOLEAN /\ interrupted \in BOOLEAN
    /\ copied_block_count \in Nat /\ skipped_already_present_block_count \in Nat
    /\ attempted_write_block_count \in Nat
    /\ pc = "pop" \/ WalkEnded \/ (current \in Blocks \X Blocks /\ Block \in visited)
    /\ visited # {} \/ queue # <<>> => RootIds # <<>>

\* No job is listed twice.
EachOnce == Distinct(buffered) /\ Distinct(publication) /\ ApartIn(pending)

\* A block has one place, and only visited blocks that have not failed have one.
PlacesApart ==
    /\ Handled \cap Buffered = {} /\ Handled \cap Published = {} /\ Handled \cap InFlight = {}
    /\ Buffered \cap Published = {} /\ Buffered \cap InFlight = {} /\ Published \cap InFlight = {}
    /\ Handled \cup Buffered \cup Published \cup InFlight \subseteq visited \ Lost

\* What was added was visited and has left every place, or its publication is still
\* in flight; a copy that reads before it writes takes no block that was stored.
AddedOnce ==
    /\ Added \subseteq visited \ (Handled \cup Buffered \cup Published \cup Lost)
    /\ Added \cap InFlight = Written \ Stored
    /\ ~blind_write => (Checked \cup Buffered \cup Published \cup InFlight) \cap Stored = {}

\* A visited block is stored, failed, or still has a place.
EveryBlockPlaced ==
    Cut \/ visited \subseteq destination \cup Lost \cup Handled \cup Buffered \cup Published \cup InFlight

\* The counters of the report.
BlocksCounted ==
    /\ ~blind_write => /\ copied_block_count = Cardinality(Added \ InFlight)
                       /\ skipped_already_present_block_count =
                             Cardinality((visited \cap Stored) \ (Lost \cup Handled))
    /\ blind_write => attempted_write_block_count = Cardinality(visited \ (Unread \cup BeingRead))

\* The tracker knows the children of the blocks that were read and decoded, its
\* roots have spread along them, and its report is complete.
ChildrenKnown ==
    /\ Lost \cup Undecoded \cup Unread \subseteq visited \ BeingRead
    /\ \A b \in Blocks : tracker.discovered_children[b] =
          IF b \in (visited \ BeingRead) \ Undecoded THEN ToSet(Children[b]) ELSE {}

RootsPropagate ==
    \A b \in Blocks : \A c \in tracker.discovered_children[b] :
       tracker.block_roots[b] \subseteq tracker.block_roots[c]

ReportedOnce ==
    \A r, b \in Blocks, o \in Operations :
       TimesReported(tracker, r, b, o) =
          IF r \in tracker.block_roots[b] THEN TimesRecorded(tracker, b, o) ELSE 0

\* The children that the walk still has to queue, and what is queued.
Offspring ==
    IF \/ pc \in {"destination", "enqueue", "buffer", "push", "push_last", "flush_full",
                  "buffered", "checkpoint_flush", "checkpoint_drain", "compact"}
       \/ pc = "capacity" /\ resume # "final_drain"
    THEN ToSet(children) ELSE {}
QueuedBlocks == {queue[i][2] : i \in 1..Len(queue)}
QueuedRoots == {r \in Blocks : \E i \in 1..Len(queue) : queue[i] = <<r, r>>}

\* Every root, and every known child of a visited block, was visited or will be.
RootsQueued ==
    Cut \/ ToSet(RootIds) \subseteq QueuedRoots \cup {r \in visited : r \in tracker.block_roots[r]}
ChildrenQueued ==
    Cut \/ \A b \in visited : tracker.discovered_children[b] \subseteq
              visited \cup QueuedBlocks \cup (IF b = Block THEN Offspring ELSE {})
WalkedAll == WalkEnded => Cut \/ queue = <<>>

ReportInv ==
    /\ ReportTypes /\ EachOnce /\ PlacesApart /\ AddedOnce /\ EveryBlockPlaced /\ BlocksCounted
    /\ ChildrenKnown /\ RootsPropagate /\ ReportedOnce
    /\ RootsQueued /\ ChildrenQueued /\ WalkedAll

\* A record adds its blocks to those on which the operation failed.
LEMMA RecordedBlocks ==
    ASSUME NEW t \in Trackers, NEW X \in SUBSET Blocks, NEW operation \in Operations,
           NEW ops \in SUBSET Operations, NEW t2, t2 = RecordEach(t, X, operation)
    PROVE  FailedBlocks(t2, ops) = FailedBlocks(t, ops) \cup (IF operation \in ops THEN X ELSE {})
  <1>1. /\ t2 \in Trackers
        /\ \A b \in Blocks, o \in Operations :
              TimesRecorded(t2, b, o) = TimesRecorded(t, b, o)
                 + (IF b \in X /\ o = operation THEN 1 ELSE 0)
    BY RecordEachFacts
  <1>2. \A b \in Blocks : \A o \in ops : BagIn(o, t.failure_templates[b]) <=> TimesRecorded(t, b, o) > 0
    BY CountsType
  <1>3. \A b \in Blocks : \A o \in ops : BagIn(o, t2.failure_templates[b]) <=> TimesRecorded(t2, b, o) > 0
    BY <1>1, CountsType
  <1>4. \A b \in Blocks : \A o \in ops : TimesRecorded(t, b, o) \in Nat
    BY CountsType
  <1>5. ASSUME NEW b \in Blocks, NEW o \in ops
        PROVE  BagIn(o, t2.failure_templates[b])
                  <=> BagIn(o, t.failure_templates[b]) \/ (b \in X /\ o = operation)
    <2>1. o \in Operations
      OBVIOUS
    <2> QED BY <1>1, <1>2, <1>3, <1>4, <2>1
  <1> QED BY <1>5 DEF FailedBlocks

\* Membership in the jobs of some publications.
LEMMA InFlights ==
    ASSUME NEW s
    PROVE  /\ \A x : x \in FlightOf(s) <=> \E i \in 1..Len(s) : x \in JobsOf(s[i])
           /\ \A x : x \in WrittenIn(s) <=> \E i \in 1..Len(s) : x \in WrittenOf(s[i])
  BY DEF FlightOf, WrittenIn

\* Disjoint publications, one by one.
LEMMA ApartPairs ==
    ASSUME NEW s, \A i \in 1..Len(s) : Distinct(s[i].jobs),
           \A i \in 1..Len(s) : s[i].at # "one_by_one" => s[i].results = <<>>,
           \A i, j \in 1..Len(s) : i # j => JobsOf(s[i]) \cap JobsOf(s[j]) = {}
    PROVE  ApartIn(s)
  BY DEF ApartIn

\* One publication more.
LEMMA FlightAppend ==
    ASSUME NEW s \in Seq(Publications), NEW p \in Publications, p.results = <<>>, ApartIn(s),
           Distinct(p.jobs), JobsOf(p) \cap FlightOf(s) = {}, NEW t, t = Append(s, p)
    PROVE  /\ FlightOf(t) = FlightOf(s) \cup JobsOf(p)
           /\ WrittenIn(t) = WrittenIn(s) /\ ApartIn(t)
  <1>1. PICK n \in Nat : n = Len(s)
    OBVIOUS
  <1>2. Len(t) = n + 1 /\ t[n + 1] = p /\ \A i \in 1..n : t[i] = s[i]
    BY <1>1
  <1>3. WrittenOf(p) = {}
    BY DEF WrittenOf
  <1>4. \A i \in 1..(n + 1) : i \in 1..n \/ i = n + 1
    OBVIOUS
  <1>5. \A i \in 1..n : i \in 1..(n + 1)
    OBVIOUS
  <1>6. n + 1 \in 1..(n + 1)
    OBVIOUS
  <1>7. FlightOf(t) = FlightOf(s) \cup JobsOf(p)
    BY <1>1, <1>2, <1>4, <1>5, <1>6 DEF FlightOf
  <1>8. WrittenIn(t) = WrittenIn(s)
    BY <1>1, <1>2, <1>3, <1>4, <1>5, <1>6 DEF WrittenIn
  <1>9. \A i \in 1..n : JobsOf(s[i]) \cap JobsOf(p) = {}
    BY <1>1 DEF FlightOf
  <1>10. ApartIn(t)
    <2>1. ASSUME NEW i \in 1..(n + 1)
          PROVE  Distinct(t[i].jobs) /\ (t[i].at # "one_by_one" => t[i].results = <<>>)
      <3>1. CASE i \in 1..n
        BY <1>1, <1>2, <3>1 DEF ApartIn
      <3>2. CASE i = n + 1
        BY <1>2, <3>2
      <3> QED BY <1>4, <3>1, <3>2
    <2>2. ASSUME NEW i \in 1..(n + 1), NEW j \in 1..(n + 1), i # j
          PROVE  JobsOf(t[i]) \cap JobsOf(t[j]) = {}
      <3>1. CASE i \in 1..n /\ j \in 1..n
        BY <1>1, <1>2, <2>2, <3>1 DEF ApartIn
      <3>2. CASE i \in 1..n /\ j = n + 1
        <4>1. t[i] = s[i] /\ t[j] = p
          BY <1>2, <3>2
        <4> QED BY <1>9, <3>2, <4>1
      <3>3. CASE j \in 1..n /\ i = n + 1
        <4>1. t[j] = s[j] /\ t[i] = p
          BY <1>2, <3>3
        <4> QED BY <1>9, <3>3, <4>1
      <3> QED BY <1>4, <2>2, <3>1, <3>2, <3>3
    <2> QED BY <1>2, <2>1, <2>2, ApartPairs
  <1> QED BY <1>7, <1>8, <1>10

\* The written jobs of a publication are jobs of it, and it alone has them.
LEMMA WrittenAre ==
    ASSUME NEW s \in Seq(Publications), ApartIn(s),
           \A i \in 1..Len(s) : Len(s[i].results) < Len(s[i].jobs)
    PROVE  /\ WrittenIn(s) \subseteq FlightOf(s)
           /\ \A i \in 1..Len(s) : /\ WrittenOf(s[i]) \subseteq JobsOf(s[i])
                                   /\ WrittenIn(s) \cap JobsOf(s[i]) = WrittenOf(s[i])
                                   /\ JobsOf(s[i]) \subseteq FlightOf(s)
                                   /\ JobsOf(s[i]) \subseteq Blocks
  <1>1. ASSUME NEW i \in 1..Len(s) PROVE WrittenOf(s[i]) \subseteq JobsOf(s[i]) /\ JobsOf(s[i]) \subseteq Blocks
    <2>1. s[i] \in Publications
      OBVIOUS
    <2>2. PICK m \in Nat : m = Len(s[i].results)
      BY <2>1 DEF Publications
    <2>3. PICK n \in Nat : n = Len(s[i].jobs)
      BY <2>1 DEF Publications
    <2>4. m < n
      BY <2>2, <2>3
    <2>5. 1..m \subseteq 1..n
      BY <2>4
    <2> QED BY <2>1, <2>2, <2>3, <2>5 DEF WrittenOf, JobsOf, JobsIn, Publications
  <1>2. \A i, j \in 1..Len(s) : i # j => JobsOf(s[i]) \cap JobsOf(s[j]) = {}
    BY DEF ApartIn
  <1>3. WrittenIn(s) \subseteq FlightOf(s)
    BY <1>1, InFlights
  <1>4. ASSUME NEW i \in 1..Len(s)
        PROVE  WrittenIn(s) \cap JobsOf(s[i]) = WrittenOf(s[i]) /\ JobsOf(s[i]) \subseteq FlightOf(s)
    <2>1. ASSUME NEW x \in WrittenIn(s), x \in JobsOf(s[i]) PROVE x \in WrittenOf(s[i])
      <3>1. PICK j \in 1..Len(s) : x \in WrittenOf(s[j])
        BY InFlights
      <3>2. j = i
        BY <1>1, <1>2, <2>1, <3>1
      <3> QED BY <3>1, <3>2
    <2>2. WrittenOf(s[i]) \subseteq WrittenIn(s) /\ JobsOf(s[i]) \subseteq FlightOf(s)
      BY InFlights
    <2>3. WrittenOf(s[i]) \subseteq JobsOf(s[i])
      BY <1>1
    <2> QED BY <2>1, <2>2, <2>3
  <1> QED BY <1>1, <1>3, <1>4

\* What is written once publication i of s has become q.
WrittenWith(s, i, q) == (WrittenIn(s) \ JobsOf(s[i])) \cup WrittenOf(q)

\* A publication that has come further, with the same jobs.
LEMMA FlightReplace ==
    ASSUME NEW s \in Seq(Publications), ApartIn(s),
           \A i \in 1..Len(s) : Len(s[i].results) < Len(s[i].jobs),
           NEW i \in 1..Len(s), NEW q \in Publications, q.jobs = s[i].jobs,
           q.at # "one_by_one" => q.results = <<>>,
           NEW t, t = [s EXCEPT ![i] = q]
    PROVE  /\ FlightOf(t) = FlightOf(s)
           /\ WrittenIn(t) = WrittenWith(s, i, q) /\ ApartIn(t)
  <1>1. PICK n \in Nat : n = Len(s)
    OBVIOUS
  <1>2. Len(t) = n /\ t[i] = q /\ \A j \in 1..n : j # i => t[j] = s[j]
    BY <1>1
  <1>3. \A j \in 1..n : JobsOf(t[j]) = JobsOf(s[j]) /\ t[j].jobs = s[j].jobs
    BY <1>1, <1>2 DEF JobsOf
  <1>4. FlightOf(t) = FlightOf(s)
    BY <1>1, <1>2, <1>3 DEF FlightOf
  <1>5. ApartIn(t)
    <2>1. ASSUME NEW j \in 1..n
          PROVE  Distinct(t[j].jobs) /\ (t[j].at # "one_by_one" => t[j].results = <<>>)
      <3>1. Distinct(t[j].jobs)
        BY <1>1, <1>3 DEF ApartIn
      <3>2. CASE j = i
        BY <1>2, <3>1, <3>2
      <3>3. CASE j # i
        BY <1>1, <1>2, <3>1, <3>3 DEF ApartIn
      <3> QED BY <3>2, <3>3
    <2>2. \A j, k \in 1..n : j # k => JobsOf(t[j]) \cap JobsOf(t[k]) = {}
      <3>1. \A j, k \in 1..n : j # k => JobsOf(s[j]) \cap JobsOf(s[k]) = {}
        BY <1>1 DEF ApartIn
      <3> QED BY <1>3, <3>1
    <2> QED BY <1>2, <2>1, <2>2, ApartPairs
  <1>6. \A j \in 1..n : WrittenOf(s[j]) \subseteq JobsOf(s[j])
    BY <1>1, WrittenAre
  <1>7. \A j \in 1..n : j # i => JobsOf(s[i]) \cap JobsOf(s[j]) = {}
    BY <1>1 DEF ApartIn
  <1>8. WrittenIn(t) = (WrittenIn(s) \ JobsOf(s[i])) \cup WrittenOf(q)
    <2>1. ASSUME NEW x \in WrittenIn(t) PROVE x \in (WrittenIn(s) \ JobsOf(s[i])) \cup WrittenOf(q)
      <3>1. PICK j \in 1..n : x \in WrittenOf(t[j])
        BY <1>2, InFlights
      <3>2. CASE j = i
        BY <1>2, <3>1, <3>2
      <3>3. CASE j # i
        <4>1. x \in WrittenOf(s[j])
          BY <1>2, <3>1, <3>3
        <4>2. x \in WrittenIn(s)
          BY <1>1, <4>1, InFlights
        <4>3. x \notin JobsOf(s[i])
          BY <1>6, <1>7, <3>3, <4>1
        <4> QED BY <4>2, <4>3
      <3> QED BY <3>2, <3>3
    <2>2. ASSUME NEW x \in WrittenIn(s), x \notin JobsOf(s[i]) PROVE x \in WrittenIn(t)
      <3>1. PICK j \in 1..n : x \in WrittenOf(s[j])
        BY <1>1, InFlights
      <3>2. j # i
        BY <1>6, <2>2, <3>1
      <3>3. x \in WrittenOf(t[j])
        BY <1>2, <3>1, <3>2
      <3> QED BY <1>2, <3>3, InFlights
    <2>3. WrittenOf(q) \subseteq WrittenIn(t)
      BY <1>1, <1>2, InFlights
    <2> QED BY <2>1, <2>2, <2>3
  <1> QED BY <1>4, <1>5, <1>8 DEF WrittenWith

\* A publication less.
LEMMA FlightRemove ==
    ASSUME NEW s \in Seq(Publications), ApartIn(s),
           \A i \in 1..Len(s) : Len(s[i].results) < Len(s[i].jobs),
           NEW i \in 1..Len(s), NEW t, t = RemoveAt(s, i)
    PROVE  /\ FlightOf(t) = FlightOf(s) \ JobsOf(s[i])
           /\ WrittenIn(t) = WrittenIn(s) \ JobsOf(s[i]) /\ ApartIn(t)
  <1>1. PICK n \in Nat : n = Len(s)
    OBVIOUS
  <1>2. Removed(Publications, s, i, t)
    BY RemoveAtIs
  <1>3. Len(t) = n - 1 /\ \A k \in 1..(n - 1) : t[k] = IF k < i THEN s[k] ELSE s[k + 1]
    BY <1>1, <1>2 DEF Removed
  <1>4. PICK to : to = [k \in 1..(n - 1) |-> IF k < i THEN k ELSE k + 1]
    OBVIOUS
  <1>5. \A k \in 1..(n - 1) : to[k] \in 1..n /\ to[k] # i /\ t[k] = s[to[k]]
    BY <1>1, <1>3, <1>4
  <1>6. \A k, m \in 1..(n - 1) : k # m => to[k] # to[m]
    BY <1>1, <1>4
  <1>7. ASSUME NEW j \in 1..n, j # i PROVE \E k \in 1..(n - 1) : to[k] = j
    <2>1. CASE j < i
      <3>1. j \in 1..(n - 1) /\ to[j] = j
        BY <1>1, <1>4, <2>1
      <3> QED BY <3>1
    <2>2. CASE ~(j < i)
      <3>1. j - 1 \in 1..(n - 1) /\ to[j - 1] = j
        BY <1>1, <1>4, <1>7, <2>2
      <3> QED BY <3>1
    <2> QED BY <2>1, <2>2
  <1>8. \A j \in 1..n : j # i => JobsOf(s[i]) \cap JobsOf(s[j]) = {}
    BY <1>1 DEF ApartIn
  <1>9. \A j \in 1..n : WrittenOf(s[j]) \subseteq JobsOf(s[j])
    BY <1>1, WrittenAre
  <1>10. FlightOf(t) = FlightOf(s) \ JobsOf(s[i])
    <2>1. ASSUME NEW x \in FlightOf(t) PROVE x \in FlightOf(s) \ JobsOf(s[i])
      <3>1. PICK k \in 1..(n - 1) : x \in JobsOf(t[k])
        BY <1>3, InFlights
      <3>2. to[k] \in 1..n /\ to[k] # i /\ x \in JobsOf(s[to[k]])
        BY <1>5, <3>1
      <3>3. x \in FlightOf(s)
        BY <1>1, <3>2, InFlights
      <3> QED BY <1>8, <3>2, <3>3
    <2>2. ASSUME NEW x \in FlightOf(s), x \notin JobsOf(s[i]) PROVE x \in FlightOf(t)
      <3>1. PICK j \in 1..n : x \in JobsOf(s[j])
        BY <1>1, InFlights
      <3>2. j # i
        BY <2>2, <3>1
      <3>3. PICK k \in 1..(n - 1) : to[k] = j
        BY <1>7, <3>2
      <3>4. x \in JobsOf(t[k])
        BY <1>5, <3>1, <3>3
      <3> QED BY <1>3, <3>4, InFlights
    <2> QED BY <2>1, <2>2
  <1>11. WrittenIn(t) = WrittenIn(s) \ JobsOf(s[i])
    <2>1. ASSUME NEW x \in WrittenIn(t) PROVE x \in WrittenIn(s) \ JobsOf(s[i])
      <3>1. PICK k \in 1..(n - 1) : x \in WrittenOf(t[k])
        BY <1>3, InFlights
      <3>2. to[k] \in 1..n /\ to[k] # i /\ x \in WrittenOf(s[to[k]])
        BY <1>5, <3>1
      <3>3. x \in WrittenIn(s)
        BY <1>1, <3>2, InFlights
      <3> QED BY <1>8, <1>9, <3>2, <3>3
    <2>2. ASSUME NEW x \in WrittenIn(s), x \notin JobsOf(s[i]) PROVE x \in WrittenIn(t)
      <3>1. PICK j \in 1..n : x \in WrittenOf(s[j])
        BY <1>1, InFlights
      <3>2. j # i
        BY <1>9, <2>2, <3>1
      <3>3. PICK k \in 1..(n - 1) : to[k] = j
        BY <1>7, <3>2
      <3>4. x \in WrittenOf(t[k])
        BY <1>5, <3>1, <3>3
      <3> QED BY <1>3, <3>4, InFlights
    <2> QED BY <2>1, <2>2
  <1>12. ApartIn(t)
    <2>1. \A k \in 1..(n - 1) : Distinct(t[k].jobs) /\ (t[k].at # "one_by_one" => t[k].results = <<>>)
      <3>1. \A j \in 1..n : Distinct(s[j].jobs) /\ (s[j].at # "one_by_one" => s[j].results = <<>>)
        BY <1>1 DEF ApartIn
      <3> QED BY <1>5, <3>1
    <2>2. \A k, m \in 1..(n - 1) : k # m => JobsOf(t[k]) \cap JobsOf(t[m]) = {}
      <3>1. \A j, m \in 1..n : j # m => JobsOf(s[j]) \cap JobsOf(s[m]) = {}
        BY <1>1 DEF ApartIn
      <3>2. ASSUME NEW k \in 1..(n - 1), NEW m \in 1..(n - 1), k # m
            PROVE  JobsOf(t[k]) \cap JobsOf(t[m]) = {}
        <4>1. PICK x, y : x = to[k] /\ y = to[m]
          OBVIOUS
        <4>2. x \in 1..n /\ y \in 1..n /\ t[k] = s[x] /\ t[m] = s[y] /\ x # y
          BY <1>5, <1>6, <3>2, <4>1
        <4>3. JobsOf(s[x]) \cap JobsOf(s[y]) = {}
          BY <3>1, <4>2
        <4> QED BY <4>2, <4>3
      <3> QED BY <3>2
    <2> QED BY <1>3, <2>1, <2>2, ApartPairs
  <1> QED BY <1>10, <1>11, <1>12

\* A list of jobs with one more, and the empty list.
LEMMA JobsAppend ==
    ASSUME NEW s \in Seq(Blocks), NEW b \in Blocks
    PROVE  /\ JobsIn(Append(s, b)) = JobsIn(s) \cup {b}
           /\ Distinct(s) /\ b \notin JobsIn(s) => Distinct(Append(s, b))
           /\ JobsIn(s) \subseteq Blocks /\ IsFiniteSet(JobsIn(s))
  <1>1. PICK n \in Nat : n = Len(s)
    OBVIOUS
  <1>2. PICK t : t = Append(s, b)
    OBVIOUS
  <1>3. Len(t) = n + 1 /\ t[n + 1] = b /\ \A i \in 1..n : t[i] = s[i]
    BY <1>1, <1>2
  <1>4. \A i \in 1..(n + 1) : i \in 1..n \/ i = n + 1
    OBVIOUS
  <1>5. \A i \in 1..n : i \in 1..(n + 1)
    OBVIOUS
  <1>6. n + 1 \in 1..(n + 1)
    OBVIOUS
  <1>7. JobsIn(t) = JobsIn(s) \cup {b}
    BY <1>1, <1>3, <1>4, <1>5, <1>6 DEF JobsIn
  <1>8. Distinct(s) /\ b \notin JobsIn(s) => Distinct(t)
    BY <1>1, <1>3, <1>4 DEF Distinct, JobsIn
  <1>9. JobsIn(s) \subseteq Blocks
    BY DEF JobsIn
  <1>10. IsFiniteSet(JobsIn(s))
    <2>1. PICK S : S = 1..n
      OBVIOUS
    <2>2. IsFiniteSet(S)
      BY <2>1, FS_Interval
    <2>3. PICK f : f = [i \in S |-> s[i]]
      OBVIOUS
    <2>4. PICK T : T = JobsIn(s)
      OBVIOUS
    <2>5. f \in Surjection(S, T)
      BY <1>1, <2>1, <2>3, <2>4 DEF Surjection, JobsIn
    <2> QED BY <2>2, <2>4, <2>5, FS_Surjection
  <1> QED BY <1>2, <1>7, <1>8, <1>9, <1>10

\* An empty list has no jobs.
LEMMA NoJobs == JobsIn(<<>>) = {} /\ Distinct(<<>>)
  <1>1. Len(<<>>) = 0
    OBVIOUS
  <1> QED BY <1>1 DEF JobsIn, Distinct

-----------------------------------------------------------------------------
(* What a step of the copy does to the tracker. *)

\* One report for each recorded failure and each root associated with its block.
ReportComplete(t) ==
    \A r, b \in Blocks, o \in Operations :
       TimesReported(t, r, b, o) = IF r \in t.block_roots[b] THEN TimesRecorded(t, b, o) ELSE 0

\* A record keeps the report complete.
LEMMA RecordReports ==
    ASSUME NEW t \in Trackers, NEW X \in SUBSET Blocks, NEW operation \in Operations,
           NEW t2, t2 = RecordEach(t, X, operation), ReportComplete(t)
    PROVE  ReportComplete(t2)
  <1>0. t2.block_roots = t.block_roots
    BY RecordEachFacts
  <1>5. t2 \in Trackers /\ t2 = RecordEach(t, X, operation)
    BY RecordEachFacts
  <1>1. \A b \in Blocks, o \in Operations :
           TimesRecorded(t2, b, o) = TimesRecorded(t, b, o)
              + (IF b \in X /\ o = operation THEN 1 ELSE 0)
    BY <1>5, RecordEachFacts
  <1>4. \A r, b \in Blocks, o \in Operations :
           TimesReported(t2, r, b, o) = TimesReported(t, r, b, o)
              + (IF b \in X /\ o = operation /\ r \in t.block_roots[b] THEN 1 ELSE 0)
    BY RecordEachFacts
  <1> SUFFICES ASSUME NEW r \in Blocks, NEW b \in Blocks, NEW o \in Operations
               PROVE  TimesReported(t2, r, b, o)
                         = IF r \in t2.block_roots[b] THEN TimesRecorded(t2, b, o) ELSE 0
    BY DEF ReportComplete
  <1>2. TimesReported(t, r, b, o) = IF r \in t.block_roots[b] THEN TimesRecorded(t, b, o) ELSE 0
    BY DEF ReportComplete
  <1>3. TimesRecorded(t, b, o) \in Nat
    BY CountsType
  <1> QED BY <1>0, <1>1, <1>2, <1>3, <1>4

\* So does an association.
LEMMA SpreadKeepsComplete ==
    ASSUME NEW t1 \in Trackers, NEW t2, NEW roots, NEW starts, Spreads(t1, t2, roots, starts),
           t2.failure_templates = t1.failure_templates, ReportComplete(t1)
    PROVE  ReportComplete(t2)
  BY SpreadReports DEF ReportComplete

\* What an association does, in one formula.
Associated(t, t2, roots, starts) ==
    /\ t2 \in Trackers
    /\ t2.failure_templates = t.failure_templates
    /\ t2.discovered_children = t.discovered_children
    /\ FailedIds(t) \subseteq FailedIds(t2)
    /\ Spreads(t, t2, roots, starts)

\* AssociationSpreads, for a step of the copy.
LEMMA AssociationIs ==
    ASSUME NEW t \in Trackers, NEW roots \in SUBSET Blocks, NEW starts \in SUBSET Blocks,
           NEW t2, t2 = AssociateRoots(t, roots, starts)
    PROVE  Associated(t, t2, roots, starts)
  BY AssociationSpreads DEF Associated

\* The walk notes the root under which it takes a block.
Notes(r, b, roots, starts, t2) ==
    /\ r \in Blocks /\ b \in Blocks /\ roots \in SUBSET Blocks /\ starts \in SUBSET Blocks
    /\ t2 \in Trackers
    /\ r = Head(queue)[1] /\ b = Head(queue)[2] /\ roots = {r} /\ starts = {b} /\ t2 = tracker'
    /\ t2.failure_templates = tracker.failure_templates
    /\ t2.discovered_children = tracker.discovered_children
    /\ FailedIds(tracker) \subseteq FailedIds(t2)
    /\ Spreads(tracker, t2, roots, starts)

\* Pop does, unless it is interrupted.
LEMMA PopNotes ==
    ASSUME CopyTaskInv, ReportTypes, Pop, ~interrupted
    PROVE  \E r, b, roots, starts, t2 : Notes(r, b, roots, starts, t2)
  <1>1. tracker \in Trackers
    BY DEF ReportTypes
  <1>2. queue \in Seq(Blocks \X Blocks) /\ queue # <<>>
    BY DEF CopyTaskInv, SingleTypes, Pop
  <1>3. Head(queue) \in Blocks \X Blocks
    BY <1>2
  <1>4. PICK r, b, t, t2 : r = Head(queue)[1] /\ b = Head(queue)[2] /\ t = tracker /\ t2 = tracker'
    OBVIOUS
  <1>5. r \in Blocks /\ b \in Blocks /\ t \in Trackers
    BY <1>1, <1>3, <1>4
  <1>6. t2 = NoteBlockRoot(t, r, b)
    BY <1>4 DEF Pop
  <1>7. PICK roots, starts : roots = {r} /\ starts = {b}
    OBVIOUS
  <1>8. /\ roots \in SUBSET Blocks /\ starts \in SUBSET Blocks /\ t \in Trackers
        /\ t2 = AssociateRoots(t, roots, starts)
    BY <1>5, <1>6, <1>7 DEF NoteBlockRoot
  <1>9. Associated(t, t2, roots, starts)
    BY <1>8, AssociationIs
  <1>12. Notes(r, b, roots, starts, t2)
    BY <1>4, <1>5, <1>7, <1>8, <1>9 DEF Notes, Associated
  <1> QED BY <1>12

\* The children of a block that was read are remembered; none, and a failure, if it
\* could not be decoded.
SingleLearns(b, t1, t2, roots, kids) ==
    /\ b \in Blocks /\ t1 \in Trackers /\ t2 \in Trackers
    /\ roots \in SUBSET Blocks /\ kids \in SUBSET Blocks
    /\ b = Block /\ t2 = tracker' /\ roots = tracker.block_roots[b] /\ kids = ToSet(children')
    /\ t1.block_roots = tracker.block_roots
    /\ t1.discovered_children = [tracker.discovered_children EXCEPT ![b] = kids]
    /\ t2.discovered_children = t1.discovered_children
    /\ t2.failure_templates = t1.failure_templates
    /\ FailedIds(tracker) \subseteq FailedIds(t2)
    /\ Spreads(t1, t2, roots, kids)
    /\ ReportComplete(tracker) => ReportComplete(t1)
    /\ \/ /\ kids = ToSet(Children[b])
          /\ \A ops \in SUBSET Operations : FailedBlocks(t1, ops) = FailedBlocks(tracker, ops)
       \/ /\ kids = {}
          /\ \A ops \in SUBSET Operations :
                FailedBlocks(t1, ops) = FailedBlocks(tracker, ops)
                   \cup (IF "DecodeSourceBlock" \in ops THEN {b} ELSE {})

\* decode_source_block and remember_children, as SingleLearns says.
LEMMA SingleReadEffect ==
    ASSUME CopyTaskInv, ReportTypes, ReadAndDecode
    PROVE  \E b, t1, t2, roots, kids : SingleLearns(b, t1, t2, roots, kids)
  <1>1. current \in Blocks \X Blocks /\ tracker \in Trackers
    BY DEF ReadAndDecode, ReportTypes, WalkEnded
  <1>2. PICK b, t, t2 : b = Block /\ t = tracker /\ t2 = tracker'
    OBVIOUS
  <1>3. b \in Blocks /\ t \in Trackers
    BY <1>1, <1>2 DEF Block
  <1>4. PICK roots : roots = t.block_roots[b]
    OBVIOUS
  <1>5. roots \in SUBSET Blocks
    BY <1>3, <1>4 DEF Trackers
  <1>6. CASE children' = Children[Block] /\ tracker' = RememberChildren(tracker, Block, ToSet(children'))
    <2>1. PICK kids : kids = ToSet(Children[b])
      OBVIOUS
    <2>2. kids \in SUBSET Blocks
      BY <1>3, <2>1, GraphAssumption DEF ToSet
    <2>3. t2 = RememberChildren(t, b, kids) /\ kids = ToSet(children')
      BY <1>2, <1>6, <2>1
    <2>4. PICK t1 \in Trackers :
              /\ t1.block_roots = t.block_roots
              /\ t1.failure_templates = t.failure_templates /\ t1.failures = t.failures
              /\ t1.discovered_children = [t.discovered_children EXCEPT ![b] = kids]
              /\ t2 \in Trackers
              /\ t2.failure_templates = t.failure_templates
              /\ t2.discovered_children = t1.discovered_children
              /\ FailedIds(t) \subseteq FailedIds(t2)
              /\ Spreads(t1, t2, t.block_roots[b], kids)
      BY <1>3, <2>2, <2>3, RememberFacts
    <2>5. ReportComplete(t) => ReportComplete(t1)
      BY <2>4 DEF ReportComplete, TimesRecorded, TimesReported
    <2>6. \A ops \in SUBSET Operations : FailedBlocks(t1, ops) = FailedBlocks(t, ops)
      BY <2>4 DEF FailedBlocks
    <2>7. SingleLearns(b, t1, t2, roots, kids)
      BY <1>2, <1>3, <1>4, <1>5, <2>1, <2>2, <2>3, <2>4, <2>5, <2>6 DEF SingleLearns
    <2> QED BY <2>7
  <1>7. CASE /\ children' = <<>>
             /\ tracker' = RememberChildren(Record(tracker, Block, "DecodeSourceBlock"), Block, {})
    <2>1. PICK u, none, one, operation : /\ u = RecordEach(t, one, operation)
                                         /\ none = {} /\ one = {b} /\ operation = "DecodeSourceBlock"
      OBVIOUS
    <2>2. none \in SUBSET Blocks /\ one \in SUBSET Blocks /\ operation \in Operations
      BY <1>3, <2>1 DEF Operations
    <2>3. t2 = RememberChildren(u, b, none)
      BY <1>2, <1>7, <2>1 DEF Record
    <2>4. u = RecordEach(t, one, operation)
      BY <2>1
    <2>17. u \in Trackers /\ FailedIds(t) \subseteq FailedIds(u)
      BY <1>3, <2>2, <2>4, RecordEachFacts
    <2>5. /\ u \in Trackers
          /\ u.block_roots = t.block_roots
          /\ u.discovered_children = t.discovered_children
          /\ FailedIds(t) \subseteq FailedIds(u)
      BY <1>3, <2>2, <2>4, <2>17, RecordEachFacts
    <2>6. PICK t1 \in Trackers :
              /\ t1.block_roots = u.block_roots
              /\ t1.failure_templates = u.failure_templates /\ t1.failures = u.failures
              /\ t1.discovered_children = [u.discovered_children EXCEPT ![b] = none]
              /\ t2 \in Trackers
              /\ t2.failure_templates = u.failure_templates
              /\ t2.discovered_children = t1.discovered_children
              /\ FailedIds(u) \subseteq FailedIds(t2)
              /\ Spreads(t1, t2, u.block_roots[b], none)
      BY <1>3, <2>2, <2>3, <2>5, RememberFacts
    <2>7. ReportComplete(t) => ReportComplete(u)
      BY <1>3, <2>2, <2>4, RecordReports
    <2>8. ReportComplete(u) => ReportComplete(t1)
      BY <2>6 DEF ReportComplete, TimesRecorded, TimesReported
    <2>9. \A ops \in SUBSET Operations :
             FailedBlocks(u, ops) = FailedBlocks(t, ops) \cup (IF operation \in ops THEN one ELSE {})
      BY <1>3, <2>2, <2>4, RecordedBlocks
    <2>10. \A ops \in SUBSET Operations : FailedBlocks(t1, ops) = FailedBlocks(u, ops)
      BY <2>6 DEF FailedBlocks
    <2>11. none = ToSet(children')
      BY <1>7, <2>1 DEF ToSet
    <2>12. \A ops \in SUBSET Operations :
              FailedBlocks(t1, ops) = FailedBlocks(t, ops)
                 \cup (IF "DecodeSourceBlock" \in ops THEN {b} ELSE {})
      BY <2>1, <2>9, <2>10
    <2>13. none = {}
      BY <2>1
    <2>14. t1.discovered_children = [t.discovered_children EXCEPT ![b] = none] /\ u.block_roots[b] = roots
      BY <1>4, <2>5, <2>6
    <2>15. FailedIds(t) \subseteq FailedIds(t2) /\ (ReportComplete(t) => ReportComplete(t1))
      BY <2>5, <2>6, <2>7, <2>8
    <2>16. SingleLearns(b, t1, t2, roots, none)
      BY <1>2, <1>3, <1>4, <1>5, <2>2, <2>5, <2>6, <2>11, <2>12, <2>13, <2>14, <2>15 DEF SingleLearns
    <2> QED BY <2>16
  <1> QED BY <1>6, <1>7 DEF ReadAndDecode

-----------------------------------------------------------------------------
(* What a step of the copy does to the places of the blocks. *)

\* The places, the failed and the stored blocks after a step, and the counters.
SetsNext(h, b, p, f, w, l, d, v) ==
    /\ Handled' = h /\ Buffered' = b /\ Published' = p /\ InFlight' = f /\ Written' = w
    /\ Lost' = l /\ destination' = d /\ visited' = v
CountsNext(c, s) ==
    copied_block_count' = c /\ skipped_already_present_block_count' = s
CountsKept == CountsNext(copied_block_count, skipped_already_present_block_count)

\* Nothing moves; at most the block in hand is found to be missing.
Kept ==
    /\ SetsNext(Handled, Buffered, Published, InFlight, Written, Lost, destination, visited)
    /\ CountsKept /\ (~blind_write => Checked' \cap Stored = {})

\* An interrupt discards what is buffered.
Discarded ==
    /\ SetsNext(Handled, {}, Published, InFlight, Written, Lost, destination, visited)
    /\ CountsKept /\ Checked' = Checked /\ Cut'

\* The walk takes a block it has not visited.
Began(b) ==
    /\ SetsNext({b}, Buffered, Published, InFlight, Written, Lost, destination, visited \cup {b})
    /\ CountsKept /\ Checked' = {} /\ Handled = {} /\ b \notin visited

\* It drops the block in hand, because that failed or is stored already.
Left(b) ==
    /\ Handled = {b} /\ Checked = {} /\ Checked' = {}
    /\ \/ /\ SetsNext({}, Buffered, Published, InFlight, Written, Lost \cup {b}, destination, visited)
          /\ CountsKept
       \/ /\ SetsNext({}, Buffered, Published, InFlight, Written, Lost, destination, visited)
          /\ CountsNext(copied_block_count, skipped_already_present_block_count + 1)
          /\ b \in destination

\* It buffers the block in hand.
Pushed(b) ==
    /\ Handled = {b} /\ Checked = {b} /\ Checked' = {}
    /\ SetsNext({}, Buffered \cup {b}, Published, InFlight, Written, Lost, destination, visited)
    /\ CountsKept

\* The buffer becomes a publication, and the publication a future.
Flushed ==
    /\ Published = {} /\ Checked' = Checked
    /\ SetsNext(Handled, {}, Buffered, InFlight, Written, Lost, destination, visited)
    /\ CountsKept
Enqueued ==
    /\ Checked' = Checked
    /\ SetsNext(Handled, Buffered, {}, InFlight \cup Published, Written, Lost, destination, visited)
    /\ CountsKept

\* A job of a publication is written, and a publication has its last result.
PutOne(j) ==
    /\ j \in InFlight /\ Checked' = Checked
    /\ SetsNext(Handled, Buffered, Published, InFlight, Written \cup {j}, Lost,
                destination \cup {j}, visited)
    /\ CountsKept
Finished(J, O) ==
    /\ O \subseteq J /\ J \subseteq InFlight /\ Written \cap J \subseteq O /\ Checked' = Checked
    /\ IsFiniteSet(J)
    /\ SetsNext(Handled, Buffered, Published, InFlight \ J, Written \ J, Lost \cup (J \ O),
                destination \cup O, visited)
    /\ CountsNext(copied_block_count + (IF blind_write THEN 0 ELSE Cardinality(O)),
                  skipped_already_present_block_count)

Moved ==
    \/ Kept \/ Discarded \/ Flushed \/ Enqueued
    \/ \E b \in Blocks : Began(b) \/ Left(b) \/ Pushed(b) \/ PutOne(b)
    \/ \E J, O \in SUBSET Blocks : Finished(J, O)

\* What is not the failures' templates does not change what failed.
LEMMA TemplatesKept ==
    ASSUME tracker'.failure_templates = tracker.failure_templates
    PROVE  Lost' = Lost /\ Unread' = Unread /\ Undecoded' = Undecoded
  BY DEF Lost, Unread, Undecoded, FailedBlocks

\* A recorded failure, by operation.
LEMMA FailureRecorded ==
    ASSUME ReportTypes, NEW X \in SUBSET Blocks, NEW operation \in Operations,
           tracker' = RecordEach(tracker, X, operation)
    PROVE  /\ operation \in LosingOperations => Lost' = Lost \cup X
           /\ operation \notin LosingOperations => Lost' = Lost
           /\ operation = "ReadSourceBlock" => Unread' = Unread \cup X
           /\ operation # "ReadSourceBlock" => Unread' = Unread
           /\ operation \in {"ReadSourceBlock", "DecodeSourceBlock"} => Undecoded' = Undecoded \cup X
           /\ operation \notin {"ReadSourceBlock", "DecodeSourceBlock"} => Undecoded' = Undecoded
  <1>1. tracker \in Trackers
    BY DEF ReportTypes
  <1>2. PICK A \in SUBSET Operations : A = LosingOperations
    BY DEF LosingOperations, Operations
  <1>3. PICK B \in SUBSET Operations : B = {"ReadSourceBlock"}
    BY DEF Operations
  <1>4. PICK C \in SUBSET Operations : C = {"ReadSourceBlock", "DecodeSourceBlock"}
    BY DEF Operations
  <1>5. \A S \in SUBSET Operations :
           FailedBlocks(tracker', S) = FailedBlocks(tracker, S) \cup (IF operation \in S THEN X ELSE {})
    BY <1>1, RecordedBlocks
  <1>6. Lost' = FailedBlocks(tracker', A) /\ Lost = FailedBlocks(tracker, A)
    BY <1>2 DEF Lost, LosingOperations
  <1>7. Unread' = FailedBlocks(tracker', B) /\ Unread = FailedBlocks(tracker, B)
    BY <1>3 DEF Unread
  <1>8. Undecoded' = FailedBlocks(tracker', C) /\ Undecoded = FailedBlocks(tracker, C)
    BY <1>4 DEF Undecoded
  <1>9. /\ operation \in LosingOperations => Lost' = Lost \cup X
        /\ operation \notin LosingOperations => Lost' = Lost
    BY <1>2, <1>5, <1>6
  <1>10. /\ operation = "ReadSourceBlock" => Unread' = Unread \cup X
         /\ operation # "ReadSourceBlock" => Unread' = Unread
    <2>1. Unread' = Unread \cup (IF operation \in B THEN X ELSE {})
      BY <1>5, <1>7
    <2>2. operation \in B <=> operation = "ReadSourceBlock"
      BY <1>3
    <2> QED BY <2>1, <2>2
  <1>11. /\ operation \in C => Undecoded' = Undecoded \cup X
         /\ operation \notin C => Undecoded' = Undecoded
    BY <1>5, <1>8
  <1> QED BY <1>4, <1>9, <1>10, <1>11

\* The lists and the futures that a step leaves alone keep their blocks.
LEMMA ListsKept ==
    /\ buffered' = buffered => Buffered' = Buffered
    /\ publication' = publication => Published' = Published
    /\ pending' = pending => InFlight' = InFlight /\ Written' = Written
  BY DEF Buffered, Published, InFlight, Written

\* Between two blocks nothing is in hand.
LEMMA PopMoves ==
    ASSUME CopyTaskInv, ReportInv, Pop
    PROVE  Moved /\ EachOnce'
  <1>1. /\ queue \in Seq(Blocks \X Blocks) /\ queue # <<>> /\ pc = "pop"
        /\ current' = Head(queue)
        /\ UNCHANGED <<publication, resume, pending, destination, blind_write, copied_block_count,
                       skipped_already_present_block_count, interrupted>>
    BY DEF CopyTaskInv, SingleTypes, Pop, flightVars, countVars, storeVars, bufferVars,
           BreakDiscarding
  <1>2. Head(queue) \in Blocks \X Blocks
    BY <1>1
  <1>3. Block' \in Blocks /\ Head(queue)[1] \in Blocks /\ Block' = Head(queue)[2]
    BY <1>1, <1>2 DEF Block
  <1>4. Handled = {} /\ Checked = {}
    BY <1>1 DEF Handled, InHand, Checked
  <1>5. CASE interrupted
    <2>1. buffered' = <<>> /\ pc' = "final_flush" /\ tracker' = tracker /\ visited' = visited
      BY <1>5 DEF Pop, BreakDiscarding
    <2>2. Handled' = {} /\ Checked' = {} /\ Cut'
      BY <1>1, <1>5, <2>1 DEF Handled, InHand, Checked, Cut
    <2>3. Buffered' = {} /\ Distinct(buffered')
      BY <2>1, NoJobs DEF Buffered
    <2>4. Lost' = Lost
      BY <2>1, TemplatesKept
    <2>5. Discarded
      BY <1>1, <1>4, <2>1, <2>2, <2>3, <2>4, ListsKept DEF Discarded, SetsNext, CountsNext, CountsKept
    <2> QED BY <1>1, <2>3, <2>5 DEF Moved, ReportInv, EachOnce
  <1>6. CASE ~interrupted
    <2>1. /\ tracker' = NoteBlockRoot(tracker, Head(queue)[1], Head(queue)[2])
          /\ visited' = visited \cup {Block'} /\ buffered' = buffered
          /\ pc' = IF Block' \in visited THEN "pop" ELSE "read"
      BY <1>3, <1>6 DEF Pop, bufferVars
    <2>2. tracker'.failure_templates = tracker.failure_templates
      BY <1>6, PopNotes DEF ReportInv, Notes
    <2>3. Lost' = Lost
      BY <2>2, TemplatesKept
    <2>4. EachOnce'
      BY <1>1, <2>1 DEF ReportInv, EachOnce
    <2>5. CASE Block' \in visited
      <3>1. pc' = "pop" /\ visited' = visited
        BY <2>1, <2>5
      <3>2. Handled' = {} /\ Checked' = {}
        BY <3>1 DEF Handled, InHand, Checked
      <3>3. Kept
        BY <1>1, <1>4, <2>1, <2>3, <3>1, <3>2, ListsKept DEF Kept, SetsNext, CountsNext, CountsKept
      <3> QED BY <2>4, <3>3 DEF Moved
    <2>6. CASE Block' \notin visited
      <3>1. pc' = "read"
        BY <2>1, <2>6
      <3>2. Handled' = {Block'} /\ Checked' = {}
        BY <3>1 DEF Handled, InHand, Checked
      <3>3. Began(Block')
        BY <1>1, <1>4, <2>1, <2>3, <2>6, <3>2, ListsKept DEF Began, SetsNext, CountsNext, CountsKept
      <3> QED BY <1>3, <2>4, <3>3 DEF Moved
    <2> QED BY <2>5, <2>6
  <1> QED BY <1>5, <1>6

\* Steps that only move the program counter or the tracker.
LEMMA WalkMoves ==
    ASSUME CopyTaskInv, ReportInv,
           \/ PopEnds \/ ReadFails \/ ReadAndDecode \/ CheckDestination \/ EnqueueChildren
           \/ AfterBuffering \/ Compact \/ Return \/ OperatorInterrupt \/ UNCHANGED singleVars
    PROVE  Moved /\ EachOnce'
  <1>1. /\ UNCHANGED <<current, visited, buffered, publication, resume, pending, destination,
                       blind_write, copied_block_count>>
        /\ EachOnce'
    BY DEF PopEnds, ReadFails, ReadAndDecode, CheckDestination, EnqueueChildren, AfterBuffering,
           Compact, Return, OperatorInterrupt, singleVars, walkVars, bufferVars, flightVars,
           countVars, storeVars, ReportInv, EachOnce
  <1>2. Buffered' = Buffered /\ Published' = Published /\ InFlight' = InFlight /\ Written' = Written
    BY <1>1, ListsKept
  <1>3. tracker \in Trackers /\ (pc = "pop" \/ WalkEnded \/ (current \in Blocks \X Blocks /\ Block \in visited))
    BY DEF ReportInv, ReportTypes
  <1>4. CASE PopEnds \/ EnqueueChildren \/ AfterBuffering \/ Return \/ OperatorInterrupt \/ UNCHANGED singleVars
    <2>1. tracker' = tracker /\ UNCHANGED <<skipped_already_present_block_count>>
      BY <1>4 DEF PopEnds, EnqueueChildren, AfterBuffering, Return, OperatorInterrupt, singleVars,
                  countVars
    <2>2. Handled' = Handled /\ Checked' = Checked
      BY <1>1, <1>4 DEF PopEnds, EnqueueChildren, AfterBuffering, Return, OperatorInterrupt,
         singleVars, Handled, InHand, Checked, Block
    <2>3. Lost' = Lost
      BY <2>1, TemplatesKept
    <2>4. ~blind_write => Checked' \cap Stored = {}
      BY <2>2 DEF ReportInv, AddedOnce
    <2>5. Kept
      BY <1>1, <1>2, <2>1, <2>2, <2>3, <2>4 DEF Kept, SetsNext, CountsNext, CountsKept
    <2> QED BY <1>1, <2>5 DEF Moved
  <1>5. CASE Compact
    <2>1. pc = "compact" /\ pc' \in {"enqueue", "final_flush"} /\ UNCHANGED skipped_already_present_block_count
      BY <1>5 DEF Compact, countVars
    <2>2. tracker'.failure_templates = tracker.failure_templates
      <3>1. CASE tracker' = tracker
        BY <3>1
      <3>2. CASE tracker' = RecordStoreFailure(tracker, ToSet(RootIds), "CompactDestinationStore")
        BY <3>2 DEF RecordStoreFailure
      <3> QED BY <1>5, <3>1, <3>2 DEF Compact
    <2>3. Handled' = Handled /\ Checked' = {}
      BY <2>1 DEF Handled, InHand, Checked
    <2>4. Lost' = Lost
      BY <2>2, TemplatesKept
    <2>5. Kept
      BY <1>1, <1>2, <2>1, <2>3, <2>4 DEF Kept, SetsNext, CountsNext, CountsKept
    <2> QED BY <1>1, <2>5 DEF Moved
  <1>6. CASE ReadFails
    <2>1. /\ pc = "read" /\ pc' = "pop" /\ tracker' = RecordEach(tracker, {Block}, "ReadSourceBlock")
          /\ UNCHANGED skipped_already_present_block_count
      BY <1>6 DEF ReadFails, countVars, Record
    <2>2. Block \in Blocks
      BY <1>3, <2>1 DEF WalkEnded, Block
    <2>3. Lost' = Lost \cup {Block}
      <3>1. "ReadSourceBlock" \in Operations /\ "ReadSourceBlock" \in LosingOperations
        BY DEF Operations, LosingOperations
      <3>2. {Block} \in SUBSET Blocks
        BY <2>2
      <3> QED BY <2>1, <3>1, <3>2, FailureRecorded DEF ReportInv
    <2>4. Handled = {Block} /\ Handled' = {} /\ Checked = {} /\ Checked' = {}
      BY <2>1 DEF Handled, InHand, Checked
    <2>5. Left(Block)
      BY <1>1, <1>2, <2>1, <2>3, <2>4 DEF Left, SetsNext, CountsNext, CountsKept
    <2> QED BY <1>1, <2>2, <2>5 DEF Moved
  <1>7. CASE ReadAndDecode
    <2>1. /\ pc = "read" /\ pc' = IF blind_write THEN "buffer" ELSE "destination"
          /\ UNCHANGED skipped_already_present_block_count
      BY <1>7 DEF ReadAndDecode
    <2>2. current \in Blocks \X Blocks /\ Block \in Blocks
      BY <1>3, <2>1 DEF WalkEnded, Block
    <2>3. Lost' = Lost
      <3>1. PICK b, t1, t2, roots, kids : SingleLearns(b, t1, t2, roots, kids)
        BY <1>7, SingleReadEffect DEF ReportInv
      <3>2. PICK A \in SUBSET Operations : A = LosingOperations
        BY DEF LosingOperations, Operations
      <3>3. "DecodeSourceBlock" \notin A
        BY <3>2 DEF LosingOperations
      <3>4. FailedBlocks(t1, A) = FailedBlocks(tracker, A)
        BY <3>1, <3>3 DEF SingleLearns
      <3>5. FailedBlocks(tracker', A) = FailedBlocks(t1, A)
        BY <3>1 DEF SingleLearns, FailedBlocks
      <3> QED BY <3>2, <3>4, <3>5 DEF Lost, LosingOperations
    <2>4. Handled = {Block} /\ Handled' = {Block} /\ (~blind_write => Checked' = {})
      BY <1>1, <2>1 DEF Handled, InHand, Checked, Block
    <2>5. Kept
      BY <1>1, <1>2, <2>1, <2>3, <2>4 DEF Kept, SetsNext, CountsNext, CountsKept
    <2> QED BY <1>1, <2>5 DEF Moved
  <1>8. CASE CheckDestination
    <2>1. pc = "destination"
      BY <1>8 DEF CheckDestination
    <2>2. Block \in Blocks
      BY <1>3, <2>1 DEF WalkEnded, Block
    <2>3. Handled = {Block} /\ Checked = {}
      BY <2>1 DEF Handled, InHand, Checked
    <2>4. pc' = "enqueue" => Handled' = {} /\ Checked' = {}
      BY DEF Handled, InHand, Checked
    <2>6. CASE pc' = "enqueue" /\ Block \in destination /\ tracker' = tracker
               /\ skipped_already_present_block_count' = skipped_already_present_block_count + 1
      <3>1. Left(Block)
        BY <1>1, <1>2, <2>3, <2>4, <2>6, TemplatesKept DEF Left, SetsNext, CountsNext, CountsKept
      <3> QED BY <1>1, <2>2, <3>1 DEF Moved
    <2>7. CASE pc' = "buffer" /\ Block \notin destination /\ tracker' = tracker
               /\ UNCHANGED skipped_already_present_block_count
      <3>1. Handled' = {Block} /\ Checked' = {Block}
        BY <1>1, <2>7 DEF Handled, InHand, Checked, Block
      <3>2. Block \notin Stored
        BY <2>7 DEF ReportInv, ReportTypes
      <3>3. Kept
        BY <1>1, <1>2, <2>3, <2>7, <3>1, <3>2, TemplatesKept DEF Kept, SetsNext, CountsNext, CountsKept
      <3> QED BY <1>1, <3>3 DEF Moved
    <2>8. CASE pc' = "enqueue" /\ tracker' = RecordEach(tracker, {Block}, "CheckDestinationBlock")
               /\ UNCHANGED skipped_already_present_block_count
      <3>1. "CheckDestinationBlock" \in Operations /\ "CheckDestinationBlock" \in LosingOperations
        BY DEF Operations, LosingOperations
      <3>2. {Block} \in SUBSET Blocks
        BY <2>2
      <3>3. Lost' = Lost \cup {Block}
        BY <2>8, <3>1, <3>2, FailureRecorded DEF ReportInv
      <3>4. Left(Block)
        BY <1>1, <1>2, <2>3, <2>4, <2>8, <3>3 DEF Left, SetsNext, CountsNext, CountsKept
      <3> QED BY <1>1, <2>2, <3>4 DEF Moved
    <2> QED BY <1>8, <2>6, <2>7, <2>8 DEF CheckDestination, Record
  <1> QED BY <1>4, <1>5, <1>6, <1>7, <1>8

\* flush_buffered_destination_writes.
LEMMA FlushMoves ==
    ASSUME CopyTaskInv, ReportInv, NEW after, Flush(after),
           pc \notin {"capacity", "read", "destination"},
           after \in {"push", "push_last", "buffered", "checkpoint_drain", "final_drain"},
           InHand <=> after \in {"push", "push_last"},
           UNCHANGED <<current, visited, tracker, countVars, destination, blind_write>>
    PROVE  Moved /\ EachOnce'
  <1>1. Lost' = Lost /\ CountsKept
    BY TemplatesKept DEF CountsKept, CountsNext, countVars
  <1>2. Checked = Handled /\ Block' = Block
    BY DEF Checked, Block
  <1>3. publication = <<>> /\ Published = {}
    BY NoJobs DEF CopyTaskInv, EmptiedAt, Published
  <1>4. CASE buffered = <<>>
    <2>1. pc' = after /\ UNCHANGED <<buffered, publication, resume, pending>>
      BY <1>4 DEF Flush, bufferVars, flightVars
    <2>2. InHand' <=> after \in {"push", "push_last"}
      BY <2>1 DEF InHand
    <2>3. Handled' = Handled /\ Checked' = Checked
      BY <1>2, <2>1, <2>2 DEF Handled, Checked
    <2>4. ~blind_write => Checked' \cap Stored = {}
      BY <2>3 DEF ReportInv, AddedOnce
    <2>5. Kept
      BY <1>1, <2>1, <2>3, <2>4, ListsKept DEF Kept, SetsNext
    <2> QED BY <2>1, <2>5 DEF Moved, ReportInv, EachOnce
  <1>5. CASE buffered # <<>>
    <2>1. /\ pc' = "capacity" /\ resume' = after /\ publication' = buffered /\ buffered' = <<>>
          /\ pending' = pending
      BY <1>5 DEF Flush
    <2>2. InHand' <=> after \in {"push", "push_last"}
      BY <2>1 DEF InHand
    <2>3. Handled' = Handled /\ Checked' = Checked
      BY <1>2, <2>1, <2>2 DEF Handled, Checked
    <2>4. Buffered' = {} /\ Published' = Buffered /\ InFlight' = InFlight /\ Written' = Written
      BY <2>1, NoJobs, ListsKept DEF Buffered, Published
    <2>5. Flushed
      BY <1>1, <1>3, <2>3, <2>4 DEF Flushed, SetsNext
    <2> QED BY <2>1, <2>5, NoJobs DEF Moved, ReportInv, EachOnce
  <1> QED BY <1>4, <1>5

\* A block is about to be buffered; the buffer may have to make room.
LEMMA BufferMoves ==
    ASSUME CopyTaskInv, ReportInv, BufferJob \/ FlushBuffered
    PROVE  Moved /\ EachOnce'
  <1>1. UNCHANGED <<current, visited, tracker, countVars, destination, blind_write>>
    BY DEF BufferJob, FlushBuffered, walkVars, storeVars
  <1>2. CASE BufferJob
    <2>1. pc = "buffer" /\ InHand
      BY <1>2 DEF BufferJob, InHand
    <2>2. \/ \E after \in {"push", "push_last"} : Flush(after)
          \/ pc' \in {"push", "push_last"} /\ UNCHANGED <<bufferVars, flightVars>>
      BY <1>2 DEF BufferJob
    <2>3. ASSUME NEW after \in {"push", "push_last"}, Flush(after) PROVE Moved /\ EachOnce'
      <3>1. after \in {"push", "push_last", "buffered", "checkpoint_drain", "final_drain"}
        OBVIOUS
      <3> QED BY <1>1, <2>1, <2>3, <3>1, FlushMoves
    <2>4. CASE pc' \in {"push", "push_last"} /\ UNCHANGED <<bufferVars, flightVars>>
      <3>1. UNCHANGED <<buffered, publication, pending>>
        BY <2>4 DEF bufferVars, flightVars
      <3>2. Handled' = Handled /\ Checked' = Checked
        BY <1>1, <2>1, <2>4 DEF Handled, InHand, Checked, Block
      <3>3. ~blind_write => Checked' \cap Stored = {}
        BY <3>2 DEF ReportInv, AddedOnce
      <3>4. Lost' = Lost /\ CountsKept
        BY <1>1, TemplatesKept DEF CountsKept, CountsNext, countVars
      <3>5. Kept
        BY <1>1, <3>1, <3>2, <3>3, <3>4, ListsKept DEF Kept, SetsNext
      <3> QED BY <3>1, <3>5 DEF Moved, ReportInv, EachOnce
    <2> QED BY <2>2, <2>3, <2>4
  <1>3. CASE FlushBuffered
    <2>1. /\ pc \in {"flush_full", "checkpoint_flush", "final_flush"}
          /\ \E after \in {"buffered", "checkpoint_drain", "final_drain"} : Flush(after)
      BY <1>3 DEF FlushBuffered
    <2>2. PICK after \in {"buffered", "checkpoint_drain", "final_drain"} : Flush(after)
      BY <2>1
    <2>3. ~InHand /\ after \notin {"push", "push_last"} /\ pc \notin {"capacity", "read", "destination"}
      BY <2>1 DEF InHand
    <2>4. after \in {"push", "push_last", "buffered", "checkpoint_drain", "final_drain"}
      OBVIOUS
    <2> QED BY <1>1, <2>2, <2>3, <2>4, FlushMoves
  <1> QED BY <1>2, <1>3

\* The block in hand is buffered; what a checkpoint finds interrupted is discarded.
LEMMA PushMoves ==
    ASSUME CopyTaskInv, ReportInv, PushJob \/ CheckpointDrained
    PROVE  Moved /\ EachOnce'
  <1>1. /\ UNCHANGED <<current, visited, tracker, countVars, destination, blind_write, publication, pending>>
    BY DEF PushJob, CheckpointDrained, BreakDiscarding, walkVars, flightVars, bufferVars, storeVars
  <1>2. Lost' = Lost /\ CountsKept
    BY <1>1, TemplatesKept DEF CountsKept, CountsNext, countVars
  <1>3. Published' = Published /\ InFlight' = InFlight /\ Written' = Written
    BY <1>1, ListsKept
  <1>4. CASE PushJob
    <2>1. /\ pc \in {"push", "push_last"} /\ pc' \in {"flush_full", "buffered"}
          /\ buffered' = Append(buffered, Block)
      BY <1>4 DEF PushJob
    <2>2. Handled = {Block} /\ Checked = {Block} /\ Handled' = {} /\ Checked' = {}
      BY <2>1 DEF Handled, InHand, Checked
    <2>3. buffered \in Seq(Blocks) /\ Block \in Blocks
      BY <2>1 DEF CopyTaskInv, SingleTypes, Block
    <2>4. Block \notin Buffered /\ Distinct(buffered)
      BY <2>2 DEF ReportInv, PlacesApart, EachOnce
    <2>5. Buffered' = Buffered \cup {Block} /\ Distinct(buffered')
      BY <2>1, <2>3, <2>4, JobsAppend DEF Buffered
    <2>6. Pushed(Block)
      BY <1>1, <1>2, <1>3, <2>2, <2>5 DEF Pushed, SetsNext
    <2> QED BY <1>1, <2>3, <2>5, <2>6 DEF Moved, ReportInv, EachOnce
  <1>5. CASE CheckpointDrained
    <2>1. pc = "checkpoint_drain" /\ UNCHANGED interrupted
      BY <1>5 DEF CheckpointDrained
    <2>2. Handled = {} /\ Checked = {}
      BY <2>1 DEF Handled, InHand, Checked
    <2>3. CASE interrupted
      <3>1. buffered' = <<>> /\ pc' = "final_flush"
        BY <1>5, <2>3 DEF CheckpointDrained, BreakDiscarding
      <3>2. Handled' = {} /\ Checked' = {} /\ Cut'
        BY <2>1, <2>3, <3>1 DEF Handled, InHand, Checked, Cut
      <3>3. Buffered' = {} /\ Distinct(buffered')
        BY <3>1, NoJobs DEF Buffered
      <3>4. Discarded
        BY <1>1, <1>2, <1>3, <2>2, <3>2, <3>3 DEF Discarded, SetsNext
      <3> QED BY <1>1, <3>3, <3>4 DEF Moved, ReportInv, EachOnce
    <2>4. CASE ~interrupted
      <3>1. buffered' = buffered /\ pc' = "compact"
        BY <1>5, <2>4 DEF CheckpointDrained, bufferVars
      <3>2. Handled' = {} /\ Checked' = {}
        BY <3>1 DEF Handled, InHand, Checked
      <3>3. Kept
        BY <1>1, <1>2, <1>3, <2>2, <3>1, <3>2, ListsKept DEF Kept, SetsNext
      <3> QED BY <1>1, <3>1, <3>3 DEF Moved, ReportInv, EachOnce
    <2> QED BY <2>3, <2>4
  <1> QED BY <1>4, <1>5

\* The publication becomes a future.
LEMMA EnqueueMoves ==
    ASSUME CopyTaskInv, ReportInv, EnqueueBatch
    PROVE  Moved /\ EachOnce'
  <1>1. /\ UNCHANGED <<current, visited, tracker, countVars, destination, blind_write, buffered, resume>>
        /\ pc = "capacity" /\ pc' = resume /\ publication' = <<>>
    BY DEF EnqueueBatch, walkVars, storeVars
  <1>2. resume \in {"push", "push_last", "buffered", "checkpoint_drain", "final_drain"}
    BY DEF CopyTaskInv, SingleTypes
  <1>3. InHand' <=> InHand
    BY <1>1, <1>2 DEF InHand
  <1>4. Handled' = Handled /\ Checked' = Checked
    BY <1>1, <1>2, <1>3 DEF Handled, Checked, Block
  <1>5. Lost' = Lost /\ CountsKept
    BY <1>1, TemplatesKept DEF CountsKept, CountsNext, countVars
  <1>6. PICK p : p = [jobs |-> publication, at |-> "new", results |-> <<>>]
    OBVIOUS
  <1>7. pending' = Append(pending, p)
    BY <1>6 DEF EnqueueBatch
  <1>8. p \in Publications /\ p.results = <<>> /\ p.jobs = publication
    <2>1. publication \in Seq(Blocks) /\ <<>> \in Seq(BOOLEAN)
      BY DEF CopyTaskInv, SingleTypes
    <2> QED BY <1>6, <2>1 DEF Publications
  <1>9. JobsOf(p) = Published /\ Published \cap InFlight = {} /\ Distinct(p.jobs) /\ ApartIn(pending)
    BY <1>8 DEF JobsOf, Published, ReportInv, PlacesApart, EachOnce
  <1>10. pending \in Seq(Publications)
    BY DEF CopyTaskInv, SingleTypes
  <1>11. /\ FlightOf(pending') = FlightOf(pending) \cup JobsOf(p)
         /\ WrittenIn(pending') = WrittenIn(pending) /\ ApartIn(pending')
    BY <1>7, <1>8, <1>9, <1>10, FlightAppend DEF InFlight
  <1>12. InFlight' = InFlight \cup Published /\ Written' = Written
    BY <1>9, <1>11 DEF InFlight, Written
  <1>13. Published' = {} /\ Distinct(publication')
    BY <1>1, NoJobs DEF Published
  <1>14. Enqueued
    BY <1>1, <1>4, <1>5, <1>12, <1>13, ListsKept DEF Enqueued, SetsNext
  <1> QED BY <1>1, <1>11, <1>13, <1>14 DEF Moved, ReportInv, EachOnce

\* What does not touch the walk, the buffer and the counters of a write.
WaitFrame ==
    /\ pc \in {"capacity", "checkpoint_drain", "final_drain"}
    /\ UNCHANGED <<pc, resume, current, visited, buffered, publication, blind_write>>

\* The futures: what the invariant says of them.
LEMMA FlightFacts ==
    ASSUME CopyTaskInv, ReportInv
    PROVE  /\ pending \in Seq(Publications) /\ ApartIn(pending)
           /\ \A i \in 1..Len(pending) :
                 /\ pending[i] \in Publications
                 /\ Len(pending[i].results) < Len(pending[i].jobs)
           /\ Written \subseteq destination
  <1>1. pending \in Seq(Publications) /\ \A i \in 1..Len(pending) : Len(pending[i].results) < Len(pending[i].jobs)
    BY DEF CopyTaskInv, SingleTypes, JobsRemain
  <1>2. \A i \in 1..Len(pending) : pending[i] \in Publications
    BY <1>1
  <1>3. ApartIn(pending)
    BY DEF ReportInv, EachOnce
  <1>4. Written \subseteq destination
    BY DEF ReportInv, AddedOnce, ReportTypes, Added
  <1> QED BY <1>1, <1>2, <1>3, <1>4

\* The jobs of a list are finitely many blocks.
LEMMA JobsType ==
    ASSUME NEW s \in Seq(Blocks)
    PROVE  JobsIn(s) \subseteq Blocks /\ IsFiniteSet(JobsIn(s))
  <1>1. PICK n \in Nat : n = Len(s)
    OBVIOUS
  <1>2. JobsIn(s) = {s[k] : k \in 1..n}
    BY <1>1 DEF JobsIn
  <1>3. JobsIn(s) \subseteq Blocks
    BY <1>1, <1>2
  <1>4. CASE Blocks = {}
    BY <1>3, <1>4, FS_EmptySet
  <1>5. CASE Blocks # {}
    BY <1>3, <1>5, JobsAppend
  <1> QED BY <1>3, <1>4, <1>5

\* A publication that comes further without a result.
LEMMA ProgressMoves ==
    ASSUME CopyTaskInv, ReportInv, WaitFrame,
           NEW i \in 1..Len(pending), NEW q \in Publications, pending' = [pending EXCEPT ![i] = q],
           q.jobs = pending[i].jobs, q.results = pending[i].results,
           q.at # "one_by_one" => q.results = <<>>,
           UNCHANGED <<tracker, countVars, destination>>
    PROVE  Moved /\ EachOnce'
  <1>1. /\ FlightOf(pending') = FlightOf(pending) /\ ApartIn(pending')
        /\ WrittenIn(pending') = (WrittenIn(pending) \ JobsOf(pending[i])) \cup WrittenOf(q)
    <2>1. PICK s, t : s = pending /\ t = pending'
      OBVIOUS
    <2>2. s \in Seq(Publications) /\ ApartIn(s) /\ \A k \in 1..Len(s) : Len(s[k].results) < Len(s[k].jobs)
      BY <2>1, FlightFacts
    <2>3. i \in 1..Len(s) /\ q.jobs = s[i].jobs /\ t = [s EXCEPT ![i] = q]
      BY <2>1
    <2>4. FlightOf(t) = FlightOf(s)
      BY <2>2, <2>3, FlightReplace
    <2>5. ApartIn(t)
      BY <2>2, <2>3, FlightReplace
    <2>6. WrittenIn(t) = WrittenWith(s, i, q)
      BY <2>2, <2>3, FlightReplace
    <2> QED BY <2>1, <2>4, <2>5, <2>6 DEF WrittenWith
  <1>2. WrittenOf(q) = WrittenOf(pending[i])
    BY DEF WrittenOf
  <1>3. WrittenIn(pending) \cap JobsOf(pending[i]) = WrittenOf(pending[i])
    BY FlightFacts, WrittenAre
  <1>4. InFlight' = InFlight /\ Written' = Written
    BY <1>1, <1>2, <1>3 DEF InFlight, Written
  <1>5. Handled' = Handled /\ Checked' = Checked
    BY DEF WaitFrame, Handled, InHand, Checked, Block
  <1>6. Lost' = Lost /\ CountsKept
    BY TemplatesKept DEF CountsKept, CountsNext, countVars
  <1>7. ~blind_write => Checked' \cap Stored = {}
    BY <1>5 DEF ReportInv, AddedOnce
  <1>8. Kept
    BY <1>4, <1>5, <1>6, <1>7, ListsKept DEF Kept, SetsNext, WaitFrame
  <1> QED BY <1>1, <1>8 DEF Moved, ReportInv, EachOnce, WaitFrame

\* A future is polled for the first time.
LEMMA StartMoves ==
    ASSUME CopyTaskInv, ReportInv, StartPublication
    PROVE  Moved /\ EachOnce'
  <1>1. PICK i \in 1..Len(pending) :
           /\ pending[i].at = "new"
           /\ pending' = [pending EXCEPT ![i].at =
                IF Len(pending[i].jobs) = 1 /\ capability \notin {"Unknown", "Probing"}
                THEN "one_by_one" ELSE "batch"]
    BY DEF StartPublication
  <1>2. PICK at \in {"one_by_one", "batch"} : pending' = [pending EXCEPT ![i].at = at]
    BY <1>1
  <1>3. pending[i] \in Publications /\ pending[i].results = <<>>
    BY <1>1, FlightFacts DEF ApartIn
  <1>4. PICK q : q = [pending[i] EXCEPT !.at = at]
    OBVIOUS
  <1>5. q \in Publications /\ q.jobs = pending[i].jobs /\ q.results = pending[i].results
    BY <1>3, <1>4 DEF Publications
  <1>6. pending' = [pending EXCEPT ![i] = q]
    BY <1>2, <1>4
  <1>7. WaitFrame /\ UNCHANGED <<tracker, countVars, destination>>
    BY DEF StartPublication, Waiting, WaitFrame, walkVars, bufferVars, storeVars
  <1> QED BY <1>3, <1>5, <1>6, <1>7, ProgressMoves

\* record_write_completions.
LEMMA CompletionMoves ==
    ASSUME CopyTaskInv, ReportInv, WaitFrame,
           NEW i \in 1..Len(pending), NEW results \in [1..Len(pending[i].jobs) -> BOOLEAN],
           RecordWriteCompletions(i, results),
           NEW O, O = {pending[i].jobs[k] : k \in {m \in 1..Len(pending[i].jobs) : results[m]}},
           WrittenOf(pending[i]) \subseteq O, destination' = destination \cup O
    PROVE  Moved /\ EachOnce'
  <1>1. PICK jobs, n : jobs = pending[i].jobs /\ n = Len(jobs)
    OBVIOUS
  <1>2. jobs \in Seq(Blocks) /\ n \in Nat /\ results \in [1..n -> BOOLEAN] /\ Distinct(jobs)
    <2>1. pending[i] \in Publications /\ Distinct(pending[i].jobs)
      BY FlightFacts DEF ApartIn
    <2>2. jobs \in Seq(Blocks)
      BY <1>1, <2>1 DEF Publications
    <2> QED BY <1>1, <2>1, <2>2
  <1>3. PICK J : J = JobsOf(pending[i])
    OBVIOUS
  <1>4. J = {jobs[k] : k \in 1..n} /\ IsFiniteSet(J) /\ J \subseteq Blocks
    <2>1. J = JobsIn(jobs)
      BY <1>1, <1>3 DEF JobsOf
    <2>2. J = {jobs[k] : k \in 1..n}
      BY <1>1, <2>1 DEF JobsIn
    <2> QED BY <1>2, <2>1, <2>2, JobsType
  <1>5. O = {jobs[k] : k \in {m \in 1..n : results[m]}} /\ O \subseteq J
    BY <1>1, <1>4
  <1>6. \A k, m \in 1..n : jobs[k] = jobs[m] => k = m
    BY <1>1, <1>2 DEF Distinct
  <1>7. J \ O = {jobs[k] : k \in {m \in 1..n : ~results[m]}}
    <2>1. ASSUME NEW x \in J, x \notin O PROVE x \in {jobs[k] : k \in {m \in 1..n : ~results[m]}}
      <3>1. PICK k \in 1..n : x = jobs[k]
        BY <1>4
      <3>2. ~results[k]
        BY <1>5, <2>1, <3>1
      <3> QED BY <3>1, <3>2
    <2>2. ASSUME NEW k \in 1..n, ~results[k] PROVE jobs[k] \in J /\ jobs[k] \notin O
      BY <1>4, <1>5, <1>6, <2>2
    <2> QED BY <2>1, <2>2
  <1>8. Cardinality({k \in 1..n : results[k]}) = Cardinality(O)
    <2>1. PICK S, D : S = {k \in 1..n : results[k]} /\ D = 1..n
      OBVIOUS
    <2>6. 1 \in Int /\ n \in Int
      BY <1>2
    <2>2. IsFiniteSet(D)
      BY <2>1, <2>6, FS_Interval
    <2>5. S \subseteq D
      BY <2>1
    <2>7. IsFiniteSet(S)
      BY <2>2, <2>5, FS_Subset
    <2>3. IsFiniteSet(S) /\ \A k, m \in S : jobs[k] = jobs[m] => k = m
      BY <1>6, <2>1, <2>7
    <2>4. O = {jobs[k] : k \in S}
      BY <1>5, <2>1
    <2> QED
      <3>1. PICK c, d : c = Cardinality(S) /\ d = Cardinality(O)
        OBVIOUS
      <3>2. d = c
        BY <2>3, <2>4, <3>1, OneToOne
      <3> QED BY <2>1, <3>1, <3>2
  <1>9. /\ pending' = RemoveAt(pending, i)
        /\ copied_block_count' = copied_block_count + (IF blind_write THEN 0 ELSE Cardinality(O))
        /\ skipped_already_present_block_count' = skipped_already_present_block_count
        /\ tracker' = RecordEach(tracker, J \ O, "WriteDestinationBlock")
    <2>1. PICK ones, zeros : /\ ones = {k \in 1..n : results[k]}
                             /\ zeros = {jobs[k] : k \in {m \in 1..n : ~results[m]}}
      OBVIOUS
    <2>2. /\ pending' = RemoveAt(pending, i)
          /\ copied_block_count' = copied_block_count + (IF blind_write THEN 0 ELSE Cardinality(ones))
          /\ skipped_already_present_block_count' = skipped_already_present_block_count
          /\ tracker' = RecordEach(tracker, zeros, "WriteDestinationBlock")
      BY <1>1, <2>1 DEF RecordWriteCompletions
    <2>3. zeros = J \ O /\ Cardinality(ones) = Cardinality(O)
      BY <1>7, <1>8, <2>1
    <2> QED BY <2>2, <2>3
  <1>10. /\ FlightOf(pending') = FlightOf(pending) \ J /\ ApartIn(pending')
         /\ WrittenIn(pending') = WrittenIn(pending) \ J
    <2>1. PICK s, t : s = pending /\ t = pending'
      OBVIOUS
    <2>2. s \in Seq(Publications) /\ ApartIn(s) /\ \A k \in 1..Len(s) : Len(s[k].results) < Len(s[k].jobs)
      BY <2>1, FlightFacts
    <2>3. i \in 1..Len(s) /\ t = RemoveAt(s, i) /\ J = JobsOf(s[i])
      BY <1>3, <1>9, <2>1
    <2>4. FlightOf(t) = FlightOf(s) \ JobsOf(s[i])
      BY <2>2, <2>3, FlightRemove
    <2>5. ApartIn(t)
      BY <2>2, <2>3, FlightRemove
    <2>6. WrittenIn(t) = WrittenIn(s) \ JobsOf(s[i])
      BY <2>2, <2>3, FlightRemove
    <2> QED BY <2>1, <2>3, <2>4, <2>5, <2>6
  <1>11. InFlight' = InFlight \ J /\ Written' = Written \ J
    BY <1>10 DEF InFlight, Written
  <1>12. Lost' = Lost \cup (J \ O)
    <2>1. "WriteDestinationBlock" \in Operations /\ "WriteDestinationBlock" \in LosingOperations
      BY DEF Operations, LosingOperations
    <2>2. PICK X \in SUBSET Blocks : X = J \ O
      BY <1>4
    <2>3. tracker' = RecordEach(tracker, X, "WriteDestinationBlock")
      BY <1>9, <2>2
    <2> QED BY <2>1, <2>2, <2>3, FailureRecorded DEF ReportInv
  <1>13. J \subseteq InFlight /\ Written \cap J \subseteq O
    <2>1. /\ WrittenIn(pending) \cap JobsOf(pending[i]) = WrittenOf(pending[i])
          /\ JobsOf(pending[i]) \subseteq FlightOf(pending)
      BY FlightFacts, WrittenAre
    <2> QED BY <1>3, <2>1 DEF InFlight, Written
  <1>14. Handled' = Handled /\ Checked' = Checked
    BY DEF WaitFrame, Handled, InHand, Checked, Block
  <1>15. Finished(J, O)
    BY <1>4, <1>5, <1>9, <1>11, <1>12, <1>13, <1>14, ListsKept
    DEF Finished, SetsNext, CountsNext, WaitFrame
  <1>16. J \in SUBSET Blocks /\ O \in SUBSET Blocks
    BY <1>4, <1>5
  <1>17. Moved
    BY <1>15, <1>16 DEF Moved
  <1> QED BY <1>10, <1>17 DEF ReportInv, EachOnce, WaitFrame

\* A batch returns, or is refused.
LEMMA BatchMoves ==
    ASSUME CopyTaskInv, ReportInv, BatchReturns
    PROVE  Moved /\ EachOnce'
  <1>1. PICK i \in 1..Len(pending) :
          /\ pending[i].at = "batch"
          /\ \/ \E ok \in BOOLEAN :
                    /\ RecordWriteCompletions(i, [k \in 1..Len(pending[i].jobs) |-> ok])
                    /\ destination' = destination \cup IF ok THEN ToSet(pending[i].jobs) ELSE {}
             \/ /\ pending' = [pending EXCEPT ![i].at = "one_by_one"]
                /\ UNCHANGED <<tracker, destination, countVars>>
    BY DEF BatchReturns
  <1>2. WaitFrame
    BY DEF BatchReturns, Waiting, WaitFrame, walkVars, bufferVars
  <1>3. pending[i] \in Publications /\ pending[i].results = <<>>
    BY <1>1, FlightFacts DEF ApartIn
  <1>4. ASSUME NEW ok \in BOOLEAN,
               RecordWriteCompletions(i, [k \in 1..Len(pending[i].jobs) |-> ok]),
               destination' = destination \cup IF ok THEN ToSet(pending[i].jobs) ELSE {}
        PROVE  Moved /\ EachOnce'
    <2>1. PICK results : results = [k \in 1..Len(pending[i].jobs) |-> ok]
      OBVIOUS
    <2>2. results \in [1..Len(pending[i].jobs) -> BOOLEAN] /\ RecordWriteCompletions(i, results)
      BY <1>4, <2>1
    <2>3. PICK O : O = {pending[i].jobs[k] : k \in {m \in 1..Len(pending[i].jobs) : results[m]}}
      OBVIOUS
    <2>4. pending[i].jobs \in Seq(Blocks)
      BY <1>3 DEF Publications
    <2>5. O = IF ok THEN ToSet(pending[i].jobs) ELSE {}
      <3>1. DOMAIN pending[i].jobs = 1..Len(pending[i].jobs)
        BY <2>4
      <3>2. CASE ok
        BY <2>1, <2>3, <3>1, <3>2 DEF ToSet
      <3>3. CASE ~ok
        BY <2>1, <2>3, <3>3
      <3> QED BY <3>2, <3>3
    <2>6. WrittenOf(pending[i]) \subseteq O
      BY <1>3 DEF WrittenOf
    <2>7. destination' = destination \cup O
      BY <1>4, <2>5
    <2> QED BY <1>2, <2>2, <2>3, <2>6, <2>7, CompletionMoves
  <1>5. CASE /\ pending' = [pending EXCEPT ![i].at = "one_by_one"]
             /\ UNCHANGED <<tracker, destination, countVars>>
    <2>1. PICK q : q = [pending[i] EXCEPT !.at = "one_by_one"]
      OBVIOUS
    <2>2. q \in Publications /\ q.jobs = pending[i].jobs /\ q.results = pending[i].results
      BY <1>3, <2>1 DEF Publications
    <2>3. pending' = [pending EXCEPT ![i] = q]
      BY <1>5, <2>1
    <2> QED BY <1>2, <1>3, <1>5, <2>2, <2>3, ProgressMoves
  <1> QED BY <1>1, <1>4, <1>5

\* Publication q is p with one more result, which wrote the blocks in O.
OneMoreResult(p, q, ok, O) ==
    /\ p.results \in Seq(BOOLEAN) /\ ok \in BOOLEAN
    /\ q.jobs = p.jobs /\ q.results = Append(p.results, ok)
    /\ O = IF ok THEN {p.jobs[Len(p.results) + 1]} ELSE {}

\* The jobs written after one more result.
LEMMA WrittenAppend ==
    ASSUME NEW p, NEW q, NEW ok, NEW O, OneMoreResult(p, q, ok, O)
    PROVE  WrittenOf(q) = WrittenOf(p) \cup O
  <1>0. PICK s, jobs, job :
          /\ s \in Seq(BOOLEAN) /\ ok \in BOOLEAN
          /\ p.jobs = jobs /\ p.results = s /\ q.jobs = jobs /\ q.results = Append(s, ok)
          /\ job = jobs[Len(s) + 1] /\ O = IF ok THEN {job} ELSE {}
    BY DEF OneMoreResult
  <1>1. PICK n \in Nat : n = Len(s)
    BY <1>0
  <1>2. PICK t : t = Append(s, ok)
    OBVIOUS
  <1>3. Len(t) = n + 1 /\ t[n + 1] = ok /\ \A k \in 1..n : t[k] = s[k]
    BY <1>0, <1>1, <1>2
  <1>4. \A k \in 1..(n + 1) : k \in 1..n \/ k = n + 1
    OBVIOUS
  <1>5. (\A k \in 1..n : k \in 1..(n + 1)) /\ n + 1 \in 1..(n + 1)
    OBVIOUS
  <1>6. WrittenOf(p) = {jobs[k] : k \in {m \in 1..n : s[m]}}
    BY <1>0, <1>1 DEF WrittenOf
  <1>7. WrittenOf(q) = {jobs[k] : k \in {m \in 1..(n + 1) : t[m]}}
    BY <1>0, <1>2, <1>3 DEF WrittenOf
  <1>8. ASSUME NEW x \in WrittenOf(q) PROVE x \in WrittenOf(p) \cup O
    <2>1. PICK k \in 1..(n + 1) : t[k] /\ x = jobs[k]
      BY <1>7
    <2>2. CASE k \in 1..n
      BY <1>3, <1>6, <2>1, <2>2
    <2>3. CASE k = n + 1
      BY <1>0, <1>1, <1>3, <2>1, <2>3
    <2> QED BY <1>4, <2>2, <2>3
  <1>9. WrittenOf(p) \subseteq WrittenOf(q)
    BY <1>3, <1>5, <1>6, <1>7
  <1>10. ok => job \in WrittenOf(q)
    <2>1. ok => t[n + 1]
      BY <1>3
    <2>2. ok => n + 1 \in {m \in 1..(n + 1) : t[m]}
      BY <1>5, <2>1
    <2>3. job = jobs[n + 1]
      BY <1>0, <1>1
    <2> QED BY <1>7, <2>2, <2>3
  <1> QED BY <1>0, <1>8, <1>9, <1>10

\* A block of a publication is written, or was refused; others are still to come.
LEMMA ResultMoves ==
    ASSUME CopyTaskInv, ReportInv, WaitFrame,
           NEW i \in 1..Len(pending), NEW ok \in BOOLEAN, NEW q \in Publications,
           pending' = [pending EXCEPT ![i] = q],
           q.jobs = pending[i].jobs, q.at = "one_by_one",
           q.results = Append(pending[i].results, ok),
           NEW job \in Blocks, job = q.jobs[Len(pending[i].results) + 1],
           job \in JobsOf(pending[i]),
           NEW O, O = IF ok THEN {job} ELSE {}, destination' = destination \cup O,
           UNCHANGED <<tracker, countVars>>
    PROVE  Moved /\ EachOnce'
  <1>1. /\ FlightOf(pending') = FlightOf(pending) /\ ApartIn(pending')
        /\ WrittenIn(pending') = (WrittenIn(pending) \ JobsOf(pending[i])) \cup WrittenOf(q)
    <2>1. PICK s, t : s = pending /\ t = pending'
      OBVIOUS
    <2>2. s \in Seq(Publications) /\ ApartIn(s) /\ \A k \in 1..Len(s) : Len(s[k].results) < Len(s[k].jobs)
      BY <2>1, FlightFacts
    <2>3. i \in 1..Len(s) /\ q.jobs = s[i].jobs /\ t = [s EXCEPT ![i] = q]
      BY <2>1
    <2>4. FlightOf(t) = FlightOf(s)
      BY <2>2, <2>3, FlightReplace
    <2>5. ApartIn(t)
      BY <2>2, <2>3, FlightReplace
    <2>6. WrittenIn(t) = WrittenWith(s, i, q)
      BY <2>2, <2>3, FlightReplace
    <2> QED BY <2>1, <2>4, <2>5, <2>6 DEF WrittenWith
  <1>2. WrittenOf(q) = WrittenOf(pending[i]) \cup O
    <2>1. pending[i].results \in Seq(BOOLEAN)
      BY FlightFacts DEF Publications
    <2>2. OneMoreResult(pending[i], q, ok, O)
      BY <2>1 DEF OneMoreResult
    <2> QED BY <2>2, WrittenAppend
  <1>3. WrittenIn(pending) \cap JobsOf(pending[i]) = WrittenOf(pending[i])
    BY FlightFacts, WrittenAre
  <1>4. JobsOf(pending[i]) \subseteq FlightOf(pending)
    BY FlightFacts, WrittenAre
  <1>5. InFlight' = InFlight /\ Written' = Written \cup O
    BY <1>1, <1>2, <1>3 DEF InFlight, Written
  <1>6. Handled' = Handled /\ Checked' = Checked
    BY DEF WaitFrame, Handled, InHand, Checked, Block
  <1>7. Lost' = Lost /\ CountsKept
    BY TemplatesKept DEF CountsKept, CountsNext, countVars
  <1>8. ~blind_write => Checked' \cap Stored = {}
    BY <1>6 DEF ReportInv, AddedOnce
  <1>9. CASE ok
    <2>1. PutOne(job)
      BY <1>4, <1>5, <1>6, <1>7, <1>9, ListsKept DEF PutOne, SetsNext, WaitFrame, InFlight
    <2> QED BY <1>1, <2>1 DEF Moved, ReportInv, EachOnce, WaitFrame
  <1>10. CASE ~ok
    <2>1. Written' = Written /\ destination' = destination
      BY <1>5, <1>10
    <2>2. Kept
      BY <1>5, <1>6, <1>7, <1>8, <2>1, ListsKept DEF Kept, SetsNext, WaitFrame
    <2> QED BY <1>1, <2>2 DEF Moved, ReportInv, EachOnce, WaitFrame
  <1> QED BY <1>9, <1>10

\* One block of a publication is written, or was refused.
LEMMA PutMoves ==
    ASSUME CopyTaskInv, ReportInv, PutReturns
    PROVE  Moved /\ EachOnce'
  <1>1. PICK i \in 1..Len(pending), ok \in BOOLEAN :
          /\ pending[i].at = "one_by_one"
          /\ destination' = destination \cup IF ok THEN {pending[i].jobs[Len(pending[i].results) + 1]} ELSE {}
          /\ IF Len(Append(pending[i].results, ok)) = Len(pending[i].jobs)
             THEN RecordWriteCompletions(i, Append(pending[i].results, ok))
             ELSE /\ pending' = [pending EXCEPT ![i].results = Append(pending[i].results, ok)]
                  /\ UNCHANGED <<tracker, countVars>>
    BY DEF PutReturns
  <1>2. WaitFrame
    BY DEF PutReturns, Waiting, WaitFrame, walkVars, bufferVars
  <1>3. PICK p : p = pending[i]
    OBVIOUS
  <1>4. p \in Publications /\ Len(p.results) < Len(p.jobs)
    BY <1>3, FlightFacts
  <1>5. p.jobs \in Seq(Blocks) /\ p.results \in Seq(BOOLEAN)
    BY <1>4 DEF Publications
  <1>6. PICK job, O, results : /\ job = p.jobs[Len(p.results) + 1] /\ O = (IF ok THEN {job} ELSE {})
                               /\ results = Append(p.results, ok)
    OBVIOUS
  <1>7. /\ Len(p.results) + 1 \in 1..Len(p.jobs) /\ results \in Seq(BOOLEAN)
        /\ Len(results) = Len(p.results) + 1
    BY <1>4, <1>5, <1>6
  <1>8. job \in Blocks /\ job \in JobsOf(p)
    BY <1>5, <1>6, <1>7 DEF JobsOf, JobsIn
  <1>9. destination' = destination \cup O
    BY <1>1, <1>3, <1>6
  <1>10. PICK q : q = [p EXCEPT !.results = results]
    OBVIOUS
  <1>11. q \in Publications /\ q.jobs = p.jobs /\ q.results = results /\ q.at = "one_by_one"
    BY <1>1, <1>3, <1>4, <1>7, <1>10 DEF Publications
  <1>12. CASE Len(results) # Len(p.jobs)
    <2>1. pending' = [pending EXCEPT ![i].results = results] /\ UNCHANGED <<tracker, countVars>>
      BY <1>1, <1>3, <1>6, <1>12
    <2>2. pending' = [pending EXCEPT ![i] = q]
      BY <1>3, <1>10, <2>1
    <2> QED
      <3>1. /\ q.jobs = pending[i].jobs /\ q.results = Append(pending[i].results, ok)
            /\ job = q.jobs[Len(pending[i].results) + 1] /\ job \in JobsOf(pending[i])
        BY <1>3, <1>6, <1>8, <1>11
      <3>2. q \in Publications /\ q.at = "one_by_one" /\ job \in Blocks /\ O = IF ok THEN {job} ELSE {}
        BY <1>6, <1>8, <1>11
      <3> QED BY <1>2, <1>9, <2>1, <2>2, <3>1, <3>2, ResultMoves
  <1>13. CASE Len(results) = Len(p.jobs)
    <2>1. RecordWriteCompletions(i, results)
      BY <1>1, <1>3, <1>6, <1>13
    <2>2. results \in [1..Len(p.jobs) -> BOOLEAN]
      BY <1>7, <1>13
    <2>3. WrittenOf(q) = WrittenOf(p) \cup O
      <3>1. OneMoreResult(p, q, ok, O)
        BY <1>5, <1>6, <1>11 DEF OneMoreResult
      <3> QED BY <3>1, WrittenAppend
    <2>4. WrittenOf(q) = {p.jobs[k] : k \in {m \in 1..Len(p.jobs) : results[m]}}
      BY <1>11, <1>13 DEF WrittenOf
    <2>5. WrittenOf(p) \subseteq Written
      BY <1>3, InFlights DEF Written
    <2>6. destination' = destination \cup WrittenOf(q)
      BY <1>9, <2>3, <2>5, FlightFacts
    <2>7. PICK A : A = WrittenOf(q)
      OBVIOUS
    <2>8. /\ A = {pending[i].jobs[k] : k \in {m \in 1..Len(pending[i].jobs) : results[m]}}
          /\ WrittenOf(pending[i]) \subseteq A /\ destination' = destination \cup A
      BY <1>3, <2>3, <2>4, <2>6, <2>7
    <2> QED BY <1>2, <1>3, <2>1, <2>2, <2>8, CompletionMoves
  <1> QED BY <1>12, <1>13

\* Every step moves blocks as Moved says, and lists none twice.
LEMMA StepMoves ==
    ASSUME CopyTaskInv, ReportInv, [SingleNext]_singleVars
    PROVE  Moved /\ EachOnce'
  BY PopMoves, WalkMoves, BufferMoves, PushMoves, EnqueueMoves, StartMoves, BatchMoves, PutMoves
  DEF SingleNext, CopyStep

-----------------------------------------------------------------------------
(* The conjuncts of the invariant that follow from how the blocks move. *)

\* A tracker that only gained failures.
Grown(t, t2) ==
    /\ t2 \in Trackers /\ FailedIds(t) \subseteq FailedIds(t2)
    /\ ReportComplete(t) => ReportComplete(t2)

\* The failure that a step of the walk or the writes may record.
Records(X, operation) ==
    /\ X \subseteq visited \ BeingRead \/ (X = {Block} /\ pc = "read" /\ pc' = "pop")
    /\ operation = "ReadSourceBlock" => X = {Block} /\ pc = "read"
    /\ operation # "ReadSourceBlock" => pc # "read"
    /\ operation \in LosingOperations
    /\ tracker' = RecordEach(tracker, X, operation)
    /\ UNCHANGED <<visited, queue, current, children>>

\* Which tracker a step leaves.
TrackerKept == tracker' = tracker /\ (visited' = visited)
TrackerNotes == Pop /\ ~interrupted
StoreFails == Compact /\ tracker' = RecordStoreFailure(tracker, ToSet(RootIds), "CompactDestinationStore")

\* A completion records failures of blocks that were in flight.
LEMMA CompletionRecords ==
    ASSUME CopyTaskInv, ReportInv, NEW i \in 1..Len(pending), NEW results,
           RecordWriteCompletions(i, results), pc # "read",
           UNCHANGED <<visited, queue, current, children>>
    PROVE  \E X \in SUBSET Blocks, operation \in Operations : Records(X, operation)
  <1>1. PICK X : X = {pending[i].jobs[k] : k \in {j \in 1..Len(pending[i].jobs) : ~results[j]}}
    OBVIOUS
  <1>2. JobsOf(pending[i]) \subseteq FlightOf(pending)
    BY FlightFacts, WrittenAre
  <1>3. JobsOf(pending[i]) \subseteq Blocks
    BY FlightFacts, WrittenAre
  <1>4. X \subseteq JobsOf(pending[i])
    BY <1>1 DEF JobsOf, JobsIn
  <1>5. X \subseteq visited \ BeingRead
    BY <1>2, <1>4 DEF ReportInv, PlacesApart, InFlight, BeingRead
  <1>6. PICK operation : operation = "WriteDestinationBlock"
    OBVIOUS
  <1>7. tracker' = RecordEach(tracker, X, operation)
    BY <1>1, <1>6 DEF RecordWriteCompletions
  <1>8. operation \in Operations /\ operation \in LosingOperations /\ operation # "ReadSourceBlock"
    BY <1>6 DEF Operations, LosingOperations
  <1>9. Records(X, operation)
    BY <1>5, <1>7, <1>8 DEF Records
  <1> QED BY <1>3, <1>4, <1>8, <1>9

\* The tracker after a step.
LEMMA TrackerKinds ==
    ASSUME CopyTaskInv, ReportInv, [SingleNext]_singleVars
    PROVE  \/ TrackerKept \/ TrackerNotes \/ ReadAndDecode \/ StoreFails
           \/ \E X \in SUBSET Blocks, operation \in Operations : Records(X, operation)
  <1>1. CASE \/ PopEnds \/ EnqueueChildren \/ BufferJob \/ PushJob \/ FlushBuffered \/ EnqueueBatch
             \/ StartPublication \/ AfterBuffering \/ CheckpointDrained \/ Return
             \/ OperatorInterrupt \/ UNCHANGED singleVars
    BY <1>1 DEF TrackerKept, PopEnds, EnqueueChildren, BufferJob, PushJob, FlushBuffered, EnqueueBatch,
       StartPublication, AfterBuffering, CheckpointDrained, Return, OperatorInterrupt, singleVars,
       walkVars
  <1>2. CASE Pop
    BY <1>2 DEF TrackerNotes, TrackerKept, Pop
  <1>3. CASE Compact
    BY <1>3 DEF StoreFails, TrackerKept, Compact, walkVars
  <1>4. (current \in Blocks \X Blocks /\ Block \in visited) \/ pc \notin {"read", "destination"}
    BY DEF ReportInv, ReportTypes, WalkEnded
  <1>5. CASE ReadFails
    <2>1. Block \in Blocks /\ pc = "read" /\ pc' = "pop"
      BY <1>4, <1>5 DEF ReadFails, Block
    <2>2. PICK X, operation : X = {Block} /\ operation = "ReadSourceBlock"
      OBVIOUS
    <2>3. tracker' = RecordEach(tracker, X, operation) /\ UNCHANGED <<visited, queue, current, children>>
      BY <1>5, <2>2 DEF ReadFails, Record, walkVars
    <2>4. operation \in Operations /\ operation \in LosingOperations /\ X \in SUBSET Blocks
      BY <2>1, <2>2 DEF Operations, LosingOperations
    <2>5. Records(X, operation)
      BY <2>1, <2>2, <2>3, <2>4 DEF Records
    <2> QED BY <2>4, <2>5
  <1>6. CASE CheckDestination
    <2>1. Block \in Blocks /\ pc = "destination" /\ Block \in visited
      BY <1>4, <1>6 DEF CheckDestination, Block
    <2>2. visited' = visited /\ UNCHANGED <<queue, current, children>>
      BY <1>6 DEF CheckDestination, walkVars
    <2>3. CASE tracker' = tracker
      BY <2>2, <2>3 DEF TrackerKept
    <2>4. CASE tracker' = Record(tracker, Block, "CheckDestinationBlock")
      <3>1. PICK X, operation : X = {Block} /\ operation = "CheckDestinationBlock"
        OBVIOUS
      <3>2. tracker' = RecordEach(tracker, X, operation)
        BY <2>4, <3>1 DEF Record
      <3>3. operation \in Operations /\ operation \in LosingOperations /\ X \in SUBSET Blocks
            /\ X \subseteq visited \ BeingRead /\ operation # "ReadSourceBlock"
        BY <2>1, <3>1 DEF Operations, LosingOperations, BeingRead
      <3>4. Records(X, operation)
        BY <2>1, <2>2, <3>2, <3>3 DEF Records
      <3> QED BY <3>3, <3>4
    <2> QED BY <1>6, <2>3, <2>4 DEF CheckDestination
  <1>7. CASE BatchReturns \/ PutReturns
    <2>1. pc # "read" /\ UNCHANGED <<visited, queue, current, children>>
      BY <1>7 DEF BatchReturns, PutReturns, Waiting, walkVars
    <2>2. CASE tracker' = tracker
      BY <2>1, <2>2 DEF TrackerKept
    <2>3. CASE tracker' # tracker
      <3>1. PICK i \in 1..Len(pending) : \E results : RecordWriteCompletions(i, results)
        BY <1>7, <2>3 DEF BatchReturns, PutReturns
      <3>2. PICK results : RecordWriteCompletions(i, results)
        BY <3>1
      <3> QED BY <2>1, <3>2, CompletionRecords
    <2> QED BY <2>2, <2>3
  <1> QED BY <1>1, <1>2, <1>3, <1>5, <1>6, <1>7 DEF SingleNext, CopyStep

\* The tracker only grows.
LEMMA TrackerGrows ==
    ASSUME CopyTaskInv, ReportInv, [SingleNext]_singleVars
    PROVE  Grown(tracker, tracker')
  <1>0. PICK t, t2 : t = tracker /\ t2 = tracker'
    OBVIOUS
  <1>1. t \in Trackers
    BY <1>0 DEF ReportInv, ReportTypes
  <1>2. CASE TrackerKept
    BY <1>0, <1>1, <1>2 DEF TrackerKept, Grown
  <1>3. CASE TrackerNotes
    <2>1. PICK r, b, roots, starts, u : Notes(r, b, roots, starts, u)
      BY <1>3, PopNotes DEF TrackerNotes, ReportInv
    <2>2. u = t2 /\ t2 \in Trackers /\ FailedIds(t) \subseteq FailedIds(t2)
          /\ t2.failure_templates = t.failure_templates /\ Spreads(t, t2, roots, starts)
      BY <1>0, <2>1 DEF Notes
    <2>3. ReportComplete(t) => ReportComplete(t2)
      BY <1>1, <2>2, SpreadKeepsComplete
    <2> QED BY <1>0, <2>2, <2>3 DEF Grown
  <1>4. CASE ReadAndDecode
    <2>1. PICK b, t1, u, roots, kids : SingleLearns(b, t1, u, roots, kids)
      BY <1>4, SingleReadEffect DEF ReportInv
    <2>2. u = t2 /\ t1 \in Trackers /\ t2 \in Trackers /\ FailedIds(t) \subseteq FailedIds(t2)
          /\ t2.failure_templates = t1.failure_templates /\ Spreads(t1, t2, roots, kids)
          /\ (ReportComplete(t) => ReportComplete(t1))
      BY <1>0, <2>1 DEF SingleLearns
    <2>3. ReportComplete(t1) => ReportComplete(t2)
      BY <2>2, SpreadKeepsComplete
    <2> QED BY <1>0, <2>2, <2>3 DEF Grown
  <1>5. CASE StoreFails
    <2>1. PICK roots : roots = ToSet(RootIds)
      OBVIOUS
    <2>2. roots \in SUBSET Blocks /\ DestinationStore \notin Blocks
      BY <2>1, GraphAssumption, SingleCopyAssumption DEF ToSet
    <2>3. t2 = RecordStoreFailure(t, roots, "CompactDestinationStore")
      BY <1>0, <1>5, <2>1 DEF StoreFails
    <2>4. /\ t2 \in Trackers
          /\ t2.block_roots = t.block_roots
          /\ t2.failure_templates = t.failure_templates
          /\ FailedIds(t) \subseteq FailedIds(t2)
      BY <1>1, <2>2, <2>3, StoreFailureIs
    <2>5. \A r, b \in Blocks, o \in Operations : TimesReported(t2, r, b, o) = TimesReported(t, r, b, o)
      BY <1>1, <2>2, <2>3, StoreFailureIs
    <2>6. ReportComplete(t) => ReportComplete(t2)
      BY <2>4, <2>5 DEF ReportComplete, TimesRecorded
    <2> QED BY <1>0, <2>4, <2>6 DEF Grown
  <1>6. CASE \E X \in SUBSET Blocks, operation \in Operations : Records(X, operation)
    <2>1. PICK X \in SUBSET Blocks, operation \in Operations : Records(X, operation)
      BY <1>6
    <2>2. t2 = RecordEach(t, X, operation)
      BY <1>0, <2>1 DEF Records
    <2>3. t2 \in Trackers
      BY <1>1, <2>2, RecordEachFacts
    <2>4. FailedIds(t) \subseteq FailedIds(t2)
      BY <1>1, <2>2, RecordEachFacts
    <2>5. ReportComplete(t) => ReportComplete(t2)
      BY <1>1, <2>2, RecordReports
    <2> QED BY <1>0, <2>3, <2>4, <2>5 DEF Grown
  <1> QED BY <1>2, <1>3, <1>4, <1>5, <1>6, TrackerKinds

\* A copy that was cut short stays so; its mode does not change.
LEMMA CutStays ==
    ASSUME CopyTaskInv, ReportInv, [SingleNext]_singleVars
    PROVE  /\ blind_write' = blind_write /\ (interrupted => interrupted') /\ interrupted' \in BOOLEAN
           /\ Cut => Cut'
  <1>1. blind_write' = blind_write /\ (interrupted' = interrupted \/ interrupted' = TRUE)
    BY DEF SingleNext, CopyStep, singleVars, Pop, PopEnds, ReadFails, ReadAndDecode, CheckDestination,
       EnqueueChildren, BufferJob, PushJob, FlushBuffered, EnqueueBatch, StartPublication,
       BatchReturns, PutReturns, AfterBuffering, CheckpointDrained, Compact, Return,
       OperatorInterrupt, storeVars
  <1>2. FailedIds(tracker) \subseteq FailedIds(tracker')
    BY TrackerGrows DEF Grown
  <1>3. interrupted \in BOOLEAN
    BY DEF ReportInv, ReportTypes
  <1>4. interrupted' \in BOOLEAN
    BY <1>1, <1>3
  <1>5. interrupted => interrupted'
    BY <1>1, <1>3
  <1>6. Cut => Cut'
    BY <1>2, <1>5 DEF Cut
  <1> QED BY <1>1, <1>4, <1>5, <1>6

\* What is in hand and was checked is in hand.
LEMMA CheckedInHand == Checked \subseteq Handled /\ Checked' \subseteq Handled'
  BY DEF Checked

\* The places stay apart.
LEMMA MovedApart ==
    ASSUME PlacesApart, Lost \subseteq visited, Moved
    PROVE  PlacesApart'
  <1>1. CASE Kept \/ Discarded \/ Flushed \/ Enqueued
    BY <1>1 DEF PlacesApart, Kept, Discarded, Flushed, Enqueued, SetsNext
  <1>2. ASSUME NEW b \in Blocks, Began(b) PROVE PlacesApart'
    BY <1>2 DEF PlacesApart, Began, SetsNext
  <1>3. ASSUME NEW b \in Blocks, Left(b) PROVE PlacesApart'
    BY <1>3 DEF PlacesApart, Left, SetsNext
  <1>4. ASSUME NEW b \in Blocks, Pushed(b) PROVE PlacesApart'
    BY <1>4 DEF PlacesApart, Pushed, SetsNext
  <1>5. ASSUME NEW b \in Blocks, PutOne(b) PROVE PlacesApart'
    BY <1>5 DEF PlacesApart, PutOne, SetsNext
  <1>6. ASSUME NEW J \in SUBSET Blocks, NEW O \in SUBSET Blocks, Finished(J, O) PROVE PlacesApart'
    BY <1>6 DEF PlacesApart, Finished, SetsNext
  <1> QED BY <1>1, <1>2, <1>3, <1>4, <1>5, <1>6 DEF Moved

\* What was added is still accounted for once.
LEMMA MovedAdded ==
    ASSUME PlacesApart, AddedOnce, Moved, blind_write' = blind_write
    PROVE  AddedOnce'
  <1>0. Checked \subseteq Handled /\ Checked' \subseteq Handled'
    BY CheckedInHand
  <1>1. CASE Kept
    BY <1>1 DEF PlacesApart, AddedOnce, Added, Kept, SetsNext
  <1>2. CASE Discarded
    BY <1>2 DEF PlacesApart, AddedOnce, Added, Discarded, SetsNext
  <1>3. CASE Flushed
    BY <1>3 DEF PlacesApart, AddedOnce, Added, Flushed, SetsNext
  <1>4. CASE Enqueued
    BY <1>4 DEF PlacesApart, AddedOnce, Added, Enqueued, SetsNext
  <1>5. ASSUME NEW b \in Blocks, Began(b) PROVE AddedOnce'
    BY <1>5 DEF PlacesApart, AddedOnce, Added, Began, SetsNext
  <1>6. ASSUME NEW b \in Blocks, Left(b) PROVE AddedOnce'
    BY <1>6 DEF PlacesApart, AddedOnce, Added, Left, SetsNext
  <1>7. ASSUME NEW b \in Blocks, Pushed(b) PROVE AddedOnce'
    BY <1>7 DEF PlacesApart, AddedOnce, Added, Pushed, SetsNext
  <1>8. ASSUME NEW b \in Blocks, PutOne(b) PROVE AddedOnce'
    BY <1>8 DEF PlacesApart, AddedOnce, Added, PutOne, SetsNext
  <1>9. ASSUME NEW J \in SUBSET Blocks, NEW O \in SUBSET Blocks, Finished(J, O) PROVE AddedOnce'
    BY <1>9 DEF PlacesApart, AddedOnce, Added, Finished, SetsNext
  <1> QED BY <1>1, <1>2, <1>3, <1>4, <1>5, <1>6, <1>7, <1>8, <1>9 DEF Moved

\* No visited block is forgotten.
LEMMA MovedPlaced ==
    ASSUME EveryBlockPlaced, Moved, Cut => Cut'
    PROVE  EveryBlockPlaced'
  <1>1. CASE Cut'
    BY <1>1 DEF EveryBlockPlaced
  <1>2. CASE ~Cut'
    <2>1. visited \subseteq destination \cup Lost \cup Handled \cup Buffered \cup Published \cup InFlight
      BY <1>2 DEF EveryBlockPlaced
    <2>2. visited' \subseteq destination' \cup Lost' \cup Handled' \cup Buffered' \cup Published' \cup InFlight'
      <3>1. CASE Kept \/ Discarded \/ Flushed \/ Enqueued
        BY <1>2, <2>1, <3>1 DEF Kept, Discarded, Flushed, Enqueued, SetsNext
      <3>2. ASSUME NEW b \in Blocks, Began(b) \/ Left(b) \/ Pushed(b) \/ PutOne(b)
            PROVE  visited' \subseteq destination' \cup Lost' \cup Handled' \cup Buffered' \cup Published' \cup InFlight'
        BY <2>1, <3>2 DEF Began, Left, Pushed, PutOne, SetsNext
      <3>3. ASSUME NEW J \in SUBSET Blocks, NEW O \in SUBSET Blocks, Finished(J, O)
            PROVE  visited' \subseteq destination' \cup Lost' \cup Handled' \cup Buffered' \cup Published' \cup InFlight'
        BY <2>1, <3>3 DEF Finished, SetsNext
      <3> QED BY <3>1, <3>2, <3>3 DEF Moved
    <2> QED BY <2>2 DEF EveryBlockPlaced
  <1> QED BY <1>1, <1>2

\* The sets stay finite and the destination keeps what it had.
LEMMA MovedFinite ==
    ASSUME Moved, IsFiniteSet(visited), IsFiniteSet(Added), Stored \subseteq destination
    PROVE  IsFiniteSet(visited') /\ IsFiniteSet(Added') /\ Stored \subseteq destination'
  <1>0. PICK v, v2, a, a2 : v = visited /\ v2 = visited' /\ a = Added /\ a2 = Added'
    OBVIOUS
  <1>1. v2 = v \/ \E b \in Blocks : v2 = v \cup {b}
    BY <1>0 DEF Moved, Kept, Discarded, Flushed, Enqueued, Began, Left, Pushed, PutOne, Finished, SetsNext
  <1>2. PICK n : /\ IsFiniteSet(n) /\ destination' = destination \cup n
    <2>1. CASE destination' = destination
      <3>1. PICK n : n = {}
        OBVIOUS
      <3> QED BY <2>1, <3>1, FS_EmptySet
    <2>2. CASE \E b \in Blocks : PutOne(b)
      <3>1. PICK b : PutOne(b)
        BY <2>2
      <3>2. PICK n : n = {b}
        OBVIOUS
      <3>3. IsFiniteSet(n)
        BY <3>2, FS_Singleton
      <3> QED BY <3>1, <3>2, <3>3 DEF PutOne, SetsNext
    <2>3. CASE \E J, O \in SUBSET Blocks : Finished(J, O)
      <3>1. PICK J, O : Finished(J, O)
        BY <2>3
      <3>2. IsFiniteSet(O)
        BY <3>1, FS_Subset DEF Finished
      <3> QED BY <3>1, <3>2 DEF Finished, SetsNext
    <2> QED
      BY <2>1, <2>2, <2>3 DEF Moved, Kept, Discarded, Flushed, Enqueued, Began, Left, Pushed, SetsNext
  <1>3. IsFiniteSet(v2)
    BY <1>0, <1>1, FS_AddElement
  <1>4. PICK u : u = a \cup n
    OBVIOUS
  <1>5. IsFiniteSet(u)
    BY <1>0, <1>2, <1>4, FS_Union
  <1>6. a2 \subseteq u
    BY <1>0, <1>2, <1>4 DEF Added
  <1>7. IsFiniteSet(a2)
    BY <1>5, <1>6, FS_Subset
  <1> QED BY <1>0, <1>2, <1>3, <1>7

\* Two sets without a common element.
LEMMA DisjointSum ==
    ASSUME NEW S, NEW T, IsFiniteSet(S), IsFiniteSet(T), S \cap T = {}, NEW U, U = S \cup T
    PROVE  Cardinality(U) = Cardinality(S) + Cardinality(T)
  <1>1. Cardinality(S \cap T) = 0
    BY FS_EmptySet
  <1>2. Cardinality(S) \in Nat /\ Cardinality(T) \in Nat
    BY FS_CardinalityType
  <1>3. Cardinality(S \cup T) = Cardinality(S) + Cardinality(T) - Cardinality(S \cap T)
    BY FS_Union
  <1> QED BY <1>1, <1>2, <1>3

\* The blocks that the report counts as copied, and as skipped.
CopiedSet == Added \ InFlight
SkippedSet == (visited \cap Stored) \ (Lost \cup Handled)

\* Both counts follow the blocks.
LEMMA MovedCounted ==
    ASSUME PlacesApart, AddedOnce, Lost \subseteq visited, Moved, ~blind_write,
           IsFiniteSet(CopiedSet), IsFiniteSet(SkippedSet),
           copied_block_count = Cardinality(CopiedSet),
           skipped_already_present_block_count = Cardinality(SkippedSet)
    PROVE  /\ copied_block_count' = Cardinality(CopiedSet')
           /\ skipped_already_present_block_count' = Cardinality(SkippedSet')
  <1>0. Checked \subseteq Handled
    BY CheckedInHand
  <1>1. CASE Kept \/ Discarded \/ Flushed \/ Enqueued
    <2>1. CountsKept
      BY <1>1 DEF Kept, Discarded, Flushed, Enqueued
    <2>2. CopiedSet' = CopiedSet
      BY <1>1 DEF Kept, Discarded, Flushed, Enqueued, SetsNext, CopiedSet, Added, AddedOnce
    <2>3. SkippedSet' = SkippedSet
      BY <1>1 DEF Kept, Discarded, Flushed, Enqueued, SetsNext, SkippedSet
    <2> QED BY <2>1, <2>2, <2>3 DEF CountsKept, CountsNext
  <1>2. ASSUME NEW b \in Blocks, Began(b)
        PROVE  /\ copied_block_count' = Cardinality(CopiedSet')
               /\ skipped_already_present_block_count' = Cardinality(SkippedSet')
    <2>1. CountsKept
      BY <1>2 DEF Began
    <2>2. CopiedSet' = CopiedSet
      BY <1>2 DEF Began, SetsNext, CopiedSet, Added
    <2>3. SkippedSet' = SkippedSet
      BY <1>2 DEF Began, SetsNext, SkippedSet
    <2> QED BY <2>1, <2>2, <2>3 DEF CountsKept, CountsNext
  <1>3. ASSUME NEW b \in Blocks, Left(b)
        PROVE  /\ copied_block_count' = Cardinality(CopiedSet')
               /\ skipped_already_present_block_count' = Cardinality(SkippedSet')
    <2>1. CopiedSet' = CopiedSet /\ copied_block_count' = copied_block_count
      BY <1>3 DEF Left, SetsNext, CopiedSet, Added, CountsKept, CountsNext
    <2>2. CASE Lost' = Lost \cup {b} /\ CountsKept
      <3>1. SkippedSet' = SkippedSet
        BY <1>3, <2>2 DEF Left, SetsNext, SkippedSet
      <3> QED BY <2>1, <2>2, <3>1 DEF CountsKept, CountsNext
    <2>3. CASE /\ Lost' = Lost /\ b \in destination
               /\ skipped_already_present_block_count' = skipped_already_present_block_count + 1
      <3>1. Handled = {b} /\ Handled' = {} /\ visited' = visited
        BY <1>3 DEF Left, SetsNext
      <3>2. b \in Stored /\ b \in visited \ Lost
        BY <2>3, <3>1 DEF AddedOnce, Added, PlacesApart
      <3>3. PICK S, T : S = SkippedSet /\ T = SkippedSet'
        OBVIOUS
      <3>4. b \notin S /\ T = S \cup {b}
        BY <2>3, <3>1, <3>2, <3>3 DEF SkippedSet
      <3>5. Cardinality(T) = Cardinality(S) + 1
        BY <3>3, <3>4, OneMore
      <3> QED BY <2>1, <2>3, <3>3, <3>5
    <2> QED BY <1>3, <2>2, <2>3 DEF Left, SetsNext, CountsNext
  <1>4. ASSUME NEW b \in Blocks, Pushed(b)
        PROVE  /\ copied_block_count' = Cardinality(CopiedSet')
               /\ skipped_already_present_block_count' = Cardinality(SkippedSet')
    <2>1. CountsKept
      BY <1>4 DEF Pushed
    <2>2. CopiedSet' = CopiedSet
      BY <1>4 DEF Pushed, SetsNext, CopiedSet, Added
    <2>3. SkippedSet' = SkippedSet
      BY <1>4 DEF Pushed, SetsNext, SkippedSet, AddedOnce
    <2> QED BY <2>1, <2>2, <2>3 DEF CountsKept, CountsNext
  <1>5. ASSUME NEW b \in Blocks, PutOne(b)
        PROVE  /\ copied_block_count' = Cardinality(CopiedSet')
               /\ skipped_already_present_block_count' = Cardinality(SkippedSet')
    <2>1. CountsKept
      BY <1>5 DEF PutOne
    <2>2. CopiedSet' = CopiedSet
      BY <1>5 DEF PutOne, SetsNext, CopiedSet, Added
    <2>3. SkippedSet' = SkippedSet
      BY <1>5 DEF PutOne, SetsNext, SkippedSet
    <2> QED BY <2>1, <2>2, <2>3 DEF CountsKept, CountsNext
  <1>6. ASSUME NEW J \in SUBSET Blocks, NEW O \in SUBSET Blocks, Finished(J, O)
        PROVE  /\ copied_block_count' = Cardinality(CopiedSet')
               /\ skipped_already_present_block_count' = Cardinality(SkippedSet')
    <2>1. /\ copied_block_count' = copied_block_count + Cardinality(O)
          /\ skipped_already_present_block_count' = skipped_already_present_block_count
      BY <1>6 DEF Finished, CountsNext
    <2>2. SkippedSet' = SkippedSet
      BY <1>6 DEF Finished, SetsNext, SkippedSet, AddedOnce
    <2>3. O \subseteq InFlight /\ IsFiniteSet(O)
      BY <1>6, FS_Subset DEF Finished
    <2>4. PICK S, T : S = CopiedSet /\ T = CopiedSet'
      OBVIOUS
    <2>5. T = S \cup O
      BY <1>6, <2>4 DEF Finished, SetsNext, CopiedSet, Added, AddedOnce
    <2>6. S \cap O = {}
      BY <2>3, <2>4 DEF CopiedSet
    <2>7. Cardinality(T) = Cardinality(S) + Cardinality(O)
      BY <2>3, <2>4, <2>5, <2>6, DisjointSum
    <2> QED BY <2>1, <2>2, <2>4, <2>7
  <1> QED BY <1>1, <1>2, <1>3, <1>4, <1>5, <1>6 DEF Moved

-----------------------------------------------------------------------------
(* The walk: what is queued, read and known. *)

\* What a step other than Pop does to the walk.
LEMMA WalkFrame ==
    ASSUME CopyTaskInv, [SingleNext]_singleVars, ~Pop
    PROVE  /\ current' = current /\ visited' = visited
           /\ ~EnqueueChildren => queue' = queue
           /\ ~ReadAndDecode => children' = children
  BY DEF SingleNext, CopyStep, singleVars, PopEnds, ReadFails, ReadAndDecode, CheckDestination,
     EnqueueChildren, BufferJob, PushJob, FlushBuffered, EnqueueBatch, StartPublication,
     BatchReturns, PutReturns, AfterBuffering, CheckpointDrained, Compact, Return,
     OperatorInterrupt, walkVars

\* A failed checkpoint cuts the copy short.
LEMMA StoreFailureCuts ==
    ASSUME CopyTaskInv, ReportInv, StoreFails
    PROVE  Cut'
  <1>1. pc = "compact"
    BY DEF StoreFails, Compact
  <1>2. visited # {}
    BY <1>1 DEF ReportInv, ReportTypes, WalkEnded
  <1>3. RootIds # <<>> /\ RootIds \in Seq(Blocks)
    BY <1>2, GraphAssumption DEF ReportInv, ReportTypes
  <1>4. PICK roots : roots = ToSet(RootIds)
    OBVIOUS
  <1>10. roots \in SUBSET Blocks
    BY <1>4, GraphAssumption DEF ToSet
  <1>5. roots # {}
    <2>1. 1 \in DOMAIN RootIds
      BY <1>3
    <2> QED BY <1>4, <2>1 DEF ToSet
  <1>6. PICK t, t2 : t = tracker /\ t2 = tracker'
    OBVIOUS
  <1>7. t \in Trackers /\ t2 = RecordStoreFailure(t, roots, "CompactDestinationStore")
    BY <1>4, <1>6 DEF StoreFails, ReportInv, ReportTypes
  <1>8. DestinationStore \notin Blocks
    BY SingleCopyAssumption
  <1>9. DestinationStore \in FailedIds(t2)
    BY <1>5, <1>7, <1>8, <1>10, StoreFailureIs
  <1> QED BY <1>6, <1>9 DEF Cut

\* How the walk goes on, for a step other than Pop: an ended walk stays ended, one
\* ends only when nothing is queued or the copy is cut short, and the children of the
\* block in hand are kept until they are queued.
GoesOn ==
    /\ WalkEnded => WalkEnded'
    /\ pc = "pop" => pc' = "pop" \/ WalkEnded'
    /\ ~WalkEnded /\ WalkEnded' => Cut' \/ queue = <<>>
    /\ ~EnqueueChildren /\ ~ReadAndDecode => Cut' \/ Offspring \subseteq Offspring'

\* Each step of the task.
LEMMA WalkGoesOn ==
    ASSUME CopyTaskInv, ReportInv, [SingleNext]_singleVars, ~Pop
    PROVE  GoesOn
  <1>0. /\ resume \in {"push", "push_last", "buffered", "checkpoint_drain", "final_drain"}
        /\ Cut => Cut'
    BY CutStays DEF CopyTaskInv, SingleTypes
  <1>1. ~ReadAndDecode => children' = children
    BY WalkFrame
  <1>2. CASE \/ ReadFails \/ PopEnds \/ CheckDestination \/ PushJob \/ AfterBuffering \/ Return
    BY <1>1, <1>2 DEF GoesOn, WalkEnded, Offspring, ReadFails, PopEnds, CheckDestination, PushJob,
       AfterBuffering, Return, bufferVars
  <1>3. CASE ReadAndDecode \/ EnqueueChildren
    BY <1>3 DEF GoesOn, WalkEnded, ReadAndDecode, EnqueueChildren
  <1>4. CASE StartPublication \/ BatchReturns \/ PutReturns \/ OperatorInterrupt \/ UNCHANGED singleVars
    BY <1>1, <1>4 DEF GoesOn, WalkEnded, Offspring, StartPublication, BatchReturns, PutReturns,
       OperatorInterrupt, singleVars, bufferVars, walkVars
  <1>5. CASE BufferJob
    BY <1>1, <1>5 DEF GoesOn, WalkEnded, Offspring, BufferJob, Flush, bufferVars
  <1>6. CASE FlushBuffered
    BY <1>1, <1>6 DEF GoesOn, WalkEnded, Offspring, FlushBuffered, Flush, bufferVars
  <1>7. CASE EnqueueBatch
    BY <1>0, <1>1, <1>7 DEF GoesOn, WalkEnded, Offspring, EnqueueBatch
  <1>8. CASE CheckpointDrained
    <2>1. CASE interrupted
      <3>1. Cut'
        BY <1>0, <2>1 DEF Cut
      <3> QED BY <1>8, <3>1 DEF GoesOn, WalkEnded, CheckpointDrained, BreakDiscarding
    <2>2. CASE ~interrupted
      BY <1>1, <1>8, <2>2 DEF GoesOn, WalkEnded, Offspring, CheckpointDrained, bufferVars
    <2> QED BY <2>1, <2>2
  <1>9. CASE Compact
    <2>1. CASE StoreFails
      BY <1>9, <2>1, StoreFailureCuts DEF GoesOn, WalkEnded, Compact
    <2>2. CASE ~StoreFails
      BY <1>1, <1>9, <2>2 DEF GoesOn, WalkEnded, Offspring, Compact, StoreFails, bufferVars
    <2> QED BY <2>1, <2>2
  <1> QED BY <1>2, <1>3, <1>4, <1>5, <1>6, <1>7, <1>8, <1>9 DEF SingleNext, CopyStep

\* The types of the walk.
WalkTypes ==
    /\ pc = "pop" \/ WalkEnded \/ (current \in Blocks \X Blocks /\ Block \in visited)
    /\ visited # {} \/ queue # <<>> => RootIds # <<>>

\* They are kept, and the walk ends as WalkedAll says.
LEMMA WalkTypesStep ==
    ASSUME CopyTaskInv, ReportInv, [SingleNext]_singleVars
    PROVE  WalkTypes' /\ WalkedAll'
  <1>0. WalkTypes /\ WalkedAll /\ (Cut => Cut') /\ queue \in Seq(Blocks \X Blocks)
    BY CutStays DEF ReportInv, ReportTypes, WalkTypes, CopyTaskInv, SingleTypes
  <1>1. CASE Pop
    <2>1. /\ pc = "pop" /\ queue # <<>> /\ current' = Head(queue) /\ Head(queue) \in Blocks \X Blocks
          /\ RootIds # <<>>
      BY <1>0, <1>1 DEF Pop, WalkTypes
    <2>2. CASE interrupted
      <3>1. WalkEnded' /\ Cut'
        BY <1>0, <1>1, <2>2 DEF Pop, BreakDiscarding, WalkEnded, Cut
      <3> QED BY <2>1, <3>1 DEF WalkTypes, WalkedAll
    <2>3. CASE ~interrupted
      <3>1. pc' \in {"pop", "read"} /\ Block' \in visited'
        BY <1>1, <2>1, <2>3 DEF Pop, Block
      <3> QED BY <2>1, <3>1 DEF WalkTypes, WalkedAll, WalkEnded
    <2> QED BY <2>2, <2>3
  <1>2. CASE ~Pop
    <2>1. GoesOn /\ current' = current /\ visited' = visited /\ (~EnqueueChildren => queue' = queue)
      BY <1>2, WalkGoesOn, WalkFrame
    <2>2. CASE EnqueueChildren
      <3>1. pc = "enqueue" /\ pc' = "pop"
        BY <2>2 DEF EnqueueChildren
      <3>2. visited' # {}
        BY <1>0, <2>1, <3>1 DEF WalkTypes, WalkEnded
      <3> QED BY <1>0, <2>1, <3>1, <3>2 DEF WalkTypes, WalkedAll, WalkEnded
    <2>3. CASE ~EnqueueChildren
      <3>1. queue' = queue
        BY <2>1, <2>3
      <3>2. WalkTypes'
        BY <1>0, <2>1, <3>1 DEF WalkTypes, GoesOn, Block
      <3>3. WalkedAll'
        BY <1>0, <2>1, <3>1 DEF WalkedAll, GoesOn
      <3> QED BY <3>2, <3>3
    <2> QED BY <2>2, <2>3
  <1> QED BY <1>1, <1>2

\* A step that takes and reads no block.
LEMMA OtherSteps ==
    ASSUME CopyTaskInv, ReportInv, [SingleNext]_singleVars, ~Pop, ~ReadFails, ~ReadAndDecode
    PROVE  /\ BeingRead' = BeingRead /\ attempted_write_block_count' = attempted_write_block_count
           /\ Unread' = Unread /\ Undecoded' = Undecoded
           /\ Lost' \subseteq Lost \cup (visited \ BeingRead)
           /\ tracker'.discovered_children = tracker.discovered_children
           /\ tracker'.block_roots = tracker.block_roots
  <1>1. (pc' = "read" <=> pc = "read") /\ UNCHANGED attempted_write_block_count
    BY DEF SingleNext, CopyStep, singleVars, PopEnds, CheckDestination,
       EnqueueChildren, BufferJob, PushJob, FlushBuffered, EnqueueBatch, StartPublication,
       BatchReturns, PutReturns, AfterBuffering, CheckpointDrained, Compact, Return,
       OperatorInterrupt, countVars, Flush, BreakDiscarding, RecordWriteCompletions,
       CopyTaskInv, SingleTypes, Waiting
  <1>2. BeingRead' = BeingRead
    BY <1>1, WalkFrame DEF BeingRead, Block
  <1>3. tracker \in Trackers
    BY DEF ReportInv, ReportTypes
  <1>4. CASE TrackerKept
    BY <1>1, <1>2, <1>4, TemplatesKept DEF TrackerKept
  <1>5. CASE StoreFails
    <2>1. tracker'.failure_templates = tracker.failure_templates
      BY <1>5 DEF StoreFails, RecordStoreFailure
    <2>2. /\ tracker'.discovered_children = tracker.discovered_children
          /\ tracker'.block_roots = tracker.block_roots
      BY <1>5 DEF StoreFails, RecordStoreFailure
    <2> QED BY <1>1, <1>2, <2>1, <2>2, TemplatesKept
  <1>6. ASSUME NEW X \in SUBSET Blocks, NEW operation \in Operations, Records(X, operation)
        PROVE  /\ Unread' = Unread /\ Undecoded' = Undecoded
               /\ Lost' \subseteq Lost \cup (visited \ BeingRead)
               /\ tracker'.discovered_children = tracker.discovered_children
               /\ tracker'.block_roots = tracker.block_roots
    <2>1. ~(pc = "read" /\ pc' = "pop")
      BY <1>1
    <2>2. X \subseteq visited \ BeingRead
      BY <1>6, <2>1 DEF Records
    <2>3. operation # "ReadSourceBlock"
      BY <1>6, <2>2 DEF Records, BeingRead
    <2>4. operation \in LosingOperations /\ operation \notin {"ReadSourceBlock", "DecodeSourceBlock"}
      BY <1>6, <2>3 DEF Records, LosingOperations
    <2>5. tracker' = RecordEach(tracker, X, operation)
      BY <1>6 DEF Records
    <2>6. Lost' = Lost \cup X /\ Unread' = Unread /\ Undecoded' = Undecoded
      BY <2>3, <2>4, <2>5, FailureRecorded DEF ReportInv
    <2>7. tracker'.block_roots = tracker.block_roots /\ tracker'.discovered_children = tracker.discovered_children
      BY <2>5 DEF RecordEach
    <2> QED BY <2>2, <2>6, <2>7
  <1> QED BY <1>1, <1>2, <1>4, <1>5, <1>6, TrackerKinds DEF TrackerNotes

\* A block could not be read.
LEMMA ReadFailsEffect ==
    ASSUME CopyTaskInv, ReportInv, ReadFails
    PROVE  /\ Block \in Blocks /\ Block \in visited /\ BeingRead = {Block} /\ BeingRead' = {}
           /\ Unread' = Unread \cup {Block} /\ Undecoded' = Undecoded \cup {Block}
           /\ Lost' = Lost \cup {Block}
           /\ tracker'.discovered_children = tracker.discovered_children
           /\ tracker'.block_roots = tracker.block_roots
           /\ visited' = visited /\ UNCHANGED attempted_write_block_count
  <1>1. /\ pc = "read" /\ pc' = "pop" /\ visited' = visited /\ UNCHANGED attempted_write_block_count
        /\ tracker' = RecordEach(tracker, {Block}, "ReadSourceBlock")
    BY DEF ReadFails, Record, walkVars, countVars
  <1>2. Block \in Blocks /\ Block \in visited /\ tracker \in Trackers
    BY <1>1 DEF ReportInv, ReportTypes, WalkEnded, Block
  <1>3. BeingRead = {Block} /\ BeingRead' = {}
    BY <1>1 DEF BeingRead
  <1>4. PICK X, operation : X = {Block} /\ operation = "ReadSourceBlock"
    OBVIOUS
  <1>5. /\ X \in SUBSET Blocks /\ operation \in Operations /\ operation \in LosingOperations
        /\ operation \in {"ReadSourceBlock", "DecodeSourceBlock"}
    BY <1>2, <1>4 DEF Operations, LosingOperations
  <1>6. tracker' = RecordEach(tracker, X, operation)
    BY <1>1, <1>4
  <1>7. Lost' = Lost \cup X
    BY <1>5, <1>6, FailureRecorded DEF ReportInv
  <1>8. Unread' = Unread \cup X
    BY <1>4, <1>5, <1>6, FailureRecorded DEF ReportInv
  <1>9. Undecoded' = Undecoded \cup X
    BY <1>5, <1>6, FailureRecorded DEF ReportInv
  <1>10. tracker'.block_roots = tracker.block_roots /\ tracker'.discovered_children = tracker.discovered_children
    BY <1>6 DEF RecordEach
  <1> QED BY <1>1, <1>2, <1>3, <1>4, <1>7, <1>8, <1>9, <1>10

\* A block was read.
LEMMA ReadEffect ==
    ASSUME CopyTaskInv, ReportInv, ReadAndDecode
    PROVE  /\ Block \in Blocks /\ Block \in visited /\ BeingRead = {Block} /\ BeingRead' = {}
           /\ Unread' = Unread /\ Lost' = Lost /\ visited' = visited /\ current' = current
           /\ tracker'.discovered_children =
                 [tracker.discovered_children EXCEPT ![Block] = ToSet(children')]
           /\ \/ Undecoded' = Undecoded /\ ToSet(children') = ToSet(Children[Block])
              \/ Undecoded' = Undecoded \cup {Block} /\ ToSet(children') = {}
           /\ attempted_write_block_count' = attempted_write_block_count + (IF blind_write THEN 1 ELSE 0)
           /\ Offspring' = ToSet(children')
  <1>1. /\ pc = "read" /\ pc' \in {"buffer", "destination"} /\ visited' = visited /\ current' = current
        /\ attempted_write_block_count' = attempted_write_block_count + (IF blind_write THEN 1 ELSE 0)
    BY DEF ReadAndDecode
  <1>2. Block \in Blocks /\ Block \in visited
    BY <1>1 DEF ReportInv, ReportTypes, WalkEnded, Block
  <1>3. BeingRead = {Block} /\ BeingRead' = {}
    BY <1>1 DEF BeingRead
  <1>4. Offspring' = ToSet(children')
    BY <1>1 DEF Offspring
  <1>5. PICK b, t1, t2, roots, kids : SingleLearns(b, t1, t2, roots, kids)
    BY SingleReadEffect DEF ReportInv
  <1>6. /\ b = Block /\ t2 = tracker' /\ kids = ToSet(children')
        /\ t2.discovered_children = [tracker.discovered_children EXCEPT ![b] = kids]
    BY <1>5 DEF SingleLearns
  <1>7. \A ops : FailedBlocks(t2, ops) = FailedBlocks(t1, ops)
    BY <1>5 DEF SingleLearns, FailedBlocks
  <1>8. \A ops \in SUBSET Operations : "DecodeSourceBlock" \notin ops => FailedBlocks(t1, ops) = FailedBlocks(tracker, ops)
    BY <1>5 DEF SingleLearns
  <1>9. PICK A, B, C : /\ A = LosingOperations /\ B = {"ReadSourceBlock"}
                       /\ C = {"ReadSourceBlock", "DecodeSourceBlock"}
    OBVIOUS
  <1>10. /\ A \in SUBSET Operations /\ B \in SUBSET Operations /\ C \in SUBSET Operations
         /\ "DecodeSourceBlock" \notin A /\ "DecodeSourceBlock" \notin B /\ "DecodeSourceBlock" \in C
    BY <1>9 DEF LosingOperations, Operations
  <1>11. /\ Lost = FailedBlocks(tracker, A) /\ Lost' = FailedBlocks(tracker', A)
         /\ Unread = FailedBlocks(tracker, B) /\ Unread' = FailedBlocks(tracker', B)
         /\ Undecoded = FailedBlocks(tracker, C) /\ Undecoded' = FailedBlocks(tracker', C)
    BY <1>9 DEF Lost, Unread, Undecoded, LosingOperations
  <1>12. Lost' = Lost /\ Unread' = Unread
    BY <1>6, <1>7, <1>8, <1>10, <1>11
  <1>13. \/ kids = ToSet(Children[b]) /\ FailedBlocks(t1, C) = FailedBlocks(tracker, C)
         \/ kids = {} /\ FailedBlocks(t1, C) = FailedBlocks(tracker, C) \cup {b}
    BY <1>5, <1>10 DEF SingleLearns
  <1>14. \/ Undecoded' = Undecoded /\ ToSet(children') = ToSet(Children[Block])
         \/ Undecoded' = Undecoded \cup {Block} /\ ToSet(children') = {}
    BY <1>6, <1>7, <1>11, <1>13
  <1> QED BY <1>1, <1>2, <1>3, <1>4, <1>6, <1>12, <1>14

\* The walk takes a queued block.
LEMMA PopEffect ==
    ASSUME CopyTaskInv, ReportInv, Pop
    PROVE  /\ queue \in Seq(Blocks \X Blocks) /\ queue # <<>> /\ Head(queue) \in Blocks \X Blocks
           /\ queue' = Tail(queue) /\ Block' = Head(queue)[2] /\ BeingRead = {}
           /\ visited' \ BeingRead' = visited /\ visited \subseteq visited'
           /\ Unread' = Unread /\ Lost' = Lost /\ Undecoded' = Undecoded
           /\ UNCHANGED attempted_write_block_count
           /\ tracker'.discovered_children = tracker.discovered_children
           /\ interrupted => Cut'
           /\ ~interrupted => visited' = visited \cup {Block'}
           /\ Offspring = {}
  <1>1. /\ queue \in Seq(Blocks \X Blocks) /\ queue # <<>> /\ pc = "pop" /\ queue' = Tail(queue)
        /\ current' = Head(queue) /\ Block' = Head(queue)[2] /\ UNCHANGED attempted_write_block_count
    BY DEF CopyTaskInv, SingleTypes, Pop, countVars, Block
  <1>2. BeingRead = {} /\ Offspring = {} /\ Head(queue) \in Blocks \X Blocks
    BY <1>1 DEF BeingRead, Offspring
  <1>3. CASE interrupted
    <2>1. visited' = visited /\ tracker' = tracker /\ pc' = "final_flush"
      BY <1>3 DEF Pop, BreakDiscarding
    <2>2. Cut' /\ BeingRead' = {}
      BY <1>3, <2>1 DEF Pop, Cut, BeingRead
    <2> QED BY <1>1, <1>2, <1>3, <2>1, <2>2, TemplatesKept
  <1>4. CASE ~interrupted
    <2>1. PICK r, b, roots, starts, t2 : Notes(r, b, roots, starts, t2)
      BY <1>4, PopNotes DEF ReportInv
    <2>2. tracker'.failure_templates = tracker.failure_templates
          /\ tracker'.discovered_children = tracker.discovered_children
      BY <2>1 DEF Notes
    <2>3. visited' = visited \cup {Block'} /\ pc' = IF Block' \in visited THEN "pop" ELSE "read"
      BY <1>1, <1>4 DEF Pop
    <2>4. visited' \ BeingRead' = visited
      BY <2>3 DEF BeingRead
    <2> QED BY <1>1, <1>2, <1>4, <2>2, <2>3, <2>4, TemplatesKept
  <1> QED BY <1>3, <1>4

\* What is known of the children of the blocks that were read.
LEMMA ChildrenKnownStep ==
    ASSUME CopyTaskInv, ReportInv, [SingleNext]_singleVars
    PROVE  ChildrenKnown'
  <1>0. ChildrenKnown /\ tracker \in Trackers
    BY DEF ReportInv, ReportTypes
  <1>1. tracker.discovered_children \in [Blocks -> SUBSET Blocks]
    BY <1>0 DEF Trackers
  <1>2. CASE Pop
    <2>1. /\ visited' \ BeingRead' = visited \ BeingRead
          /\ Unread' = Unread /\ Lost' = Lost /\ Undecoded' = Undecoded
          /\ tracker'.discovered_children = tracker.discovered_children
      BY <1>2, PopEffect
    <2> QED BY <1>0, <2>1 DEF ChildrenKnown
  <1>3. CASE ReadFails
    <2>1. /\ visited' \ BeingRead' = (visited \ BeingRead) \cup {Block}
          /\ (visited' \ BeingRead') \ Undecoded' = (visited \ BeingRead) \ Undecoded
          /\ Unread' = Unread \cup {Block} /\ Undecoded' = Undecoded \cup {Block}
          /\ Lost' = Lost \cup {Block}
          /\ tracker'.discovered_children = tracker.discovered_children
      BY <1>0, <1>3, ReadFailsEffect DEF ChildrenKnown
    <2>2. Lost' \cup Undecoded' \cup Unread' \subseteq visited' \ BeingRead'
      BY <1>0, <2>1 DEF ChildrenKnown
    <2>3. \A b \in Blocks : tracker'.discovered_children[b] =
             IF b \in (visited' \ BeingRead') \ Undecoded' THEN ToSet(Children[b]) ELSE {}
      BY <1>0, <2>1 DEF ChildrenKnown
    <2> QED BY <2>2, <2>3 DEF ChildrenKnown
  <1>4. CASE ReadAndDecode
    <2>0. /\ Block \in Blocks /\ visited' \ BeingRead' = (visited \ BeingRead) \cup {Block}
          /\ Unread' = Unread /\ Lost' = Lost /\ BeingRead = {Block}
          /\ tracker'.discovered_children =
                 [tracker.discovered_children EXCEPT ![Block] = ToSet(children')]
          /\ \/ Undecoded' = Undecoded /\ ToSet(children') = ToSet(Children[Block])
             \/ Undecoded' = Undecoded \cup {Block} /\ ToSet(children') = {}
      BY <1>4, ReadEffect
    <2>1. Lost' \cup Undecoded' \cup Unread' \subseteq visited' \ BeingRead'
      BY <1>0, <2>0 DEF ChildrenKnown
    <2>2. ASSUME NEW b \in Blocks
          PROVE  tracker'.discovered_children[b] =
                    IF b \in (visited' \ BeingRead') \ Undecoded' THEN ToSet(Children[b]) ELSE {}
      <3>1. CASE b = Block
        <4>1. tracker'.discovered_children[b] = ToSet(children')
          BY <1>1, <2>0, <3>1
        <4>2. Block \notin Undecoded
          BY <1>0, <2>0 DEF ChildrenKnown
        <4> QED BY <2>0, <3>1, <4>1, <4>2
      <3>2. CASE b # Block
        <4>1. tracker'.discovered_children[b] = tracker.discovered_children[b]
          BY <1>1, <2>0, <3>2
        <4>2. b \in (visited' \ BeingRead') \ Undecoded' <=> b \in (visited \ BeingRead) \ Undecoded
          BY <2>0, <3>2
        <4> QED BY <1>0, <4>1, <4>2 DEF ChildrenKnown
      <3> QED BY <3>1, <3>2
    <2> QED BY <2>1, <2>2 DEF ChildrenKnown
  <1>5. CASE ~Pop /\ ~ReadFails /\ ~ReadAndDecode
    <2>1. /\ BeingRead' = BeingRead /\ Unread' = Unread /\ Undecoded' = Undecoded
          /\ Lost' \subseteq Lost \cup (visited \ BeingRead)
          /\ tracker'.discovered_children = tracker.discovered_children
          /\ visited' = visited
      BY <1>5, OtherSteps, WalkFrame
    <2> QED BY <1>0, <2>1 DEF ChildrenKnown
  <1> QED BY <1>2, <1>3, <1>4, <1>5

\* Every attempted write is counted, and nothing else.
LEMMA AttemptedStep ==
    ASSUME CopyTaskInv, ReportInv, [SingleNext]_singleVars
    PROVE  /\ attempted_write_block_count' \in Nat
           /\ blind_write' => attempted_write_block_count' = Cardinality(visited' \ (Unread' \cup BeingRead'))
  <1>0. /\ blind_write' = blind_write /\ attempted_write_block_count \in Nat
        /\ blind_write => attempted_write_block_count = Cardinality(visited \ (Unread \cup BeingRead))
        /\ Unread \subseteq visited \ BeingRead /\ IsFiniteSet(visited)
    BY CutStays DEF ReportInv, ReportTypes, BlocksCounted, ChildrenKnown
  <1>1. PICK S, T : S = visited \ (Unread \cup BeingRead) /\ T = visited' \ (Unread' \cup BeingRead')
    OBVIOUS
  <1>2. CASE Pop
    <2>1. T = S /\ UNCHANGED attempted_write_block_count
      BY <1>0, <1>1, <1>2, PopEffect
    <2> QED BY <1>0, <1>1, <2>1
  <1>3. CASE ReadFails
    <2>1. T = S /\ UNCHANGED attempted_write_block_count
      BY <1>0, <1>1, <1>3, ReadFailsEffect
    <2> QED BY <1>0, <1>1, <2>1
  <1>4. CASE ReadAndDecode
    <2>1. /\ T = S \cup {Block} /\ Block \notin S
          /\ attempted_write_block_count' = attempted_write_block_count + (IF blind_write THEN 1 ELSE 0)
      BY <1>0, <1>1, <1>4, ReadEffect
    <2>2. IsFiniteSet(S)
      BY <1>0, <1>1, FS_Subset
    <2>3. Cardinality(T) = Cardinality(S) + 1
      BY <2>1, <2>2, OneMore
    <2> QED BY <1>0, <1>1, <2>1, <2>3
  <1>5. CASE ~Pop /\ ~ReadFails /\ ~ReadAndDecode
    <2>1. T = S /\ UNCHANGED attempted_write_block_count
      BY <1>1, <1>5, OtherSteps, WalkFrame
    <2> QED BY <1>0, <1>1, <2>1
  <1> QED BY <1>2, <1>3, <1>4, <1>5

\* How the roots of a block and its known children change.
LEMMA RootsStep ==
    ASSUME CopyTaskInv, ReportInv, [SingleNext]_singleVars
    PROVE  \/ /\ tracker'.block_roots = tracker.block_roots
              /\ tracker'.discovered_children = tracker.discovered_children
           \/ TrackerNotes
           \/ ReadAndDecode
  <1>1. CASE Pop
    BY <1>1 DEF TrackerNotes, Pop
  <1>2. CASE ReadFails
    BY <1>2, ReadFailsEffect
  <1> QED BY <1>1, <1>2, OtherSteps

\* The roots of a block are roots of its known children, and none is lost.
LEMMA SinglePropagateStep ==
    ASSUME CopyTaskInv, ReportInv, [SingleNext]_singleVars
    PROVE  /\ RootsPropagate'
           /\ \A b \in Blocks : tracker.block_roots[b] \subseteq tracker'.block_roots[b]
  <1>0. tracker \in Trackers /\ RootsPropagate
    BY DEF ReportInv, ReportTypes
  <1>1. CASE /\ tracker'.block_roots = tracker.block_roots
             /\ tracker'.discovered_children = tracker.discovered_children
    BY <1>0, <1>1 DEF RootsPropagate
  <1>2. CASE TrackerNotes
    <2>1. PICK r, x, roots, starts, u : Notes(r, x, roots, starts, u)
      BY <1>2, PopNotes DEF TrackerNotes, ReportInv
    <2>2. /\ u = tracker' /\ u \in Trackers
          /\ u.discovered_children = tracker.discovered_children
          /\ Spreads(tracker, u, roots, starts)
      BY <2>1 DEF Notes
    <2>3. ASSUME NEW b \in Blocks, NEW c \in u.discovered_children[b]
          PROVE  u.block_roots[b] \subseteq u.block_roots[c]
      <3>1. /\ c \in tracker.discovered_children[b] /\ c \in Blocks
            /\ tracker.block_roots[b] \subseteq tracker.block_roots[c]
        BY <1>0, <2>2 DEF RootsPropagate, Trackers
      <3>2. /\ tracker.block_roots[c] \subseteq u.block_roots[c]
            /\ \A q \in u.block_roots[b] \ tracker.block_roots[b] : q \in u.block_roots[c]
        BY <2>2, <3>1 DEF Spreads
      <3> QED BY <3>1, <3>2
    <2>4. \A b \in Blocks : tracker.block_roots[b] \subseteq u.block_roots[b]
      BY <2>2 DEF Spreads
    <2> QED BY <2>2, <2>3, <2>4 DEF RootsPropagate
  <1>3. CASE ReadAndDecode
    <2>1. PICK x, t1, u, roots, kids : SingleLearns(x, t1, u, roots, kids)
      BY <1>3, SingleReadEffect DEF ReportInv
    <2>2. /\ x \in Blocks /\ t1 \in Trackers /\ u \in Trackers /\ u = tracker'
          /\ kids \in SUBSET Blocks /\ roots = tracker.block_roots[x]
          /\ t1.block_roots = tracker.block_roots
          /\ t1.discovered_children = [tracker.discovered_children EXCEPT ![x] = kids]
          /\ u.discovered_children = t1.discovered_children
          /\ Spreads(t1, u, roots, kids)
      BY <2>1 DEF SingleLearns
    <2>3. tracker.discovered_children \in [Blocks -> SUBSET Blocks]
      BY <1>0 DEF Trackers
    <2>4. ASSUME NEW b \in Blocks, NEW c \in u.discovered_children[b]
          PROVE  u.block_roots[b] \subseteq u.block_roots[c]
      <3>0. c \in Blocks
        BY <2>2 DEF Trackers
      <3>1. /\ tracker.block_roots[c] \subseteq u.block_roots[c]
            /\ \A q \in u.block_roots[b] \ tracker.block_roots[b] :
                  \A d \in t1.discovered_children[b] : q \in u.block_roots[d]
            /\ \A y \in kids : roots \subseteq u.block_roots[y]
        BY <2>2, <3>0 DEF Spreads
      <3>3. CASE b = x
        BY <2>2, <2>3, <3>1, <3>3
      <3>4. CASE b # x
        <4>1. c \in tracker.discovered_children[b]
          BY <2>2, <2>3, <3>4
        <4>2. tracker.block_roots[b] \subseteq tracker.block_roots[c]
          BY <1>0, <4>1 DEF RootsPropagate
        <4> QED BY <2>2, <3>1, <4>2
      <3> QED BY <3>3, <3>4
    <2>5. \A b \in Blocks : tracker.block_roots[b] \subseteq u.block_roots[b]
      BY <2>2 DEF Spreads
    <2> QED BY <2>2, <2>4, <2>5 DEF RootsPropagate
  <1> QED BY <1>1, <1>2, <1>3, RootsStep

\* The head of the queue and its tail.
LEMMA QueueParts ==
    ASSUME NEW X, NEW s \in Seq(X), s # <<>>, NEW i \in 1..Len(s)
    PROVE  s[i] = Head(s) \/ \E j \in 1..Len(Tail(s)) : Tail(s)[j] = s[i]
  <1>1. PICK n \in Nat : n = Len(s)
    OBVIOUS
  <1>2. PICK t : t = Tail(s)
    OBVIOUS
  <1>3. Len(t) = n - 1 /\ \A j \in 1..(n - 1) : t[j] = s[j + 1]
    BY <1>1, <1>2
  <1>4. CASE i = 1
    BY <1>4
  <1>5. CASE i # 1
    <2>1. i - 1 \in 1..(n - 1) /\ (i - 1) + 1 = i
      BY <1>1, <1>5
    <2>2. t[i - 1] = s[i]
      BY <1>3, <2>1
    <2> QED BY <1>2, <1>3, <2>1, <2>2
  <1> QED BY <1>4, <1>5

\* Every entry of one list is in another.
Includes(t, s) == \A i \in 1..Len(s) : \E j \in 1..Len(t) : t[j] = s[i]

\* A longer queue.
LEMMA QueueLonger ==
    ASSUME NEW X, NEW s \in Seq(X), NEW u \in Seq(X), NEW t, t = s \o u
    PROVE  Includes(t, s) /\ Includes(t, u)
  <1>1. PICK n \in Nat : n = Len(s)
    OBVIOUS
  <1>2. PICK m \in Nat : m = Len(u)
    OBVIOUS
  <1>3. /\ Len(t) = n + m /\ \A i \in 1..n : t[i] = s[i]
        /\ \A i \in 1..m : t[n + i] = u[i]
    BY <1>1, <1>2
  <1>4. (\A i \in 1..n : i \in 1..(n + m)) /\ (\A i \in 1..m : n + i \in 1..(n + m))
    OBVIOUS
  <1> QED BY <1>1, <1>2, <1>3, <1>4 DEF Includes

\* What is queued after the walk has taken a pair, or queued children.
LEMMA QueueStep ==
    ASSUME CopyTaskInv, ReportInv, [SingleNext]_singleVars
    PROVE  /\ Pop => /\ QueuedBlocks \subseteq QueuedBlocks' \cup {Block'}
                     /\ \A r \in QueuedRoots : r \in QueuedRoots' \/ Head(queue) = <<r, r>>
           /\ ~Pop => QueuedBlocks \subseteq QueuedBlocks' /\ QueuedRoots \subseteq QueuedRoots'
           /\ EnqueueChildren => ToSet(children) \subseteq QueuedBlocks'
  <1>0. PICK s, t : s = queue /\ t = queue'
    OBVIOUS
  <1>1. s \in Seq(Blocks \X Blocks) /\ children \in Seq(Blocks)
    BY <1>0 DEF CopyTaskInv, SingleTypes
  <1>2. ASSUME Pop
        PROVE  /\ QueuedBlocks \subseteq QueuedBlocks' \cup {Block'}
               /\ \A r \in QueuedRoots : r \in QueuedRoots' \/ Head(queue) = <<r, r>>
    <2>1. s # <<>> /\ t = Tail(s) /\ Block' = Head(s)[2]
      BY <1>0, <1>2, PopEffect
    <2>2. \A i \in 1..Len(s) : s[i] = Head(s) \/ \E j \in 1..Len(t) : t[j] = s[i]
      BY <1>1, <2>1, QueueParts
    <2>3. QueuedBlocks \subseteq QueuedBlocks' \cup {Block'}
      BY <1>0, <2>1, <2>2 DEF QueuedBlocks
    <2>4. \A r \in QueuedRoots : r \in QueuedRoots' \/ Head(queue) = <<r, r>>
      BY <1>0, <2>1, <2>2 DEF QueuedRoots
    <2> QED BY <2>3, <2>4
  <1>3. ASSUME EnqueueChildren
        PROVE  /\ QueuedBlocks \subseteq QueuedBlocks' /\ QueuedRoots \subseteq QueuedRoots'
               /\ ToSet(children) \subseteq QueuedBlocks'
    <2>1. PICK u : u = [i \in 1..Len(children) |-> <<current[1], children[i]>>]
      OBVIOUS
    <2>2. t = s \o u
      BY <1>0, <1>3, <2>1 DEF EnqueueChildren
    <2>3. current \in Blocks \X Blocks
      BY <1>3 DEF EnqueueChildren, ReportInv, ReportTypes, WalkEnded
    <2>4. PICK n \in Nat : n = Len(children)
      BY <1>1
    <2>5. u \in [1..n -> Blocks \X Blocks]
      BY <1>1, <2>1, <2>3, <2>4
    <2>6. u \in Seq(Blocks \X Blocks) /\ Len(u) = n
      BY <2>5
    <2>10. Includes(t, s) /\ Includes(t, u)
      BY <1>1, <2>2, <2>6, QueueLonger
    <2>7. /\ \A i \in 1..Len(s) : \E j \in 1..Len(t) : t[j] = s[i]
          /\ \A i \in 1..Len(u) : \E j \in 1..Len(t) : t[j] = u[i]
      BY <2>10 DEF Includes
    <2>11. ASSUME NEW b \in QueuedBlocks PROVE b \in QueuedBlocks'
      <3>1. PICK i \in 1..Len(s) : b = s[i][2]
        BY <1>0 DEF QueuedBlocks
      <3>2. PICK j \in 1..Len(t) : t[j] = s[i]
        BY <2>7
      <3> QED BY <1>0, <3>1, <3>2 DEF QueuedBlocks
    <2>12. ASSUME NEW r \in QueuedRoots PROVE r \in QueuedRoots'
      <3>1. PICK i \in 1..Len(s) : s[i] = <<r, r>> /\ r \in Blocks
        BY <1>0 DEF QueuedRoots
      <3>2. PICK j \in 1..Len(t) : t[j] = s[i]
        BY <2>7
      <3>3. t[j] = <<r, r>>
        BY <3>1, <3>2
      <3> QED BY <1>0, <3>1, <3>3 DEF QueuedRoots
    <2>8. QueuedBlocks \subseteq QueuedBlocks' /\ QueuedRoots \subseteq QueuedRoots'
      BY <2>11, <2>12
    <2>9. ToSet(children) \subseteq QueuedBlocks'
      <3>1. ASSUME NEW c \in ToSet(children) PROVE c \in QueuedBlocks'
        <4>1. PICK i \in 1..n : c = children[i]
          BY <1>1, <2>4, <3>1 DEF ToSet
        <4>2. u[i][2] = c
          BY <2>1, <2>4, <4>1
        <4>3. PICK j \in 1..Len(t) : t[j] = u[i]
          BY <2>6, <2>7
        <4> QED BY <1>0, <4>2, <4>3 DEF QueuedBlocks
      <3> QED BY <3>1
    <2> QED BY <2>8, <2>9
  <1>4. ASSUME ~Pop, ~EnqueueChildren
        PROVE  QueuedBlocks \subseteq QueuedBlocks' /\ QueuedRoots \subseteq QueuedRoots'
    <2>1. queue' = queue
      BY <1>4, WalkFrame
    <2> QED BY <2>1 DEF QueuedBlocks, QueuedRoots
  <1>5. EnqueueChildren => ~Pop
    BY DEF EnqueueChildren, Pop
  <1> QED BY <1>2, <1>3, <1>4, <1>5

\* Every root is queued or was visited as a root.
LEMMA RootsQueuedStep ==
    ASSUME CopyTaskInv, ReportInv, [SingleNext]_singleVars
    PROVE  RootsQueued'
  <1>0. RootsQueued /\ (Cut => Cut') /\ visited \subseteq Blocks
    BY CutStays DEF ReportInv, CopyTaskInv, SingleTypes
  <1>1. \A b \in Blocks : tracker.block_roots[b] \subseteq tracker'.block_roots[b]
    BY SinglePropagateStep
  <1>2. CASE Cut'
    BY <1>2 DEF RootsQueued
  <1>3. CASE ~Cut'
    <2>1. ToSet(RootIds) \subseteq QueuedRoots \cup {r \in visited : r \in tracker.block_roots[r]}
      BY <1>0, <1>3 DEF RootsQueued
    <2>2. visited \subseteq visited'
      BY PopEffect, WalkFrame
    <2>3. {r \in visited : r \in tracker.block_roots[r]} \subseteq {r \in visited' : r \in tracker'.block_roots[r]}
      BY <1>0, <1>1, <2>2
    <2>4. CASE ~Pop
      <3>1. QueuedRoots \subseteq QueuedRoots'
        BY <2>4, QueueStep
      <3> QED BY <2>1, <2>3, <3>1 DEF RootsQueued
    <2>5. CASE Pop
      <3>1. ~interrupted
        BY <1>3, <2>5, PopEffect
      <3>2. PICK r, b, roots, starts, u : Notes(r, b, roots, starts, u)
        BY <2>5, <3>1, PopNotes DEF ReportInv
      <3>3. r = Head(queue)[1] /\ b = Head(queue)[2] /\ b \in Blocks /\ r \in tracker'.block_roots[b]
        BY <3>2 DEF Notes, Spreads
      <3>4. b \in visited'
        BY <2>5, <3>1, <3>3, PopEffect
      <3>5. \A x \in QueuedRoots : x \in QueuedRoots' \/ Head(queue) = <<x, x>>
        BY <2>5, QueueStep
      <3>6. ASSUME NEW x, Head(queue) = <<x, x>> PROVE x \in visited' /\ x \in tracker'.block_roots[x]
        <4>1. r = x /\ b = x
          BY <3>3, <3>6
        <4> QED BY <3>3, <3>4, <4>1
      <3> QED BY <2>1, <2>3, <3>5, <3>6 DEF RootsQueued
    <2> QED BY <2>4, <2>5
  <1> QED BY <1>2, <1>3

\* So is every known child of a visited block.
LEMMA ChildrenQueuedStep ==
    ASSUME CopyTaskInv, ReportInv, [SingleNext]_singleVars
    PROVE  ChildrenQueued'
  <1>0. ChildrenQueued /\ ChildrenKnown /\ (Cut => Cut') /\ visited \subseteq Blocks /\ tracker \in Trackers
    BY CutStays DEF ReportInv, ReportTypes, CopyTaskInv, SingleTypes
  <1>1. CASE Cut'
    BY <1>1 DEF ChildrenQueued
  <1>2. CASE ~Cut'
    <2>1. \A b \in visited : tracker.discovered_children[b] \subseteq
             visited \cup QueuedBlocks \cup (IF b = Block THEN Offspring ELSE {})
      BY <1>0, <1>2 DEF ChildrenQueued
    <2>2. CASE Pop
      <3>1. /\ visited' = visited \cup {Block'} /\ Offspring = {} /\ Block' \in Blocks
            /\ tracker'.discovered_children = tracker.discovered_children
        BY <1>2, <2>2, PopEffect
      <3>2. QueuedBlocks \subseteq QueuedBlocks' \cup {Block'}
        BY <2>2, QueueStep
      <3>3. \A b \in Blocks : b \notin visited => tracker.discovered_children[b] = {}
        BY <1>0 DEF ChildrenKnown
      <3>4. \A b \in visited' : tracker'.discovered_children[b] \subseteq visited' \cup QueuedBlocks'
        BY <2>1, <3>1, <3>2, <3>3
      <3> QED BY <3>4 DEF ChildrenQueued
    <2>3. CASE ReadAndDecode
      <3>0. ~Pop
        BY <2>3 DEF ReadAndDecode, Pop
      <3>1. /\ Block \in Blocks /\ visited' = visited /\ current' = current
            /\ tracker'.discovered_children =
                 [tracker.discovered_children EXCEPT ![Block] = ToSet(children')]
            /\ Offspring' = ToSet(children')
        BY <2>3, ReadEffect
      <3>2. QueuedBlocks \subseteq QueuedBlocks' /\ Block' = Block
        BY <3>0, <3>1, QueueStep DEF Block
      <3>3. tracker.discovered_children \in [Blocks -> SUBSET Blocks]
        BY <1>0 DEF Trackers
      <3>4. ASSUME NEW b \in visited'
            PROVE  tracker'.discovered_children[b] \subseteq
                      visited' \cup QueuedBlocks' \cup (IF b = Block' THEN Offspring' ELSE {})
        <4>1. CASE b = Block
          BY <3>1, <3>2, <3>3, <4>1
        <4>2. CASE b # Block
          <5>1. tracker'.discovered_children[b] = tracker.discovered_children[b]
            BY <1>0, <3>1, <3>3, <4>2
          <5>2. tracker.discovered_children[b] \subseteq visited \cup QueuedBlocks
            BY <2>1, <3>1, <4>2
          <5> QED BY <3>1, <3>2, <5>1, <5>2
        <4> QED BY <4>1, <4>2
      <3> QED BY <3>4 DEF ChildrenQueued
    <2>4. CASE ~Pop /\ ~ReadAndDecode
      <3>1. visited' = visited /\ Block' = Block
        BY <2>4, WalkFrame DEF Block
      <3>2. tracker'.discovered_children = tracker.discovered_children
        BY <2>4, RootsStep DEF TrackerNotes
      <3>3. QueuedBlocks \subseteq QueuedBlocks'
        BY <2>4, QueueStep
      <3>4. Offspring \subseteq QueuedBlocks' \cup Offspring'
        <4>1. CASE EnqueueChildren
          <5>1. Offspring = ToSet(children)
            BY <4>1 DEF EnqueueChildren, Offspring
          <5> QED BY <4>1, <5>1, QueueStep
        <4>2. CASE ~EnqueueChildren
          BY <1>2, <2>4, <4>2, WalkGoesOn DEF GoesOn
        <4> QED BY <4>1, <4>2
      <3>5. ASSUME NEW b \in visited'
            PROVE  tracker'.discovered_children[b] \subseteq
                      visited' \cup QueuedBlocks' \cup (IF b = Block' THEN Offspring' ELSE {})
        BY <2>1, <3>1, <3>2, <3>3, <3>4
      <3> QED BY <3>5 DEF ChildrenQueued
    <2> QED BY <2>2, <2>3, <2>4
  <1> QED BY <1>1, <1>2

\* The counters follow the blocks.
LEMMA BlocksCountedStep ==
    ASSUME CopyTaskInv, ReportInv, [SingleNext]_singleVars
    PROVE  BlocksCounted' /\ copied_block_count' \in Nat /\ skipped_already_present_block_count' \in Nat
  <1>0. /\ Moved /\ PlacesApart /\ AddedOnce /\ Lost \subseteq visited /\ blind_write' = blind_write
        /\ IsFiniteSet(visited) /\ IsFiniteSet(Added) /\ Stored \subseteq destination
        /\ copied_block_count \in Nat /\ skipped_already_present_block_count \in Nat
        /\ BlocksCounted
    BY StepMoves, CutStays DEF ReportInv, ReportTypes, ChildrenKnown
  <1>1. blind_write' => attempted_write_block_count' = Cardinality(visited' \ (Unread' \cup BeingRead'))
    BY AttemptedStep
  <1>2. IsFiniteSet(visited') /\ IsFiniteSet(Added')
    BY <1>0, MovedFinite
  <1>3. CASE ~blind_write
    <2>1. PICK C, S : C = CopiedSet /\ S = SkippedSet
      OBVIOUS
    <2>2. C \subseteq Added /\ S \subseteq visited
      BY <2>1 DEF CopiedSet, SkippedSet
    <2>3. IsFiniteSet(C) /\ IsFiniteSet(S)
      BY <1>0, <2>2, FS_Subset
    <2>4. copied_block_count = Cardinality(CopiedSet) /\ skipped_already_present_block_count = Cardinality(SkippedSet)
      BY <1>0, <1>3 DEF BlocksCounted, CopiedSet, SkippedSet
    <2>5. /\ copied_block_count' = Cardinality(CopiedSet')
          /\ skipped_already_present_block_count' = Cardinality(SkippedSet')
      BY <1>0, <1>3, <2>1, <2>3, <2>4, MovedCounted
    <2>6. PICK D, T : D = CopiedSet' /\ T = SkippedSet'
      OBVIOUS
    <2>7. D \subseteq Added' /\ T \subseteq visited'
      BY <2>6 DEF CopiedSet, SkippedSet
    <2>8. IsFiniteSet(D) /\ IsFiniteSet(T)
      BY <1>2, <2>7, FS_Subset
    <2>9. Cardinality(D) \in Nat /\ Cardinality(T) \in Nat
      BY <2>8, FS_CardinalityType
    <2> QED BY <1>0, <1>1, <1>3, <2>5, <2>6, <2>9 DEF BlocksCounted, CopiedSet, SkippedSet
  <1>4. CASE blind_write
    <2>1. copied_block_count' \in Nat /\ skipped_already_present_block_count' \in Nat
      <3>1. CountsKept => copied_block_count' \in Nat /\ skipped_already_present_block_count' \in Nat
        BY <1>0 DEF CountsKept, CountsNext
      <3>2. ASSUME NEW b \in Blocks, Left(b)
            PROVE  copied_block_count' \in Nat /\ skipped_already_present_block_count' \in Nat
        BY <1>0, <3>1, <3>2 DEF Left, CountsNext
      <3>3. ASSUME NEW J \in SUBSET Blocks, NEW O \in SUBSET Blocks, Finished(J, O)
            PROVE  copied_block_count' \in Nat /\ skipped_already_present_block_count' \in Nat
        BY <1>0, <1>4, <3>3 DEF Finished, CountsNext
      <3>4. Kept \/ Discarded \/ Flushed \/ Enqueued => CountsKept
        BY DEF Kept, Discarded, Flushed, Enqueued
      <3>5. \A b \in Blocks : Began(b) \/ Pushed(b) \/ PutOne(b) => CountsKept
        BY DEF Began, Pushed, PutOne
      <3> QED BY <1>0, <3>1, <3>2, <3>3, <3>4, <3>5 DEF Moved
    <2> QED BY <1>0, <1>1, <1>4, <2>1 DEF BlocksCounted
  <1> QED BY <1>3, <1>4

\* The types.
LEMMA ReportTypesStep ==
    ASSUME CopyTaskInv, ReportInv, [SingleNext]_singleVars
    PROVE  ReportTypes'
  <1>1. tracker' \in Trackers
    BY TrackerGrows DEF Grown
  <1>2. IsFiniteSet(visited') /\ IsFiniteSet(Added') /\ Stored \subseteq destination'
    BY StepMoves, MovedFinite DEF ReportInv, ReportTypes
  <1>3. blind_write' \in BOOLEAN /\ interrupted' \in BOOLEAN
    BY CutStays DEF ReportInv, ReportTypes
  <1>4. /\ copied_block_count' \in Nat /\ skipped_already_present_block_count' \in Nat
        /\ attempted_write_block_count' \in Nat
    BY BlocksCountedStep, AttemptedStep
  <1>5. WalkTypes'
    BY WalkTypesStep
  <1> QED BY <1>1, <1>2, <1>3, <1>4, <1>5 DEF ReportTypes, WalkTypes

\* Every step keeps the invariant.
LEMMA ReportInvStep ==
    ASSUME CopyTaskInv, ReportInv, [SingleNext]_singleVars
    PROVE  ReportInv'
  <1>0. /\ PlacesApart /\ AddedOnce /\ EveryBlockPlaced /\ Lost \subseteq visited /\ ReportedOnce
        /\ blind_write' = blind_write /\ (Cut => Cut')
    BY CutStays DEF ReportInv, ChildrenKnown
  <1>1. Moved /\ EachOnce'
    BY StepMoves
  <1>2. PlacesApart' /\ AddedOnce' /\ EveryBlockPlaced'
    BY <1>0, <1>1, MovedApart, MovedAdded, MovedPlaced
  <1>3. ReportedOnce'
    BY <1>0, TrackerGrows DEF Grown, ReportComplete, ReportedOnce
  <1>4. ReportTypes' /\ BlocksCounted' /\ ChildrenKnown' /\ RootsPropagate'
    BY ReportTypesStep, BlocksCountedStep, ChildrenKnownStep, SinglePropagateStep
  <1>5. RootsQueued' /\ ChildrenQueued' /\ WalkedAll'
    BY RootsQueuedStep, ChildrenQueuedStep, WalkTypesStep
  <1> QED BY <1>1, <1>2, <1>3, <1>4, <1>5 DEF ReportInv

\* The copy starts with every root queued and nothing else.
LEMMA ReportInvInit ==
    ASSUME SingleInit
    PROVE  ReportInv
  <1>1. PICK blind, whole \in BOOLEAN : SingleStart(blind, whole)
    BY DEF SingleInit
  <1>2. /\ blind_write \in BOOLEAN /\ interrupted = FALSE /\ pc = "pop" /\ resume = "push"
        /\ queue = [i \in 1..Len(RootIds) |-> <<RootIds[i], RootIds[i]>>]
        /\ visited = {} /\ tracker = NewTracker /\ buffered = <<>> /\ publication = <<>> /\ pending = <<>>
        /\ copied_block_count = 0 /\ skipped_already_present_block_count = 0
        /\ attempted_write_block_count = 0 /\ destination = Stored
    BY <1>1 DEF SingleStart
  <1>3. RootIds \in Seq(Blocks)
    BY GraphAssumption
  <1>4. PICK n \in Nat : n = Len(RootIds)
    BY <1>3
  <1>5. tracker \in Trackers /\ \A b \in Blocks : tracker.discovered_children[b] = {}
    BY <1>2, NewTrackerFacts
  <1>6. \A b \in Blocks, o \in Operations : ~BagIn(o, tracker.failure_templates[b])
    <2>1. \A b \in Blocks : \A o : BagIn(o, tracker.failure_templates[b]) <=> TimesRecorded(tracker, b, o) > 0
      BY <1>5, CountsType
    <2>2. \A b \in Blocks : \A o : TimesRecorded(tracker, b, o) = 0
      BY <1>2, NewTrackerFacts
    <2> QED BY <2>1, <2>2
  <1>7. Lost = {} /\ Unread = {} /\ Undecoded = {}
    BY <1>6 DEF Lost, Unread, Undecoded, FailedBlocks, LosingOperations, Operations
  <1>8. Buffered = {} /\ Published = {} /\ Distinct(buffered) /\ Distinct(publication)
    BY <1>2, NoJobs DEF Buffered, Published
  <1>9. InFlight = {} /\ Written = {} /\ ApartIn(pending)
    <2>1. Len(pending) = 0
      BY <1>2
    <2> QED BY <2>1 DEF InFlight, Written, FlightOf, WrittenIn, ApartIn
  <1>10. Handled = {} /\ BeingRead = {} /\ Checked = {} /\ ~WalkEnded /\ Offspring = {}
    BY <1>2 DEF Handled, InHand, BeingRead, Checked, WalkEnded, Offspring
  <1>11. Added = {}
    BY <1>2 DEF Added
  <1>12. ReportTypes
    <2>1. IsFiniteSet(visited) /\ IsFiniteSet(Added)
      BY <1>2, <1>11, FS_EmptySet
    <2>2. queue # <<>> => RootIds # <<>>
      <3>1. CASE RootIds = <<>>
        <4>1. 1..Len(RootIds) = {}
          BY <3>1
        <4>2. queue = [i \in {} |-> <<RootIds[i], RootIds[i]>>]
          BY <1>2, <4>1
        <4>3. queue \in Seq(Blocks \X Blocks) /\ DOMAIN queue = {}
          BY <1>2, <1>3, <1>4, <4>2
        <4> QED BY <4>3
      <3> QED BY <3>1
    <2> QED BY <1>2, <1>5, <2>1, <2>2 DEF ReportTypes
  <1>13. EachOnce /\ PlacesApart /\ AddedOnce /\ EveryBlockPlaced
    BY <1>2, <1>7, <1>8, <1>9, <1>10, <1>11 DEF EachOnce, PlacesApart, AddedOnce, EveryBlockPlaced
  <1>14. BlocksCounted
    <2>1. Cardinality({}) = 0
      BY FS_EmptySet
    <2>2. /\ Added \ InFlight = {} /\ (visited \cap Stored) \ (Lost \cup Handled) = {}
          /\ visited \ (Unread \cup BeingRead) = {}
      BY <1>2, <1>11
    <2> QED BY <1>2, <2>1, <2>2 DEF BlocksCounted
  <1>15. ChildrenKnown /\ RootsPropagate /\ ChildrenQueued
    BY <1>2, <1>5, <1>7, <1>10 DEF ChildrenKnown, RootsPropagate, ChildrenQueued
  <1>16. ReportedOnce
    <2>1. \A r, b \in Blocks, o \in Operations : TimesReported(tracker, r, b, o) = 0 /\ TimesRecorded(tracker, b, o) = 0
      BY <1>2, NewTrackerFacts
    <2> QED BY <2>1 DEF ReportedOnce
  <1>17. RootsQueued
    <2>1. ASSUME NEW r \in ToSet(RootIds) PROVE r \in QueuedRoots
      <3>1. PICK i \in 1..n : r = RootIds[i]
        BY <1>3, <1>4 DEF ToSet
      <3>2. Len(queue) = n /\ queue[i] = <<r, r>> /\ r \in Blocks
        BY <1>2, <1>3, <1>4, <3>1
      <3> QED BY <3>2 DEF QueuedRoots
    <2> QED BY <2>1 DEF RootsQueued
  <1> QED BY <1>10, <1>12, <1>13, <1>14, <1>15, <1>16, <1>17 DEF ReportInv, WalkedAll

-----------------------------------------------------------------------------
(* What the invariant says of a copy that has returned. *)

\* The children over which a root reaches further blocks.
FollowedEdges(b) == IF Failed(b, {"ReadSourceBlock", "DecodeSourceBlock"}) THEN {} ELSE ToSet(Children[b])

\* ReachableFrom, over these.
LEMMA ReachableOverFollowed ==
    \A r, b : b \in ReachableFrom(r) <=>
       /\ b \in Blocks
       /\ \A S \in SUBSET Blocks : r \in S /\ (\A c \in S : FollowedEdges(c) \subseteq S) => b \in S
  BY DEF ReachableFrom, FollowedEdges

\* What failed, as the properties say it.
LEMMA FailedIs ==
    /\ \A b \in Blocks : Failed(b, LosingOperations) <=> b \in Lost
    /\ \A b \in Blocks : Failed(b, {"ReadSourceBlock"}) <=> b \in Unread
    /\ \A b \in Blocks : Failed(b, {"ReadSourceBlock", "DecodeSourceBlock"}) <=> b \in Undecoded
  BY DEF Failed, Lost, Unread, Undecoded, FailedBlocks

\* A returned copy has nothing left in any place.
LEMMA ReturnedIsEmpty ==
    ASSUME CopyTaskInv, ReportInv, pc = "returned"
    PROVE  /\ Handled = {} /\ Buffered = {} /\ Published = {} /\ InFlight = {} /\ BeingRead = {}
           /\ Offspring = {} /\ WalkEnded
  <1>1. buffered = <<>> /\ publication = <<>> /\ pending = <<>>
    BY DEF CopyTaskInv, EmptiedAt
  <1>2. Buffered = {} /\ Published = {}
    BY <1>1, NoJobs DEF Buffered, Published
  <1>3. InFlight = {}
    <2>1. Len(pending) = 0
      BY <1>1
    <2> QED BY <2>1 DEF InFlight, FlightOf
  <1>4. Handled = {} /\ BeingRead = {} /\ Offspring = {} /\ WalkEnded
    BY DEF Handled, InHand, BeingRead, Offspring, WalkEnded
  <1> QED BY <1>2, <1>3, <1>4

\* A completed copy has visited what its roots reach.
LEMMA CompletedWalk ==
    ASSUME CopyTaskInv, ReportInv, Completed, NEW r \in ToSet(RootIds), NEW b \in ReachableFrom(r)
    PROVE  b \in Blocks /\ b \in visited /\ r \in tracker.block_roots[b]
  <1>1. pc = "returned" /\ ~Cut
    BY DEF Completed, Cut
  <1>2. queue = <<>> /\ Offspring = {}
    BY <1>1, ReturnedIsEmpty DEF ReportInv, WalkedAll
  <1>3. QueuedBlocks = {} /\ QueuedRoots = {}
    <2>1. Len(queue) = 0
      BY <1>2
    <2> QED BY <2>1 DEF QueuedBlocks, QueuedRoots
  <1>4. visited \subseteq Blocks /\ tracker \in Trackers
    BY DEF CopyTaskInv, SingleTypes, ReportInv, ReportTypes
  <1>5. PICK R : R = {c \in visited : r \in tracker.block_roots[c]}
    OBVIOUS
  <1>6. r \in R
    BY <1>1, <1>3, <1>5 DEF ReportInv, RootsQueued
  <1>7. ASSUME NEW c \in R, NEW d \in FollowedEdges(c) PROVE d \in R
    <2>1. c \in visited /\ c \in Blocks /\ r \in tracker.block_roots[c]
      BY <1>4, <1>5
    <2>2. c \notin Undecoded /\ d \in ToSet(Children[c])
      BY <1>7, <2>1, FailedIs DEF FollowedEdges
    <2>3. d \in tracker.discovered_children[c]
      BY <1>1, <2>1, <2>2, ReturnedIsEmpty DEF ReportInv, ChildrenKnown
    <2>4. d \in visited
      BY <1>1, <1>2, <1>3, <2>1, <2>3 DEF ReportInv, ChildrenQueued
    <2>5. r \in tracker.block_roots[d]
      BY <2>1, <2>3 DEF ReportInv, RootsPropagate
    <2> QED BY <1>5, <2>4, <2>5
  <1>8. R \in SUBSET Blocks
    BY <1>4, <1>5
  <1>9. b \in R
    BY <1>6, <1>7, <1>8, ReachableOverFollowed
  <1> QED BY <1>4, <1>5, <1>9

\* Every root is told about every block below it.
LEMMA RootsAccounted ==
    ASSUME CopyTaskInv, ReportInv
    PROVE  EveryRootAccounted
  <1> SUFFICES ASSUME Completed, NEW r \in ToSet(RootIds), NEW b \in ReachableFrom(r), b \notin destination
               PROVE  \E o \in LosingOperations : BagIn(Failure(r, b, o), tracker.failures)
    BY DEF EveryRootAccounted
  <1>1. b \in Blocks /\ b \in visited /\ r \in tracker.block_roots[b]
    BY CompletedWalk
  <1>2. pc = "returned" /\ ~Cut
    BY DEF Completed, Cut
  <1>3. b \in Lost
    BY <1>1, <1>2, ReturnedIsEmpty DEF ReportInv, EveryBlockPlaced
  <1>4. PICK o \in LosingOperations : BagIn(o, tracker.failure_templates[b])
    BY <1>3 DEF Lost, FailedBlocks
  <1>5. r \in Blocks
    BY GraphAssumption DEF ToSet
  <1>6. o \in Operations /\ tracker \in Trackers
    BY DEF LosingOperations, Operations, ReportInv, ReportTypes
  <1>7. TimesReported(tracker, r, b, o) = TimesRecorded(tracker, b, o)
    BY <1>1, <1>5, <1>6 DEF ReportInv, ReportedOnce
  <1> QED BY <1>1, <1>4, <1>6, <1>7, CountsType

\* The counters of the report are true.
LEMMA CountersTrue ==
    ASSUME CopyTaskInv, ReportInv
    PROVE  ReportIsTruthful
  <1> SUFFICES ASSUME pc = "returned" PROVE ReportIsTruthful
    BY DEF ReportIsTruthful
  <1>0. /\ Handled = {} /\ Buffered = {} /\ Published = {} /\ InFlight = {} /\ BeingRead = {}
        /\ visited \subseteq Blocks /\ IsFiniteSet(visited) /\ IsFiniteSet(Added)
        /\ Stored \subseteq destination /\ blind_write \in BOOLEAN
    BY ReturnedIsEmpty DEF CopyTaskInv, SingleTypes, ReportInv, ReportTypes
  <1>1. /\ Lost \cup Unread \subseteq visited /\ Added \subseteq visited \ Lost
    BY DEF ReportInv, ChildrenKnown, AddedOnce
  <1>2. ~blind_write => copied_block_count = Cardinality(destination \ Stored)
    <2>1. Added \ InFlight = destination \ Stored
      BY <1>0 DEF Added
    <2> QED BY <2>1 DEF ReportInv, BlocksCounted
  <1>3. PICK lost : lost = {b \in visited : Failed(b, LosingOperations)}
    OBVIOUS
  <1>4. lost = Lost
    BY <1>0, <1>1, <1>3, FailedIs
  <1>5. Completed => visited \subseteq destination \cup Lost
    BY <1>0 DEF Completed, Cut, ReportInv, EveryBlockPlaced
  <1>6. ASSUME blind_write
        PROVE  attempted_write_block_count = Cardinality({b \in visited : ~Failed(b, {"ReadSourceBlock"})})
    <2>1. visited \ (Unread \cup BeingRead) = {b \in visited : ~Failed(b, {"ReadSourceBlock"})}
      BY <1>0, FailedIs
    <2> QED BY <1>6, <2>1 DEF ReportInv, BlocksCounted
  <1>7. ASSUME ~blind_write, Completed
        PROVE  Cardinality(visited) = Cardinality(lost) + copied_block_count
                                      + skipped_already_present_block_count
    <2>1. PICK C, S, U, L, V : /\ C = Added /\ S = (visited \cap Stored) \ Lost /\ U = C \cup S
                               /\ L = Lost /\ V = visited
      OBVIOUS
    <2>2. S \subseteq V /\ L \subseteq V
      BY <1>1, <2>1
    <2>3. IsFiniteSet(C) /\ IsFiniteSet(S) /\ IsFiniteSet(L)
      BY <1>0, <2>1, <2>2, FS_Subset
    <2>4. C \cap S = {}
      BY <2>1 DEF Added
    <2>5. Cardinality(U) = Cardinality(C) + Cardinality(S)
      BY <2>1, <2>3, <2>4, DisjointSum
    <2>6. IsFiniteSet(U)
      BY <2>1, <2>3, FS_Union
    <2>7. L \cap U = {}
      BY <1>1, <2>1
    <2>8. V = L \cup U
      <3>1. \A b \in visited : b \in Lost \/ b \in Added \/ b \in Stored
        BY <1>5, <1>7 DEF Added
      <3> QED BY <1>1, <2>1, <3>1
    <2>9. Cardinality(V) = Cardinality(L) + Cardinality(U)
      BY <2>3, <2>6, <2>7, <2>8, DisjointSum
    <2>10. Cardinality(C) \in Nat /\ Cardinality(S) \in Nat /\ Cardinality(L) \in Nat
      BY <2>3, FS_CardinalityType
    <2>11. copied_block_count = Cardinality(C)
      <3>1. Added \ InFlight = C
        BY <1>0, <2>1
      <3> QED BY <1>7, <3>1 DEF ReportInv, BlocksCounted
    <2>12. skipped_already_present_block_count = Cardinality(S)
      <3>1. (visited \cap Stored) \ (Lost \cup Handled) = S
        BY <1>0, <2>1
      <3> QED BY <1>7, <3>1 DEF ReportInv, BlocksCounted
    <2>13. Cardinality(V) = Cardinality(L) + Cardinality(C) + Cardinality(S)
      BY <2>5, <2>9, <2>10
    <2> QED BY <1>4, <2>1, <2>11, <2>12, <2>13
  <1> QED BY <1>0, <1>2, <1>3, <1>4, <1>5, <1>6, <1>7 DEF ReportIsTruthful

\* Both invariants hold throughout.
LEMMA ReportInvHolds == SingleSpec => [](CopyTaskInv /\ ReportInv)
  <1>1. SingleInit => CopyTaskInv /\ ReportInv
    BY SingleInitInv, ReportInvInit
  <1>2. (CopyTaskInv /\ ReportInv) /\ [SingleNext]_singleVars => (CopyTaskInv /\ ReportInv)'
    BY CopyTaskInvStep, ReportInvStep
  <1> QED BY <1>1, <1>2, PTL DEF SingleSpec

\* The single-worker copy: for every graph of blocks, every mode, limit and checkpoint
\* interval, whatever fails and in whichever order the writes complete, a copy that
\* ran to its end left every block a requested root reaches in the destination or
\* reports its failure for that root, and the counters of its report are those of the
\* blocks it visited, added, skipped and lost.
THEOREM CopyReportSafe == SingleSpec => []CopyReportSound
  <1>1. CopyTaskInv /\ ReportInv => CopyReportSound
    BY RootsAccounted, CountersTrue DEF CopyReportSound
  <1> QED BY <1>1, ReportInvHolds, PTL

=============================================================================
