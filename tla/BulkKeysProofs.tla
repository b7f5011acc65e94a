--------------------------- MODULE BulkKeysProofs ---------------------------
(***************************************************************************)
(* Proofs about BulkKeys: what the sort of NewKeys and the bisection of    *)
(* Keys.Find return for every list of names and every vector of ids, and   *)
(* the properties of the results, for any number of names, namespaces and  *)
(* calls.                                                                  *)
(***************************************************************************)
EXTENDS BulkKeys, FiniteSetTheorems, SequenceTheorems, SetInduction

---------------------------------------------------------------------------
(* The sort of NewKeys *)

InOrder(s, p, n) == \A i, j \in 1 .. n : i < j => s[p[i]] <= s[p[j]]

(* Putting one more element in its place. *)
LEMMA SortOneMore ==
    ASSUME NEW s \in Seq(Nat), NEW n \in Nat, n + 1 <= Len(s),
           NEW p \in Bijection(1 .. n, 1 .. n), InOrder(s, p, n)
    PROVE  \E q \in Bijection(1 .. n + 1, 1 .. n + 1) : InOrder(s, q, n + 1)
<1> DEFINE v == s[n + 1]
           Fits == {k \in 0 .. n : \A i \in 1 .. k : s[p[i]] <= v}
<1>0. /\ p \in [1 .. n -> 1 .. n]
      /\ \A i, j \in 1 .. n : p[i] = p[j] => i = j
      /\ \A w \in 1 .. n : \E i \in 1 .. n : p[i] = w
  BY DEF Bijection, Injection, Surjection, IsInjective
<1>1. v \in Nat /\ \A i \in 1 .. n : p[i] \in 1 .. n /\ s[p[i]] \in Nat
  <2>1. \A i \in 1 .. n + 1 : i \in 1 .. Len(s)
    OBVIOUS
  <2>2. \A i \in 1 .. n + 1 : s[i] \in Nat
    BY <2>1
  <2>3. \A i \in 1 .. n : p[i] \in 1 .. n
    BY <1>0
  <2>4. n + 1 \in 1 .. n + 1 /\ \A i \in 1 .. n : i \in 1 .. n + 1
    OBVIOUS
  <2> QED
    BY <2>2, <2>3, <2>4
<1>2. PICK k \in Fits : \A m \in Fits : m <= k
  <2>1. 0 \in Fits
    OBVIOUS
  <2>2. \A m \in Fits : m \in Nat /\ m <= n
    OBVIOUS
  <2> HIDE DEF Fits
  <2> QED
    BY <2>1, <2>2, GreatestNatural
<1>3. k \in 0 .. n /\ \A i \in 1 .. k : s[p[i]] <= v
  BY <1>2
<1>4. \A i \in 1 .. n : i > k => v <= s[p[i]]
  <2> SUFFICES ASSUME k < n PROVE \A i \in 1 .. n : i > k => v <= s[p[i]]
    BY <1>3
  <2>1. k + 1 \notin Fits
    BY <1>2, <1>3
  <2>2. k + 1 \in 1 .. n
    BY <1>3
  <2>3. s[p[k + 1]] > v
    <3>1. k + 1 \in 0 .. n
      BY <2>2
    <3>2. PICK i \in 1 .. k + 1 : ~(s[p[i]] <= v)
      BY <2>1, <3>1
    <3> HIDE DEF v
    <3>3. i \notin 1 .. k
      BY <1>3, <3>2
    <3>4. i = k + 1
      BY <1>3, <3>2, <3>3
    <3>5. s[p[k + 1]] \in Nat /\ v \in Nat /\ ~(s[p[k + 1]] <= v)
      BY <1>1, <2>2, <3>2, <3>4
    <3> QED
      BY <3>5
  <2>4. \A i \in 1 .. n : i > k + 1 => s[p[k + 1]] <= s[p[i]]
    BY <2>2 DEF InOrder
  <2>5. \A i \in 1 .. n : i > k => i = k + 1 \/ i > k + 1
    BY <1>3
  <2>6. s[p[k + 1]] \in Nat
    BY <2>2, <1>1
  <2> HIDE DEF v
  <2>7. ASSUME NEW i \in 1 .. n, i > k PROVE v <= s[p[i]]
    <3> DEFINE x == s[p[k + 1]]
               y == s[p[i]]
    <3>1. x \in Nat /\ y \in Nat /\ v \in Nat /\ x > v
      BY <1>1, <2>3, <2>6
    <3>2. x <= y
      <4>1. CASE i = k + 1
        BY <4>1, <3>1
      <4>2. CASE i > k + 1
        BY <4>2, <2>4
      <4> QED
        BY <4>1, <4>2, <2>5, <2>7
    <3> HIDE DEF x, y
    <3>3. v <= y
      BY <3>1, <3>2
    <3> QED
      BY <3>3 DEF y
  <2> QED
    BY <2>7
<1> DEFINE q == [i \in 1 .. n + 1 |-> IF i <= k THEN p[i]
                                     ELSE IF i = k + 1 THEN n + 1 ELSE p[i - 1]]
<1> HIDE DEF v, Fits
<1>5. \A i \in 1 .. n + 1 :
         /\ i <= k => i \in 1 .. n /\ q[i] = p[i] /\ q[i] \in 1 .. n
         /\ i = k + 1 => q[i] = n + 1
         /\ i > k + 1 => i - 1 \in 1 .. n /\ q[i] = p[i - 1] /\ q[i] \in 1 .. n
  <2>1. \A i \in 1 .. n + 1 : /\ i <= k => i \in 1 .. n
                              /\ i > k + 1 => i - 1 \in 1 .. n /\ ~(i <= k)
                              /\ i = k + 1 => ~(i <= k)
    BY <1>3
  <2>2. \A i \in 1 .. n + 1 : i > k + 1 => i # k + 1
    BY <1>3
  <2> QED
    BY <1>1, <2>1, <2>2
<1>6. q \in [1 .. n + 1 -> 1 .. n + 1]
  <2>1. \A i \in 1 .. n + 1 : q[i] \in 1 .. n + 1
    <3>1. \A i \in 1 .. n + 1 : i <= k \/ i = k + 1 \/ i > k + 1
      BY <1>3
    <3>2. n + 1 \in 1 .. n + 1 /\ \A x \in 1 .. n : x \in 1 .. n + 1
      OBVIOUS
    <3> HIDE DEF q
    <3> QED
      BY <1>5, <3>1, <3>2
  <2>2. q = [i \in 1 .. n + 1 |-> q[i]]
    OBVIOUS
  <2> HIDE DEF q
  <2> QED
    BY <2>1, <2>2
<1>7. \A i \in 1 .. n + 1 : i <= k \/ i = k + 1 \/ i > k + 1
  BY <1>3
<1> HIDE DEF q
<1>70. n + 1 \notin 1 .. n
  OBVIOUS
<1>8. \A i, j \in 1 .. n + 1 : q[i] = q[j] => i = j
  <2> SUFFICES ASSUME NEW i \in 1 .. n + 1, NEW j \in 1 .. n + 1, q[i] = q[j]
               PROVE  i = j
    OBVIOUS
  <2>1. CASE i = k + 1 \/ j = k + 1
    BY <2>1, <1>5, <1>7, <1>70
  <2>2. CASE i <= k /\ j <= k
    BY <2>2, <1>0, <1>5
  <2>3. CASE i > k + 1 /\ j > k + 1
    <3>1. i - 1 = j - 1
      BY <2>3, <1>0, <1>5
    <3> QED
      BY <3>1
  <2>4. CASE i <= k /\ j > k + 1
    <3>1. i = j - 1
      BY <2>4, <1>0, <1>5
    <3> QED
      BY <3>1, <2>4, <1>3
  <2>5. CASE i > k + 1 /\ j <= k
    <3>1. j = i - 1
      BY <2>5, <1>0, <1>5
    <3> QED
      BY <3>1, <2>5, <1>3
  <2> QED
    BY <1>7, <2>1, <2>2, <2>3, <2>4, <2>5
<1>9. \A w \in 1 .. n + 1 : \E i \in 1 .. n + 1 : q[i] = w
  <2> SUFFICES ASSUME NEW w \in 1 .. n + 1 PROVE \E i \in 1 .. n + 1 : q[i] = w
    OBVIOUS
  <2>1. CASE w = n + 1
    <3>1. k + 1 \in 1 .. n + 1
      BY <1>3
    <3> QED
      BY <2>1, <3>1, <1>5
  <2>2. CASE w \in 1 .. n
    <3>1. PICK i \in 1 .. n : p[i] = w
      BY <1>0, <2>2
    <3>2. CASE i <= k
      BY <3>1, <3>2, <1>5
    <3>3. CASE i > k
      <4>1. i + 1 \in 1 .. n + 1 /\ i + 1 > k + 1 /\ (i + 1) - 1 = i
        BY <3>3, <1>3
      <4> QED
        BY <3>1, <4>1, <1>5
    <3> QED
      BY <3>2, <3>3, <1>3
  <2> QED
    BY <2>1, <2>2
<1>10. InOrder(s, q, n + 1)
  <2> SUFFICES ASSUME NEW i \in 1 .. n + 1, NEW j \in 1 .. n + 1, i < j
               PROVE  s[q[i]] <= s[q[j]]
    BY DEF InOrder
  <2>1. CASE j <= k
    <3>1. i <= k /\ q[i] = p[i] /\ q[j] = p[j] /\ i \in 1 .. n /\ j \in 1 .. n
      BY <2>1, <1>3, <1>5
    <3> QED
      BY <3>1 DEF InOrder
  <2>2. CASE j = k + 1
    <3>1. i \in 1 .. k /\ q[i] = p[i] /\ q[j] = n + 1
      BY <2>2, <1>3, <1>5
    <3> QED
      BY <3>1, <1>3 DEF v
  <2>3. CASE j > k + 1 /\ i <= k
    <3>1. q[i] = p[i] /\ q[j] = p[j - 1] /\ i \in 1 .. n /\ j - 1 \in 1 .. n /\ i < j - 1
      BY <2>3, <1>3, <1>5
    <3> QED
      BY <3>1 DEF InOrder
  <2>4. CASE j > k + 1 /\ i = k + 1
    <3>1. q[i] = n + 1 /\ q[j] = p[j - 1] /\ j - 1 \in 1 .. n /\ j - 1 > k
      BY <2>4, <1>3, <1>5
    <3> QED
      BY <3>1, <1>4 DEF v
  <2>5. CASE j > k + 1 /\ i > k + 1
    <3>1. /\ q[i] = p[i - 1] /\ q[j] = p[j - 1]
          /\ i - 1 \in 1 .. n /\ j - 1 \in 1 .. n /\ i - 1 < j - 1
      BY <2>5, <1>3, <1>5
    <3> QED
      BY <3>1 DEF InOrder
  <2> QED
    BY <1>7, <2>1, <2>2, <2>3, <2>4, <2>5
<1> QED
  BY <1>6, <1>8, <1>9, <1>10 DEF Bijection, Injection, Surjection, IsInjective

(* Every list of names can be sorted. *)
LEMMA SortingExists ==
    ASSUME NEW s \in Seq(Nat)
    PROVE  \E p \in Bijection(1 .. Len(s), 1 .. Len(s)) : InOrder(s, p, Len(s))
<1> DEFINE Good == {n \in Nat : n <= Len(s) =>
                       \E p \in Bijection(1 .. n, 1 .. n) : InOrder(s, p, n)}
<1>1. 0 \in Good
  <2>1. \A p : InOrder(s, p, 0)
    BY DEF InOrder
  <2>2. [i \in 1 .. 0 |-> i] \in Bijection(1 .. 0, 1 .. 0)
    BY DEF Bijection, Injection, Surjection, IsInjective
  <2> QED
    BY <2>1, <2>2
<1>2. ASSUME NEW n \in Nat, n \in Good PROVE n + 1 \in Good
  BY <1>2, SortOneMore
<1> HIDE DEF Good
<1>3. Len(s) \in Good
  BY <1>1, <1>2, SetInduction, SMTT(30)
<1> QED
  BY <1>3 DEF Good

(* NewKeys has all the names of the slice, in their order. *)
LEMMA NewKeysSorts ==
    ASSUME NEW slice \in Seq(Names)
    PROVE  /\ NewKeys(slice) \in Seq(Names)
           /\ Len(NewKeys(slice)) = Len(slice)
           /\ \A i, j \in 1 .. Len(slice) :
                 i < j => NewKeys(slice)[i] <= NewKeys(slice)[j]
           /\ \A i \in 1 .. Len(slice) :
                 \E j \in 1 .. Len(slice) : NewKeys(slice)[j] = slice[i]
<1> DEFINE n == Len(slice)
           Sorts(p) == \A i, j \in DOMAIN slice : i < j => slice[p[i]] <= slice[p[j]]
           from == CHOOSE p \in Bijection(DOMAIN slice, DOMAIN slice) : Sorts(p)
<1>0. slice \in Seq(Nat) /\ DOMAIN slice = 1 .. n /\ n \in Nat
  <2>1. Names \subseteq Nat
    BY NamesAssumption
  <2>2. n \in Nat /\ DOMAIN slice = 1 .. n /\ slice = [i \in 1 .. n |-> slice[i]]
    OBVIOUS
  <2>3. \A i \in 1 .. n : slice[i] \in Names
    OBVIOUS
  <2>4. \A i \in 1 .. n : slice[i] \in Nat
    BY <2>1, <2>3
  <2>5. [i \in 1 .. n |-> slice[i]] \in Seq(Nat)
    BY <2>2, <2>4, IsASeq
  <2> QED
    BY <2>2, <2>5
<1>1. \E p \in Bijection(DOMAIN slice, DOMAIN slice) : Sorts(p)
  BY <1>0, SortingExists DEF InOrder
<1>2. from \in Bijection(DOMAIN slice, DOMAIN slice) /\ Sorts(from)
  BY <1>1
<1>3. NewKeys(slice) = [i \in 1 .. n |-> slice[from[i]]]
  BY <1>0 DEF NewKeys
<1> HIDE DEF from
<1>4. /\ from \in [1 .. n -> 1 .. n]
      /\ \A w \in 1 .. n : \E i \in 1 .. n : from[i] = w
  BY <1>0, <1>2 DEF Bijection, Injection, Surjection, IsInjective
<1>5. \A i \in 1 .. n : slice[from[i]] \in Names
  <2>1. \A i \in 1 .. n : slice[i] \in Names
    OBVIOUS
  <2> HIDE DEF n
  <2> QED
    BY <1>4, <2>1
<1>6. NewKeys(slice) \in Seq(Names) /\ Len(NewKeys(slice)) = n
  BY <1>0, <1>3, <1>5
<1>60. \A i \in 1 .. n : NewKeys(slice)[i] = slice[from[i]]
  BY <1>3
<1> HIDE DEF n
<1>7. \A i, j \in 1 .. n : i < j => NewKeys(slice)[i] <= NewKeys(slice)[j]
  <2>1. \A i, j \in 1 .. n : i < j => slice[from[i]] <= slice[from[j]]
    BY <1>0, <1>2
  <2> QED
    BY <1>60, <2>1
<1>8. \A i \in 1 .. n : \E j \in 1 .. n : NewKeys(slice)[j] = slice[i]
  <2> TAKE i \in 1 .. n
  <2>1. PICK j \in 1 .. n : from[j] = i
    BY <1>4
  <2>2. NewKeys(slice)[j] = slice[i]
    BY <1>60, <2>1
  <2> QED
    BY <2>2
<1> QED
  BY <1>6, <1>7, <1>8 DEF n

---------------------------------------------------------------------------
(* The bisection *)

(* The recursion of LowerBound: one row for every number of elements left. *)
Row(f, ids, id, len) ==
    [first \in Nat |->
        IF len = 0 THEN first
        ELSE IF ids[first + len \div 2] < id
          THEN f[len - len \div 2 - 1][first + len \div 2 + 1]
          ELSE f[len \div 2][first]]

Searches(f, ids, id, n) == f = [len \in 0 .. n |-> Row(f, ids, id, len)]

(* The two parts of the search are shorter than the whole. *)
LEMMA Halves ==
    ASSUME NEW n \in Nat, NEW len \in 0 .. n, len # 0
    PROVE  /\ len \div 2 \in Nat /\ len \div 2 < len
           /\ len - len \div 2 - 1 \in Nat /\ len - len \div 2 - 1 < len
           /\ len \div 2 + 1 + (len - len \div 2 - 1) = len
<1>1. len \in Nat /\ len > 0
  OBVIOUS
<1>2. len \div 2 \in Nat /\ len \div 2 < len
  BY <1>1
<1>3. \A h \in Nat : h < len => len - h - 1 \in Nat /\ len - h - 1 < len
                               /\ h + 1 + (len - h - 1) = len
  BY <1>1
<1> QED
  BY <1>2, <1>3

(* The recursion is well defined. *)
LEMMA SearchExists ==
    ASSUME NEW ids, NEW id, NEW n \in Nat
    PROVE  \E f : Searches(f, ids, id, n)
<1> DEFINE Good == {m \in Nat : \E f : Searches(f, ids, id, m)}
<1>1. 0 \in Good
  <2> DEFINE f == [len \in 0 .. 0 |-> [first \in Nat |-> first]]
  <2>1. ASSUME NEW len \in 0 .. 0
        PROVE  [first \in Nat |-> first] = Row(f, ids, id, len)
    <3>1. len = 0
      OBVIOUS
    <3> QED
      BY <3>1 DEF Row
  <2>2. Searches(f, ids, id, 0)
    BY <2>1 DEF Searches
  <2> QED
    BY <2>2
<1>2. ASSUME NEW m \in Nat, m \in Good PROVE m + 1 \in Good
  <2>1. PICK f : Searches(f, ids, id, m)
    BY <1>2
  <2> DEFINE g == [len \in 0 .. m + 1 |-> Row(f, ids, id, len)]
  <2>2. \A len \in 0 .. m : g[len] = f[len]
    <3>1. \A len \in 0 .. m : len \in 0 .. m + 1 /\ f[len] = Row(f, ids, id, len)
      BY <2>1 DEF Searches
    <3> QED
      BY <3>1
  <2>3. ASSUME NEW len \in 0 .. m + 1
        PROVE  Row(g, ids, id, len) = Row(f, ids, id, len)
    <3>1. CASE len = 0
      BY <3>1 DEF Row
    <3>2. CASE len # 0
      <4>1. len \div 2 \in 0 .. m /\ len - len \div 2 - 1 \in 0 .. m
        BY <3>2, Halves, m + 1 \in Nat
      <4>2. /\ g[len \div 2] = f[len \div 2]
            /\ g[len - len \div 2 - 1] = f[len - len \div 2 - 1]
        BY <4>1, <2>2
      <4> HIDE DEF g
      <4> QED
        BY <4>2 DEF Row
    <3> QED
      BY <3>1, <3>2
  <2>4. Searches(g, ids, id, m + 1)
    <3>1. g = [len \in 0 .. m + 1 |-> Row(g, ids, id, len)]
      BY <2>3
    <3> HIDE DEF g
    <3> QED
      BY <3>1 DEF Searches
  <2> HIDE DEF g
  <2> QED
    BY <2>4
<1> HIDE DEF Good
<1>3. n \in Good
  BY <1>1, <1>2, SetInduction
<1> QED
  BY <1>3 DEF Good

(* LowerBound is the search of the whole vector. *)
LEMMA LowerBoundSearches ==
    ASSUME NEW ids, NEW id, Len(ids) \in Nat
    PROVE  \E f : /\ Searches(f, ids, id, Len(ids))
                  /\ LowerBound(ids, id) = f[Len(ids)][1]
<1> DEFINE f == CHOOSE g : Searches(g, ids, id, Len(ids))
<1>1. Searches(f, ids, id, Len(ids))
  BY SearchExists
<1>2. LowerBound(ids, id) = f[Len(ids)][1]
  BY DEF LowerBound, Searches, Row
<1> QED
  BY <1>1, <1>2

(* One round of the loop. *)
Round(f, ids, id, len, first) ==
    /\ len = 0 => f[len][first] = first
    /\ len # 0 /\ ids[first + len \div 2] < id =>
          f[len][first] = f[len - len \div 2 - 1][first + len \div 2 + 1]
    /\ len # 0 /\ ~(ids[first + len \div 2] < id) =>
          f[len][first] = f[len \div 2][first]

(* The search goes round by round. *)
LEMMA SearchRound ==
    ASSUME NEW ids, NEW id, NEW n \in Nat, NEW f, Searches(f, ids, id, n),
           NEW len \in 0 .. n, NEW first \in Nat
    PROVE  Round(f, ids, id, len, first)
<1>1. f[len] = Row(f, ids, id, len)
  BY DEF Searches
<1>2. f[len][first] = IF len = 0 THEN first
        ELSE IF ids[first + len \div 2] < id
          THEN f[len - len \div 2 - 1][first + len \div 2 + 1]
          ELSE f[len \div 2][first]
  BY <1>1 DEF Row
<1> QED
  BY <1>2 DEF Round

(* Whatever the order of the ids, the search ends in the part it looks at, *)
(* and behind it only if the last element of that part is below id.        *)
Within(f, ids, id, len, first) ==
    /\ f[len][first] \in Nat
    /\ first <= f[len][first] /\ f[len][first] <= first + len
    /\ len # 0 /\ f[len][first] = first + len => ids[first + len - 1] < id

(* Every search does. *)
LEMMA SearchWithin ==
    ASSUME NEW ids, NEW id, NEW n \in Nat, NEW f, Searches(f, ids, id, n),
           NEW len \in 0 .. n, NEW first \in Nat
    PROVE  Within(f, ids, id, len, first)
<1> DEFINE Good == {m \in Nat : \A l \in 0 .. n : l <= m =>
                       \A x \in Nat : Within(f, ids, id, l, x)}
<1>1. 0 \in Good
  <2> SUFFICES ASSUME NEW l \in 0 .. n, l <= 0, NEW x \in Nat
               PROVE  Within(f, ids, id, l, x)
    OBVIOUS
  <2>1. l = 0
    OBVIOUS
  <2>2. f[l][x] = x
    <3>1. Round(f, ids, id, l, x)
      BY SearchRound
    <3> QED
      BY <2>1, <3>1 DEF Round
  <2> QED
    BY <2>1, <2>2 DEF Within
<1>2. ASSUME NEW m \in Nat, m \in Good PROVE m + 1 \in Good
  <2> SUFFICES ASSUME NEW l \in 0 .. n, l <= m + 1, NEW x \in Nat
               PROVE  Within(f, ids, id, l, x)
    OBVIOUS
  <2>1. CASE l = 0
    BY <2>1, <1>2
  <2>2. CASE l # 0
    <3>0. Round(f, ids, id, l, x)
      BY SearchRound
    <3> DEFINE h == l \div 2
               d == l - h - 1
    <3>1. /\ h \in Nat /\ d \in Nat /\ h < l /\ d < l /\ h + 1 + d = l
      BY <2>2, Halves
    <3> HIDE DEF h, d
    <3>2. /\ h \in 0 .. n /\ d \in 0 .. n /\ h <= m /\ d <= m
          /\ x + h + 1 \in Nat
      BY <3>1
    <3>3. Within(f, ids, id, h, x) /\ Within(f, ids, id, d, x + h + 1)
      BY <1>2, <3>2
    <3>4. CASE ids[x + h] < id
      <4>1. f[l][x] = f[d][x + h + 1]
        BY <2>2, <3>0, <3>4 DEF Round, h, d
      <4>2. /\ f[d][x + h + 1] \in Nat
            /\ x + h + 1 <= f[d][x + h + 1] /\ f[d][x + h + 1] <= x + h + 1 + d
            /\ d # 0 /\ f[d][x + h + 1] = x + h + 1 + d =>
                  ids[x + h + 1 + d - 1] < id
        BY <3>3 DEF Within
      <4>3. x + h + 1 + d = x + l /\ x + h + 1 + d - 1 = x + l - 1
        BY <3>1
      <4>4. d = 0 => x + h = x + l - 1
        BY <3>1
      <4>5. f[d][x + h + 1] = x + l => ids[x + l - 1] < id
        BY <3>4, <4>2, <4>3, <4>4
      <4>6. x <= f[l][x] /\ f[l][x] <= x + l
        BY <4>1, <4>2, <4>3, <3>1
      <4> QED
        BY <4>1, <4>2, <4>5, <4>6 DEF Within
    <3>5. CASE ~(ids[x + h] < id)
      <4>1. f[l][x] = f[h][x]
        BY <2>2, <3>0, <3>5 DEF Round, h
      <4>2. f[h][x] \in Nat /\ x <= f[h][x] /\ f[h][x] <= x + h
        BY <3>3 DEF Within
      <4>3. f[h][x] < x + l
        BY <4>2, <3>1
      <4> QED
        BY <4>1, <4>2, <4>3 DEF Within
    <3> QED
      BY <3>4, <3>5
  <2> QED
    BY <2>1, <2>2
<1> HIDE DEF Good
<1>3. n \in Good
  BY <1>1, <1>2, SetInduction
<1> QED
  BY <1>3 DEF Good

(* In order: what lies before the part is below id, what lies behind it is *)
(* not, and the search ends between the two.                               *)
Between(ids, id, n, x) ==
    /\ \A j \in 1 .. n : j < x => ids[j] < id
    /\ \A j \in 1 .. n : j >= x => ~(ids[j] < id)

Narrowing(f, ids, id, n, len, first) ==
    /\ first >= 1 /\ first + len <= n + 1
    /\ \A j \in 1 .. n : j < first => ids[j] < id
    /\ \A j \in 1 .. n : j >= first + len => ~(ids[j] < id)
    => Between(ids, id, n, f[len][first])

(* In order, every search does. *)
LEMMA SearchInOrder ==
    ASSUME NEW ids, NEW id \in Nat, NEW n \in Nat, NEW f,
           Searches(f, ids, id, n),
           \A i \in 1 .. n : ids[i] \in Nat,
           \A i, j \in 1 .. n : i < j => ids[i] <= ids[j],
           NEW len \in 0 .. n, NEW first \in Nat
    PROVE  Narrowing(f, ids, id, n, len, first)
<1> DEFINE Good == {m \in Nat : \A l \in 0 .. n : l <= m =>
                       \A x \in Nat : Narrowing(f, ids, id, n, l, x)}
<1>1. 0 \in Good
  <2> SUFFICES ASSUME NEW l \in 0 .. n, l <= 0, NEW x \in Nat
               PROVE  Narrowing(f, ids, id, n, l, x)
    OBVIOUS
  <2>1. l = 0 /\ x + l = x
    OBVIOUS
  <2>2. f[l][x] = x
    <3>1. Round(f, ids, id, l, x)
      BY SearchRound
    <3> QED
      BY <2>1, <3>1 DEF Round
  <2> QED
    BY <2>1, <2>2 DEF Narrowing, Between
<1>2. ASSUME NEW m \in Nat, m \in Good PROVE m + 1 \in Good
  <2> SUFFICES ASSUME NEW l \in 0 .. n, l <= m + 1, NEW x \in Nat,
                      x >= 1, x + l <= n + 1,
                      \A j \in 1 .. n : j < x => ids[j] < id,
                      \A j \in 1 .. n : j >= x + l => ~(ids[j] < id)
               PROVE  Between(ids, id, n, f[l][x])
    BY DEF Narrowing
  <2>1. CASE l = 0
    <3>1. Narrowing(f, ids, id, n, l, x)
      BY <2>1, <1>2
    <3> QED
      BY <3>1 DEF Narrowing
  <2>2. CASE l # 0
    <3>0. Round(f, ids, id, l, x)
      BY SearchRound
    <3> DEFINE h == l \div 2
               d == l - h - 1
    <3>1. /\ h \in Nat /\ d \in Nat /\ h < l /\ d < l /\ h + 1 + d = l
      BY <2>2, Halves
    <3> HIDE DEF h, d
    <3>2. /\ h \in 0 .. n /\ d \in 0 .. n /\ h <= m /\ d <= m
          /\ x + h + 1 \in Nat /\ x + h \in 1 .. n
      BY <3>1
    <3>3. Narrowing(f, ids, id, n, h, x) /\ Narrowing(f, ids, id, n, d, x + h + 1)
      BY <1>2, <3>2
    <3>4. CASE ids[x + h] < id
      <4>1. f[l][x] = f[d][x + h + 1]
        BY <2>2, <3>0, <3>4 DEF Round, h, d
      <4>2. \A j \in 1 .. n : j < x + h + 1 => ids[j] < id
        <5>1. \A j \in 1 .. n : j < x + h + 1 => j = x + h \/ j < x + h
          BY <3>1
        <5>2. \A j \in 1 .. n : j < x + h => ids[j] <= ids[x + h]
          BY <3>2
        <5> QED
          BY <3>2, <3>4, <5>1, <5>2
      <4>3. x + h + 1 >= 1 /\ x + h + 1 + d <= n + 1 /\ x + h + 1 + d = x + l
        BY <3>1
      <4> QED
        BY <3>3, <4>1, <4>2, <4>3 DEF Narrowing
    <3>5. CASE ~(ids[x + h] < id)
      <4>1. f[l][x] = f[h][x]
        BY <2>2, <3>0, <3>5 DEF Round, h
      <4>2. \A j \in 1 .. n : j >= x + h => ~(ids[j] < id)
        <5>1. \A j \in 1 .. n : j >= x + h => j = x + h \/ x + h < j
          BY <3>1
        <5>2. \A j \in 1 .. n : x + h < j => ids[x + h] <= ids[j]
          BY <3>2
        <5> QED
          BY <3>2, <3>5, <5>1, <5>2
      <4>3. x + h <= n + 1
        BY <3>1
      <4> QED
        BY <3>3, <4>1, <4>2, <4>3 DEF Narrowing
    <3> QED
      BY <3>4, <3>5
  <2> QED
    BY <2>1, <2>2
<1> HIDE DEF Good
<1>3. n \in Good
  BY <1>1, <1>2, SetInduction
<1> QED
  BY <1>3 DEF Good

(* Keys.Find's search, for every vector of ids, in whatever order: it ends *)
(* at a position or one beyond the last, and beyond the last only if the   *)
(* last id is below the one looked for (key.h:31-38).                      *)
THEOREM BeyondOnlyPastLast ==
    ASSUME NEW ids, Len(ids) \in Nat, NEW id
    PROVE  /\ LowerBound(ids, id) \in 1 .. Len(ids) + 1
           /\ Len(ids) # 0 /\ LowerBound(ids, id) = Len(ids) + 1 =>
                 ids[Len(ids)] < id
<1> DEFINE n == Len(ids)
<1>1. PICK f : Searches(f, ids, id, n) /\ LowerBound(ids, id) = f[n][1]
  BY LowerBoundSearches
<1>2. Within(f, ids, id, n, 1)
  BY <1>1, SearchWithin
<1>3. 1 + n - 1 = n /\ 1 + n = n + 1
  OBVIOUS
<1> HIDE DEF n
<1>4. n \in Nat
  BY DEF n
<1>5. /\ f[n][1] \in Nat /\ 1 <= f[n][1] /\ f[n][1] <= n + 1
      /\ n # 0 /\ f[n][1] = n + 1 => ids[n] < id
  BY <1>2, <1>3 DEF Within
<1> QED
  BY <1>1, <1>4, <1>5 DEF n

(* The same search over ids in order: what is before the position it ends  *)
(* at is below id, what is from there on is not.                           *)
THEOREM FirstNotBelow ==
    ASSUME NEW ids \in Seq(Nat), NEW id \in Nat,
           \A i, j \in 1 .. Len(ids) : i < j => ids[i] <= ids[j]
    PROVE  Between(ids, id, Len(ids), LowerBound(ids, id))
<1> DEFINE n == Len(ids)
<1>0. n \in Nat /\ \A i \in 1 .. n : ids[i] \in Nat
  OBVIOUS
<1>1. PICK f : Searches(f, ids, id, n) /\ LowerBound(ids, id) = f[n][1]
  BY <1>0, LowerBoundSearches
<1> HIDE DEF n
<1>2. Narrowing(f, ids, id, n, n, 1)
  <2>1. \A i, j \in 1 .. n : i < j => ids[i] <= ids[j]
    BY DEF n
  <2>2. n \in 0 .. n /\ 1 \in Nat
    BY <1>0
  <2> QED
    BY <1>0, <1>1, <2>1, <2>2, SearchInOrder
<1>3. /\ 1 >= 1 /\ 1 + n <= n + 1
      /\ \A j \in 1 .. n : ~(j < 1) /\ ~(j >= 1 + n)
  BY <1>0
<1>4. Between(ids, id, n, f[n][1])
  BY <1>2, <1>3 DEF Narrowing
<1> QED
  BY <1>1, <1>4 DEF n

---------------------------------------------------------------------------
(* Find *)

(* Find gives a name or none, and a name unless the last id is below the   *)
(* one looked for.                                                         *)
LEMMA FindKnown ==
    ASSUME NEW k, k.names \in Seq(Names), k.kk \in Seq(Nat),
           Len(k.kk) = Len(k.names), NEW id
    PROVE  /\ Find(k, id) \in Names \cup {NoName}
           /\ Len(k.kk) # 0 /\ ~(k.kk[Len(k.kk)] < id) => Find(k, id) \in Names
<1> DEFINE x == LowerBound(k.kk, id)
           n == Len(k.kk)
<1>1. n \in Nat /\ x \in 1 .. n + 1 /\ (n # 0 /\ x = n + 1 => k.kk[n] < id)
  BY BeyondOnlyPastLast
<1>2. x <= n => k.names[x] \in Names
  <2>1. x <= n => x \in 1 .. Len(k.names)
    BY <1>1
  <2> QED
    BY <2>1
<1>3. Find(k, id) = IF x <= n THEN k.names[x] ELSE NoName
  BY DEF Find
<1> HIDE DEF x, n
<1>4. Find(k, id) \in Names \cup {NoName}
  BY <1>2, <1>3
<1>5. n # 0 /\ ~(k.kk[n] < id) => x <= n
  BY <1>1
<1> QED
  BY <1>2, <1>3, <1>4, <1>5 DEF n

(* With ids in order, and different ones for different names, the name     *)
(* found for the id of a key is its own.                                   *)
LEMMA FindOwn ==
    ASSUME NEW k, k.names \in Seq(Names), k.kk \in Seq(Nat),
           Len(k.kk) = Len(k.names), InIdOrder(k),
           NEW h \in Hashes, NEW ns \in Namespaces,
           \A j \in DOMAIN k.names : k.kk[j] = h[ns][k.names[j]],
           NEW i \in DOMAIN k.names
    PROVE  Find(k, k.kk[i]) = k.names[i]
<1> DEFINE n == Len(k.kk)
           id == k.kk[i]
           x == LowerBound(k.kk, id)
<1>0. n \in Nat /\ DOMAIN k.kk = 1 .. n /\ DOMAIN k.names = 1 .. n
  OBVIOUS
<1>1. i \in 1 .. n /\ id \in Nat /\ \A j \in 1 .. n : k.kk[j] \in Nat
  BY <1>0
<1>2. \A j, l \in 1 .. n : j < l => k.kk[j] <= k.kk[l]
  BY <1>0 DEF InIdOrder
<1>3. x \in 1 .. n + 1
  BY <1>0, BeyondOnlyPastLast
<1>4. Between(k.kk, id, n, x)
  BY <1>1, <1>2, FirstNotBelow
<1>5. Find(k, id) = IF x <= n THEN k.names[x] ELSE NoName
  BY DEF Find
<1> HIDE DEF x
<1>6. ~(i < x)
  BY <1>1, <1>4 DEF Between
<1> HIDE DEF n
<1>7. x <= i /\ x \in 1 .. n /\ x <= n
  BY <1>0, <1>1, <1>3, <1>6
<1>8. ~(k.kk[x] < id)
  BY <1>4, <1>7 DEF Between
<1>9. k.kk[x] = k.kk[i]
  <2>1. x = i \/ x < i
    BY <1>1, <1>7
  <2>2. x < i => k.kk[x] <= k.kk[i]
    BY <1>1, <1>2, <1>7
  <2> QED
    BY <1>1, <1>7, <1>8, <2>1, <2>2
<1>10. k.names[x] = k.names[i]
  <2>1. k.names[x] \in Names /\ k.names[i] \in Names
    BY <1>0, <1>7
  <2>2. h[ns][k.names[x]] = h[ns][k.names[i]]
    BY <1>0, <1>7, <1>9
  <2> QED
    BY <2>1, <2>2, HashesAssumption
<1> QED
  BY <1>5, <1>7, <1>10

(* Among keys that were never transformed nothing is found. *)
LEMMA FindNothing ==
    ASSUME NEW k, k.kk \in Seq(Nat), \A j \in DOMAIN k.kk : k.kk[j] = NoId,
           NEW id \in Nat, id # NoId
    PROVE  Find(k, id) = NoName
<1> DEFINE n == Len(k.kk)
           x == LowerBound(k.kk, id)
<1>1. n \in Nat /\ DOMAIN k.kk = 1 .. n /\ x \in 1 .. n + 1
  BY BeyondOnlyPastLast
<1>2. \A j \in 1 .. n : k.kk[j] = 0
  BY <1>1 DEF NoId
<1>3. \A i, j \in 1 .. n : i < j => k.kk[i] <= k.kk[j]
  BY <1>2
<1>4. Between(k.kk, id, n, x)
  BY <1>3, FirstNotBelow
<1>5. Find(k, id) = IF x <= n THEN k.names[x] ELSE NoName
  BY DEF Find
<1> HIDE DEF x, n
<1>6. x \in 1 .. n => ~(0 < id)
  BY <1>1, <1>2, <1>4 DEF Between
<1>7. ~(x <= n)
  BY <1>1, <1>6 DEF NoId
<1> QED
  BY <1>5, <1>7

---------------------------------------------------------------------------
(* Counting *)

(* How many elements of the sequence s are in A. *)
Count(s, A) == Cardinality({i \in DOMAIN s : s[i] \in A})

(* One more result. *)
LEMMA CountAppend ==
    ASSUME NEW T, NEW s \in Seq(T), NEW e \in T, NEW A
    PROVE  /\ Count(s, A) \in Nat
           /\ e \in A => Count(Append(s, e), A) = Count(s, A) + 1
           /\ e \notin A => Count(Append(s, e), A) = Count(s, A)
<1> DEFINE n == Len(s)
           H == {i \in 1 .. n : s[i] \in A}
           H1 == {i \in 1 .. n + 1 : Append(s, e)[i] \in A}
<1>0. n \in Nat /\ DOMAIN s = 1 .. n /\ DOMAIN Append(s, e) = 1 .. n + 1
  OBVIOUS
<1>1. Append(s, e)[n + 1] = e /\ \A i \in 1 .. n : Append(s, e)[i] = s[i]
  OBVIOUS
<1>2. Count(s, A) = Cardinality(H) /\ Count(Append(s, e), A) = Cardinality(H1)
  BY <1>0 DEF Count
<1>3. IsFiniteSet(H) /\ Cardinality(H) \in Nat
  <2>1. IsFiniteSet(1 .. n)
    BY <1>0, FS_Interval
  <2>2. H \subseteq 1 .. n
    OBVIOUS
  <2> HIDE DEF H, n
  <2> QED
    BY <2>1, <2>2, FS_Subset, FS_CardinalityType
<1>4. /\ \A i \in 1 .. n : i \in 1 .. n + 1
      /\ \A i \in 1 .. n + 1 : i \in 1 .. n \/ i = n + 1
      /\ n + 1 \notin 1 .. n /\ n + 1 \in 1 .. n + 1
  BY <1>0
<1> HIDE DEF n
<1>5. e \in A => H1 = H \cup {n + 1} /\ n + 1 \notin H
  BY <1>1, <1>4
<1>6. e \notin A => H1 = H
  BY <1>1, <1>4
<1> HIDE DEF H, H1
<1>7. n + 1 \notin H => Cardinality(H \cup {n + 1}) = Cardinality(H) + 1
  BY <1>3, FS_AddElement
<1> QED
  BY <1>2, <1>3, <1>5, <1>6, <1>7

(* The answers of the kinds K to the keys called n. *)
Marks(names, answer, n, K) ==
    {i \in DOMAIN names : names[i] = n /\ answer[i] \in K}

(* One more of them, if a is of one of the kinds. *)
MarksGrow(names, answer, after, j, a, n, K) ==
    /\ Cardinality(Marks(names, answer, n, K)) \in Nat
    /\ names[j] = n /\ a \in K =>
          Cardinality(Marks(names, after, n, K))
             = Cardinality(Marks(names, answer, n, K)) + 1
    /\ ~(names[j] = n /\ a \in K) =>
          Cardinality(Marks(names, after, n, K))
             = Cardinality(Marks(names, answer, n, K))

(* One more answer. *)
LEMMA MarksStep ==
    ASSUME NEW names, IsFiniteSet(DOMAIN names), NEW answer, NEW after,
           NEW j \in DOMAIN names, NEW a, after[j] = a,
           \A i \in DOMAIN names : i # j => after[i] = answer[i],
           NEW n, NEW K, answer[j] \notin K
    PROVE  MarksGrow(names, answer, after, j, a, n, K)
<1> DEFINE M == Marks(names, answer, n, K)
           M1 == Marks(names, after, n, K)
<1>2. IsFiniteSet(M) /\ Cardinality(M) \in Nat
  <2>1. M \subseteq DOMAIN names
    BY DEF Marks
  <2> HIDE DEF M
  <2> QED
    BY <2>1, FS_Subset, FS_CardinalityType
<1>3. names[j] = n /\ a \in K => M1 = M \cup {j} /\ j \notin M
  BY DEF Marks
<1>4. ~(names[j] = n /\ a \in K) => M1 = M
  BY DEF Marks
<1> HIDE DEF M, M1
<1>5. j \notin M => Cardinality(M \cup {j}) = Cardinality(M) + 1
  BY <1>2, FS_AddElement
<1>6. /\ Cardinality(M) \in Nat
      /\ names[j] = n /\ a \in K => Cardinality(M1) = Cardinality(M) + 1
      /\ ~(names[j] = n /\ a \in K) => Cardinality(M1) = Cardinality(M)
  BY <1>2, <1>3, <1>4, <1>5
<1> QED
  BY <1>6 DEF MarksGrow, M, M1

---------------------------------------------------------------------------
(* Results *)

(* What is known of the one result an answer may make. *)
Reports(k, name, id, a, r) ==
    /\ r.about = name
    /\ OnResult(k, name, id, a) \in {<< >>, <<r>>}
    /\ ~r.err /\ r.failed =>
          k.method \in {"ReadKey", "BulkRead", "RemoveKey"} /\ a = "failed"
    /\ k.method = "BulkRead" =>
          /\ r.key = Find(k, id)
          /\ Find(k, id) # NoName => OnResult(k, name, id, a) = <<r>>
    /\ k.method = "BulkRemove" =>
          /\ r.err /\ r.key = Find(k, id)
          /\ a = "failed" => OnResult(k, name, id, a) = <<r>>
          /\ a # "failed" => OnResult(k, name, id, a) = << >>
    /\ k.method = "BulkWrite" =>
          /\ r.err => a = "failed"
          /\ a = "failed" => r.err /\ OnResult(k, name, id, a) = <<r>>
          /\ a # "failed" /\ Find(k, id) = NoName => OnResult(k, name, id, a) = << >>
    /\ k.method \in {"ReadKey", "RemoveKey"} =>
          /\ OnResult(k, name, id, a) = <<r>>
          /\ ~r.err
          /\ r.failed <=> a = "failed"

(* Each of the handlers makes at most one such result. *)
LEMMA ResultOf ==
    ASSUME NEW k, k.method \in Bulk \cup Single,
           k.names \in Seq(Names), k.kk \in Seq(Nat), Len(k.kk) = Len(k.names),
           NEW name \in Names, NEW id, NEW a \in Answers(k.method)
    PROVE  \E r \in Results : Reports(k, name, id, a, r)
<1>0. Find(k, id) \in Names \cup {NoName}
  BY FindKnown
<1>1. \A key \in Names \cup {NoName}, e \in BOOLEAN :
         /\ Result(name, key, a, e) \in Results
         /\ Result(name, key, a, e).about = name
         /\ Result(name, key, a, e).key = key
         /\ Result(name, key, a, e).err = e
         /\ Result(name, key, a, e).failed = (a = "failed")
  BY DEF Result, Results
<1>2. CASE k.method = "ReadKey"
  <2>1. OnResult(k, name, id, a) = <<Result(name, NoName, a, FALSE)>>
    BY <1>2 DEF OnResult, OnRead
  <2> DEFINE r == Result(name, NoName, a, FALSE)
  <2>2. /\ r \in Results /\ r.about = name /\ r.failed = (a = "failed")
        /\ r.err = (FALSE)
    BY <1>1
  <2> HIDE DEF r
  <2>3. OnResult(k, name, id, a) = <<r>>
    BY <2>1 DEF r
  <2>4. ~r.err /\ r.failed => a = "failed" /\ TRUE
    BY <2>2
  <2> QED
    BY <1>2, <2>2, <2>3, <2>4 DEF Reports
<1>3. CASE k.method = "RemoveKey"
  <2>1. OnResult(k, name, id, a) = <<Result(name, NoName, a, FALSE)>>
    BY <1>3 DEF OnResult, OnRemove
  <2> DEFINE r == Result(name, NoName, a, FALSE)
  <2>2. /\ r \in Results /\ r.about = name /\ r.failed = (a = "failed")
        /\ r.err = (FALSE)
    BY <1>1
  <2> HIDE DEF r
  <2>3. OnResult(k, name, id, a) = <<r>>
    BY <2>1 DEF r
  <2>4. ~r.err /\ r.failed => a = "failed" /\ TRUE
    BY <2>2
  <2> QED
    BY <1>3, <2>2, <2>3, <2>4 DEF Reports
<1>4. CASE k.method = "Lookup"
  <2>1. OnResult(k, name, id, a) =
           <<Result(name, NoName, a, a = "failed")>>
    BY <1>4 DEF OnResult, OnLookup
  <2> DEFINE r == Result(name, NoName, a, a = "failed")
  <2>2. /\ r \in Results /\ r.about = name /\ r.failed = (a = "failed")
        /\ r.err = (a = "failed")
    BY <1>1
  <2> HIDE DEF r
  <2>3. OnResult(k, name, id, a) = <<r>>
    BY <2>1 DEF r
  <2>4. ~r.err /\ r.failed => a = "failed" /\ FALSE
    BY <2>2
  <2> QED
    BY <1>4, <2>2, <2>3, <2>4 DEF Reports
<1>5. CASE k.method = "BulkRead"
  <2>1. OnResult(k, name, id, a) =
           IF Find(k, id) = NoName THEN << >>
           ELSE <<Result(name, Find(k, id), a, FALSE)>>
    BY <1>5 DEF OnResult, OnRead
  <2> QED
    BY <1>0, <1>1, <1>5, <2>1 DEF Reports
<1>6. CASE k.method = "BulkRemove"
  <2>1. OnResult(k, name, id, a) =
           IF a # "failed" THEN << >>
           ELSE <<Result(name, Find(k, id), a, TRUE)>>
    BY <1>6 DEF OnResult, OnRemove
  <2> QED
    BY <1>0, <1>1, <1>6, <2>1 DEF Reports
<1>7. CASE k.method = "BulkWrite"
  <2>1. a = "failed" => OnResult(k, name, id, a) = <<Result(name, NoName, a, TRUE)>>
    BY <1>7 DEF OnResult, OnLookup
  <2>2. a # "failed" => OnResult(k, name, id, a) =
           IF Find(k, id) = NoName THEN << >>
           ELSE <<Result(name, Find(k, id), a, FALSE)>>
    BY <1>7 DEF OnResult, OnLookup
  <2>3. CASE a = "failed"
    <3> DEFINE r == Result(name, NoName, a, TRUE)
    <3>1. r \in Results /\ r.about = name /\ r.err = TRUE
      BY <1>1
    <3>2. OnResult(k, name, id, a) = <<r>>
      BY <2>1, <2>3
    <3> HIDE DEF r
    <3> QED
      BY <1>7, <2>3, <3>1, <3>2 DEF Reports
  <2>4. CASE a # "failed"
    BY <1>0, <1>1, <1>7, <2>2, <2>4 DEF Reports
  <2> QED
    BY <2>3, <2>4
<1> QED
  BY <1>2, <1>3, <1>4, <1>5, <1>6, <1>7 DEF Bulk, Single

---------------------------------------------------------------------------
(* The properties of one call, of its record k and its results o, under    *)
(* the transformation h.                                                   *)

About(n) == {r \in Results : r.about = n}
Errors(n) == {r \in Results : r.about = n /\ r.err}
Falses(n) == {r \in Results : r.about = n /\ ~r.err /\ r.failed}
Passing(u) == {a \in {"data", "failed"} : Passes(u, a)}

Shape(k) ==
    /\ k \in CallRecords
    /\ Len(k.kk) = Len(k.names)
    /\ Len(k.asked) = Len(k.names)
    /\ Len(k.answer) = Len(k.names)

KeptOf(k, o, h) ==
    /\ k.method = "none" => o = << >> /\ k.names = << >>
    /\ k.keys = "freed" => k.ended
    /\ k.method = "BulkRemove" => k.under = "all_with_ack"
    /\ k.method \in {"BulkRead", "BulkRemove"} =>
          /\ k.kk = k.asked
          /\ \E ns \in Namespaces : \A i \in DOMAIN k.names :
                k.asked[i] = h[ns][k.names[i]]
    /\ k.method = "BulkWrite" =>
          \A i \in DOMAIN k.names : k.kk[i] = NoId /\ k.asked[i] # NoId
    /\ k.under # "positive" <=> k.loose

FalsesOf(k, o, n) ==
    Count(o, Falses(n)) =
        IF k.loose THEN Cardinality(Marks(k.names, k.answer, n, {"failed"})) ELSE 0

SuccessOf(k, o) ==
    /\ \A i \in DOMAIN o :
          ~o[i].err /\ o[i].failed =>
              k.loose /\ k.method \in {"ReadKey", "BulkRead", "RemoveKey"}
    /\ k.method \in {"ReadKey", "RemoveKey"} => \A n \in Names : FalsesOf(k, o, n)

NamedOf(k, o) ==
    k.method \in {"BulkRead", "BulkRemove"} /\ InIdOrder(k) =>
        \A i \in DOMAIN o : o[i].key = o[i].about

DropsOf(k, o) ==
    k.method = "BulkRead" =>
        \A i \in DOMAIN k.kk : k.kk[i] <= k.kk[Len(k.kk)] =>
            Count(o, About(k.names[i])) =
                Cardinality(Marks(k.names, k.answer, k.names[i], Passing(k.under)))

ErrorsOf(k, o, n) ==
    Count(o, Errors(n)) =
        IF k.method = "BulkRemove" \/ Passes(k.under, "failed")
          THEN Cardinality(Marks(k.names, k.answer, n, {"failed"})) ELSE 0

FailuresOf(k, o) ==
    k.method \in {"BulkWrite", "BulkRemove"} =>
        /\ \A n \in Names : ErrorsOf(k, o, n)
        /\ \A i \in DOMAIN o : o[i].err

(* The two records belong to the same request. *)
SameRequest(k, k2) ==
    /\ k2.method = k.method /\ k2.names = k.names /\ k2.kk = k.kk
    /\ k2.asked = k.asked /\ k2.under = k.under /\ k2.loose = k.loose

---------------------------------------------------------------------------
(* Finish adds at most a result without a key. *)

(* The result of onFinish is about no name, and an error. *)
LEMMA LastResult ==
    /\ Result(NoName, NoName, "none", TRUE) \in Results
    /\ Result(NoName, NoName, "none", TRUE).about = NoName
    /\ Result(NoName, NoName, "none", TRUE).key = NoName
    /\ Result(NoName, NoName, "none", TRUE).err = TRUE
BY DEF Result, Results

(* The results after onFinish. *)
Ends(o, o2) == o2 \in {o, Append(o, Result(NoName, NoName, "none", TRUE))}

(* It leaves the counts as they are. *)
LEMMA EndSound ==
    ASSUME NEW k, Shape(k), NEW o \in Seq(Results),
           SuccessOf(k, o), NamedOf(k, o), DropsOf(k, o), FailuresOf(k, o),
           NEW k2, SameRequest(k, k2), k2.answer = k.answer,
           NEW o2, Ends(o, o2)
    PROVE  /\ SuccessOf(k2, o2) /\ NamedOf(k2, o2)
           /\ DropsOf(k2, o2) /\ FailuresOf(k2, o2)
<1> DEFINE e == Result(NoName, NoName, "none", TRUE)
<1>0. e \in Results /\ e.about = NoName /\ e.key = NoName /\ e.err
  BY LastResult
<1> HIDE DEF e
<1>1. o2 = o \/ o2 = Append(o, e)
  BY DEF e, Ends
<1>2. \A i \in DOMAIN o2 : (i \in DOMAIN o /\ o2[i] = o[i]) \/ o2[i] = e
  <2>1. CASE o2 = o
    BY <2>1
  <2>2. CASE o2 = Append(o, e)
    <3>1. DOMAIN o2 = 1 .. Len(o) + 1 /\ Len(o) \in Nat /\ DOMAIN o = 1 .. Len(o)
      BY <2>2, <1>0
    <3>2. \A i \in 1 .. Len(o) + 1 : i \in 1 .. Len(o) \/ i = Len(o) + 1
      BY <3>1
    <3>3. o2[Len(o) + 1] = e /\ \A i \in 1 .. Len(o) : o2[i] = o[i]
      BY <2>2, <1>0
    <3> QED
      BY <3>1, <3>2, <3>3
  <2> QED
    BY <1>1, <2>1, <2>2
<1>3. \A n \in Names : /\ Count(o2, About(n)) = Count(o, About(n))
                       /\ Count(o2, Errors(n)) = Count(o, Errors(n))
                       /\ Count(o2, Falses(n)) = Count(o, Falses(n))
  <2> SUFFICES ASSUME NEW n \in Names
               PROVE  /\ Count(o2, About(n)) = Count(o, About(n))
                      /\ Count(o2, Errors(n)) = Count(o, Errors(n))
                      /\ Count(o2, Falses(n)) = Count(o, Falses(n))
    OBVIOUS
  <2>1. e \notin About(n) /\ e \notin Errors(n) /\ e \notin Falses(n)
    BY <1>0, NamesAssumption DEF About, Errors, Falses
  <2>2. /\ Count(Append(o, e), About(n)) = Count(o, About(n))
        /\ Count(Append(o, e), Errors(n)) = Count(o, Errors(n))
        /\ Count(Append(o, e), Falses(n)) = Count(o, Falses(n))
    BY <1>0, <2>1, CountAppend
  <2> QED
    BY <1>1, <2>2
<1>4. SuccessOf(k2, o2)
  BY <1>0, <1>2, <1>3 DEF SuccessOf, FalsesOf, SameRequest
<1>5. NamedOf(k2, o2)
  BY <1>0, <1>2 DEF NamedOf, SameRequest, InIdOrder
<1>6. DropsOf(k2, o2)
  <2>1. \A i \in DOMAIN k.kk : k.names[i] \in Names
    BY DEF Shape, CallRecords
  <2> QED
    BY <1>3, <2>1 DEF DropsOf, SameRequest
<1>7. FailuresOf(k2, o2)
  BY <1>0, <1>2, <1>3 DEF FailuresOf, ErrorsOf, SameRequest
<1> QED
  BY <1>4, <1>5, <1>6, <1>7

---------------------------------------------------------------------------
(* Make: nothing is answered yet. *)

(* A new call has given and got nothing. *)
LEMMA MadeSound ==
    ASSUME NEW k, \A i \in DOMAIN k.names : k.answer[i] = "none"
    PROVE  /\ SuccessOf(k, << >>) /\ NamedOf(k, << >>)
           /\ DropsOf(k, << >>) /\ FailuresOf(k, << >>)
<1>1. DOMAIN << >> = {}
  OBVIOUS
<1>2. \A A : Count(<< >>, A) = 0
  BY <1>1, FS_EmptySet DEF Count
<1>3. \A n, K : "none" \notin K => Cardinality(Marks(k.names, k.answer, n, K)) = 0
  <2>1. \A n, K : "none" \notin K => Marks(k.names, k.answer, n, K) = {}
    BY DEF Marks
  <2> QED
    BY <2>1, FS_EmptySet
<1>4. "none" \notin Passing(k.under) /\ "none" \notin {"failed"}
  BY DEF Passing
<1> QED
  BY <1>1, <1>2, <1>3, <1>4 
     DEF SuccessOf, FalsesOf, NamedOf, DropsOf, FailuresOf, ErrorsOf

---------------------------------------------------------------------------
(* Answer: one answer, and at most one result. *)

(* The results after answer a to key j. *)
OutAfter(k, o, j, a) ==
    IF Passes(k.under, a) THEN o \o OnResult(k, k.names[j], k.asked[j], a) ELSE o

Grows(k, o, j, a, r, o2) ==
    /\ Reports(k, k.names[j], k.asked[j], a, r)
    /\ o2 \in {o, Append(o, r)}
    /\ o2 = Append(o, r) => Passes(k.under, a)
    /\ Passes(k.under, a) /\ OnResult(k, k.names[j], k.asked[j], a) = <<r>> =>
          o2 = Append(o, r)
    /\ OnResult(k, k.names[j], k.asked[j], a) = << >> => o2 = o

(* What the handlers append is nothing, or one result as described. *)
LEMMA AnswerResult ==
    ASSUME NEW k, Shape(k), k.method # "none", NEW o \in Seq(Results),
           NEW j \in DOMAIN k.names, NEW a \in Answers(k.method)
    PROVE  \E r \in Results : Grows(k, o, j, a, r, OutAfter(k, o, j, a))
<1>1. /\ k.method \in Bulk \cup Single /\ k.names \in Seq(Names)
      /\ k.kk \in Seq(Nat) /\ Len(k.kk) = Len(k.names) /\ k.names[j] \in Names
  BY DEF Shape, CallRecords
<1>2. PICK r \in Results : Reports(k, k.names[j], k.asked[j], a, r)
  BY <1>1, ResultOf
<1> DEFINE res == OnResult(k, k.names[j], k.asked[j], a)
           o2 == OutAfter(k, o, j, a)
<1>3. res \in {<< >>, <<r>>}
  BY <1>2 DEF Reports
<1>4. o2 = IF Passes(k.under, a) THEN o \o res ELSE o
  BY DEF OutAfter
<1> HIDE DEF res, o2
<1>5. o \o << >> = o /\ o \o <<r>> = Append(o, r)
  OBVIOUS
<1>6. Append(o, r) # o
  <2>1. Len(Append(o, r)) = Len(o) + 1 /\ Len(o) \in Nat
    OBVIOUS
  <2> QED
    BY <2>1
<1>7. /\ o2 \in {o, Append(o, r)}
      /\ o2 = Append(o, r) => Passes(k.under, a)
      /\ Passes(k.under, a) /\ res = <<r>> => o2 = Append(o, r)
      /\ res = << >> => o2 = o
  BY <1>3, <1>4, <1>5, <1>6
<1>8. Grows(k, o, j, a, r, o2)
  BY <1>2, <1>7 DEF Grows, res
<1> QED
  BY <1>8 DEF o2

(* The properties of a call survive an answer. *)
LEMMA AnswerSound ==
    ASSUME NEW k, Shape(k), k.method # "none", NEW o \in Seq(Results),
           NEW h \in Hashes, KeptOf(k, o, h),
           SuccessOf(k, o), NamedOf(k, o), DropsOf(k, o), FailuresOf(k, o),
           NEW j \in DOMAIN k.names, k.answer[j] = "none",
           NEW a \in Answers(k.method),
           NEW k2, SameRequest(k, k2), k2.answer = [k.answer EXCEPT ![j] = a],
           NEW o2, o2 = OutAfter(k, o, j, a)
    PROVE  /\ o2 \in Seq(Results)
           /\ SuccessOf(k2, o2) /\ NamedOf(k2, o2)
           /\ DropsOf(k2, o2) /\ FailuresOf(k2, o2)
<1> DEFINE id == k.asked[j]
           name == k.names[j]
           res == OnResult(k, name, id, a)
<1>1. PICK r \in Results :
         /\ Reports(k, name, id, a, r)
         /\ o2 \in {o, Append(o, r)}
         /\ o2 = Append(o, r) => Passes(k.under, a)
         /\ Passes(k.under, a) /\ res = <<r>> => o2 = Append(o, r)
         /\ res = << >> => o2 = o
  <2>1. PICK r \in Results : Grows(k, o, j, a, r, OutAfter(k, o, j, a))
    BY AnswerResult
  <2> QED
    BY <2>1 DEF Grows
<1>2. /\ k.names \in Seq(Names) /\ k.kk \in Seq(Nat) /\ name \in Names
      /\ k.answer \in Seq({"none", "data", "ack", "failed"})
      /\ Len(k.kk) = Len(k.names) /\ Len(k.answer) = Len(k.names)
      /\ DOMAIN k.kk = DOMAIN k.names
      /\ a \in {"none", "data", "ack", "failed"}
  BY DEF Shape, CallRecords, Answers
<1>20. /\ IsFiniteSet(DOMAIN k.names)
       /\ k2.answer[j] = a
       /\ \A i \in DOMAIN k.names : i # j => k2.answer[i] = k.answer[i]
  <2>1. DOMAIN k.names = 1 .. Len(k.names) /\ Len(k.names) \in Nat
    BY <1>2
  <2>2. IsFiniteSet(DOMAIN k.names)
    BY <2>1, FS_Interval
  <2>3. DOMAIN k.answer = DOMAIN k.names
    BY <1>2
  <2> QED
    BY <2>2, <2>3
<1> HIDE DEF id, name, res
<1>3. o2 \in Seq(Results)
  <2>1. Append(o, r) \in Seq(Results)
    OBVIOUS
  <2> QED
    BY <1>1, <2>1
<1>4. \A i \in DOMAIN o2 : (i \in DOMAIN o /\ o2[i] = o[i])
                             \/ (o2 = Append(o, r) /\ o2[i] = r)
  <2>1. CASE o2 = o
    BY <2>1
  <2>2. CASE o2 = Append(o, r)
    <3>1. DOMAIN o2 = 1 .. Len(o) + 1 /\ Len(o) \in Nat /\ DOMAIN o = 1 .. Len(o)
      BY <2>2
    <3>2. \A i \in 1 .. Len(o) + 1 : i \in 1 .. Len(o) \/ i = Len(o) + 1
      BY <3>1
    <3>3. o2[Len(o) + 1] = r /\ \A i \in 1 .. Len(o) : o2[i] = o[i]
      BY <2>2
    <3> QED
      BY <2>2, <3>1, <3>2, <3>3
  <2> QED
    BY <1>1, <2>1, <2>2
<1>5. SuccessOf(k2, o2)
  <2>0. Passes(k.under, "failed") <=> k.loose
    <3>1. k.under \in FilterKinds
      BY DEF Shape, CallRecords
    <3>2. Passes(k.under, "failed") <=> k.under # "positive"
      BY <3>1 DEF Passes, FilterKinds
    <3> QED
      BY <3>2 DEF KeptOf
  <2>1. \A i \in DOMAIN o2 :
           ~o2[i].err /\ o2[i].failed =>
              k.loose /\ k.method \in {"ReadKey", "BulkRead", "RemoveKey"}
    <3>1. ~r.err /\ r.failed =>
             k.method \in {"ReadKey", "BulkRead", "RemoveKey"} /\ a = "failed"
      BY <1>1 DEF Reports
    <3>2. o2 = Append(o, r) /\ ~r.err /\ r.failed =>
             k.loose /\ k.method \in {"ReadKey", "BulkRead", "RemoveKey"}
      BY <1>1, <2>0, <3>1
    <3> QED
      BY <1>4, <3>2 DEF SuccessOf
  <2>2. ASSUME k.method \in {"ReadKey", "RemoveKey"}, NEW n \in Names
        PROVE  FalsesOf(k2, o2, n)
    <3> DEFINE before == Cardinality(Marks(k.names, k.answer, n, {"failed"}))
               after == Cardinality(Marks(k.names, k2.answer, n, {"failed"}))
    <3>1. Count(o, Falses(n)) = IF k.loose THEN before ELSE 0
      BY <2>2 DEF SuccessOf, FalsesOf
    <3>2. /\ before \in Nat
          /\ name = n /\ a = "failed" => after = before + 1
          /\ ~(name = n /\ a = "failed") => after = before
      <4>1. k.answer[j] \notin {"failed"}
        OBVIOUS
      <4>2. MarksGrow(k.names, k.answer, k2.answer, j, a, n, {"failed"})
        BY <1>20, <4>1, MarksStep
      <4> QED
        BY <4>2 DEF MarksGrow, name
    <3>3. /\ r \in Falses(n) => Count(Append(o, r), Falses(n)) = Count(o, Falses(n)) + 1
          /\ r \notin Falses(n) => Count(Append(o, r), Falses(n)) = Count(o, Falses(n))
      BY CountAppend
    <3>4. r \in Falses(n) <=> name = n /\ a = "failed"
      BY <1>1, <2>2 DEF Falses, Reports
    <3>5. a = "failed" => (o2 = Append(o, r) <=> k.loose) /\ (o2 = o <=> ~k.loose)
      <4>1. Append(o, r) # o
        <5>1. Len(Append(o, r)) = Len(o) + 1 /\ Len(o) \in Nat
          OBVIOUS
        <5> QED
          BY <5>1
      <4>2. res = <<r>>
        BY <1>1, <2>2 DEF Reports, res
      <4> QED
        BY <1>1, <2>0, <4>1, <4>2
    <3>6. o2 = o \/ o2 = Append(o, r)
      BY <1>1
    <3> HIDE DEF before, after
    <3>7. Count(o2, Falses(n)) = IF k.loose THEN after ELSE 0
      <4>1. CASE a = "failed"
        BY <4>1, <3>1, <3>2, <3>3, <3>4, <3>5, <3>6
      <4>2. CASE a # "failed"
        BY <4>2, <3>1, <3>2, <3>3, <3>4, <3>6
      <4> QED
        BY <4>1, <4>2
    <3> QED
      BY <3>7 DEF FalsesOf, SameRequest, after
  <2> QED
    BY <2>1, <2>2 DEF SuccessOf, SameRequest
<1>6. NamedOf(k2, o2)
  <2> SUFFICES ASSUME k.method \in {"BulkRead", "BulkRemove"}, InIdOrder(k)
               PROVE  \A i \in DOMAIN o2 : o2[i].key = o2[i].about
    BY DEF NamedOf, SameRequest, InIdOrder
  <2>1. PICK ns \in Namespaces : \A i \in DOMAIN k.names :
                k.kk[i] = h[ns][k.names[i]]
    BY DEF KeptOf
  <2>2. id = k.kk[j]
    BY DEF KeptOf, id
  <2>3. Find(k, k.kk[j]) = k.names[j]
    <3>1. /\ k.names \in Seq(Names) /\ k.kk \in Seq(Nat)
          /\ Len(k.kk) = Len(k.names)
      BY <1>2
    <3> QED
      BY <2>1, <3>1, FindOwn
  <2>4. r.key = r.about
    BY <1>1, <2>2, <2>3 DEF Reports, name
  <2>5. \A i \in DOMAIN o : o[i].key = o[i].about
    BY DEF NamedOf
  <2> QED
    BY <1>4, <2>4, <2>5
<1>7. DropsOf(k2, o2)
  <2> SUFFICES ASSUME k.method = "BulkRead", NEW i \in DOMAIN k.kk,
                      k.kk[i] <= k.kk[Len(k.kk)]
               PROVE  Count(o2, About(k.names[i])) =
                        Cardinality(Marks(k.names, k2.answer, k.names[i],
                                          Passing(k.under)))
    BY DEF DropsOf, SameRequest
  <2> DEFINE n == k.names[i]
             K == Passing(k.under)
             before == Cardinality(Marks(k.names, k.answer, n, K))
             after == Cardinality(Marks(k.names, k2.answer, n, K))
  <2>1. Count(o, About(n)) = before
    BY DEF DropsOf
  <2>2. k.answer[j] \notin K /\ (a \in K <=> Passes(k.under, a))
    BY DEF Passing, Answers
  <2> HIDE DEF K
  <2>3. /\ before \in Nat
        /\ name = n /\ a \in K => after = before + 1
        /\ ~(name = n /\ a \in K) => after = before
    <3>1. MarksGrow(k.names, k.answer, k2.answer, j, a, n, K)
      BY <1>20, <2>2, MarksStep
    <3> QED
      BY <3>1 DEF MarksGrow, name
  <2> HIDE DEF before, after
  <2>4. /\ r \in About(n) => Count(Append(o, r), About(n)) = Count(o, About(n)) + 1
        /\ r \notin About(n) => Count(Append(o, r), About(n)) = Count(o, About(n))
    BY CountAppend
  <2>5. r \in About(n) <=> name = n
    BY <1>1 DEF About, Reports
  <2>6. name = n /\ a \in K => o2 = Append(o, r)
    <3> SUFFICES ASSUME name = n, a \in K PROVE o2 = Append(o, r)
      OBVIOUS
    <3>1. PICK ns \in Namespaces : \A x \in DOMAIN k.names :
                  k.kk[x] = h[ns][k.names[x]]
      BY DEF KeptOf
    <3>2. id = k.kk[j] /\ k.kk[j] = k.kk[i]
      <4>1. k.kk = k.asked
        BY DEF KeptOf
      <4>2. k.kk[j] = h[ns][name] /\ k.kk[i] = h[ns][n]
        BY <1>2, <3>1 DEF name
      <4> QED
        BY <4>1, <4>2 DEF id
    <3>3. Len(k.kk) # 0 /\ ~(k.kk[Len(k.kk)] < id)
      <4>1. Len(k.kk) \in Nat /\ i \in 1 .. Len(k.kk)
        BY <1>2
      <4>2. Len(k.kk) \in 1 .. Len(k.kk)
        BY <4>1
      <4>3. k.kk[i] \in Nat /\ k.kk[Len(k.kk)] \in Nat
        BY <1>2, <4>1, <4>2
      <4> QED
        BY <3>2, <4>1, <4>3
    <3>4. Find(k, id) \in Names
      BY <1>2, <3>3, FindKnown
    <3>5. Find(k, id) # NoName
      BY <3>4, NamesAssumption
    <3>6. res = <<r>>
      BY <1>1, <3>5 DEF Reports, res
    <3> QED
      BY <1>1, <2>2, <3>6
  <2>7. a \notin K => o2 # Append(o, r)
    BY <1>1, <2>2
  <2>8. o2 = o \/ o2 = Append(o, r)
    BY <1>1
  <2>9. Count(o2, About(n)) = after
    BY <2>1, <2>3, <2>4, <2>5, <2>6, <2>7, <2>8
  <2> QED
    BY <2>9 DEF after, K
<1>8. FailuresOf(k2, o2)
  <2> SUFFICES ASSUME k.method \in {"BulkWrite", "BulkRemove"}
               PROVE  /\ \A n \in Names : ErrorsOf(k2, o2, n)
                      /\ \A i \in DOMAIN o2 : o2[i].err
    BY DEF FailuresOf, SameRequest
  <2>1. \A i \in DOMAIN o2 : o2[i].err
    <3>1. \A i \in DOMAIN o : o[i].err
      BY DEF FailuresOf
    <3>2. CASE k.method = "BulkRemove"
      BY <1>1, <1>4, <3>1, <3>2 DEF Reports
    <3>3. CASE k.method = "BulkWrite"
      <4>1. Find(k, id) = NoName
        <5>1. \A i \in DOMAIN k.kk : k.kk[i] = NoId
          BY <1>2, <3>3 DEF KeptOf
        <5>2. id # NoId
          BY <3>3 DEF KeptOf, id
        <5>3. id \in Nat
          BY <1>2 DEF Shape, CallRecords, id
        <5> QED
          BY <1>2, <5>1, <5>2, <5>3, FindNothing
      <4>2. a # "failed" => o2 = o
        BY <1>1, <3>3, <4>1 DEF Reports, res
      <4>3. a = "failed" => r.err
        BY <1>1, <3>3 DEF Reports
      <4>4. CASE a = "failed"
        BY <1>4, <3>1, <4>3, <4>4
      <4>5. CASE a # "failed"
        BY <3>1, <4>2, <4>5
      <4> QED
        BY <4>4, <4>5
    <3> QED
      BY <3>2, <3>3
  <2>2. ASSUME NEW n \in Names PROVE ErrorsOf(k2, o2, n)
    <3> DEFINE before == Cardinality(Marks(k.names, k.answer, n, {"failed"}))
               after == Cardinality(Marks(k.names, k2.answer, n, {"failed"}))
               heard == k.method = "BulkRemove" \/ Passes(k.under, "failed")
    <3>1. Count(o, Errors(n)) = IF heard THEN before ELSE 0
      BY <2>2 DEF FailuresOf, ErrorsOf
    <3>2. /\ before \in Nat
          /\ name = n /\ a = "failed" => after = before + 1
          /\ ~(name = n /\ a = "failed") => after = before
      <4>1. k.answer[j] \notin {"failed"}
        OBVIOUS
      <4>2. MarksGrow(k.names, k.answer, k2.answer, j, a, n, {"failed"})
        BY <1>20, <4>1, MarksStep
      <4> QED
        BY <4>2 DEF MarksGrow, name
    <3>3. /\ r \in Errors(n) => Count(Append(o, r), Errors(n)) = Count(o, Errors(n)) + 1
          /\ r \notin Errors(n) => Count(Append(o, r), Errors(n)) = Count(o, Errors(n))
      BY CountAppend
    <3>4. k.method = "BulkRemove" => \A x : Passes(k.under, x)
      BY DEF KeptOf, Passes
    <3>5. r \in Errors(n) => name = n
      BY <1>1 DEF Errors, Reports
    <3>6. a = "failed" => /\ res = <<r>>
                          /\ r \in Errors(n) <=> name = n
      <4>1. a = "failed" => res = <<r>> /\ r.err /\ r.about = name
        BY <1>1 DEF Reports, res
      <4> QED
        BY <4>1 DEF Errors
    <3>7. a # "failed" => o2 = o \/ r \notin Errors(n)
      <4>1. k.method = "BulkRemove" /\ a # "failed" => res = << >>
        BY <1>1 DEF Reports, res
      <4>2. k.method = "BulkWrite" /\ a # "failed" => ~r.err
        BY <1>1 DEF Reports
      <4> QED
        BY <1>1, <4>1, <4>2 DEF Errors
    <3>8. o2 = o \/ o2 = Append(o, r)
      BY <1>1
    <3>9. a = "failed" => (heard <=> o2 = Append(o, r)) /\ (heard <=> o2 # o)
      <4>1. Append(o, r) # o
        <5>1. Len(Append(o, r)) = Len(o) + 1 /\ Len(o) \in Nat
          OBVIOUS
        <5> QED
          BY <5>1
      <4>2. a = "failed" => (heard <=> Passes(k.under, a))
        BY <3>4
      <4> HIDE DEF heard
      <4> QED
        BY <1>1, <3>6, <3>8, <4>1, <4>2
    <3> HIDE DEF before, after, heard
    <3>10. Count(o2, Errors(n)) = IF heard THEN after ELSE 0
      <4>1. CASE a = "failed"
        BY <4>1, <3>1, <3>2, <3>3, <3>6, <3>8, <3>9
      <4>2. CASE a # "failed"
        BY <4>2, <3>1, <3>2, <3>3, <3>7, <3>8
      <4> QED
        BY <4>1, <4>2
    <3> QED
      BY <3>10 DEF ErrorsOf, SameRequest, after, heard
  <2> QED
    BY <2>1, <2>2
<1> QED
  BY <1>3, <1>5, <1>6, <1>7, <1>8

---------------------------------------------------------------------------
(* The invariant and the steps *)

Sound(c) ==
    /\ KeptOf(call[c], out[c], hash)
    /\ SuccessOf(call[c], out[c])
    /\ NamedOf(call[c], out[c])
    /\ DropsOf(call[c], out[c])
    /\ FailuresOf(call[c], out[c])

BInv ==
    /\ TypeOK
    /\ filter # "positive" <=> loosened
    /\ \A c \in Calls : Sound(c)
    /\ KeysOutliveRequest

(* A call that a step does not touch. *)
LEMMA Untouched ==
    ASSUME NEW c \in Calls, Sound(c), hash' = hash,
           call'[c] = call[c], out'[c] = out[c]
    PROVE  Sound(c)'
BY DEF Sound

(* Types of the calls and the results, call by call. *)
LEMMA CallTypes ==
    TypeOK => \A c \in Calls : Shape(call[c]) /\ out[c] \in Seq(Results)
BY DEF TypeOK, Shape

(* The invariant holds at the start. *)
LEMMA InitBInv == Init => BInv
<1> SUFFICES ASSUME Init PROVE BInv
  OBVIOUS
<1>1. NotMade \in CallRecords /\ Shape(NotMade)
  <2>1. /\ NotMade.names = << >> /\ NotMade.kk = << >> /\ NotMade.asked = << >>
        /\ NotMade.answer = << >>
    BY DEF NotMade
  <2>2. NotMade \in CallRecords
    BY DEF NotMade, CallRecords, FilterKinds
  <2> QED
    BY <2>1, <2>2 DEF Shape
<1>2. \A c \in Calls : call[c] = NotMade /\ out[c] = << >>
  BY DEF Init
<1>3. TypeOK
  <2>1. call \in [Calls -> CallRecords] /\ out \in [Calls -> Seq(Results)]
    BY <1>1 DEF Init
  <2>2. /\ hash \in Hashes /\ filter \in FilterKinds /\ namespace \in Namespaces
        /\ settings \in 0 .. MaxSettings
    BY NamespacesAssumption, SettingsAssumption DEF Init, NewFilter, FilterKinds
  <2>3. loosened \in BOOLEAN /\ wild \in BOOLEAN
    BY DEF Init
  <2> QED
    BY <1>1, <1>2, <2>1, <2>2, <2>3 DEF TypeOK, Shape
<1>4. ASSUME NEW c \in Calls PROVE Sound(c)
  <2>1. /\ NotMade.names = << >> /\ NotMade.under = "positive"
        /\ NotMade.method = "none" /\ NotMade.keys = "none"
        /\ NotMade.loose = FALSE
    BY DEF NotMade
  <2>2. \A i \in DOMAIN NotMade.names : NotMade.answer[i] = "none"
    BY <2>1
  <2>3. /\ SuccessOf(NotMade, << >>) /\ NamedOf(NotMade, << >>)
        /\ DropsOf(NotMade, << >>) /\ FailuresOf(NotMade, << >>)
    BY <2>2, MadeSound
  <2>4. KeptOf(NotMade, << >>, hash)
    BY <2>1 DEF KeptOf
  <2> QED
    BY <1>2, <2>1, <2>3, <2>4 DEF Sound
<1>5. (filter # "positive" <=> loosened) /\ KeysOutliveRequest
  BY DEF Init, NewFilter, KeysOutliveRequest
<1> QED
  BY <1>3, <1>4, <1>5 DEF BInv

(* SetNamespace and SetFilter. *)
LEMMA SettingStep ==
    ASSUME BInv, \/ \E ns \in Namespaces : SetNamespace(ns)
                 \/ \E f \in 0 .. 2 : SetFilter(f)
    PROVE  BInv'
<1>0. TypeOK /\ (filter # "positive" <=> loosened) /\ \A c \in Calls : Sound(c)
  BY DEF BInv
<1>1. /\ UNCHANGED <<hash, call, out, wild>>
      /\ settings' \in 0 .. MaxSettings /\ namespace' \in Namespaces
  BY <1>0, SettingsAssumption DEF SetNamespace, SetFilter, TypeOK
<1>2. /\ filter' \in FilterKinds /\ loosened' \in BOOLEAN
      /\ filter' # "positive" <=> loosened'
  <2>1. ASSUME NEW f \in 0 .. 2, SetFilter(f)
        PROVE  /\ filter' \in FilterKinds /\ loosened' \in BOOLEAN
               /\ filter' # "positive" <=> loosened'
    <3>1. f = 0 \/ f = 1 \/ f = 2
      OBVIOUS
    <3>2. loosened' = (f = 0 \/ (f # 1 /\ loosened))
      BY <2>1 DEF SetFilter
    <3>3. CASE f = 0
      <4>1. filter' = "all"
        BY <2>1, <3>3 DEF SetFilter
      <4>2. loosened' = TRUE
        BY <3>2, <3>3
      <4> QED
        BY <4>1, <4>2 DEF FilterKinds
    <3>4. CASE f = 1
      <4>1. filter' = "positive"
        BY <2>1, <3>4 DEF SetFilter
      <4>0. f # 0 /\ ~(f # 1)
        BY <3>4
      <4>2. loosened' = FALSE
        BY <3>2, <4>0, Zenon
      <4> QED
        BY <4>1, <4>2 DEF FilterKinds
    <3>5. CASE f = 2
      <4>1. filter' = filter
        BY <2>1, <3>5 DEF SetFilter
      <4>2. loosened' = loosened
        BY <1>0, <3>2, <3>5 DEF TypeOK
      <4> QED
        BY <1>0, <4>1, <4>2 DEF TypeOK
    <3> QED
      BY <3>1, <3>3, <3>4, <3>5
  <2>2. ASSUME NEW ns \in Namespaces, SetNamespace(ns)
        PROVE  UNCHANGED <<filter, loosened>>
    BY <2>2 DEF SetNamespace
  <2> QED
    BY <1>0, <2>1, <2>2 DEF TypeOK
<1>3. TypeOK'
  BY <1>0, <1>1, <1>2 DEF TypeOK
<1>4. \A c \in Calls : Sound(c)'
  BY <1>0, <1>1, Untouched
<1> QED
  BY <1>1, <1>2, <1>3, <1>4 DEF BInv, KeysOutliveRequest

(* Nothing changes. *)
LEMMA IdleStep ==
    ASSUME BInv, UNCHANGED vars
    PROVE  BInv'
<1>1. UNCHANGED <<hash, filter, namespace, settings, loosened, call, out, wild>>
  BY DEF vars, sessionVars
<1>2. \A c \in Calls : Sound(c)'
  BY <1>1, Untouched DEF BInv
<1> QED
  BY <1>1, <1>2 DEF BInv, TypeOK, KeysOutliveRequest

(* Make: the method from its first line to its return. *)
LEMMA MakeStep ==
    ASSUME BInv, NEW c \in Calls, NEW m \in Bulk \cup Single, NEW s \in Slices,
           Make(c, m, s)
    PROVE  BInv'
<1> DEFINE names == NewKeys(s)
           k2 == [method |-> m, names |-> names, kk |-> KeyIds(m, names),
                  asked |-> Transformed(names), under |-> FilterFor(m),
                  loose |-> loosened \/ m = "BulkRemove",
                  answer |-> [i \in DOMAIN names |-> "none"],
                  keys |-> KeysAfter(m), ended |-> FALSE]
<1>0. /\ TypeOK /\ (filter # "positive" <=> loosened)
      /\ \A d \in Calls : Sound(d)
  BY DEF BInv
<1>1. /\ call[c].method = "none" /\ filter' = FilterFor(m)
      /\ loosened' = (loosened \/ m = "BulkRemove")
      /\ call' = [call EXCEPT ![c] = k2]
      /\ UNCHANGED <<hash, namespace, settings, out, wild>>
  BY DEF Make
<1>2. names \in Seq(Names) /\ Len(names) = Len(s) /\ Len(names) \in Nat
  <2>1. s \in Seq(Names)
    BY SlicesAssumption
  <2> QED
    BY <2>1, NewKeysSorts
<1> HIDE DEF names
<1> DEFINE n == Len(names)
<1>3. DOMAIN names = 1 .. n /\ n \in Nat /\ \A i \in 1 .. n : names[i] \in Names
  BY <1>2
<1>4. /\ Transformed(names) \in Seq(Nat) /\ Len(Transformed(names)) = n
      /\ \A i \in DOMAIN names : /\ Transformed(names)[i] = hash[namespace][names[i]]
                                 /\ Transformed(names)[i] # NoId
  <2>1. Transformed(names) = [i \in 1 .. n |-> hash[namespace][names[i]]]
    BY <1>3 DEF Transformed
  <2>2. \A i \in 1 .. n : hash[namespace][names[i]] \in Nat \ {NoId}
    BY <1>0, <1>3, HashesAssumption DEF TypeOK
  <2> HIDE DEF n
  <2>3. [i \in 1 .. n |-> hash[namespace][names[i]]] \in Seq(Nat)
    BY <1>3, <2>2, IsASeq
  <2>4. Len([i \in 1 .. n |-> hash[namespace][names[i]]]) = n
    BY <1>3
  <2>5. \A i \in DOMAIN names : /\ Transformed(names)[i] = hash[namespace][names[i]]
                                /\ Transformed(names)[i] # NoId
    BY <1>3, <2>1, <2>2
  <2> QED
    BY <2>1, <2>3, <2>4, <2>5
<1>5. /\ KeyIds(m, names) \in Seq(Nat) /\ Len(KeyIds(m, names)) = n
      /\ m # "BulkWrite" => KeyIds(m, names) = Transformed(names)
      /\ m = "BulkWrite" => \A i \in DOMAIN names : KeyIds(m, names)[i] = NoId
  <2>1. KeyIds(m, names) = IF m = "BulkWrite" THEN [i \in 1 .. n |-> NoId]
                                              ELSE Transformed(names)
    BY <1>3 DEF KeyIds
  <2>2. [i \in 1 .. n |-> NoId] \in Seq(Nat) /\ Len([i \in 1 .. n |-> NoId]) = n
    BY <1>3 DEF NoId
  <2> QED
    BY <1>3, <1>4, <2>1, <2>2
<1>6. /\ [i \in DOMAIN names |-> "none"] \in Seq({"none", "data", "ack", "failed"})
      /\ Len([i \in DOMAIN names |-> "none"]) = n
  BY <1>3
<1>7. /\ FilterFor(m) \in FilterKinds
      /\ m = "BulkRemove" => FilterFor(m) = "all_with_ack"
      /\ FilterFor(m) # "positive" <=> loosened'
      /\ loosened' \in BOOLEAN
  BY <1>0, <1>1 DEF FilterFor, FilterKinds, TypeOK
<1>8. KeysAfter(m) \in {"none", "live"}
  BY DEF KeysAfter
<1>9. /\ k2.method = m /\ k2.names = names /\ k2.kk = KeyIds(m, names)
      /\ k2.asked = Transformed(names) /\ k2.under = FilterFor(m)
      /\ k2.answer = [i \in DOMAIN names |-> "none"] /\ k2.keys = KeysAfter(m)
      /\ k2.loose = loosened'
  BY <1>1
<1>10. k2 \in CallRecords
  BY <1>1, <1>2, <1>4, <1>5, <1>6, <1>7, <1>8 DEF CallRecords
<1> HIDE DEF k2, n
<1>11. call'[c] = k2 /\ \A d \in Calls : d # c => call'[d] = call[d]
  BY <1>0, <1>1 DEF TypeOK
<1>12. out[c] = << >>
  BY <1>0, <1>1 DEF Sound, KeptOf
<1>13. Sound(c)'
  <2>1. \A i \in DOMAIN k2.names : k2.answer[i] = "none"
    BY <1>9
  <2>2. /\ SuccessOf(k2, << >>) /\ NamedOf(k2, << >>)
        /\ DropsOf(k2, << >>) /\ FailuresOf(k2, << >>)
    BY <2>1, MadeSound
  <2>3. KeptOf(k2, << >>, hash)
    <3>1. namespace \in Namespaces
      BY <1>0 DEF TypeOK
    <3>2. m # "none"
      BY DEF Bulk, Single
    <3>3. m \in {"BulkRead", "BulkRemove"} => k2.kk = k2.asked
      BY <1>5, <1>9
    <3>4. \A i \in DOMAIN k2.names : k2.asked[i] = hash[namespace][k2.names[i]]
      BY <1>4, <1>9
    <3>5. k2.keys # "freed"
      BY <1>8, <1>9
    <3>6. m = "BulkWrite" => \A i \in DOMAIN k2.names :
                                k2.kk[i] = NoId /\ k2.asked[i] # NoId
      BY <1>4, <1>5, <1>9
    <3>7. k2.under # "positive" <=> k2.loose
      BY <1>7, <1>9
    <3> QED
      BY <1>7, <1>9, <3>1, <3>2, <3>3, <3>4, <3>5, <3>6, <3>7 DEF KeptOf
  <2> QED
    BY <1>1, <1>7, <1>9, <1>11, <1>12, <2>2, <2>3 DEF Sound
<1>14. \A d \in Calls : Sound(d)'
  <2>1. \A d \in Calls : d # c => Sound(d)'
    BY <1>0, <1>1, <1>7, <1>11, Untouched
  <2> QED
    BY <1>13, <2>1
<1>15. TypeOK'
  <2>1. call' \in [Calls -> CallRecords]
    BY <1>0, <1>1, <1>10 DEF TypeOK
  <2>2. \A d \in Calls : /\ Len(call'[d].kk) = Len(call'[d].names)
                         /\ Len(call'[d].asked) = Len(call'[d].names)
                         /\ Len(call'[d].answer) = Len(call'[d].names)
    <3>1. /\ Len(k2.kk) = Len(k2.names) /\ Len(k2.asked) = Len(k2.names)
          /\ Len(k2.answer) = Len(k2.names)
      BY <1>4, <1>5, <1>6, <1>9 DEF n
    <3> QED
      BY <1>0, <1>11, <3>1 DEF TypeOK
  <2>3. filter' \in FilterKinds /\ loosened' \in BOOLEAN
    BY <1>1, <1>7
  <2> QED
    BY <1>0, <1>1, <2>1, <2>2, <2>3 DEF TypeOK
<1>16. (filter' # "positive" <=> loosened') /\ KeysOutliveRequest'
  BY <1>1, <1>7 DEF BInv, KeysOutliveRequest
<1> QED
  BY <1>14, <1>15, <1>16 DEF BInv

(* Answer: the library calls the handler, or its filter does not let it. *)
LEMMA AnswerStep ==
    ASSUME BInv, NEW c \in Calls, NEW i \in DOMAIN call[c].names, NEW a,
           Answer(c, i, a)
    PROVE  BInv'
<1> DEFINE k == call[c]
           k2 == call'[c]
<1>0. /\ TypeOK /\ (filter # "positive" <=> loosened) /\ Sound(c)
      /\ \A d \in Calls : Sound(d)
      /\ Shape(k) /\ out[c] \in Seq(Results)
      /\ hash \in Hashes
  BY CallTypes DEF BInv, TypeOK
<1>1. /\ ~k.ended /\ k.answer[i] = "none" /\ a \in Answers(k.method)
      /\ call' = [call EXCEPT ![c].answer[i] = a]
      /\ UNCHANGED <<hash, filter, namespace, settings, loosened>>
  BY DEF Answer, sessionVars
<1>2. k.keys # "freed"
  BY <1>0, <1>1 DEF Sound, KeptOf
<1>3. out' = [out EXCEPT ![c] = OutAfter(k, out[c], i, a)] /\ wild' = wild
  <2>1. CASE Passes(k.under, a)
    <3>1. out' = [out EXCEPT ![c] = @ \o OnResult(k, k.names[i], k.asked[i], a)]
      BY <2>1 DEF Answer
    <3>2. wild' = (wild \/ k.keys = "freed")
      BY <2>1 DEF Answer
    <3>3. wild' = wild
      BY <1>0, <1>2, <3>2 DEF TypeOK
    <3> QED
      BY <2>1, <3>1, <3>3 DEF OutAfter
  <2>2. CASE ~Passes(k.under, a)
    <3>1. out' = out /\ wild' = wild
      BY <2>2 DEF Answer
    <3> QED
      BY <1>0, <2>2, <3>1 DEF OutAfter, TypeOK
  <2> QED
    BY <2>1, <2>2
<1>4. /\ \A d \in Calls : d # c => call'[d] = call[d] /\ out'[d] = out[d]
      /\ out'[c] = OutAfter(k, out[c], i, a)
  BY <1>0, <1>1, <1>3 DEF TypeOK
<1>5. k2 = [k EXCEPT !.answer = [k.answer EXCEPT ![i] = a]]
  BY <1>0, <1>1 DEF TypeOK
<1>6. k \in CallRecords
  BY <1>0 DEF Shape
<1> HIDE DEF k, k2
<1>7. /\ k2.method = k.method /\ k2.names = k.names /\ k2.kk = k.kk
      /\ k2.asked = k.asked /\ k2.under = k.under /\ k2.keys = k.keys
      /\ k2.ended = k.ended /\ k2.loose = k.loose /\ k2.answer = [k.answer EXCEPT ![i] = a]
  BY <1>5, <1>6 DEF CallRecords
<1>8. i \in DOMAIN k.names /\ i \in DOMAIN k.answer
  BY <1>0 DEF k, Shape, CallRecords
<1>9. k2.answer \in Seq({"none", "data", "ack", "failed"}) /\ Len(k2.answer) = Len(k.answer)
  <2>1. k.answer \in Seq({"none", "data", "ack", "failed"})
    BY <1>6 DEF CallRecords
  <2>2. a \in {"none", "data", "ack", "failed"}
    BY <1>1 DEF Answers
  <2> QED
    BY <1>7, <1>8, <2>1, <2>2
<1>10. k2 \in CallRecords
  BY <1>5, <1>6, <1>7, <1>9 DEF CallRecords
<1>11. k.method # "none"
  <2>1. k.method = "none" => k.names = << >>
    BY <1>0 DEF Sound, KeptOf, k
  <2> QED
    BY <1>8, <2>1
<1>12. SameRequest(k, k2)
  BY <1>7 DEF SameRequest
<1>13. /\ out'[c] \in Seq(Results)
       /\ SuccessOf(k2, out'[c]) /\ NamedOf(k2, out'[c])
       /\ DropsOf(k2, out'[c]) /\ FailuresOf(k2, out'[c])
  <2>1. /\ KeptOf(k, out[c], hash)
        /\ SuccessOf(k, out[c]) /\ NamedOf(k, out[c])
        /\ DropsOf(k, out[c]) /\ FailuresOf(k, out[c])
    BY <1>0 DEF Sound, k
  <2>2. Shape(k) /\ k.answer[i] = "none" /\ a \in Answers(k.method)
    BY <1>0, <1>1 DEF k
  <2>3. out'[c] = OutAfter(k, out[c], i, a)
    BY <1>4 DEF k
  <2> QED
    BY <1>0, <1>7, <1>8, <1>11, <1>12, <2>1, <2>2, <2>3, AnswerSound
<1>14. Sound(c)'
  <2>1. KeptOf(k2, out'[c], hash)
    <3>1. KeptOf(k, out[c], hash)
      BY <1>0 DEF Sound, k
    <3> QED
      BY <1>7, <1>11, <3>1 DEF KeptOf
  <2> QED
    BY <1>1, <1>13, <2>1 DEF Sound, k2
<1>15. \A d \in Calls : Sound(d)'
  <2>1. \A d \in Calls : d # c => Sound(d)'
    BY <1>0, <1>1, <1>4, Untouched
  <2> QED
    BY <1>14, <2>1
<1>16. TypeOK'
  <2>1. call' \in [Calls -> CallRecords]
    BY <1>0, <1>1, <1>4, <1>10 DEF TypeOK, k2
  <2>2. out' \in [Calls -> Seq(Results)]
    BY <1>0, <1>3, <1>4, <1>13 DEF TypeOK
  <2>3. \A d \in Calls : /\ Len(call'[d].kk) = Len(call'[d].names)
                         /\ Len(call'[d].asked) = Len(call'[d].names)
                         /\ Len(call'[d].answer) = Len(call'[d].names)
    <3>1. /\ Len(k2.kk) = Len(k2.names) /\ Len(k2.asked) = Len(k2.names)
          /\ Len(k2.answer) = Len(k2.names)
      BY <1>0, <1>7, <1>9 DEF Shape, k
    <3> QED
      BY <1>0, <1>4, <3>1 DEF TypeOK, k2
  <2> QED
    BY <1>0, <1>1, <1>3, <2>1, <2>2, <2>3 DEF TypeOK
<1> QED
  BY <1>0, <1>1, <1>3, <1>15, <1>16 DEF BInv, KeysOutliveRequest

(* Finish: the last callback. *)
LEMMA FinishStep ==
    ASSUME BInv, NEW c \in Calls, NEW err \in BOOLEAN, Finish(c, err)
    PROVE  BInv'
<1> DEFINE k == call[c]
           k2 == call'[c]
           e == Result(NoName, NoName, "none", TRUE)
           keys == IF k.method \in {"BulkRead", "BulkWrite"} THEN "freed" ELSE k.keys
<1>0. /\ TypeOK /\ (filter # "positive" <=> loosened) /\ Sound(c)
      /\ \A d \in Calls : Sound(d)
      /\ Shape(k) /\ out[c] \in Seq(Results)
  BY CallTypes DEF BInv
<1>1. /\ k.method # "none"
      /\ call' = [call EXCEPT ![c].ended = TRUE, ![c].keys = keys]
      /\ out' = [out EXCEPT ![c] = IF err THEN Append(@, e) ELSE @]
      /\ UNCHANGED <<hash, filter, namespace, settings, loosened, wild>>
  BY DEF Finish, sessionVars
<1>2. /\ \A d \in Calls : d # c => call'[d] = call[d] /\ out'[d] = out[d]
      /\ out'[c] \in {out[c], Append(out[c], e)}
  BY <1>0, <1>1 DEF TypeOK
<1>3. k2 = [k EXCEPT !.ended = TRUE, !.keys = keys]
  BY <1>0, <1>1 DEF TypeOK
<1>4. k \in CallRecords /\ keys \in {"none", "live", "freed"}
  BY <1>0 DEF Shape, CallRecords
<1> HIDE DEF k, k2, keys
<1>5. /\ k2.method = k.method /\ k2.names = k.names /\ k2.kk = k.kk
      /\ k2.asked = k.asked /\ k2.under = k.under /\ k2.answer = k.answer
      /\ k2.ended /\ k2.loose = k.loose
  BY <1>3, <1>4 DEF CallRecords
<1>6. k2 \in CallRecords
  BY <1>3, <1>4 DEF CallRecords
<1>7. SameRequest(k, k2)
  BY <1>5 DEF SameRequest
<1>8. /\ SuccessOf(k2, out'[c]) /\ NamedOf(k2, out'[c])
      /\ DropsOf(k2, out'[c]) /\ FailuresOf(k2, out'[c])
  <2>1. /\ SuccessOf(k, out[c]) /\ NamedOf(k, out[c])
        /\ DropsOf(k, out[c]) /\ FailuresOf(k, out[c]) /\ Shape(k)
    BY <1>0 DEF Sound, k
  <2>2. Ends(out[c], out'[c])
    BY <1>2 DEF Ends
  <2> QED
    BY <1>0, <1>5, <1>7, <2>1, <2>2, EndSound
<1>9. Sound(c)'
  <2>1. KeptOf(k2, out'[c], hash)
    <3>1. KeptOf(k, out[c], hash) /\ k.method # "none"
      BY <1>0, <1>1 DEF Sound, k
    <3> QED
      BY <1>5, <3>1 DEF KeptOf
  <2> QED
    BY <1>1, <1>8, <2>1 DEF Sound, k2
<1>10. \A d \in Calls : Sound(d)'
  <2>1. \A d \in Calls : d # c => Sound(d)'
    BY <1>0, <1>1, <1>2, Untouched
  <2> QED
    BY <1>9, <2>1
<1>11. TypeOK'
  <2>1. call' \in [Calls -> CallRecords]
    BY <1>0, <1>1, <1>2, <1>6 DEF TypeOK, k2
  <2>2. out' \in [Calls -> Seq(Results)]
    <3>1. e \in Results
      BY LastResult
    <3> HIDE DEF e
    <3>2. Append(out[c], e) \in Seq(Results)
      BY <1>0, <3>1
    <3>3. out'[c] \in Seq(Results)
      BY <1>0, <1>2, <3>2
    <3> QED
      BY <1>0, <1>1, <1>2, <3>3 DEF TypeOK
  <2>3. \A d \in Calls : /\ Len(call'[d].kk) = Len(call'[d].names)
                         /\ Len(call'[d].asked) = Len(call'[d].names)
                         /\ Len(call'[d].answer) = Len(call'[d].names)
    <3>1. /\ Len(k2.kk) = Len(k2.names) /\ Len(k2.asked) = Len(k2.names)
          /\ Len(k2.answer) = Len(k2.names)
      BY <1>0, <1>5 DEF Shape, k
    <3> QED
      BY <1>0, <1>2, <3>1 DEF TypeOK, k2
  <2> QED
    BY <1>0, <1>1, <2>1, <2>2, <2>3 DEF TypeOK
<1> QED
  BY <1>0, <1>1, <1>10, <1>11 DEF BInv, KeysOutliveRequest

(* The invariant holds across every step. *)
LEMMA NextBInv == BInv /\ [Next]_vars => BInv'
<1> SUFFICES ASSUME BInv, [Next]_vars PROVE BInv'
  OBVIOUS
<1>1. CASE \/ \E ns \in Namespaces : SetNamespace(ns)
           \/ \E f \in 0 .. 2 : SetFilter(f)
  BY <1>1, SettingStep
<1>2. ASSUME NEW c \in Calls, NEW m \in Bulk \cup Single, NEW s \in Slices,
             Make(c, m, s)
      PROVE  BInv'
  BY <1>2, MakeStep
<1>3. ASSUME NEW c \in Calls, NEW i \in DOMAIN call[c].names,
             NEW a \in {"data", "ack", "failed"}, Answer(c, i, a)
      PROVE  BInv'
  BY <1>3, AnswerStep
<1>4. ASSUME NEW c \in Calls, NEW err \in BOOLEAN, Finish(c, err) PROVE BInv'
  BY <1>4, FinishStep
<1>5. CASE Quiet \/ UNCHANGED vars
  BY <1>5, IdleStep DEF Quiet
<1> QED
  BY <1>1, <1>2, <1>3, <1>4, <1>5 DEF Next

---------------------------------------------------------------------------
(* The theorems *)

(* The invariant holds of every session, for any names, namespaces, slices *)
(* and number of calls.                                                    *)
THEOREM SessionInvariant == Spec => []BInv
BY InitBInv, NextBInv, PTL DEF Spec

(* Types; names, ids, request and answers stay of one length (key.go:85,   *)
(* session.go:326-385).                                                    *)
THEOREM BulkTypeCorrect == Spec => []TypeOK
<1>1. BInv => TypeOK
  BY DEF BInv
<1> QED
  BY <1>1, SessionInvariant, PTL

(* No callback searches keys that were freed (session.go:346-354).         *)
THEOREM KeysAreThere == Spec => []KeysOutliveRequest
<1>1. BInv => KeysOutliveRequest
  BY DEF BInv
<1> QED
  BY <1>1, SessionInvariant, PTL

(* A failure passes for a success only on a session without the positive   *)
(* filter, and there every failure of ReadKey and RemoveKey does           *)
(* (session.cpp:47-48, 122-143, 320).                                      *)
THEOREM SuccessesAreReal == Spec => []SuccessIsReal
<1>1. BInv => SuccessIsReal
  <2> SUFFICES ASSUME BInv, NEW c \in Calls
               PROVE  /\ \A i \in DOMAIN out[c] :
                           ~out[c][i].err /\ out[c][i].failed =>
                              /\ call[c].loose
                              /\ call[c].method \in {"ReadKey", "BulkRead", "RemoveKey"}
                      /\ call[c].method \in {"ReadKey", "RemoveKey"} =>
                           \A n \in Names :
                             Cardinality({i \in DOMAIN out[c] :
                                            /\ out[c][i].about = n
                                            /\ ~out[c][i].err /\ out[c][i].failed})
                               = IF call[c].loose THEN Given(c, n, {"failed"}) ELSE 0
    BY DEF SuccessIsReal
  <2>1. out[c] \in Seq(Results) /\ SuccessOf(call[c], out[c])
    BY CallTypes DEF BInv, Sound
  <2>2. \A n : Cardinality({i \in DOMAIN out[c] :
                              /\ out[c][i].about = n
                              /\ ~out[c][i].err /\ out[c][i].failed})
                 = Count(out[c], Falses(n))
    <3>1. \A x \in DOMAIN out[c] : out[c][x] \in Results
      BY <2>1
    <3>2. \A n : {x \in DOMAIN out[c] :
                     /\ out[c][x].about = n /\ ~out[c][x].err /\ out[c][x].failed}
                   = {x \in DOMAIN out[c] : out[c][x] \in Falses(n)}
      BY <3>1 DEF Falses
    <3> QED
      BY <3>2 DEF Count
  <2> QED
    BY <2>1, <2>2 DEF SuccessOf, FalsesOf, Given, Marks
<1> QED
  BY <1>1, SessionInvariant, PTL

(* With ids in the order of the names every result bears its own key       *)
(* (key.h:31-38).                                                          *)
THEOREM NamesAreRight == Spec => []NamedWhenOrdered
<1>1. BInv => NamedWhenOrdered
  BY DEF BInv, Sound, NamedOf, NamedWhenOrdered
<1> QED
  BY <1>1, SessionInvariant, PTL

(* In any order, BulkRead loses an answer only beyond the last id          *)
(* (key.h:31-38, session.go:337-344).                                      *)
THEOREM LostOnlyBeyondLast == Spec => []DropsOnlyBeyondLast
<1>1. BInv => DropsOnlyBeyondLast
  <2> SUFFICES ASSUME BInv, NEW c \in Calls, call[c].method = "BulkRead",
                      NEW i \in DOMAIN call[c].kk,
                      call[c].kk[i] <= call[c].kk[Len(call[c].kk)]
               PROVE  Delivered(c, call[c].names[i]) =
                        Given(c, call[c].names[i], Passing(call[c].under))
    BY DEF DropsOnlyBeyondLast, Passing
  <2>1. out[c] \in Seq(Results) /\ DropsOf(call[c], out[c])
    BY CallTypes DEF BInv, Sound
  <2>2. \A n : Delivered(c, n) = Count(out[c], About(n))
    <3>1. \A x \in DOMAIN out[c] : out[c][x] \in Results
      BY <2>1
    <3>2. \A n : {x \in DOMAIN out[c] : out[c][x].about = n}
                   = {x \in DOMAIN out[c] : out[c][x] \in About(n)}
      BY <3>1 DEF About
    <3> QED
      BY <3>2 DEF Delivered, Count
  <2> QED
    BY <2>1, <2>2 DEF DropsOf, Given, Marks
<1> QED
  BY <1>1, SessionInvariant, PTL

(* BulkRemove and BulkWrite give one error for every failed answer that    *)
(* passes the filter, and nothing else: no good answer of BulkWrite        *)
(* arrives (session.cpp:273-308, 320, session.go:934-946, 976-1011).       *)
THEOREM FailuresAreReported == Spec => []FailuresReported
<1>1. BInv => FailuresReported
  <2> SUFFICES ASSUME BInv, NEW c \in Calls,
                      call[c].method \in {"BulkWrite", "BulkRemove"}
               PROVE  /\ \A n \in Names :
                           Cardinality({i \in DOMAIN out[c] :
                                          out[c][i].about = n /\ out[c][i].err})
                             = IF call[c].method = "BulkRemove"
                                    \/ Passes(call[c].under, "failed")
                                 THEN Given(c, n, {"failed"}) ELSE 0
                      /\ \A i \in DOMAIN out[c] : out[c][i].err
    BY DEF FailuresReported
  <2>1. out[c] \in Seq(Results) /\ FailuresOf(call[c], out[c])
    BY CallTypes DEF BInv, Sound
  <2>2. \A n : Cardinality({i \in DOMAIN out[c] :
                              out[c][i].about = n /\ out[c][i].err})
                 = Count(out[c], Errors(n))
    <3>1. \A x \in DOMAIN out[c] : out[c][x] \in Results
      BY <2>1
    <3>2. \A n : {x \in DOMAIN out[c] : out[c][x].about = n /\ out[c][x].err}
                   = {x \in DOMAIN out[c] : out[c][x] \in Errors(n)}
      BY <3>1 DEF Errors
    <3> QED
      BY <3>2 DEF Count
  <2> QED
    BY <2>1, <2>2 DEF FailuresOf, ErrorsOf, Given, Marks
<1> QED
  BY <1>1, SessionInvariant, PTL

=============================================================================
