----------------------------- MODULE RingProofs -----------------------------
(***************************************************************************)
(* What Finalize computes, for every ring: the sums it adds up are natural *)
(* numbers, those of a group make up the whole ring, and each backend gets *)
(* as many points as it owns.                                              *)
(*                                                                         *)
(* A sum over a set is a fold, a recursive function that picks elements by *)
(* CHOOSE.  The first part shows that such a function exists, is the only  *)
(* one, and does not depend on the order of the choices; the second part   *)
(* is about the gaps between the ids.                                      *)
(***************************************************************************)
EXTENDS RouteRing, FiniteSetTheorems, SetInduction

(* The fold behind MapThenSumSet: f[s] is the sum of h over s. *)
First(s) == CHOOSE x \in s : TRUE
Step(f, h, s) == IF s = {} THEN 0 ELSE h[First(s)] + f[s \ {First(s)}]
SumsOf(f, h, S) == f = [s \in SUBSET S |-> Step(f, h, s)]

(* The same without an order. *)
Additive(f, h, S) ==
    /\ f[{}] = 0
    /\ \A s \in SUBSET S : \A x \in s : f[s] = h[x] + f[s \ {x}]

---------------------------------------------------------------------------
(* Sums over finite sets *)

(* Taking the chosen element away leaves a set with one element less. *)
LEMMA TakeFirst ==
    ASSUME NEW S, IsFiniteSet(S), S # {}
    PROVE  /\ First(S) \in S
           /\ Cardinality(S) \in Nat
           /\ Cardinality(S \ {First(S)}) = Cardinality(S) - 1
           /\ Cardinality(S \ {First(S)}) \in Nat
<1>1. First(S) \in S
  BY DEF First
<1> QED
  BY <1>1, FS_RemoveElement, FS_CardinalityType

(* So does taking away any other. *)
LEMMA TakeOne ==
    ASSUME NEW S, IsFiniteSet(S), NEW n \in Nat, Cardinality(S) = n + 1,
           NEW x \in S
    PROVE  Cardinality(S \ {x}) = n
<1>1. Cardinality(S \ {x}) = Cardinality(S) - 1
  BY FS_RemoveElement
<1> QED
  BY <1>1

(* Subsets of a finite set have a number of elements. *)
LEMMA SubsetsFinite ==
    ASSUME NEW S, IsFiniteSet(S)
    PROVE  \A s \in SUBSET S : IsFiniteSet(s) /\ Cardinality(s) \in Nat
BY FS_Subset, FS_CardinalityType

(* The fold of integers is defined, and its values are integers. *)
LEMMA SumsExist ==
    ASSUME NEW S, IsFiniteSet(S), NEW h \in [S -> Int]
    PROVE  \E f \in [SUBSET S -> Int] : SumsOf(f, h, S)
<1> DEFINE D(n) == {s \in SUBSET S : Cardinality(s) <= n}
           Fits(n, f) == \A s \in D(n) : f[s] = Step(f, h, s)
           Good == {n \in Nat : \E f \in [D(n) -> Int] : Fits(n, f)}
<1>0. \A s \in SUBSET S : IsFiniteSet(s) /\ Cardinality(s) \in Nat
  BY SubsetsFinite
<1>1. 0 \in Good
  <2>1. \A s \in D(0) : s = {}
    BY <1>0, FS_EmptySet
  <2>2. Fits(0, [s \in D(0) |-> 0])
    BY <2>1 DEF Step
  <2>3. [s \in D(0) |-> 0] \in [D(0) -> Int]
    OBVIOUS
  <2> QED
    BY <2>2, <2>3
<1>2. ASSUME NEW n \in Nat, n \in Good PROVE n + 1 \in Good
  <2>1. PICK f \in [D(n) -> Int] : Fits(n, f)
    BY <1>2
  <2> DEFINE g == [s \in D(n + 1) |-> Step(f, h, s)]
  <2>2. ASSUME NEW s \in D(n + 1), s # {}
        PROVE  /\ First(s) \in S
               /\ s \ {First(s)} \in D(n) /\ s \ {First(s)} \in D(n + 1)
    BY <2>2, <1>0, TakeFirst
  <2>3. g \in [D(n + 1) -> Int]
    BY <2>2 DEF Step
  <2>4. \A s \in D(n) : g[s] = f[s]
    <3>1. \A s \in D(n) : s \in D(n + 1)
      BY <1>0
    <3> QED
      BY <3>1, <2>1
  <2>5. Fits(n + 1, g)
    <3> SUFFICES ASSUME NEW s \in D(n + 1) PROVE g[s] = Step(g, h, s)
      OBVIOUS
    <3>1. g[s] = Step(f, h, s)
      OBVIOUS
    <3>2. s # {} => g[s \ {First(s)}] = f[s \ {First(s)}]
      BY <2>2, <2>4
    <3> HIDE DEF g
    <3> QED
      BY <3>1, <3>2 DEF Step
  <2> HIDE DEF g, D, Fits
  <2> QED
    BY <2>3, <2>5
<1>3. Cardinality(S) \in Good
  <2> HIDE DEF Good
  <2> QED
    BY <1>1, <1>2, SetInduction, FS_CardinalityType
<1>4. PICK f \in [D(Cardinality(S)) -> Int] : Fits(Cardinality(S), f)
  BY <1>3
<1>5. D(Cardinality(S)) = SUBSET S
  BY FS_Subset
<1>6. f \in [SUBSET S -> Int] /\ \A s \in SUBSET S : f[s] = Step(f, h, s)
  BY <1>4, <1>5
<1>7. f = [s \in SUBSET S |-> Step(f, h, s)]
  BY <1>6
<1> QED
  BY <1>6, <1>7 DEF SumsOf

(* The equation of the fold has one solution. *)
LEMMA SumsUnique ==
    ASSUME NEW S, IsFiniteSet(S), NEW h,
           NEW f, NEW g, SumsOf(f, h, S), SumsOf(g, h, S)
    PROVE  f = g
<1> DEFINE Same == {n \in Nat : \A s \in SUBSET S :
                                    Cardinality(s) = n => f[s] = g[s]}
<1>0. \A s \in SUBSET S : IsFiniteSet(s) /\ Cardinality(s) \in Nat
  BY SubsetsFinite
<1>1. \A s \in SUBSET S : f[s] = Step(f, h, s) /\ g[s] = Step(g, h, s)
  BY DEF SumsOf
<1>2. 0 \in Same
  BY <1>0, <1>1, FS_EmptySet DEF Step
<1>3. ASSUME NEW n \in Nat, n \in Same PROVE n + 1 \in Same
  <2> SUFFICES ASSUME NEW s \in SUBSET S, Cardinality(s) = n + 1
               PROVE  f[s] = g[s]
    OBVIOUS
  <2>1. s # {}
    BY <1>0, FS_EmptySet
  <2>2. s \ {First(s)} \in SUBSET S /\ Cardinality(s \ {First(s)}) = n
    BY <2>1, <1>0, TakeFirst
  <2>3. f[s \ {First(s)}] = g[s \ {First(s)}]
    BY <2>2, <1>3
  <2> QED
    BY <2>1, <2>3, <1>1 DEF Step
<1>4. \A n \in Nat : n \in Same
  <2> HIDE DEF Same
  <2> QED
    BY <1>2, <1>3, SetInduction
<1>5. \A s \in SUBSET S : f[s] = g[s]
  BY <1>0, <1>4
<1> QED
  BY <1>5 DEF SumsOf

(* Whatever element is taken first, the sum is the same. *)
LEMMA SumsAdditive ==
    ASSUME NEW S, IsFiniteSet(S), NEW h \in [S -> Int],
           NEW f \in [SUBSET S -> Int], SumsOf(f, h, S)
    PROVE  Additive(f, h, S)
<1> DEFINE Free == {n \in Nat : \A s \in SUBSET S : Cardinality(s) = n =>
                                    \A x \in s : f[s] = h[x] + f[s \ {x}]}
<1>0. \A s \in SUBSET S : IsFiniteSet(s) /\ Cardinality(s) \in Nat
  BY SubsetsFinite
<1>1. \A s \in SUBSET S : f[s] = Step(f, h, s)
  BY DEF SumsOf
<1>2. 0 \in Free
  BY <1>0, FS_EmptySet
<1>3. ASSUME NEW n \in Nat, n \in Free PROVE n + 1 \in Free
  <2> SUFFICES ASSUME NEW s \in SUBSET S, Cardinality(s) = n + 1,
                      NEW x \in s
               PROVE  f[s] = h[x] + f[s \ {x}]
    OBVIOUS
  <2> DEFINE c == First(s)
  <2>1. /\ c \in s /\ s \ {c} \in SUBSET S /\ Cardinality(s \ {c}) = n
        /\ f[s] = h[c] + f[s \ {c}]
    BY <1>0, <1>1, TakeFirst DEF Step
  <2>2. CASE x = c
    BY <2>1, <2>2
  <2>3. CASE x # c
    <3> HIDE DEF c
    <3>1. s \ {x} \in SUBSET S /\ Cardinality(s \ {x}) = n
      BY <1>0, TakeOne
    <3>2. c \in s \ {x} /\ x \in s \ {c}
      BY <2>1, <2>3
    <3>3. f[s \ {c}] = h[x] + f[(s \ {c}) \ {x}]
      BY <1>3, <2>1, <3>2
    <3>4. f[s \ {x}] = h[c] + f[(s \ {x}) \ {c}]
      BY <1>3, <3>1, <3>2
    <3>5. (s \ {x}) \ {c} = (s \ {c}) \ {x}
      OBVIOUS
    <3>6. h[x] \in Int /\ h[c] \in Int /\ f[(s \ {c}) \ {x}] \in Int
      BY <2>1
    <3>7. f[s] = h[c] + (h[x] + f[(s \ {c}) \ {x}])
      BY <2>1, <3>3
    <3>8. h[x] + f[s \ {x}] = h[x] + (h[c] + f[(s \ {c}) \ {x}])
      BY <3>4, <3>5
    <3>9. \A i, j, k \in Int : i + (j + k) = j + (i + k)
      OBVIOUS
    <3> QED
      BY <3>6, <3>7, <3>8, <3>9
  <2> QED
    BY <2>2, <2>3
<1>4. \A n \in Nat : n \in Free
  <2> HIDE DEF Free
  <2> QED
    BY <1>2, <1>3, SetInduction
<1> QED
  BY <1>0, <1>1, <1>4 DEF Additive, Step

AddsUp(f, S) ==
    \A s, t \in SUBSET S : s \cap t = {} => f[s \cup t] = f[s] + f[t]

(* The sum over two sets without a common element is the sum of the sums. *)
LEMMA SumOfDisjoint ==
    ASSUME NEW S, IsFiniteSet(S), NEW h \in [S -> Int],
           NEW f \in [SUBSET S -> Int], Additive(f, h, S)
    PROVE  AddsUp(f, S)
<1> SUFFICES ASSUME NEW s \in SUBSET S, NEW t \in SUBSET S, s \cap t = {}
             PROVE  f[s \cup t] = f[s] + f[t]
  BY DEF AddsUp
<1> DEFINE Split == {n \in Nat : \A u \in SUBSET S :
               Cardinality(u) = n /\ s \cap u = {} => f[s \cup u] = f[s] + f[u]}
<1>0. \A u \in SUBSET S : IsFiniteSet(u) /\ Cardinality(u) \in Nat
  BY SubsetsFinite
<1>1. 0 \in Split
  <2>1. s \cup {} = s /\ f[s] = f[s] + 0 /\ f[{}] = 0
    BY DEF Additive
  <2>2. \A u \in SUBSET S : Cardinality(u) = 0 => u = {}
    BY <1>0, FS_EmptySet
  <2> QED
    BY <2>1, <2>2
<1>2. ASSUME NEW n \in Nat, n \in Split PROVE n + 1 \in Split
  <2> SUFFICES ASSUME NEW u \in SUBSET S, Cardinality(u) = n + 1, s \cap u = {}
               PROVE  f[s \cup u] = f[s] + f[u]
    OBVIOUS
  <2>1. PICK x : x \in u
    BY <1>0, FS_EmptySet
  <2>2. u \ {x} \in SUBSET S /\ Cardinality(u \ {x}) = n /\ s \cap (u \ {x}) = {}
    BY <2>1, <1>0, TakeOne
  <2>3. f[s \cup (u \ {x})] = f[s] + f[u \ {x}]
    BY <2>2, <1>2
  <2>4. (s \cup u) \ {x} = s \cup (u \ {x}) /\ s \cup u \in SUBSET S
    BY <2>1
  <2>5. f[s \cup u] = h[x] + f[s \cup (u \ {x})]
    BY <2>1, <2>4 DEF Additive
  <2>6. f[u] = h[x] + f[u \ {x}]
    BY <2>1 DEF Additive
  <2>7. h[x] \in Int /\ f[s] \in Int /\ f[u \ {x}] \in Int
    BY <2>1
  <2> QED
    BY <2>3, <2>5, <2>6, <2>7
<1>3. \A n \in Nat : n \in Split
  <2> HIDE DEF Split
  <2> QED
    BY <1>1, <1>2, SetInduction
<1> QED
  BY <1>0, <1>3

(* The sum of natural numbers is one. *)
LEMMA SumOfNaturals ==
    ASSUME NEW S, IsFiniteSet(S), NEW h \in [S -> Nat],
           NEW f \in [SUBSET S -> Int], Additive(f, h, S)
    PROVE  f \in [SUBSET S -> Nat]
<1> DEFINE Pos == {n \in Nat : \A s \in SUBSET S :
                                   Cardinality(s) = n => f[s] \in Nat}
<1>0. \A s \in SUBSET S : IsFiniteSet(s) /\ Cardinality(s) \in Nat
  BY SubsetsFinite
<1>1. 0 \in Pos
  BY <1>0, FS_EmptySet DEF Additive
<1>2. ASSUME NEW n \in Nat, n \in Pos PROVE n + 1 \in Pos
  <2> SUFFICES ASSUME NEW s \in SUBSET S, Cardinality(s) = n + 1
               PROVE  f[s] \in Nat
    OBVIOUS
  <2>1. PICK x : x \in s
    BY <1>0, FS_EmptySet
  <2>2. s \ {x} \in SUBSET S /\ Cardinality(s \ {x}) = n
    BY <2>1, <1>0, TakeOne
  <2>3. f[s] = h[x] + f[s \ {x}] /\ h[x] \in Nat /\ f[s \ {x}] \in Nat
    BY <2>1, <2>2, <1>2 DEF Additive
  <2> QED
    BY <2>3
<1>3. \A n \in Nat : n \in Pos
  <2> HIDE DEF Pos
  <2> QED
    BY <1>1, <1>2, SetInduction
<1> QED
  BY <1>0, <1>3

---------------------------------------------------------------------------
(* The gaps between the ids *)

Gaps(S) == [x \in S |-> x - PrevVal(S, x)]

GapSum(S, T) == MapThenSumSet(LAMBDA x : x - PrevVal(S, x), T)

Shares(ids, rank, b) ==
    {x \in Starts(ids) :
        FirstHolder(ids, rank, PrevId(Starts(ids), x)) = b}

LastGap(ids, rank, b) ==
    IF Starts(ids) # {} /\ FirstHolder(ids, rank, Max(Starts(ids))) = b
      THEN MaxId - Max(Starts(ids)) ELSE 0

OnRing(ids) == \A b \in DOMAIN ids : ids[b] \subseteq 0 .. MaxId

(* The ids are points of the ring, finitely many. *)
LEMMA StartsOnRing ==
    ASSUME NEW ids, OnRing(ids)
    PROVE  Starts(ids) \subseteq 0 .. MaxId
BY DEF Starts, OnRing

(* Sets of points are finite, and have a greatest point if any. *)
LEMMA PointsFinite ==
    ASSUME NEW S, S \subseteq 0 .. MaxId
    PROVE  IsFiniteSet(S)
<1>1. IsFiniteSet(0 .. MaxId)
  BY MaxIdAssumption, FS_Interval
<1> QED
  BY <1>1, FS_Subset

(* Max picks it. *)
LEMMA MaxOf ==
    ASSUME NEW S, S \subseteq 0 .. MaxId, S # {}
    PROVE  Max(S) \in S /\ \A y \in S : y <= Max(S)
<1>1. S \subseteq Nat /\ MaxId \in Nat /\ \A y \in S : y <= MaxId
  BY MaxIdAssumption
<1>2. \E x \in S : \A y \in S : x >= y
  BY <1>1, GreatestNatural
<1>3. Max(S) \in S /\ \A y \in S : Max(S) >= y
  BY <1>2 DEF Max
<1> QED
  BY <1>1, <1>3

(* The end of the gap before a point lies below it. *)
LEMMA PrevBelow ==
    ASSUME NEW S, S \subseteq 0 .. MaxId, NEW x \in Nat
    PROVE  /\ PrevVal(S, x) \in 0 .. x
           /\ Below(S, x) # {} => /\ PrevVal(S, x) \in S
                                  /\ PrevVal(S, x) < x
                                  /\ PrevId(S, x) = PrevVal(S, x)
                                  /\ \A y \in Below(S, x) : y <= PrevVal(S, x)
<1>1. Below(S, x) \subseteq 0 .. MaxId
  BY DEF Below
<1>2. CASE Below(S, x) = {}
  BY <1>2 DEF PrevVal
<1>3. CASE Below(S, x) # {}
  <2>1. /\ Max(Below(S, x)) \in Below(S, x)
        /\ \A y \in Below(S, x) : y <= Max(Below(S, x))
    BY <1>1, <1>3, MaxOf
  <2>2. PrevVal(S, x) = Max(Below(S, x)) /\ PrevId(S, x) = Max(Below(S, x))
    BY <1>3 DEF PrevVal, PrevId
  <2>3. PrevVal(S, x) \in S /\ PrevVal(S, x) < x
    BY <2>1, <2>2 DEF Below
  <2>4. PrevVal(S, x) \in Nat
    BY <2>3, \A y \in S : y \in Nat
  <2> QED
    BY <1>3, <2>1, <2>2, <2>3, <2>4
<1> QED
  BY <1>2, <1>3

(* Gaps are natural numbers. *)
LEMMA GapsNatural ==
    ASSUME NEW S, S \subseteq 0 .. MaxId
    PROVE  Gaps(S) \in [S -> Nat]
<1>0. \A x \in S : x \in Nat
  OBVIOUS
<1>1. \A x \in S : x \in Nat /\ PrevVal(S, x) \in 0 .. x
  BY <1>0, PrevBelow
<1>2. \A x \in S : x - PrevVal(S, x) \in Nat
  BY <1>1
<1> QED
  BY <1>2 DEF Gaps

(* The sums of gaps: there they are, one for every set of ids. *)
LEMMA GapSums ==
    ASSUME NEW S, S \subseteq 0 .. MaxId
    PROVE  \E f \in [SUBSET S -> Nat] :
              /\ Additive(f, Gaps(S), S)
              /\ \A T \in SUBSET S :
                    GapSum(S, T) = f[T]
<1>0. IsFiniteSet(S)
  BY PointsFinite
<1>1. Gaps(S) \in [S -> Nat]
  BY GapsNatural
<1>10. Gaps(S) \in [S -> Int]
  BY <1>1
<1>2. PICK f \in [SUBSET S -> Int] : SumsOf(f, Gaps(S), S)
  BY <1>0, <1>10, SumsExist
<1>3. Additive(f, Gaps(S), S)
  BY <1>0, <1>10, <1>2, SumsAdditive
<1>4. f \in [SUBSET S -> Nat]
  BY <1>0, <1>1, <1>3, SumOfNaturals
<1>5. ASSUME NEW T \in SUBSET S
      PROVE  GapSum(S, T) = f[T]
  <2> DEFINE h == [x \in T |-> Gaps(S)[x]]
             g == [s \in SUBSET T |-> f[s]]
             It(k) == k = [s \in SUBSET T |->
                        IF s = {} THEN 0
                        ELSE (CHOOSE x \in s : TRUE)
                                - PrevVal(S, CHOOSE x \in s : TRUE)
                             + k[s \ {CHOOSE x \in s : TRUE}]]
  <2>1. ASSUME NEW k PROVE It(k) <=> SumsOf(k, h, T)
    <3>1. ASSUME NEW s \in SUBSET T, s # {}
          PROVE  h[First(s)] = First(s) - PrevVal(S, First(s))
      <4>1. First(s) \in T /\ First(s) \in S
        BY <3>1 DEF First
      <4> QED
        BY <4>1 DEF Gaps
    <3>2. \A s \in SUBSET T : Step(k, h, s) =
                        IF s = {} THEN 0
                        ELSE (CHOOSE x \in s : TRUE)
                                - PrevVal(S, CHOOSE x \in s : TRUE)
                             + k[s \ {CHOOSE x \in s : TRUE}]
      BY <3>1 DEF Step, First
    <3> QED
      BY <3>2 DEF SumsOf
  <2>2. GapSum(S, T) = (CHOOSE k : It(k))[T]
    BY DEF GapSum, MapThenSumSet, MapThenFoldSet
  <2>3. SumsOf(g, h, T)
    <3>1. /\ g = [s \in SUBSET T |-> g[s]]
          /\ \A s \in SUBSET T : g[s] = f[s]
          /\ \A x \in T : h[x] = Gaps(S)[x]
      OBVIOUS
    <3> HIDE DEF g, h
    <3>2. ASSUME NEW s \in SUBSET T PROVE g[s] = Step(g, h, s)
      <4>1. f[s] = Step(f, Gaps(S), s)
        BY <1>2 DEF SumsOf
      <4>2. s # {} => First(s) \in T /\ s \ {First(s)} \in SUBSET T
        BY DEF First
      <4> QED
        BY <3>1, <4>1, <4>2 DEF Step
    <3>3. g = [s \in SUBSET T |-> Step(g, h, s)]
      BY <3>1, <3>2
    <3> QED
      BY <3>3 DEF SumsOf
  <2>4. g[T] = f[T] /\ IsFiniteSet(T)
    BY <1>0, FS_Subset
  <2> HIDE DEF It, h, g
  <2>5. It(CHOOSE k : It(k))
    BY <2>1, <2>3
  <2>6. (CHOOSE k : It(k)) = g
    BY <2>1, <2>3, <2>4, <2>5, SumsUnique
  <2> QED
    BY <2>2, <2>4, <2>6
<1> QED
  BY <1>3, <1>4, <1>5

(* What Finalize adds to a backend is a natural number. *)
LEMMA GainNatural ==
    ASSUME NEW ids, OnRing(ids), NEW rank, NEW b
    PROVE  Gain(ids, rank, b) \in Nat
<1> DEFINE S == Starts(ids)
<1>1. S \subseteq 0 .. MaxId
  BY StartsOnRing
<1>2. PICK f \in [SUBSET S -> Nat] : \A T \in SUBSET S : GapSum(S, T) = f[T]
  BY <1>1, GapSums
<1>3. Shares(ids, rank, b) \in SUBSET S
  BY DEF Shares
<1>4. Gain(ids, rank, b) = GapSum(S, Shares(ids, rank, b)) + LastGap(ids, rank, b)
  BY DEF Gain, GapSum, Shares, LastGap
<1>5. LastGap(ids, rank, b) \in Nat
  BY <1>1, MaxOf, MaxIdAssumption DEF LastGap
<1> QED
  BY <1>2, <1>3, <1>4, <1>5

(* Without ids there is nothing to give. *)
LEMMA NothingToGive ==
    ASSUME NEW ids, OnRing(ids), Starts(ids) = {}, NEW rank, NEW b
    PROVE  Gain(ids, rank, b) = 0
<1> DEFINE S == Starts(ids)
<1>1. S \subseteq 0 .. MaxId
  OBVIOUS
<1>2. PICK f \in [SUBSET S -> Nat] :
         Additive(f, Gaps(S), S) /\ \A T \in SUBSET S : GapSum(S, T) = f[T]
  BY <1>1, GapSums
<1>3. Shares(ids, rank, b) = {}
  BY DEF Shares
<1>4. Gain(ids, rank, b) = GapSum(S, Shares(ids, rank, b)) + LastGap(ids, rank, b)
  BY DEF Gain, GapSum, Shares, LastGap
<1>5. LastGap(ids, rank, b) = 0
  BY DEF LastGap
<1>6. GapSum(S, {}) = 0
  BY <1>2 DEF Additive
<1> QED
  BY <1>3, <1>4, <1>5, <1>6

---------------------------------------------------------------------------
(* The sums of a group make up the ring *)

(* From a point to the next: what lies below it, and the gap it is in. *)
LEMMA BelowNext ==
    ASSUME NEW S, S \subseteq 0 .. MaxId, NEW n \in Nat
    PROVE  /\ n \notin S => /\ Below(S, n + 1) = Below(S, n)
                            /\ PrevVal(S, n + 1) = PrevVal(S, n)
                            /\ PrevId(S, n + 1) = PrevId(S, n)
           /\ n \in S => /\ Below(S, n + 1) \ {n} = Below(S, n)
                         /\ n \in Below(S, n + 1)
                         /\ PrevVal(S, n + 1) = n
                         /\ PrevId(S, n + 1) = n
<1>0. \A y \in S : y \in Nat
  OBVIOUS
<1>b. \A y \in S : y < n + 1 <=> y < n \/ y = n
  BY <1>0
<1>c. ~(n < n) /\ n < n + 1 /\ n + 1 \in Nat
  OBVIOUS
<1>1. CASE n \notin S
  <2>1. Below(S, n + 1) = Below(S, n)
    BY <1>b, <1>1 DEF Below
  <2> QED
    BY <1>1, <2>1 DEF PrevVal, PrevId
<1>2. CASE n \in S
  <2>1. n \in Below(S, n + 1) /\ Below(S, n + 1) \ {n} = Below(S, n)
    BY <1>b, <1>c, <1>2 DEF Below
  <2>2. /\ PrevVal(S, n + 1) < n + 1 /\ n <= PrevVal(S, n + 1)
        /\ PrevVal(S, n + 1) \in Nat /\ PrevId(S, n + 1) = PrevVal(S, n + 1)
    <3>1. /\ PrevVal(S, n + 1) \in S /\ PrevVal(S, n + 1) < n + 1
          /\ PrevId(S, n + 1) = PrevVal(S, n + 1)
          /\ \A y \in Below(S, n + 1) : y <= PrevVal(S, n + 1)
      BY <2>1, <1>c, PrevBelow
    <3> QED
      BY <3>1, <2>1, <1>0
  <2>3. PrevVal(S, n + 1) = n
    BY <2>2
  <2> QED
    BY <1>2, <2>1, <2>2, <2>3
<1> QED
  BY <1>1, <1>2

(* The gaps below a point reach from zero to the last id below it. *)
LEMMA GapsBelow ==
    ASSUME NEW S, S \subseteq 0 .. MaxId,
           NEW f \in [SUBSET S -> Int], Additive(f, Gaps(S), S)
    PROVE  \A n \in Nat : f[Below(S, n)] = PrevVal(S, n)
<1> DEFINE Upto == {n \in Nat : f[Below(S, n)] = PrevVal(S, n)}
<1>1. 0 \in Upto
  <2>1. Below(S, 0) = {}
    <3>1. \A y \in S : ~(y < 0)
      OBVIOUS
    <3> QED
      BY <3>1 DEF Below
  <2> QED
    BY <2>1 DEF Additive, PrevVal
<1>2. ASSUME NEW n \in Nat, n \in Upto PROVE n + 1 \in Upto
  <2>1. CASE n \notin S
    <3>1. Below(S, n + 1) = Below(S, n) /\ PrevVal(S, n + 1) = PrevVal(S, n)
      BY <2>1, BelowNext
    <3> QED
      BY <3>1, <1>2
  <2>2. CASE n \in S
    <3>1. /\ Below(S, n + 1) \ {n} = Below(S, n) /\ n \in Below(S, n + 1)
          /\ PrevVal(S, n + 1) = n
      BY <2>2, BelowNext
    <3>2. Below(S, n + 1) \in SUBSET S
      BY DEF Below
    <3>3. f[Below(S, n + 1)] = Gaps(S)[n] + f[Below(S, n)]
      BY <3>1, <3>2 DEF Additive
    <3>4. Gaps(S)[n] = n - PrevVal(S, n) /\ f[Below(S, n)] = PrevVal(S, n)
      BY <2>2, <1>2 DEF Gaps
    <3>5. PrevVal(S, n) \in Nat
      <4>1. PrevVal(S, n) \in 0 .. n
        BY PrevBelow
      <4> QED
        BY <4>1
    <3> QED
      BY <3>1, <3>3, <3>4, <3>5
  <2> QED
    BY <2>1, <2>2
<1> HIDE DEF Upto
<1>3. \A n \in Nat : n \in Upto
  BY <1>1, <1>2, SetInduction
<1> QED
  BY <1>3 DEF Upto

(* Beyond the last id they are all the gaps there are. *)
LEMMA BelowAll ==
    ASSUME NEW S, S \subseteq 0 .. MaxId, S # {}, NEW n \in Nat, Max(S) < n
    PROVE  Below(S, n) = S /\ PrevVal(S, n) = Max(S) /\ PrevId(S, n) = Max(S)
<1>0. \A y \in S : y \in Nat
  OBVIOUS
<1>1. Max(S) \in S /\ \A y \in S : y <= Max(S)
  BY MaxOf
<1>2. ASSUME NEW y \in S PROVE y < n
  <2>1. y \in Nat /\ Max(S) \in Nat /\ y <= Max(S)
    BY <1>0, <1>1
  <2> QED
    BY <2>1
<1>3. Below(S, n) = S
  BY <1>2 DEF Below
<1> QED
  BY <1>3 DEF PrevVal, PrevId

(* Together the gaps between the ids are as long as the last id. *)
LEMMA AllGaps ==
    ASSUME NEW S, S \subseteq 0 .. MaxId, S # {},
           NEW f \in [SUBSET S -> Int], Additive(f, Gaps(S), S)
    PROVE  f[S] = Max(S)
<1>0. Max(S) \in 0 .. MaxId
  BY MaxOf
<1>1. MaxId + 1 \in Nat /\ Max(S) < MaxId + 1
  BY <1>0, MaxIdAssumption
<1>2. Below(S, MaxId + 1) = S /\ PrevVal(S, MaxId + 1) = Max(S)
  BY <1>1, BelowAll
<1> QED
  BY <1>1, <1>2, GapsBelow

(* The order in which Finalize goes through its map gives every id an      *)
(* owner, one of those that have it.                                       *)
LEMMA OwnerHolds ==
    ASSUME NEW ids, NEW rank, \A b \in DOMAIN ids : rank[b] \in Nat,
           NEW x \in Starts(ids)
    PROVE  FirstHolder(ids, rank, x) \in DOMAIN ids /\ x \in ids[FirstHolder(ids, rank, x)]
<1> DEFINE R == {rank[b] : b \in {d \in DOMAIN ids : x \in ids[d]}}
<1>1. R \subseteq Nat /\ R # {}
  BY DEF Starts
<1>2. PICK r \in R : \A y \in R : r <= y
  BY <1>1, LeastNatural
<1>3. PICK b \in DOMAIN ids : x \in ids[b] /\ rank[b] = r
  BY <1>2
<1>4. \A d \in DOMAIN ids : x \in ids[d] => rank[b] <= rank[d]
  BY <1>2, <1>3
<1> QED
  BY <1>3, <1>4 DEF FirstHolder

(* PrevId is one of the ids. *)
LEMMA PrevIsId ==
    ASSUME NEW S, S \subseteq 0 .. MaxId, S # {}, NEW x \in Nat
    PROVE  PrevId(S, x) \in S
<1>1. CASE Below(S, x) = {}
  BY <1>1, MaxOf DEF PrevId
<1>2. CASE Below(S, x) # {}
  BY <1>2, PrevBelow
<1> QED
  BY <1>1, <1>2

(* The gaps of ids that have none in common add up. *)
LEMMA GapsAddUp ==
    ASSUME NEW S, S \subseteq 0 .. MaxId, NEW f \in [SUBSET S -> Nat],
           Additive(f, Gaps(S), S)
    PROVE  AddsUp(f, S)
<1> DEFINE G == Gaps(S)
<1>1. IsFiniteSet(S) /\ G \in [S -> Nat]
  BY PointsFinite, GapsNatural
<1> HIDE DEF G
<1>2. G \in [S -> Int] /\ f \in [SUBSET S -> Int] /\ Additive(f, G, S)
  BY <1>1 DEF G
<1> QED
  BY <1>1, <1>2, SumOfDisjoint

(* Finalize divides the whole ring: what it adds to the backends of a      *)
(* group, F being its sums over sets of backends, is MaxId together.       *)
THEOREM WholeRing ==
    ASSUME NEW ids, OnRing(ids), Starts(ids) # {}, IsFiniteSet(DOMAIN ids),
           NEW rank, \A b \in DOMAIN ids : rank[b] \in Nat,
           NEW h, h = [b \in DOMAIN ids |-> Gain(ids, rank, b)],
           NEW F \in [SUBSET DOMAIN ids -> Int], Additive(F, h, DOMAIN ids)
    PROVE  F[DOMAIN ids] = MaxId
<1> DEFINE S == Starts(ids)
           M == DOMAIN ids
           own(x) == FirstHolder(ids, rank, PrevId(S, x))
           last == FirstHolder(ids, rank, Max(S))
           Owned(m) == {x \in S : own(x) \in m}
           Rest(m) == IF last \in m THEN MaxId - Max(S) ELSE 0
<1>1. S \subseteq 0 .. MaxId /\ IsFiniteSet(S) /\ \A x \in S : x \in Nat
  BY StartsOnRing, PointsFinite
<1>2. PICK f \in [SUBSET S -> Nat] :
         Additive(f, Gaps(S), S) /\ \A T \in SUBSET S : GapSum(S, T) = f[T]
  BY <1>1, GapSums
<1>3. Gaps(S) \in [S -> Int] /\ f \in [SUBSET S -> Int]
  <2>1. Gaps(S) \in [S -> Nat]
    BY <1>1, GapsNatural
  <2> QED
    BY <2>1, <1>2
<1>4. Max(S) \in S /\ MaxId - Max(S) \in Nat /\ Max(S) \in Int /\ MaxId \in Int
  <2>1. Max(S) \in S /\ Max(S) \in 0 .. MaxId
    BY <1>1, MaxOf
  <2> QED
    BY <2>1, MaxIdAssumption
<1>5. \A x \in S : own(x) \in M
  BY <1>1, PrevIsId, OwnerHolds
<1>6. last \in M
  BY <1>4, OwnerHolds
<1>7. \A b \in M : h[b] = f[Owned({b})] + Rest({b})
  <2> SUFFICES ASSUME NEW b \in M PROVE h[b] = f[Owned({b})] + Rest({b})
    OBVIOUS
  <2>1. h[b] = GapSum(S, Shares(ids, rank, b)) + LastGap(ids, rank, b)
    BY DEF Gain, GapSum, Shares, LastGap
  <2>2. Shares(ids, rank, b) = Owned({b}) /\ Owned({b}) \in SUBSET S
    BY DEF Shares
  <2>3. LastGap(ids, rank, b) = Rest({b})
    BY DEF LastGap
  <2> QED
    BY <1>2, <2>1, <2>2, <2>3
<1> HIDE DEF S, M
<1>71. AddsUp(f, S)
  BY <1>1, <1>2, GapsAddUp
<1> DEFINE Split == {n \in Nat : \A m \in SUBSET M :
                        Cardinality(m) = n => F[m] = f[Owned(m)] + Rest(m)}
<1>8. \A m \in SUBSET M : IsFiniteSet(m) /\ Cardinality(m) \in Nat
  BY SubsetsFinite DEF M
<1>9. 0 \in Split
  <2>1. Owned({}) = {} /\ Rest({}) = 0
    OBVIOUS
  <2>2. F[{}] = 0 /\ f[{}] = 0
    BY <1>2 DEF Additive
  <2>3. \A m \in SUBSET M : Cardinality(m) = 0 => m = {}
    BY <1>8, FS_EmptySet
  <2> HIDE DEF Owned, Rest
  <2>4. F[{}] = f[Owned({})] + Rest({})
    <3>1. f[Owned({})] = 0
      BY <2>1, <2>2
    <3>2. 0 + 0 = 0
      OBVIOUS
    <3> QED
      BY <2>1, <2>2, <3>1, <3>2
  <2>5. \A m \in SUBSET M : Cardinality(m) = 0 => F[m] = f[Owned(m)] + Rest(m)
    BY <2>3, <2>4
  <2> QED
    BY <2>5
<1>10. ASSUME NEW n \in Nat, n \in Split PROVE n + 1 \in Split
  <2> SUFFICES ASSUME NEW m \in SUBSET M, Cardinality(m) = n + 1
               PROVE  F[m] = f[Owned(m)] + Rest(m)
    OBVIOUS
  <2>1. PICK b : b \in m
    BY <1>8, FS_EmptySet
  <2> DEFINE r == m \ {b}
  <2>2. r \in SUBSET M /\ Cardinality(r) = n
    BY <2>1, <1>8, TakeOne
  <2>3. F[r] = f[Owned(r)] + Rest(r)
    BY <1>10, <2>2
  <2>4. F[m] = h[b] + F[r]
    BY <2>1 DEF Additive, M
  <2>5. h[b] = f[Owned({b})] + Rest({b})
    BY <1>7, <2>1
  <2>6. /\ Owned({b}) \in SUBSET S /\ Owned(r) \in SUBSET S
        /\ Owned({b}) \cap Owned(r) = {} /\ Owned({b}) \cup Owned(r) = Owned(m)
    BY <2>1
  <2>7. f[Owned(m)] = f[Owned({b})] + f[Owned(r)]
    <3> HIDE DEF Owned, r
    <3> QED
      BY <2>6, <1>71 DEF AddsUp
  <2>8. Rest(m) = Rest({b}) + Rest(r) /\ Rest({b}) \in Int /\ Rest(r) \in Int
    BY <1>4, <2>1
  <2>9. f[Owned({b})] \in Int /\ f[Owned(r)] \in Int
    <3> HIDE DEF Owned, r
    <3> QED
      BY <2>6, <1>3
  <2> HIDE DEF Owned, r, Rest
  <2>10. F[m] = (f[Owned({b})] + Rest({b})) + (f[Owned(r)] + Rest(r))
    BY <2>3, <2>4, <2>5
  <2>11. f[Owned(m)] + Rest(m)
           = (f[Owned({b})] + f[Owned(r)]) + (Rest({b}) + Rest(r))
    BY <2>7, <2>8
  <2>12. (f[Owned({b})] + Rest({b})) + (f[Owned(r)] + Rest(r))
           = (f[Owned({b})] + f[Owned(r)]) + (Rest({b}) + Rest(r))
    <3> DEFINE x1 == f[Owned({b})]
               x2 == f[Owned(r)]
               y1 == Rest({b})
               y2 == Rest(r)
    <3>1. x1 \in Int /\ x2 \in Int /\ y1 \in Int /\ y2 \in Int
      BY <2>8, <2>9
    <3> HIDE DEF x1, x2, y1, y2
    <3>2. (x1 + y1) + (x2 + y2) = (x1 + x2) + (y1 + y2)
      BY <3>1
    <3> QED
      BY <3>2 DEF x1, x2, y1, y2
  <2> QED
    BY <2>10, <2>11, <2>12, Zenon
<1>11. \A n \in Nat : n \in Split
  <2> HIDE DEF Split
  <2> QED
    BY <1>9, <1>10, SetInduction
<1>12. F[M] = f[Owned(M)] + Rest(M)
  <2> HIDE DEF Owned, Rest
  <2>1. Cardinality(M) \in Split
    BY <1>8, <1>11
  <2> QED
    BY <2>1
<1>13. Owned(M) = S /\ Rest(M) = MaxId - Max(S)
  BY <1>5, <1>6
<1>14. f[S] = Max(S)
  BY <1>1, <1>2, <1>3, <1>4, AllGaps
<1>15. F[M] = Max(S) + (MaxId - Max(S))
  BY <1>12, <1>13, <1>14
<1> QED
  BY <1>4, <1>15 DEF M

---------------------------------------------------------------------------
(* The share of a backend is what it owns *)

(* What Finalize gives the backends of a ring, and that added up. *)
Gains(ids, rank) == [b \in DOMAIN ids |-> Gain(ids, rank, b)]

(* The gains of the backends add up to the ring. *)
LEMMA RingGivenOut ==
    ASSUME NEW ids, OnRing(ids), Starts(ids) # {}, IsFiniteSet(DOMAIN ids),
           NEW rank, \A b \in DOMAIN ids : rank[b] \in Nat
    PROVE  \E F \in [SUBSET DOMAIN ids -> Nat] :
              /\ SumsOf(F, Gains(ids, rank), DOMAIN ids)
              /\ Additive(F, Gains(ids, rank), DOMAIN ids)
              /\ F[DOMAIN ids] = MaxId
<1> DEFINE h == Gains(ids, rank)
           M == DOMAIN ids
<1>1. h \in [M -> Nat] /\ h \in [M -> Int]
  BY GainNatural DEF Gains
<1>2. h = [b \in DOMAIN ids |-> Gain(ids, rank, b)]
  BY DEF Gains
<1> HIDE DEF h
<1>3. PICK F \in [SUBSET M -> Int] : SumsOf(F, h, M)
  BY <1>1, SumsExist
<1>4. Additive(F, h, M)
  BY <1>1, <1>3, SumsAdditive
<1>5. F \in [SUBSET M -> Nat]
  BY <1>1, <1>4, SumOfNaturals
<1>6. F[M] = MaxId
  BY <1>2, <1>4, WholeRing
<1> QED
  BY <1>3, <1>4, <1>5, <1>6 DEF h

(* No backend gets more than there is. *)
LEMMA NoMoreThanRing ==
    ASSUME NEW ids, OnRing(ids), Starts(ids) # {}, IsFiniteSet(DOMAIN ids),
           NEW rank, \A b \in DOMAIN ids : rank[b] \in Nat,
           NEW b \in DOMAIN ids
    PROVE  Gain(ids, rank, b) \in 0 .. MaxId
<1> DEFINE h == Gains(ids, rank)
           M == DOMAIN ids
<1>1. h[b] = Gain(ids, rank, b)
  BY DEF Gains
<1> HIDE DEF h
<1>2. PICK F \in [SUBSET M -> Nat] : Additive(F, h, M) /\ F[M] = MaxId
  BY RingGivenOut DEF h
<1>3. F[M] = h[b] + F[M \ {b}] /\ F[M \ {b}] \in Nat
  BY <1>2 DEF Additive
<1>4. Gain(ids, rank, b) \in Nat
  BY GainNatural
<1> QED
  BY <1>1, <1>2, <1>3, <1>4, MaxIdAssumption

(* The point before n belongs to the id before n. *)
LEMMA StartOfPoint ==
    ASSUME NEW S, S \subseteq 0 .. MaxId, NEW n \in Nat
    PROVE  StartOf(S, n) = PrevId(S, n + 1)
<1>1. \A x \in S : x <= n <=> x < n + 1
  <2>1. \A x \in S : x \in Nat
    OBVIOUS
  <2> QED
    BY <2>1
<1>2. {x \in S : x <= n} = Below(S, n + 1)
  BY <1>1 DEF Below
<1> QED
  BY <1>2 DEF StartOf, PrevId

(* Finalize adds to a backend the number of the points that belong to its  *)
(* ids, those of another backend that came before it left out.             *)
THEOREM ShareIsArc ==
    ASSUME NEW ids, OnRing(ids), Starts(ids) # {},
           NEW rank, \A b \in DOMAIN ids : rank[b] \in Nat,
           NEW b \in DOMAIN ids
    PROVE  Gain(ids, rank, b) = Cardinality(Arc(ids, rank, b))
<1> DEFINE S == Starts(ids)
           mine(x) == FirstHolder(ids, rank, x) = b
           C(n) == {x \in Below(S, n) : mine(PrevId(S, x))}
           R(n) == IF mine(PrevId(S, n)) THEN n - PrevVal(S, n) ELSE 0
           A(n) == {p \in 0 .. n - 1 : mine(StartOf(S, p))}
<1>1. S \subseteq 0 .. MaxId /\ \A x \in S : x \in Nat
  BY StartsOnRing
<1>2. PICK f \in [SUBSET S -> Nat] :
         Additive(f, Gaps(S), S) /\ \A T \in SUBSET S : GapSum(S, T) = f[T]
  BY <1>1, GapSums
<1>4. \A x \in Nat : PrevId(S, x) \in S
  BY <1>1, PrevIsId
<1>5. Max(S) \in S /\ Max(S) \in 0 .. MaxId
  BY <1>1, MaxOf
<1>6. Gain(ids, rank, b) = f[{x \in S : mine(PrevId(S, x))}]
                             + (IF mine(Max(S)) THEN MaxId - Max(S) ELSE 0)
  <2>1. Gain(ids, rank, b) = GapSum(S, Shares(ids, rank, b)) + LastGap(ids, rank, b)
    BY DEF Gain, GapSum, Shares, LastGap
  <2>2. Shares(ids, rank, b) = {x \in S : mine(PrevId(S, x))}
    BY DEF Shares
  <2>3. LastGap(ids, rank, b) = IF mine(Max(S)) THEN MaxId - Max(S) ELSE 0
    BY DEF LastGap
  <2>4. Shares(ids, rank, b) \in SUBSET S
    BY DEF Shares
  <2> QED
    BY <1>2, <2>1, <2>2, <2>3, <2>4
<1>7. Arc(ids, rank, b) = A(MaxId)
  BY DEF Arc
<1> HIDE DEF S
<1>8. \A n \in Nat : C(n) \in SUBSET S /\ f[C(n)] \in Nat /\ R(n) \in Nat
  <2> SUFFICES ASSUME NEW n \in Nat
               PROVE  C(n) \in SUBSET S /\ f[C(n)] \in Nat /\ R(n) \in Nat
    OBVIOUS
  <2>1. C(n) \in SUBSET S
    BY DEF Below
  <2>2. PrevVal(S, n) \in 0 .. n
    BY <1>1, PrevBelow
  <2> QED
    BY <1>2, <2>1, <2>2
<1>9. ASSUME NEW n \in Nat, n \in S
      PROVE  f[C(n + 1)] = f[C(n)] + R(n)
  <2>1. /\ Below(S, n + 1) \ {n} = Below(S, n) /\ n \in Below(S, n + 1)
    BY <1>1, <1>9, BelowNext
  <2>2. CASE mine(PrevId(S, n))
    <3>1. C(n + 1) \ {n} = C(n) /\ n \in C(n + 1)
      BY <2>1, <2>2
    <3>2. f[C(n + 1)] = Gaps(S)[n] + f[C(n)]
      <4>1. C(n + 1) \in SUBSET S
        BY <1>8, n + 1 \in Nat
      <4> HIDE DEF C
      <4> QED
        BY <3>1, <4>1, <1>2 DEF Additive
    <3>3. Gaps(S)[n] = R(n)
      BY <1>9, <2>2 DEF Gaps
    <3> HIDE DEF C, R
    <3> QED
      BY <3>2, <3>3, <1>8
  <2>3. CASE ~mine(PrevId(S, n))
    <3>1. C(n + 1) = C(n) /\ R(n) = 0
      BY <2>1, <2>3
    <3> HIDE DEF C, R
    <3> QED
      BY <3>1, <1>8
  <2> QED
    BY <2>2, <2>3
<1> DEFINE Counted == {n \in Nat : /\ IsFiniteSet(A(n))
                                   /\ Cardinality(A(n)) = f[C(n)] + R(n)}
<1>10. 0 \in Counted
  <2>1. A(0) = {}
    OBVIOUS
  <2>2. Below(S, 0) = {}
    <3>1. \A y \in S : ~(y < 0)
      BY <1>1
    <3> QED
      BY <3>1 DEF Below
  <2>3. C(0) = {} /\ f[{}] = 0 /\ R(0) = 0
    BY <2>2, <1>2 DEF Additive, PrevVal
  <2> HIDE DEF A, C, R
  <2>4. f[C(0)] + R(0) = 0
    <3>1. f[C(0)] = 0 /\ R(0) = 0
      BY <2>3
    <3> QED
      BY <3>1
  <2> QED
    BY <2>1, <2>4, FS_EmptySet
<1>11. ASSUME NEW n \in Nat, n \in Counted PROVE n + 1 \in Counted
  <2>1. StartOf(S, n) = PrevId(S, n + 1)
    BY <1>1, StartOfPoint
  <2>2. /\ IsFiniteSet(A(n)) /\ Cardinality(A(n)) = f[C(n)] + R(n)
        /\ n \notin A(n)
    BY <1>11
  <2>3. /\ IsFiniteSet(A(n + 1))
        /\ Cardinality(A(n + 1)) = Cardinality(A(n))
                + (IF mine(PrevId(S, n + 1)) THEN 1 ELSE 0)
    <3>0. \A p : p \in 0 .. (n + 1) - 1 <=> p \in 0 .. n - 1 \/ p = n
      OBVIOUS
    <3>1. CASE mine(PrevId(S, n + 1))
      <4>1. A(n + 1) = A(n) \cup {n}
        BY <3>0, <3>1, <2>1
      <4> HIDE DEF A
      <4> QED
        BY <2>2, <3>1, <4>1, FS_AddElement
    <3>2. CASE ~mine(PrevId(S, n + 1))
      <4>1. A(n + 1) = A(n)
        BY <3>0, <3>2, <2>1
      <4>2. Cardinality(A(n)) = Cardinality(A(n)) + 0
        BY <2>2, FS_CardinalityType
      <4> HIDE DEF A
      <4> QED
        BY <2>2, <3>2, <4>1, <4>2
    <3> QED
      BY <3>1, <3>2
  <2>4. f[C(n + 1)] + R(n + 1)
           = (f[C(n)] + R(n)) + (IF mine(PrevId(S, n + 1)) THEN 1 ELSE 0)
    <3>1. CASE n \in S
      <4>1. f[C(n + 1)] = f[C(n)] + R(n)
        BY <1>9, <3>1
      <4>2. R(n + 1) = IF mine(PrevId(S, n + 1)) THEN 1 ELSE 0
        <5>1. PrevVal(S, n + 1) = n
          BY <1>1, <3>1, BelowNext
        <5>2. (n + 1) - n = 1
          OBVIOUS
        <5> QED
          BY <5>1, <5>2
      <4> HIDE DEF C, R
      <4> QED
        BY <4>1, <4>2
    <3>2. CASE n \notin S
      <4>1. /\ Below(S, n + 1) = Below(S, n)
            /\ PrevVal(S, n + 1) = PrevVal(S, n)
            /\ PrevId(S, n + 1) = PrevId(S, n)
        BY <1>1, <3>2, BelowNext
      <4>2. C(n + 1) = C(n)
        BY <4>1
      <4>3. PrevVal(S, n) \in 0 .. n
        BY <1>1, PrevBelow
      <4>4. R(n + 1) = R(n) + (IF mine(PrevId(S, n + 1)) THEN 1 ELSE 0)
        BY <4>1, <4>3
      <4>5. f[C(n)] \in Nat /\ R(n) \in Nat
        BY <1>8
      <4> HIDE DEF C, R
      <4>6. \A i, j, k \in Int : i + (j + k) = (i + j) + k
        OBVIOUS
      <4>7. (IF mine(PrevId(S, n + 1)) THEN 1 ELSE 0) \in Int
        OBVIOUS
      <4> QED
        BY <4>2, <4>4, <4>5, <4>6, <4>7
    <3> QED
      BY <3>1, <3>2
  <2> HIDE DEF A, C, R
  <2> QED
    BY <2>2, <2>3, <2>4
<1>12. Cardinality(A(MaxId)) = f[C(MaxId)] + R(MaxId)
  <2> HIDE DEF Counted
  <2>1. MaxId \in Counted
    BY <1>10, <1>11, SetInduction, MaxIdAssumption
  <2> QED
    BY <2>1 DEF Counted
<1>13. f[C(MaxId)] + R(MaxId) = f[{x \in S : mine(PrevId(S, x))}]
                             + (IF mine(Max(S)) THEN MaxId - Max(S) ELSE 0)
  <2>0. MaxId \in Nat /\ MaxId + 1 \in Nat
    BY MaxIdAssumption
  <2>1. CASE Max(S) < MaxId
    <3>1. /\ Below(S, MaxId) = S /\ PrevVal(S, MaxId) = Max(S)
          /\ PrevId(S, MaxId) = Max(S)
      BY <1>1, <1>5, <2>0, <2>1, BelowAll
    <3> QED
      BY <3>1
  <2>2. CASE ~(Max(S) < MaxId)
    <3>1. Max(S) = MaxId /\ MaxId \in S
      BY <1>5, <2>0, <2>2
    <3>2. f[C(MaxId + 1)] = f[C(MaxId)] + R(MaxId)
      BY <1>9, <2>0, <3>1
    <3>3. Below(S, MaxId + 1) = S
      <4>1. Max(S) < MaxId + 1
        BY <2>0, <3>1
      <4> QED
        BY <1>1, <1>5, <2>0, <4>1, BelowAll
    <3>4. C(MaxId + 1) = {x \in S : mine(PrevId(S, x))}
      BY <3>3
    <3>5. (IF mine(Max(S)) THEN MaxId - Max(S) ELSE 0) = 0
      BY <3>1, <2>0
    <3>6. f[C(MaxId + 1)] \in Nat
      BY <1>8, <2>0
    <3> HIDE DEF C, R
    <3>7. f[C(MaxId)] + R(MaxId) = f[C(MaxId + 1)] + 0
      BY <3>2, <3>6
    <3> QED
      BY <3>4, <3>5, <3>7
  <2> QED
    BY <2>1, <2>2
<1> QED
  BY <1>6, <1>7, <1>12, <1>13

=============================================================================
