---------------------------- MODULE SetInduction ----------------------------
(***************************************************************************)
(* Induction over the natural numbers, stated with a set of numbers in the *)
(* place of a predicate, so that a proof can apply it to any set it        *)
(* defines.                                                                *)
(***************************************************************************)
EXTENDS Integers, WellFoundedInduction, TLAPS

Less == {e \in Nat \X Nat : e[1] < e[2]}

(* The order of the natural numbers is well founded. *)
LEMMA LessWellFounded == IsWellFoundedOn(Less, Nat)
BY NatLessThanWellFounded DEF OpToRel, Less

(* Every set of natural numbers that is not empty has a least element. *)
LEMMA LeastNatural ==
    ASSUME NEW T, T \subseteq Nat, T # {}
    PROVE  \E x \in T : \A y \in T : x <= y
<1>1. PICK x \in T : \A y \in T : ~(<<y, x>> \in Less)
  BY LessWellFounded, WFMin
<1>2. \A y \in T : ~(y < x)
  BY <1>1 DEF Less
<1> QED
  BY <1>2

(* A set of natural numbers that has 0, and with each number the next, has *)
(* them all.                                                               *)
LEMMA SetInduction ==
    ASSUME NEW S, 0 \in S, \A n \in Nat : n \in S => n + 1 \in S
    PROVE  \A n \in Nat : n \in S
<1> SUFFICES ASSUME Nat \ S # {} PROVE FALSE
  OBVIOUS
<1>1. PICK x \in Nat \ S : \A y \in Nat \ S : x <= y
  BY LeastNatural, Nat \ S \subseteq Nat
<1>2. x - 1 \in Nat
  BY <1>1
<1>3. x - 1 \in S
  BY <1>1, <1>2
<1> QED
  BY <1>1, <1>2, <1>3

(* A set of natural numbers with an upper bound has a greatest element. *)
LEMMA GreatestNatural ==
    ASSUME NEW T, T \subseteq Nat, T # {}, NEW m \in Nat, \A y \in T : y <= m
    PROVE  \E x \in T : \A y \in T : x >= y
<1> DEFINE D == {d \in Nat : m - d \in T}
<1>1. PICK z : z \in T
  OBVIOUS
<1>2. m - z \in D
  BY <1>1
<1>3. PICK d \in D : \A e \in D : d <= e
  BY <1>2, LeastNatural, D \subseteq Nat
<1>4. ASSUME NEW y \in T PROVE m - d >= y
  <2>1. m - y \in D
    OBVIOUS
  <2> QED
    BY <2>1, <1>3
<1> QED
  BY <1>3, <1>4

=============================================================================
