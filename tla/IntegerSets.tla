---------------------------- MODULE IntegerSets ----------------------------
(* Facts about integers and sets of them that the proof modules share.     *)
EXTENDS Integers, WellFoundedInduction, TLAPS

(* A set of integers that is bounded above has a greatest element.         *)
LEMMA Greatest ==
  ASSUME NEW S \in SUBSET Int, NEW b \in Int, S # {}, \A x \in S : x <= b
  PROVE  \E x \in S : \A y \in S : y <= x
<1> DEFINE T == {b - x : x \in S}
<1>1. T \subseteq Nat /\ T # {}
  <2>1. \A x \in S : b - x \in Nat
    BY SMT
  <2>2. T \subseteq Nat
    BY <2>1
  <2>3. PICK x \in S : TRUE
    OBVIOUS
  <2>4. b - x \in T
    OBVIOUS
  <2> QED
    BY <2>2, <2>4
<1>2. PICK t \in T : \A u \in T : <<u, t>> \notin OpToRel(<, Nat)
  BY <1>1, NatLessThanWellFounded, WFMin
<1>3. \A u \in T : ~(u < t)
  BY <1>1, <1>2 DEF OpToRel
<1>4. PICK x \in S : t = b - x
  OBVIOUS
<1>5. ASSUME NEW y \in S PROVE y <= x
  <2>1. b - y \in T
    OBVIOUS
  <2>2. ~(b - y < b - x)
    BY <1>3, <1>4, <2>1
  <2> QED
    BY <2>2, SMT
<1> QED
  BY <1>5

(* And one that is bounded below has a least.                              *)
LEMMA Least ==
  ASSUME NEW S \in SUBSET Int, NEW b \in Int, S # {}, \A x \in S : b <= x
  PROVE  \E x \in S : \A y \in S : x <= y
<1> DEFINE T == {-x : x \in S}
<1>1. T \in SUBSET Int /\ T # {} /\ -b \in Int
  <2>1. PICK x \in S : TRUE
    OBVIOUS
  <2>2. -x \in T
    OBVIOUS
  <2>3. \A y \in S : -y \in Int
    OBVIOUS
  <2> QED
    BY <2>2, <2>3
<1>2. \A x \in T : x <= -b
  OBVIOUS
<1>3. PICK t \in T : \A u \in T : u <= t
  <2> HIDE DEF T
  <2> QED
    BY <1>1, <1>2, Greatest
<1>4. PICK x \in S : t = -x
  OBVIOUS
<1>5. ASSUME NEW y \in S PROVE x <= y
  <2>1. -y \in T
    OBVIOUS
  <2>2. -y <= -x
    BY <1>3, <1>4, <2>1
  <2> QED
    BY <2>2
<1> QED
  BY <1>5
-----------------------------------------------------------------------------
(***************************************************************************)
(* Induction, stated of sets: a definition by recursion on a sequence or a *)
(* string is unfolded with it.                                             *)
(***************************************************************************)

(* A set that holds 0, and with a number the next, holds every number.     *)
LEMMA Induction ==
  ASSUME NEW S, 0 \in S, \A n \in Nat : n \in S => n + 1 \in S
  PROVE  \A n \in Nat : n \in S
<1> DEFINE T == {n \in Nat : n \notin S}
<1>1. SUFFICES ASSUME T # {} PROVE FALSE
  OBVIOUS
<1>2. PICK t \in T : \A u \in T : <<u, t>> \notin OpToRel(<, Nat)
  <2>1. T \subseteq Nat
    OBVIOUS
  <2> QED
    BY <1>1, <2>1, NatLessThanWellFounded, WFMin
<1>3. \A u \in T : ~(u < t)
  BY <1>2 DEF OpToRel
<1>4. t \in Nat /\ t # 0
  OBVIOUS
<1>5. t - 1 \in Nat /\ t - 1 < t /\ (t - 1) + 1 = t
  BY <1>4
<1>6. t - 1 \in S
  BY <1>3, <1>5
<1>7. t \in S
  BY <1>5, <1>6
<1> QED
  BY <1>7

-----------------------------------------------------------------------------
(***************************************************************************)
(* Products and quotients                                                  *)
(***************************************************************************)

(* One more tick or one more run adds one step to a product.               *)
LEMMA OneMore ==
  ASSUME NEW n \in Int, NEW k \in Int
  PROVE  (n + 1) * k = n * k + k /\ (n - 1) * k = n * k - k /\ n * k \in Int
  BY SMT

(* Exact division.                                                         *)
LEMMA Quotient ==
  ASSUME NEW a \in Nat \ {0}, NEW g \in Nat \ {0}, a % g = 0
  PROVE  a \div g \in Nat \ {0} /\ a = g * (a \div g)
<1>1. a = g * (a \div g) + (a % g) /\ a \div g \in Int
  BY SMT
<1>2. a = g * (a \div g)
  BY <1>1, SMT
<1>3. a \div g > 0
  BY <1>1, <1>2, SMT
<1> QED
  BY <1>1, <1>2, <1>3, SMT

(* A quotient is told by a remainder in range.                             *)
LEMMA QuotientIs ==
  ASSUME NEW q \in Int, NEW k \in Nat \ {0}, NEW r \in 0 .. k - 1
  PROVE  (q * k + r) \div k = q
  BY Z3

(* Two positive integers have a greatest common divisor.                   *)
LEMMA CommonDivisor ==
  ASSUME NEW a \in Nat \ {0}, NEW b \in Nat \ {0},
         NEW S, S = {g \in 1 .. a : a % g = 0 /\ b % g = 0}
  PROVE  \E g \in S : \A h \in S : h <= g
<1>1. S \in SUBSET Int /\ \A g \in S : g <= a
  OBVIOUS
<1>2. 1 \in S
  <2>1. a % 1 = 0 /\ b % 1 = 0 /\ 1 \in 1 .. a
    BY SMT
  <2> QED
    BY <2>1
<1>3. S # {} /\ a \in Int
  BY <1>2
<1> QED
  BY <1>1, <1>3, Greatest

(* Dividing both by a common divisor keeps the order.                      *)
LEMMA QuotientsInOrder ==
  ASSUME NEW a \in Nat \ {0}, NEW b \in Nat \ {0}, NEW g \in Nat \ {0},
         a % g = 0, b % g = 0, a < b
  PROVE  a \div g < b \div g
<1> DEFINE q == a \div g
           r == b \div g
<1>1. q \in Nat /\ a = g * q
  BY Quotient
<1>2. r \in Nat /\ b = g * r
  BY Quotient
<1> HIDE DEF q, r
<1>3. ASSUME r <= q PROVE FALSE
  <2>1. g * r <= g * q
    BY <1>1, <1>2, <1>3
  <2> QED
    BY <1>1, <1>2, <2>1
<1>4. q < r
  BY <1>1, <1>2, <1>3
<1> QED
  BY <1>4 DEF q, r
=============================================================================
