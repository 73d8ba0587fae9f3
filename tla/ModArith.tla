----------------------------- MODULE ModArith -----------------------------
(* Arithmetic of remainders, for sequence numbers (TcpSess) and ring        *)
(* pointers (FireReport) of any size; and the least element that inductions *)
(* of the other modules rest on.                                            *)
EXTENDS Integers, WellFoundedInduction, TLAPS

\* Quotient and remainder of the Euclidean division.
LEMMA DivMod ==
    ASSUME NEW a \in Int, NEW m \in Nat \ {0}
    PROVE  /\ a \div m \in Int
           /\ a % m \in 0..(m - 1)
           /\ a = m * (a \div m) + (a % m)
OBVIOUS

\* A remainder does not exceed the number.
LEMMA ModBelow ==
    ASSUME NEW a \in Nat, NEW m \in Nat \ {0}
    PROVE  a % m <= a
OBVIOUS

\* Multiples of m are at least m apart.
LEMMA MulLess ==
    ASSUME NEW p \in Int, NEW q \in Int, NEW m \in Nat \ {0}, p < q
    PROVE  m * p \in Int /\ m * q \in Int /\ m * p + m <= m * q
OBVIOUS

\* The remainder is determined by any decomposition a = m * q + r.
LEMMA ModUnique ==
    ASSUME NEW q \in Int, NEW m \in Nat \ {0}, NEW r \in 0..(m - 1)
    PROVE  (m * q + r) % m = r
<1> DEFINE a == m * q + r
           p == a \div m
<1>1. a \in Int /\ p \in Int /\ a % m \in 0..(m - 1) /\ a = m * p + (a % m)
  BY DivMod
<1>2. m * p \in Int /\ m * q \in Int
  BY <1>1
<1> HIDE DEF p
<1>3. ~(p < q)
  BY <1>1, <1>2, MulLess
<1>4. ~(q < p)
  BY <1>1, <1>2, MulLess
<1>5. p = q
  BY <1>1, <1>3, <1>4
<1> QED
  BY <1>1, <1>2, <1>5

\* Two indexes less than the size apart have different slots.
LEMMA ModApart ==
    ASSUME NEW m \in Nat \ {0}, NEW a \in Nat, NEW b \in Nat,
           a < b, b - a < m
    PROVE  a % m # b % m
<1> DEFINE p == a \div m
           q == b \div m
<1>1. p \in Int /\ a % m \in 0..(m - 1) /\ a = m * p + (a % m)
  BY DivMod
<1>2. q \in Int /\ b % m \in 0..(m - 1) /\ b = m * q + (b % m)
  BY DivMod
<1> HIDE DEF p, q
<1> SUFFICES ASSUME a % m = b % m PROVE FALSE
  OBVIOUS
<1>3. m * p \in Int /\ m * q \in Int
  BY <1>1, <1>2
<1>4. CASE p < q
  BY <1>1, <1>2, <1>3, <1>4, MulLess
<1>5. CASE q < p
  BY <1>1, <1>2, <1>3, <1>5, MulLess
<1>6. CASE p = q
  BY <1>1, <1>2, <1>6
<1> QED
  BY <1>1, <1>2, <1>4, <1>5, <1>6

\* A nonempty set of natural numbers has a least element.
LEMMA LeastNat ==
    ASSUME NEW T, T \subseteq Nat, T # {}
    PROVE  \E x \in T : \A y \in T : x <= y
<1> DEFINE R == OpToRel(<, Nat)
<1>1. IsWellFoundedOn(R, Nat)
  BY NatLessThanWellFounded
<1>2. \A x, y \in Nat : x < y => <<x, y>> \in R
  BY DEF OpToRel
<1> HIDE DEF R
<1>3. \E x \in T : \A y \in T : ~(<<y, x>> \in R)
  BY <1>1, WFMin
<1>4. PICK x \in T : \A y \in T : ~(<<y, x>> \in R)
  BY <1>3
<1>5. \A y \in T : ~(y < x)
  BY <1>2, <1>4
<1>6. \A y \in T : x <= y
  BY <1>5
<1> QED
  BY <1>6
============================================================================
