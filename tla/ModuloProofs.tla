---------------------------- MODULE ModuloProofs ----------------------------
(* Remainders by a number that is not known, as the index of a ring buffer *)
(* needs them: its counters are reduced modulo one number (the values of   *)
(* an unsigned) and its index modulo another (the packets it has).         *)
EXTENDS Integers, TLAPS

(* What % and \div mean.                                                   *)
LEMMA DivMod ==
  ASSUME NEW m \in Nat \ {0}, NEW a \in Int
  PROVE  /\ a % m \in 0 .. m - 1
         /\ a \div m \in Int
         /\ a = m * (a \div m) + (a % m)
OBVIOUS

(* No multiple of m but 0 lies between -m and m.                           *)
LEMMA NoMultipleBetween ==
  ASSUME NEW m \in Nat \ {0}, NEW n \in Int, - m < m * n, m * n < m
  PROVE  n = 0
<1>1. CASE n >= 1
  <2>1. m * n >= m  BY <1>1
  <2> QED  BY <2>1
<1>2. CASE n <= -1
  <2>1. m * n <= -m  BY <1>2
  <2> QED  BY <2>1
<1> QED  BY <1>1, <1>2

(* Numbers less than m apart are equal if they leave the same remainder.   *)
LEMMA SameRest ==
  ASSUME NEW m \in Nat \ {0}, NEW a \in Int, NEW b \in Int,
         a % m = b % m, - m < a - b, a - b < m
  PROVE  a = b
<1> DEFINE n == a \div m - b \div m
<1>1. /\ a = m * (a \div m) + (a % m) /\ b = m * (b \div m) + (b % m)
      /\ a \div m \in Int /\ b \div m \in Int /\ a % m \in Int
  BY DivMod
<1>2. n \in Int /\ a - b = m * n
  BY <1>1
<1>3. n = 0
  <2> HIDE DEF n
  <2> QED  BY <1>2, NoMultipleBetween
<1> QED  BY <1>2, <1>3

(* The remainder is the only number below m that completes a multiple.     *)
LEMMA RestUnique ==
  ASSUME NEW m \in Nat \ {0}, NEW q \in Int, NEW r \in 0 .. m - 1
  PROVE  (m * q + r) % m = r
<1> DEFINE a == m * q + r
           n == q - a \div m
<1>1. a \in Int
  OBVIOUS
<1>2. a = m * (a \div m) + (a % m) /\ a \div m \in Int /\ a % m \in 0 .. m - 1
  <2> HIDE DEF a
  <2> QED  BY <1>1, DivMod
<1>3. n \in Int /\ m * n = (a % m) - r
  BY <1>2
<1>4. n = 0
  <2>1. (a % m) - r < m /\ - m < (a % m) - r  BY <1>2
  <2> HIDE DEF n, a
  <2> QED  BY <1>3, <2>1, NoMultipleBetween
<1> QED  BY <1>2, <1>3, <1>4

(* A multiple of m does not change the remainder.                          *)
LEMMA RestOfShift ==
  ASSUME NEW m \in Nat \ {0}, NEW k \in Int, NEW c \in Int
  PROVE  (m * k + c) % m = c % m
<1> DEFINE q == c \div m
           r == c % m
<1>1. c = m * q + r /\ q \in Int /\ r \in 0 .. m - 1
  BY DivMod
<1> HIDE DEF q, r
<1>2. m * k + c = m * (k + q) + r
  BY <1>1
<1>3. (m * (k + q) + r) % m = r
  BY <1>1, RestUnique
<1> QED  BY <1>2, <1>3 DEF r

(* Reducing by a multiple of m first makes no difference.                  *)
LEMMA RestOfSum ==
  ASSUME NEW m \in Nat \ {0}, NEW u \in Nat \ {0}, u % m = 0,
         NEW a \in Int, NEW j \in Int
  PROVE  ((a % u) + j) % m = (a + j) % m
<1> DEFINE q == u \div m
           p == a \div u
           b == a % u
<1>1. u = m * q /\ q \in Int
  BY DivMod
<1>2. a = u * p + b /\ p \in Int /\ b \in Int
  BY DivMod
<1> HIDE DEF q, p, b
<1>3. (m * q) * p = m * (q * p) /\ q * p \in Int
  BY <1>1, <1>2
<1>4. a + j = m * (q * p) + (b + j)
  BY <1>1, <1>2, <1>3
<1>5. (m * (q * p) + (b + j)) % m = (b + j) % m
  <2> DEFINE k == q * p
             c == b + j
  <2>1. k \in Int /\ c \in Int
    BY <1>2, <1>3
  <2> HIDE DEF k, c
  <2>2. (m * k + c) % m = c % m
    BY <2>1, RestOfShift
  <2> QED  BY <2>2 DEF k, c
<1> QED  BY <1>4, <1>5 DEF b
=============================================================================
