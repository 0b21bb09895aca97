----------------------------- MODULE Remainders -----------------------------
(***************************************************************************)
(* Facts about division with remainder, for the sequence numbers that wrap *)
(* and the indices that are taken modulo the size of a ring.               *)
(***************************************************************************)
EXTENDS Integers, TLAPS

LEMMA Divided ==
  ASSUME NEW c \in Nat \ {0}, NEW a \in Int
  PROVE  /\ a = c * (a \div c) + (a % c)
         /\ a \div c \in Int /\ a % c \in 0 .. c - 1
         /\ a >= 0 => a \div c \in Nat
  BY Z3

\* Different multiples of c are at least c apart.
LEMMA Multiples ==
  ASSUME NEW c \in Nat \ {0}, NEW p \in Int, NEW q \in Int, p < q
  PROVE  c * p + c <= c * q
<1>1. q - p - 1 \in Nat
  OBVIOUS
<1>2. c * (q - p - 1) \in Nat
  BY <1>1, Z3
<1>3. c * q = c * p + c + c * (q - p - 1)
  BY Z3
<1>4. c * p \in Int
  BY Z3
<1> QED
  BY <1>2, <1>3, <1>4

\* Quotient and remainder are unique.
LEMMA Remainder ==
  ASSUME NEW c \in Nat \ {0}, NEW p \in Int, NEW q \in Int,
         NEW r \in 0 .. c - 1, NEW t \in 0 .. c - 1, c * p + r = c * q + t
  PROVE  p = q /\ r = t
<1>1. c * p \in Int /\ c * q \in Int
  BY Z3
<1>2. ~(p < q)
  BY <1>1, Multiples
<1>3. ~(q < p)
  BY <1>1, Multiples
<1>4. p = q
  BY <1>2, <1>3
<1> QED
  BY <1>1, <1>4

\* A number is its remainder up to a multiple, and only one remainder is.
LEMMA RemainderIs ==
  ASSUME NEW c \in Nat \ {0}, NEW a \in Int, NEW k \in Int, NEW r \in 0 .. c - 1,
         a = c * k + r
  PROVE  a % c = r
<1> DEFINE q == a \div c
           t == a % c
<1>1. a = c * q + t /\ q \in Int /\ t \in 0 .. c - 1
  BY Zenon, Divided
<1> HIDE DEF q, t
<1>2. c * k + r = c * q + t
  BY <1>1
<1>3. r = t
  BY ZenonT(30), <1>1, <1>2, Remainder
<1> QED
  BY <1>3 DEF t

\* Numbers less than c apart with the same remainder are the same.
LEMMA SameRemainder ==
  ASSUME NEW c \in Nat \ {0}, NEW a \in Int, NEW b \in Int, a % c = b % c,
         a - b < c, b - a < c
  PROVE  a = b
<1> DEFINE p == a \div c
           q == b \div c
           r == a % c
<1>1. /\ a = c * p + r /\ b = c * q + r /\ p \in Int /\ q \in Int /\ r \in 0 .. c - 1
  BY Zenon, Divided
<1> HIDE DEF p, q, r
<1>2. c * p \in Int /\ c * q \in Int
  BY <1>1, Z3
<1>3. ~(p < q) /\ ~(q < p)
  BY <1>1, <1>2, Multiples
<1>4. p = q
  BY <1>1, <1>3
<1> QED
  BY <1>1, <1>4

\* The remainder of a sum is that of the remainder's sum.
LEMMA RemainderOfSum ==
  ASSUME NEW c \in Nat \ {0}, NEW a \in Int, NEW d \in Int
  PROVE  ((a % c) + d) % c = (a + d) % c
<1> DEFINE r == a % c
           p == a \div c
           b == r + d
           t == b % c
           q == b \div c
           w == p + q
<1>1. a = c * p + r /\ p \in Int /\ r \in 0 .. c - 1
  BY Zenon, Divided
<1>2. b \in Int /\ b = r + d /\ a + d \in Int
  BY <1>1
<1>3. b = c * q + t /\ q \in Int /\ t \in 0 .. c - 1
  BY Zenon, <1>2, Divided
<1>4. (a + d) % c = t
  <2> HIDE DEF r, p, b, t, q
  <2>1. c * w = c * p + c * q /\ c * p \in Int /\ c * q \in Int /\ w \in Int
    BY <1>1, <1>3, Z3
  <2> HIDE DEF w
  <2>2. a + d = c * w + t
    BY <1>1, <1>2, <1>3, <2>1
  <2> QED
    BY Zenon, <1>2, <1>3, <2>1, <2>2, RemainderIs
<1> QED
  BY <1>4

\* Adding a multiple leaves the remainder as it is.
LEMMA RemainderOfShift ==
  ASSUME NEW c \in Nat \ {0}, NEW a \in Int, NEW m \in Int, m % c = 0
  PROVE  (a + m) % c = a % c
<1> DEFINE r == a % c
           p == a \div c
           k == m \div c
           w == p + k
<1>1. a = c * p + r /\ p \in Int /\ r \in 0 .. c - 1
  BY Zenon, Divided
<1>2. m = c * k + (m % c) /\ k \in Int
  BY Zenon, Divided
<1> HIDE DEF r, p, k
<1>3. c * w = c * p + c * k /\ c * p \in Int /\ c * k \in Int /\ w \in Int
  BY <1>1, <1>2, Z3
<1> HIDE DEF w
<1>4. a + m \in Int /\ a + m = c * w + r
  BY <1>1, <1>2, <1>3
<1>5. (a + m) % c = r
  BY Zenon, <1>1, <1>3, <1>4, RemainderIs
<1> QED
  BY <1>5 DEF r

\* The remainder of a difference is that of the remainders' difference.
LEMMA RemainderOfDifference ==
  ASSUME NEW c \in Nat \ {0}, NEW a \in Int, NEW b \in Int, a - b \in 0 .. c - 1
  PROVE  ((a % c) - (b % c)) % c = a - b
<1> PICK e : e = a - b
  OBVIOUS
<1> PICK r : r = b % c
  OBVIOUS
<1> PICK q : q = b \div c
  OBVIOUS
<1>1. e \in 0 .. c - 1 /\ b = c * q + r /\ q \in Int /\ r \in 0 .. c - 1
  BY Divided
<1> PICK d : d = 0 - r
  OBVIOUS
<1>2. d \in Int /\ ((a % c) + d) % c = (a + d) % c
  <2>1. d \in Int
    BY <1>1
  <2> QED
    BY Zenon, <2>1, RemainderOfSum
<1>3. a + d = c * q + e /\ a + d \in Int
  <2>1. c * q \in Int
    BY <1>1, Z3
  <2> QED
    BY <1>1, <2>1
<1>4. (a + d) % c = e
  BY Zenon, <1>1, <1>3, RemainderIs
<1>5. a % c \in Int /\ (a % c) + d = (a % c) - r
  <2>1. a % c \in Int
    BY Divided
  <2> QED
    BY <1>1, <2>1
<1> QED
  BY <1>2, <1>4, <1>5
=============================================================================
