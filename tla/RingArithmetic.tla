--------------------------- MODULE RingArithmetic ---------------------------
(***************************************************************************)
(* Facts about positions in a ring of n slots.  The code reduces a         *)
(* position with "% len" (unlock_queue.c) or "& (size - 1)" with a size    *)
(* that is a power of two (log_copy.h, log_buffer.c); both are % here.     *)
(***************************************************************************)
EXTENDS Integers, TLAPS

(* Quotient and remainder of the division by the ring's size. *)
LEMMA DivMod ==
  ASSUME NEW n \in Int, n > 0, NEW a \in Int
  PROVE  /\ a \div n \in Int
         /\ a = n * (a \div n) + (a % n)
         /\ a % n \in 0 .. n - 1
  <1>1. a = n * (a \div n) + (a % n)
    BY Z3
  <1>2. a \div n \in Int /\ a % n \in 0 .. n - 1
    BY Z3
  <1> QED
    BY <1>1, <1>2

(* The only multiple of n strictly between -n and n is 0. *)
LEMMA SmallMultiple ==
  ASSUME NEW n \in Int, n > 0, NEW q \in Int, -n < n * q, n * q < n
  PROVE  q = 0
  <1>1. CASE q >= 1
    <2>1. n * q >= n
      BY <1>1, Z3
    <2> QED
      BY <2>1
  <1>2. CASE q <= -1
    <2>1. n * q <= -n
      BY <1>2, Z3
    <2> QED
      BY <2>1
  <1> QED
    BY <1>1, <1>2

(* A remainder is determined by any way of writing a as n * q + r. *)
LEMMA ModIs ==
  ASSUME NEW n \in Int, n > 0, NEW a \in Int, NEW q \in Int,
         NEW r \in 0 .. n - 1, a = n * q + r
  PROVE  a % n = r
  <1> DEFINE d == a \div n
             m == a % n
  <1>1. d \in Int /\ a = n * d + m /\ m \in 0 .. n - 1
    BY DivMod
  <1> HIDE DEF d, m
  <1>2. n * (q - d) = m - r
    <2>1. n * (q - d) = n * q - n * d
      BY <1>1, Z3
    <2> QED
      BY <2>1, <1>1
  <1>3. q - d = 0
    <2>1. q - d \in Int /\ -n < m - r /\ m - r < n
      BY <1>1
    <2> QED
      BY <2>1, <1>2, SmallMultiple
  <1>4. m = r
    BY <1>3, <1>2, <1>1
  <1> QED
    BY <1>4 DEF m

(* Moving two equal positions by the same distance keeps them equal. *)
LEMMA ModMove ==
  ASSUME NEW n \in Int, n > 0, NEW a \in Int, NEW b \in Int, NEW c \in Int,
         a % n = b % n
  PROVE  (a + c) % n = (b + c) % n
  <1> DEFINE qa == a \div n
             qb == b \div n
             qc == (b + c) \div n
             r == (b + c) % n
             m == b % n
  <1>1. /\ qa \in Int /\ qb \in Int /\ qc \in Int
        /\ a = n * qa + m /\ b = n * qb + m
        /\ b + c = n * qc + r /\ r \in 0 .. n - 1 /\ m \in Int
    <2>1. b + c \in Int
      OBVIOUS
    <2> QED
      BY <2>1, DivMod
  <1> HIDE DEF qa, qb, qc, r, m
  <1>2. a + c = n * (qa - qb + qc) + r
    <2>1. n * (qa - qb + qc) = n * qa - n * qb + n * qc
      BY <1>1, Z3
    <2> QED
      BY <2>1, <1>1
  <1> DEFINE v == a + c
             q == qa - qb + qc
  <1>3. v \in Int /\ q \in Int /\ v = n * q + r
    BY <1>1, <1>2
  <1> HIDE DEF v, q
  <1>4. v % n = r
    BY <1>1, <1>3, ModIs
  <1> QED
    BY <1>4 DEF r, v

(* Distinct counters less than one lap apart are at distinct positions. *)
LEMMA ModInjective ==
  ASSUME NEW n \in Int, n > 0, NEW a \in Int, NEW b \in Int,
         a % n = b % n, a - b < n, b - a < n
  PROVE  a = b
  <1> DEFINE qa == a \div n
             qb == b \div n
             m == a % n
  <1>1. /\ qa \in Int /\ qb \in Int /\ m \in Int
        /\ a = n * qa + m /\ b = n * qb + m
    BY DivMod
  <1> HIDE DEF qa, qb, m
  <1>2. n * (qa - qb) = a - b
    <2>1. n * (qa - qb) = n * qa - n * qb
      BY <1>1, Z3
    <2> QED
      BY <2>1, <1>1
  <1>3. qa - qb = 0
    <2>1. qa - qb \in Int /\ -n < a - b /\ a - b < n
      BY <1>1
    <2> QED
      BY <2>1, <1>2, SmallMultiple
  <1> QED
    BY <1>3, <1>2, <1>1

(* Two counters at the same position, and how far x is ahead of y. *)
SamePos(n, a, b) == a % n = b % n
Ahead(n, x, y) == (x - y) % n

(* The distance of two positions of counters less than one lap apart. *)
LEMMA ModDistance ==
  ASSUME NEW n \in Int, n > 0, NEW x \in Int, NEW y \in Int,
         NEW a \in Int, NEW b \in Int,
         SamePos(n, x, a), SamePos(n, y, b), 0 <= a - b, a - b < n
  PROVE  Ahead(n, x, y) = a - b
  <1> DEFINE qx == x \div n
             qy == y \div n
             qa == a \div n
             qb == b \div n
             ma == a % n
             mb == b % n
  <1>1. /\ qx \in Int /\ qy \in Int /\ qa \in Int /\ qb \in Int
        /\ ma \in Int /\ mb \in Int
        /\ x = n * qx + ma /\ y = n * qy + mb
        /\ a = n * qa + ma /\ b = n * qb + mb
    BY DivMod DEF SamePos
  <1> HIDE DEF qx, qy, qa, qb, ma, mb
  <1>2. x - y = n * (qx - qy - qa + qb) + (a - b)
    <2>1. n * (qx - qy - qa + qb) = n * qx - n * qy - n * qa + n * qb
      BY <1>1, Z3
    <2> QED
      BY <2>1, <1>1
  <1> DEFINE v == x - y
             q == qx - qy - qa + qb
             r == a - b
  <1>3. v \in Int /\ q \in Int /\ r \in 0 .. n - 1 /\ v = n * q + r
    BY <1>1, <1>2
  <1> HIDE DEF v, q, r
  <1>4. v % n = r
    BY <1>3, ModIs
  <1> QED
    BY <1>4 DEF Ahead, v, r

(* A position is its own remainder. *)
LEMMA ModInRing ==
  ASSUME NEW n \in Int, n > 0, NEW a \in 0 .. n - 1
  PROVE  a % n = a
  BY Z3

(* One lap more is the same position. *)
LEMMA ModLap ==
  ASSUME NEW n \in Int, n > 0, NEW a \in Int
  PROVE  (a + n) % n = a % n
  <1> DEFINE q == a \div n
             m == a % n
  <1>2. q \in Int /\ m \in 0 .. n - 1 /\ a = n * q + m
    BY DivMod
  <1> HIDE DEF q, m
  <1>3. a + n = n * (q + 1) + m
    BY <1>2, Z3
  <1>4. q + 1 \in Int /\ a + n \in Int
    BY <1>2
  <1>5. (a + n) % n = m
    BY <1>2, <1>3, <1>4, ModIs
  <1> QED
    BY <1>5 DEF m
=============================================================================
