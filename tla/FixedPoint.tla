----------------------------- MODULE FixedPoint -----------------------------
(***************************************************************************)
(* The fixed-point units and roundings every contract shares: ratios in    *)
(* basis points, rates and fractions in WAD, mulDiv rounding down unless   *)
(* the source asks for Math.Rounding.Ceil.                                 *)
(***************************************************************************)
EXTENDS Integers, TLAPS

CONSTANTS
    WAD,            \* 1e18 in the source
    BPS             \* 10_000 in the source

ASSUME UnitsAssumption == WAD \in Nat \ {0} /\ BPS \in Nat \ {0}

abs(x) == IF x >= 0 THEN x ELSE -x

CeilDiv(a, d) == (a + d - 1) \div d

\* The smaller of two numbers, and a number clamped to be non-negative.
Min2(a, b) == IF a <= b THEN a ELSE b
Pos(x) == IF x > 0 THEN x ELSE 0

-----------------------------------------------------------------------------
(* Products, quotients and roundings, cited by name in the proofs about the
   components. *)

LEMMA DivNat == ASSUME NEW a \in Nat, NEW d \in Nat \ {0} PROVE a \div d \in Nat
  OBVIOUS

LEMMA DivBounds ==
    ASSUME NEW a \in Nat, NEW d \in Nat \ {0}
    PROVE  a \div d \in Nat /\ (a \div d) * d <= a /\ a < (a \div d) * d + d
  OBVIOUS

LEMMA MulNat == ASSUME NEW a \in Nat, NEW b \in Nat PROVE a * b \in Nat
  OBVIOUS

LEMMA MulPos == ASSUME NEW a \in Nat \ {0}, NEW b \in Nat \ {0} PROVE a * b \in Nat \ {0}
  OBVIOUS

LEMMA MulMono == ASSUME NEW a \in Int, NEW b \in Int, NEW c \in Nat, a <= b
                 PROVE  a * c <= b * c /\ c * a <= c * b
  OBVIOUS

LEMMA MulCancel == ASSUME NEW a \in Int, NEW b \in Int, NEW c \in Nat \ {0}, a * c <= b * c
                   PROVE  a <= b
  OBVIOUS

\* A quotient is at least q as soon as the dividend holds q divisors.
LEMMA DivAtLeast == ASSUME NEW a \in Nat, NEW d \in Nat \ {0}, NEW q \in Nat, q * d <= a
                    PROVE  a \div d >= q
  <1>1. a < (a \div d + 1) * d
    BY DivBounds
  <1>2. q * d < (a \div d + 1) * d
    BY <1>1, MulNat
  <1>3. a \div d \in Nat
    BY DivBounds
  <1>4. SUFFICES ASSUME a \div d + 1 <= q PROVE FALSE
    BY <1>3
  <1>5. (a \div d + 1) * d <= q * d
    BY <1>3, <1>4, MulMono
  <1> QED BY <1>2, <1>3, <1>5

\* ... and at most q when the dividend fits in q divisors.
LEMMA DivAtMost == ASSUME NEW a \in Nat, NEW d \in Nat \ {0}, NEW q \in Nat, a <= q * d
                   PROVE  a \div d <= q
  <1>1. (a \div d) * d <= q * d
    BY DivBounds
  <1> QED BY <1>1, DivBounds, MulCancel

LEMMA CeilBounds ==
    ASSUME NEW a \in Nat, NEW d \in Nat \ {0}
    PROVE  CeilDiv(a, d) \in Nat /\ a <= CeilDiv(a, d) * d
  <1>1. a + d - 1 \in Nat
    OBVIOUS
  <1>2. a + d - 1 < CeilDiv(a, d) * d + d /\ CeilDiv(a, d) \in Nat
    BY <1>1, DivBounds DEF CeilDiv
  <1> QED BY <1>2

LEMMA CeilAtMost == ASSUME NEW a \in Nat, NEW d \in Nat \ {0}, NEW q \in Nat, a <= q * d
                    PROVE  CeilDiv(a, d) <= q
  <1>1. a + d - 1 \in Nat /\ a + d - 1 < (q + 1) * d
    OBVIOUS
  <1>2. (CeilDiv(a, d)) * d <= a + d - 1 /\ CeilDiv(a, d) \in Nat
    BY <1>1, DivBounds DEF CeilDiv
  <1>3. SUFFICES ASSUME q + 1 <= CeilDiv(a, d) PROVE FALSE
    BY <1>2
  <1>4. (q + 1) * d <= CeilDiv(a, d) * d
    BY <1>2, <1>3, MulMono
  <1> QED BY <1>1, <1>2, <1>4

LEMMA PosType == ASSUME NEW x \in Int PROVE Pos(x) \in Nat /\ x <= Pos(x)
  BY DEF Pos

LEMMA AbsType == ASSUME NEW x \in Int PROVE abs(x) \in Nat
  BY DEF abs

LEMMA CeilDivType == ASSUME NEW a \in Nat, NEW d \in Nat \ {0} PROVE CeilDiv(a, d) \in Nat
  BY CeilBounds
==============================================================================
