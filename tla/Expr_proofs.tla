---------------------------- MODULE Expr_proofs ----------------------------
(***************************************************************************)
(* The arithmetic of IRValue and the trees of Expr, for every width of the *)
(* C types and every choice of constants.  In order: powers of two; types  *)
(* and their ranges; each check for undefined behaviour against exact      *)
(* integers; the ones of a number; each operator on values; a node on its  *)
(* children; conversions; trees, what the constructors and the repairs     *)
(* build; the calls of rebuild; the invariant and the theorems.            *)
(***************************************************************************)
EXTENDS Expr, FiniteSetTheorems, WellFoundedInduction, SequenceTheorems, TLAPS


LEMMA CountingUp ==
    ASSUME NEW P, P \subseteq Nat, 0 \in P, \A n \in P : n + 1 \in P
    PROVE  P = Nat
<1> DEFINE Less == OpToRel(<, Nat)
<1> DEFINE Left == Nat \ P
<1> SUFFICES ASSUME Left # {} PROVE FALSE OBVIOUS
<1>1. PICK x \in Left : \A y \in Left : ~ (<<y, x>> \in Less)
  <2>1. IsWellFoundedOn(Less, Nat) BY NatLessThanWellFounded
  <2>2. Left \subseteq Nat OBVIOUS
  <2> HIDE DEF Less, Left
  <2> QED BY <2>1, <2>2, WFMin
<1>2. Less = {ss \in Nat \X Nat : ss[1] < ss[2]}
  BY Zenon DEF OpToRel
<1>3. \A a, b \in Nat : <<a, b>> \in Less <=> a < b
  <2> HIDE DEF Less
  <2> QED BY <1>2
<1>4. x \in Nat /\ x # 0 /\ x \notin P OBVIOUS
<1>5. x - 1 \in Nat /\ x - 1 < x /\ (x - 1) + 1 = x BY <1>4
<1>6. x - 1 \notin Left BY <1>1, <1>3, <1>4, <1>5
<1> QED BY <1>4, <1>5, <1>6


---------------------------------------------------------------------------
(* Powers of two, up to the width of the widest type. *)

LEMMA LongIsNat == LongBits \in Nat \ {0}
BY WidthAssumption

LEMMA PowerIsNat == \A n \in 0 .. LongBits : 2^n \in Nat \ {0}
<1> DEFINE P == {n \in Nat : n <= LongBits => 2^n \in Nat \ {0}}
<1>1. 0 \in P BY PowerAssumption
<1>2. ASSUME NEW n \in P PROVE n + 1 \in P
  <2> SUFFICES ASSUME n + 1 <= LongBits PROVE 2^(n + 1) \in Nat \ {0} OBVIOUS
  <2>1. n + 1 \in 1 .. LongBits /\ (n + 1) - 1 = n BY LongIsNat
  <2>2. 2^(n + 1) = 2 * 2^n BY <2>1, PowerAssumption
  <2>3. 2^n \in Nat \ {0} BY LongIsNat
  <2> QED BY <2>2, <2>3
<1>3. P = Nat
  <2>1. P \subseteq Nat OBVIOUS
  <2> HIDE DEF P
  <2> QED BY <1>1, <1>2, <2>1, CountingUp
<1> QED BY <1>3

LEMMA PowerDoubles == \A n \in 0 .. (LongBits - 1) : 2^(n + 1) = 2 * 2^n
<1> SUFFICES ASSUME NEW n \in 0 .. (LongBits - 1) PROVE 2^(n + 1) = 2 * 2^n OBVIOUS
<1>1. n + 1 \in 1 .. LongBits /\ (n + 1) - 1 = n BY LongIsNat
<1> QED BY <1>1, PowerAssumption

LEMMA PowerSum ==
    ASSUME NEW m \in Nat, NEW n \in Nat, m + n <= LongBits
    PROVE  2^(m + n) = 2^m * 2^n
<1> DEFINE P == {k \in Nat : m + k <= LongBits => 2^(m + k) = 2^m * 2^k}
<1>l. LongBits \in Nat BY LongIsNat
<1>1. 0 \in P
  <2>1. m + 0 = m OBVIOUS
  <2>2. m <= LongBits => 2^m \in Nat BY <1>l, PowerIsNat
  <2>3. m <= LongBits => 2^m = 2^m * 2^0 BY <2>2, PowerAssumption
  <2> QED BY <2>1, <2>3
<1>2. ASSUME NEW k \in P PROVE k + 1 \in P
  <2> SUFFICES ASSUME m + (k + 1) <= LongBits PROVE 2^(m + (k + 1)) = 2^m * 2^(k + 1) OBVIOUS
  <2>1. /\ k \in Nat /\ m + k <= LongBits /\ m + (k + 1) = (m + k) + 1
        /\ m + k \in 0 .. (LongBits - 1) /\ k \in 0 .. (LongBits - 1) /\ m \in 0 .. LongBits
    BY <1>l
  <2>2. 2^(m + k) = 2^m * 2^k BY <2>1
  <2>3. 2^((m + k) + 1) = 2 * 2^(m + k) /\ 2^(k + 1) = 2 * 2^k BY <2>1, PowerDoubles
  <2>4. PICK a, b \in Nat : a = 2^m /\ b = 2^k BY <1>l, <2>1, PowerIsNat
  <2>5. 2 * (a * b) = a * (2 * b) OBVIOUS
  <2> QED BY <2>1, <2>2, <2>3, <2>4, <2>5
<1>3. P = Nat
  <2>1. P \subseteq Nat OBVIOUS
  <2> HIDE DEF P
  <2> QED BY <1>1, <1>2, <2>1, CountingUp
<1> QED BY <1>3

LEMMA PowerRises ==
    ASSUME NEW m \in Nat, NEW n \in Nat, m <= n, n <= LongBits
    PROVE  2^m <= 2^n
<1>1. n - m \in Nat /\ m + (n - m) = n OBVIOUS
<1>2. 2^n = 2^m * 2^(n - m) BY <1>1, PowerSum
<1>3. LongBits \in Nat BY LongIsNat
<1>4. m \in 0 .. LongBits /\ n - m \in 0 .. LongBits BY <1>3
<1>5. PICK a, b \in Nat \ {0} : a = 2^m /\ b = 2^(n - m) BY <1>4, PowerIsNat
<1>6. a <= a * b OBVIOUS
<1> QED BY <1>2, <1>5, <1>6

LEMMA PowerExceeds == \A n \in 0 .. LongBits : n < 2^n
<1> DEFINE P == {n \in Nat : n <= LongBits => n < 2^n}
<1>1. 0 \in P BY PowerAssumption
<1>2. ASSUME NEW n \in P PROVE n + 1 \in P
  <2> SUFFICES ASSUME n + 1 <= LongBits PROVE n + 1 < 2^(n + 1) OBVIOUS
  <2>1. n \in 0 .. (LongBits - 1) BY LongIsNat
  <2>2. 2^(n + 1) = 2 * 2^n BY <2>1, PowerDoubles
  <2>3. n < 2^n BY LongIsNat
  <2>4. 2^n \in Nat BY <2>1, LongIsNat, PowerIsNat
  <2> QED BY <2>1, <2>2, <2>3, <2>4
<1>3. P = Nat
  <2>1. P \subseteq Nat OBVIOUS
  <2> HIDE DEF P
  <2> QED BY <1>1, <1>2, <2>1, CountingUp
<1> QED BY <1>3
---------------------------------------------------------------------------
(* The range of a type, and conversion to it. *)

SignedTypes == {t \in Types : IsSigned(t)}
PlainTypes  == {t \in Types : ~IsSigned(t) /\ t # "BOOL"}

\* The remainder by m, one period away from the standard one at most.
LEMMA Remainders ==
    ASSUME NEW m \in Nat \ {0}, NEW x \in Int
    PROVE  /\ 0 <= x /\ x < m     => x % m = x
           /\ m <= x /\ x < 2 * m => x % m = x - m
           /\ -m <= x /\ x < 0    => x % m = x + m
  OBVIOUS

LEMMA RemainderInRange ==
    ASSUME NEW m \in Nat \ {0}, NEW x \in Int
    PROVE  x % m \in 0 .. (m - 1)
  OBVIOUS

LEMMA BitsInRange == \A t \in Types : Bits(t) \in 1 .. LongBits
  BY WidthAssumption DEF Types, Bits

\* The bounds of a signed type: half of its 2^Bits values are negative.
LEMMA SignedBounds ==
    ASSUME NEW t \in SignedTypes
    PROVE  \E h \in Nat \ {0} : /\ 2^Bits(t) = 2 * h /\ 2^(Bits(t) - 1) = h
                                /\ MinOf(t) = -h /\ MaxOf(t) = h - 1
  <1>1. Bits(t) \in 1 .. LongBits
    BY BitsInRange DEF SignedTypes
  <1>2. Bits(t) - 1 \in 0 .. LongBits
    BY <1>1, LongIsNat
  <1>3. 2^Bits(t) = 2 * 2^(Bits(t) - 1) /\ 2^(Bits(t) - 1) \in Nat \ {0}
    BY <1>1, <1>2, PowerAssumption, PowerIsNat
  <1>4. MinOf(t) = -(2^(Bits(t) - 1)) /\ MaxOf(t) = 2^(Bits(t) - 1) - 1
    BY DEF SignedTypes, MinOf, MaxOf, IsSigned
  <1> QED BY <1>3, <1>4

LEMMA PlainBounds ==
    ASSUME NEW t \in PlainTypes
    PROVE  \E m \in Nat \ {0} : 2^Bits(t) = m /\ MinOf(t) = 0 /\ MaxOf(t) = m - 1
  <1>1. Bits(t) \in 0 .. LongBits
    BY BitsInRange, LongIsNat DEF PlainTypes
  <1>2. 2^Bits(t) \in Nat \ {0}
    BY <1>1, PowerIsNat
  <1> QED BY <1>2 DEF PlainTypes, MinOf, MaxOf

LEMMA BoolBounds == MinOf("BOOL") = 0 /\ MaxOf("BOOL") = 1
  BY DEF MinOf, MaxOf, IsSigned

LEMMA TypesSplit == \A t \in Types : t \in SignedTypes \/ t \in PlainTypes \/ t = "BOOL"
  BY DEF SignedTypes, PlainTypes

LEMMA BoundsAreInt == \A t \in Types : MinOf(t) \in Int /\ MaxOf(t) \in Int
  BY TypesSplit, SignedBounds, PlainBounds, BoolBounds

\* Conversion to a type yields a value of the type, and leaves one alone.
LEMMA WrapInRange ==
    ASSUME NEW t \in Types, NEW x \in Int
    PROVE  Wrap(t, x) \in Int /\ InRange(t, Wrap(t, x))
  <1>1. CASE t \in SignedTypes
    <2>1. PICK h \in Nat \ {0} : 2^Bits(t) = 2 * h /\ MinOf(t) = -h /\ MaxOf(t) = h - 1
      BY <1>1, SignedBounds
    <2>2. Wrap(t, x) = ((x - MinOf(t)) % 2^Bits(t)) + MinOf(t)
      BY <1>1 DEF Wrap, SignedTypes, IsSigned
    <2>3. PICK m \in Nat \ {0}, y \in Int : m = 2 * h /\ y = x - MinOf(t)
      BY <2>1
    <2>4. y % m \in 0 .. (m - 1)
      BY ONLY RemainderInRange, m \in Nat \ {0}, y \in Int
    <2>5. Wrap(t, x) = (y % m) - h
      BY <2>1, <2>2, <2>3, <2>4
    <2> QED BY <2>1, <2>3, <2>4, <2>5 DEF InRange
  <1>2. CASE t \in PlainTypes
    <2>1. PICK m \in Nat \ {0} : 2^Bits(t) = m /\ MinOf(t) = 0 /\ MaxOf(t) = m - 1
      BY <1>2, PlainBounds
    <2>2. Wrap(t, x) = x % m
      BY <1>2, <2>1 DEF Wrap, PlainTypes
    <2>3. x % m \in 0 .. (m - 1)
      BY RemainderInRange
    <2> QED BY <2>1, <2>2, <2>3 DEF InRange
  <1>3. CASE t = "BOOL"
    BY <1>3, BoolBounds DEF Wrap, InRange
  <1> QED BY <1>1, <1>2, <1>3, TypesSplit

LEMMA WrapKeeps ==
    ASSUME NEW t \in Types, NEW x \in Int, InRange(t, x)
    PROVE  Wrap(t, x) = x
  <1>1. CASE t \in SignedTypes
    <2>1. PICK h \in Nat \ {0} : 2^Bits(t) = 2 * h /\ MinOf(t) = -h /\ MaxOf(t) = h - 1
      BY <1>1, SignedBounds
    <2>2. Wrap(t, x) = ((x - MinOf(t)) % 2^Bits(t)) + MinOf(t)
      BY <1>1 DEF Wrap, SignedTypes, IsSigned
    <2>3. PICK m \in Nat \ {0}, y \in Int : m = 2 * h /\ y = x - MinOf(t) /\ y = x + h
      BY <2>1
    <2>4. 0 <= y /\ y < m
      BY <2>1, <2>3 DEF InRange
    <2>5. y % m = y
      BY ONLY Remainders, m \in Nat \ {0}, y \in Int, <2>4
    <2> QED BY <2>1, <2>2, <2>3, <2>5
  <1>2. CASE t \in PlainTypes
    <2>1. PICK m \in Nat \ {0} : 2^Bits(t) = m /\ MinOf(t) = 0 /\ MaxOf(t) = m - 1
      BY <1>2, PlainBounds
    <2>2. Wrap(t, x) = x % m
      BY <1>2, <2>1 DEF Wrap, PlainTypes
    <2>3. 0 <= x /\ x < m
      BY <2>1 DEF InRange
    <2> QED BY <2>2, <2>3, Remainders
  <1>3. CASE t = "BOOL"
    BY <1>3, BoolBounds DEF Wrap, InRange
  <1> QED BY <1>1, <1>2, <1>3, TypesSplit

\* Division with remainder, and that there is only one.
LEMMA Division ==
    ASSUME NEW m \in Nat \ {0}, NEW x \in Int
    PROVE  /\ x \div m \in Int /\ x % m \in 0 .. (m - 1)
           /\ x = (x \div m) * m + (x % m)
  OBVIOUS

LEMMA NatDivision ==
    ASSUME NEW m \in Nat \ {0}, NEW x \in Nat
    PROVE  \E q \in Nat, r \in 0 .. (m - 1) : q = x \div m /\ r = x % m /\ x = q * m + r
  <1>1. PICK y \in Int : y = x
    OBVIOUS
  <1>2. PICK q \in Int, r \in 0 .. (m - 1) : q = y \div m /\ r = y % m /\ y = q * m + r
    BY Division
  <1>3. q >= 0
    <2> SUFFICES ASSUME q <= -1 PROVE FALSE
      OBVIOUS
    <2>1. q * m <= -m
      BY Z3
    <2>2. PICK w \in Int : w = q * m
      OBVIOUS
    <2>3. y = w + r /\ w <= -m
      BY <1>2, <2>1, <2>2
    <2> QED BY <1>1, <1>2, <2>3
  <1>4. q \in Nat /\ q = x \div m /\ r = x % m /\ x = q * m + r
    BY <1>1, <1>2, <1>3
  <1> QED BY <1>4, Zenon

LEMMA OneDivision ==
    ASSUME NEW m \in Nat \ {0}, NEW q \in Int, NEW r \in 0 .. (m - 1)
    PROVE  (q * m + r) \div m = q /\ (q * m + r) % m = r
  <1>1. PICK y \in Int : y = q * m + r
    OBVIOUS
  <1>2. PICK p \in Int, s \in 0 .. (m - 1) : p = y \div m /\ s = y % m /\ y = p * m + s
    BY Division
  <1>3. p = q /\ s = r
    BY ONLY <1>1, <1>2, m \in Nat \ {0}
  <1> QED BY <1>1, <1>2, <1>3

\* Numbers that differ by a multiple of m have one remainder.
LEMMA SameRemainder ==
    ASSUME NEW m \in Nat \ {0}, NEW x \in Int, NEW k \in Int
    PROVE  (x + k * m) % m = x % m
  <1>1. PICK q, r : q \in Int /\ r \in 0 .. (m - 1) /\ x = q * m + r /\ r = x % m
    BY Division
  <1>2. x + k * m = (q + k) * m + r /\ q + k \in Int
    BY <1>1
  <1>3. ((q + k) * m + r) % m = r
    BY ONLY <1>1, <1>2, m \in Nat \ {0}, OneDivision
  <1> QED BY <1>1, <1>2, <1>3
---------------------------------------------------------------------------
(* The checks for undefined behaviour in ir_value.cpp against exact         *)
(* integers.                                                               *)

\* Conversion to a signed type, as far out of range as a sum can get.
LEMMA WrapSigned ==
    ASSUME NEW t \in SignedTypes, NEW h \in Nat \ {0}, NEW x \in Int,
           2^Bits(t) = 2 * h, MinOf(t) = -h, -(2 * h) <= x, x < 2 * h
    PROVE  Wrap(t, x) = IF x < -h THEN x + 2 * h ELSE IF x >= h THEN x - 2 * h ELSE x
  <1>1. Wrap(t, x) = ((x + h) % (2 * h)) - h
    <2>1. Wrap(t, x) = ((x - MinOf(t)) % 2^Bits(t)) + MinOf(t)
      BY DEF Wrap, SignedTypes, IsSigned
    <2>2. x - MinOf(t) = x + h
      OBVIOUS
    <2>3. (x + h) % (2 * h) \in Int
      OBVIOUS
    <2>4. (x - MinOf(t)) % 2^Bits(t) = (x + h) % (2 * h)
      BY <2>2
    <2> QED BY <2>1, <2>3, <2>4
  <1>m. 2 * h \in Nat \ {0} /\ x + h \in Int
    OBVIOUS
  <1>2. CASE x < -h
    <2>1. -(2 * h) <= x + h /\ x + h < 0
      BY <1>2
    <2>2. (x + h) % (2 * h) = (x + h) + 2 * h
      BY ONLY <1>m, <2>1, Remainders
    <2> QED BY <1>1, <1>2, <2>2
  <1>3. CASE -h <= x /\ x < h
    <2>1. (x + h) % (2 * h) = x + h
      BY <1>m, <1>3, Remainders
    <2> QED BY <1>1, <1>3, <2>1
  <1>4. CASE h <= x
    <2>1. 2 * h <= x + h /\ x + h < 2 * (2 * h)
      BY <1>4
    <2>2. (x + h) % (2 * h) = (x + h) - 2 * h
      BY ONLY <1>m, <2>1, Remainders
    <2> QED BY <1>1, <1>4, <2>2
  <1> QED BY <1>2, <1>3, <1>4

\* A product from the halves of its factors: no bound below p * p is missed
\* by the truncation to p * p.
HalvesFit(p, ha, la, hb, lb, bound) ==
    LET mid == ha * lb + hb * la
        ret == (mid * p + la * lb) % (p * p)
    IN  (ha = 0 \/ hb = 0) /\ mid < p /\ ret >= mid * p /\ ret <= bound

LEMMA ProductOfHalves ==
    ASSUME NEW p \in Nat \ {0}, NEW bound \in Nat, bound < p * p,
           NEW ha \in Nat, NEW hb \in Nat, NEW la \in 0 .. (p - 1), NEW lb \in 0 .. (p - 1)
    PROVE  HalvesFit(p, ha, la, hb, lb, bound) <=> (ha * p + la) * (hb * p + lb) <= bound
  <1>m. PICK mid : mid = ha * lb + hb * la
    OBVIOUS
  <1>r. PICK ret : ret = (mid * p + la * lb) % (p * p)
    OBVIOUS
  <1> SUFFICES (/\ ha = 0 \/ hb = 0
                /\ mid < p
                /\ ret >= mid * p
                /\ ret <= bound) <=> (ha * p + la) * (hb * p + lb) <= bound
    BY <1>m, <1>r, Zenon DEF HalvesFit
  <1>1. mid \in Nat
    BY <1>m, Z3
  <1>2. PICK z \in Nat : z = la * lb /\ z < p * p
    <2>1. la * lb <= (p - 1) * lb /\ (p - 1) * lb <= (p - 1) * p /\ (p - 1) * p < p * p
      BY Z3
    <2>2. la * lb \in Nat
      BY Z3
    <2> QED BY <2>1, <2>2, Z3
  <1>3. PICK x : x = (ha * p + la) * (hb * p + lb)
    OBVIOUS
  <1>4. CASE ha # 0 /\ hb # 0
    <2>1. ha * p + la >= p /\ hb * p + lb >= p
      BY <1>4, Z3
    <2>2. \A u, v \in Nat : u >= p /\ v >= p => u * v >= p * p
      <3> SUFFICES ASSUME NEW u \in Nat, NEW v \in Nat, u >= p, v >= p PROVE u * v >= p * p
        OBVIOUS
      <3>1. u * v >= p * v /\ p * v >= p * p
        BY Z3
      <3> QED BY <3>1, Z3
    <2>3. ha * p + la \in Nat /\ hb * p + lb \in Nat
      BY Z3
    <2>4. x >= p * p
      BY <1>3, <2>1, <2>2, <2>3
    <2> QED BY <1>3, <1>4, <2>4, Z3
  <1>5. CASE ha = 0 \/ hb = 0
    <2>1. x = mid * p + z
      <3>1. CASE ha = 0
        BY <1>m, <1>2, <1>3, <3>1, Z3
      <3>2. CASE hb = 0
        BY <1>m, <1>2, <1>3, <3>2, Z3
      <3> QED BY <1>5, <3>1, <3>2
    <2>2. PICK y \in Nat, s \in Nat \ {0} : y = mid * p /\ s = p * p
      BY <1>1, Z3
    <2>3. ret = (y + z) % s /\ x = y + z /\ z < s /\ bound < s
      BY <1>r, <1>2, <2>1, <2>2
    <2>4. CASE mid >= p
      <3>1. y >= s
        BY <1>1, <2>2, <2>4, Z3
      <3> QED BY <1>1, <1>3, <2>3, <2>4, <3>1
    <2>5. CASE mid < p
      <3>1. y < s
        BY <1>1, <2>2, <2>5, Z3
      <3>2. CASE y + z < s
        <4>1. y + z \in Int /\ 0 <= y + z
          OBVIOUS
        <4>2. ret = y + z
          BY <2>3, <3>2, <4>1, Remainders
        <4> QED BY <1>3, <1>5, <2>2, <2>3, <2>5, <4>2
      <3>3. CASE y + z >= s
        <4>1. y + z \in Int /\ y + z < 2 * s
          BY <2>3, <3>1
        <4>2. ret = (y + z) - s
          BY <2>3, <3>3, <4>1, Remainders
        <4> QED BY <1>3, <2>2, <2>3, <3>3, <4>2
      <3> QED BY <3>2, <3>3
    <2> QED BY <1>1, <2>4, <2>5
  <1> QED BY <1>4, <1>5

LEMMA HalfPower ==
    ASSUME NEW t \in {"INT", "LLONG"}
    PROVE  \E p \in Nat \ {0} : p = 2^(Bits(t) \div 2) /\ 2^Bits(t) = p * p
  <1>1. Bits(t) \in Nat /\ Bits(t) % 2 = 0 /\ Bits(t) <= LongBits
    BY WidthAssumption DEF Bits
  <1>2. PICK k \in Nat : k = Bits(t) \div 2 /\ k + k = Bits(t)
    BY <1>1
  <1>3. 2^(k + k) = 2^k * 2^k
    BY <1>1, <1>2, PowerSum
  <1>4. k \in 0 .. LongBits
    BY <1>1, <1>2, LongIsNat
  <1> QED BY <1>2, <1>3, <1>4, PowerIsNat

\* mulOperator: the halves tell exactly whether a signed product overflows.
THEOREM MulCheckExact ==
    ASSUME NEW t \in {"INT", "LLONG"}, NEW a \in Int, NEW b \in Int,
           InRange(t, a), InRange(t, b)
    PROVE  MulFits(t, a, b) <=> InRange(t, a * b)
  <1>1. PICK h \in Nat \ {0} : 2^Bits(t) = 2 * h /\ MinOf(t) = -h /\ MaxOf(t) = h - 1
    BY SignedBounds DEF SignedTypes, Types, IsSigned
  <1>2. PICK p \in Nat \ {0} : p = 2^(Bits(t) \div 2) /\ 2^Bits(t) = p * p
    BY HalfPower
  <1>3. PICK A \in Nat, B \in Nat : A = Abs(a) /\ B = Abs(b)
    BY DEF Abs
  <1>4. PICK ha \in Nat, la \in 0 .. (p - 1) : ha = A \div p /\ la = A % p /\ A = ha * p + la
    BY NatDivision
  <1>5. PICK hb \in Nat, lb \in 0 .. (p - 1) : hb = B \div p /\ lb = B % p /\ B = hb * p + lb
    BY NatDivision
  <1>6. PICK bound \in Nat :
           bound = IF (a > 0 /\ b > 0) \/ (a < 0 /\ b < 0) THEN h - 1 ELSE h
    OBVIOUS
  <1>7. bound < p * p
    BY <1>1, <1>2, <1>6
  <1>8. MulFits(t, a, b) <=> HalvesFit(p, ha, la, hb, lb, bound)
    <2>1. -MinOf(t) = h
      BY <1>1
    <2> QED BY <1>1, <1>2, <1>3, <1>4, <1>5, <1>6, <2>1 DEF MulFits, HalvesFit
  <1>9. HalvesFit(p, ha, la, hb, lb, bound) <=> (ha * p + la) * (hb * p + lb) <= bound
    BY <1>7, ProductOfHalves
  <1>11. MulFits(t, a, b) <=> A * B <= bound
    <2>1. A * B = (ha * p + la) * (hb * p + lb)
      BY <1>4, <1>5
    <2> QED BY <1>8, <1>9, <2>1
  <1>12. A * B <= bound <=> InRange(t, a * b)
    <2>1. CASE a = 0 \/ b = 0
      <3>1. A * B = 0 /\ a * b = 0
        BY <1>3, <2>1 DEF Abs
      <3> QED BY <1>1, <1>6, <3>1 DEF InRange
    <2>2. CASE (a > 0 /\ b > 0) \/ (a < 0 /\ b < 0)
      <3>1. A * B = a * b /\ a * b \in Nat
        BY <1>3, <2>2, Z3 DEF Abs
      <3> QED BY <1>1, <1>6, <2>2, <3>1 DEF InRange
    <2>3. CASE (a > 0 /\ b < 0) \/ (a < 0 /\ b > 0)
      <3>1. A * B = -(a * b) /\ A * B \in Nat
        BY <1>3, <2>3, Z3 DEF Abs
      <3>2. bound = h
        BY <1>6, <2>3
      <3>3. PICK n \in Nat : n = A * B
        BY <3>1
      <3>4. a * b = -n
        BY <3>1, <3>3
      <3> QED BY <1>1, <3>2, <3>3, <3>4 DEF InRange
    <2> QED BY <2>1, <2>2, <2>3
  <1> QED BY <1>11, <1>12

\* addOperator: the sign bits tell exactly whether a signed sum overflows.
THEOREM AddCheckExact ==
    ASSUME NEW t \in SignedTypes, NEW a \in Int, NEW b \in Int,
           InRange(t, a), InRange(t, b)
    PROVE  AddOverflows(t, a, b) <=> ~InRange(t, a + b)
  <1>1. PICK h \in Nat \ {0} : 2^Bits(t) = 2 * h /\ MinOf(t) = -h /\ MaxOf(t) = h - 1
    BY SignedBounds
  <1>2. -h <= a /\ a < h /\ -h <= b /\ b < h
    BY <1>1 DEF InRange
  <1>3. Wrap(t, a + b) = IF a + b < -h THEN a + b + 2 * h
                         ELSE IF a + b >= h THEN a + b - 2 * h ELSE a + b
    <2>1. a + b \in Int /\ -(2 * h) <= a + b /\ a + b < 2 * h
      BY <1>2
    <2> HIDE <1>2
    <2> QED BY <1>1, <2>1, WrapSigned
  <1> QED BY <1>1, <1>2, <1>3 DEF AddOverflows, InRange, Neg

\* subOperator: likewise for a difference.
THEOREM SubCheckExact ==
    ASSUME NEW t \in SignedTypes, NEW a \in Int, NEW b \in Int,
           InRange(t, a), InRange(t, b)
    PROVE  SubOverflows(t, a, b) <=> ~InRange(t, a - b)
  <1>1. PICK h \in Nat \ {0} : 2^Bits(t) = 2 * h /\ MinOf(t) = -h /\ MaxOf(t) = h - 1
    BY SignedBounds
  <1>2. -h <= a /\ a < h /\ -h <= b /\ b < h
    BY <1>1 DEF InRange
  <1>3. Wrap(t, a - b) = IF a - b < -h THEN a - b + 2 * h
                         ELSE IF a - b >= h THEN a - b - 2 * h ELSE a - b
    <2>1. a - b \in Int /\ -(2 * h) <= a - b /\ a - b < 2 * h
      BY <1>2
    <2> HIDE <1>2
    <2> QED BY <1>1, <2>1, WrapSigned
  <1> QED BY <1>1, <1>2, <1>3 DEF SubOverflows, InRange, Neg

\* BinaryExpr::rebuild: the operator put in the place of a signed sum,
\* difference or product by -1 that overflows never overflows itself, so these
\* nodes are repaired at the first attempt.
THEOREM OneRepairIsEnough ==
    ASSUME NEW t \in SignedTypes, NEW a \in Int, NEW b \in Int,
           InRange(t, a), InRange(t, b)
    PROVE  /\ AddOverflows(t, a, b) => ~SubOverflows(t, a, b)
           /\ SubOverflows(t, a, b) => ~AddOverflows(t, a, b)
           /\ MinAndMinusOne(t, a, b) => ~SubOverflows(t, a, b)
  <1>1. PICK h \in Nat \ {0} : MinOf(t) = -h /\ MaxOf(t) = h - 1
    BY SignedBounds
  <1>2. -h <= a /\ a < h /\ -h <= b /\ b < h
    BY <1>1 DEF InRange
  <1>3. AddOverflows(t, a, b) <=> ~(-h <= a + b /\ a + b < h)
    BY <1>1, AddCheckExact DEF InRange
  <1>4. SubOverflows(t, a, b) <=> ~(-h <= a - b /\ a - b < h)
    BY <1>1, SubCheckExact DEF InRange
  <1>5. MinAndMinusOne(t, a, b) => (a = -h /\ b = -1) \/ (a = -1 /\ b = -h)
    <2> SUFFICES ASSUME {a, b} = {-h, -1}
                 PROVE  (a = -h /\ b = -1) \/ (a = -1 /\ b = -h)
      BY <1>1 DEF MinAndMinusOne
    <2>1. a \in {-h, -1} /\ b \in {-h, -1} /\ -h \in {a, b} /\ -1 \in {a, b}
      OBVIOUS
    <2> QED BY <2>1
  <1> QED BY <1>1, <1>2, <1>3, <1>4, <1>5

\* divOperator, modOperator: the only quotient out of range is refused, and so
\* is no remainder of the others.
LEMMA DivisionFacts ==
    ASSUME NEW a \in Int, NEW b \in Int, b # 0
    PROVE  \E k \in Nat, s \in Nat :
              /\ Abs(a) = k * Abs(b) + s /\ s < Abs(b) /\ s <= Abs(a) /\ k <= Abs(a)
              /\ k = Abs(a) => a = 0 \/ Abs(b) = 1
              /\ Quotient(a, b) = IF Neg(a) = Neg(b) THEN k ELSE -k
              /\ Remainder(a, b) = IF a < 0 THEN -s ELSE s
  <1>1. PICK A \in Nat, B \in Nat \ {0} : A = Abs(a) /\ B = Abs(b)
    BY DEF Abs
  <1>2. PICK k \in Nat, s \in 0 .. (B - 1) : k = A \div B /\ s = A % B /\ A = k * B + s
    BY NatDivision
  <1>3. k * B >= k /\ k * B \in Nat
    BY Z3
  <1>4. s <= A /\ k <= A
    BY <1>2, <1>3
  <1>5. k = A => a = 0 \/ B = 1
    <2> SUFFICES ASSUME k = A, B # 1, a # 0 PROVE FALSE
      OBVIOUS
    <2>1. B >= 2 /\ k >= 1
      BY <1>1 DEF Abs
    <2>2. k * B >= k * 2
      BY <2>1, Z3
    <2> QED BY <1>2, <1>3, <2>1, <2>2
  <1>6. Quotient(a, b) = IF Neg(a) = Neg(b) THEN k ELSE -k
    BY <1>1, <1>2 DEF Quotient
  <1>7. PICK q \in Int : q = Quotient(a, b)
    BY <1>6
  <1>8. Remainder(a, b) = IF a < 0 THEN -s ELSE s
    <2>1. Remainder(a, b) = a - b * q
      BY <1>7 DEF Remainder
    <2>2. b * q = IF a < 0 THEN -(k * B) ELSE k * B
      BY <1>1, <1>6, <1>7, Z3 DEF Neg, Abs
    <2>3. PICK w \in Nat : w = k * B
      BY <1>3
    <2>4. A = w + s
      BY <1>2, <2>3
    <2>5. a = IF a < 0 THEN -A ELSE A
      BY <1>1 DEF Abs
    <2> QED BY <2>1, <2>2, <2>3, <2>4, <2>5
  <1>9. /\ s \in Nat
        /\ Abs(a) = k * Abs(b) + s /\ s < Abs(b) /\ s <= Abs(a) /\ k <= Abs(a)
        /\ k = Abs(a) => a = 0 \/ Abs(b) = 1
    BY <1>1, <1>2, <1>4, <1>5
  <1> QED BY <1>6, <1>8, <1>9, Zenon

\* divModImpl: the quotient of the minimum and -1 is the only one that leaves
\* the type, and remainders never do.
THEOREM DivCheckSound ==
    ASSUME NEW t \in Types, t # "BOOL", NEW a \in Int, NEW b \in Int,
           InRange(t, a), InRange(t, b), b # 0
    PROVE  /\ InRange(t, Quotient(a, b)) <=> ~(IsSigned(t) /\ a = MinOf(t) /\ b = -1)
           /\ InRange(t, Remainder(a, b))
           /\ Quotient(a, b) \in Int /\ Remainder(a, b) \in Int
  <1>1. PICK k \in Nat, s \in Nat :
              /\ Abs(a) = k * Abs(b) + s /\ s < Abs(b) /\ s <= Abs(a) /\ k <= Abs(a)
              /\ k = Abs(a) => a = 0 \/ Abs(b) = 1
              /\ Quotient(a, b) = IF Neg(a) = Neg(b) THEN k ELSE -k
              /\ Remainder(a, b) = IF a < 0 THEN -s ELSE s
    BY DivisionFacts
  <1>a. PICK A \in Nat, B \in Nat : A = Abs(a) /\ B = Abs(b)
    BY DEF Abs
  <1>q. PICK q \in Int, r \in Int : /\ q = Quotient(a, b) /\ q = IF Neg(a) = Neg(b) THEN k ELSE -k
                                  /\ r = Remainder(a, b) /\ r = IF a < 0 THEN -s ELSE s
    BY <1>1
  <1>2. CASE t \in SignedTypes
    <2>1. PICK h \in Nat \ {0} : MinOf(t) = -h /\ MaxOf(t) = h - 1
      BY <1>2, SignedBounds
    <2>2. IsSigned(t) /\ -h <= a /\ a < h /\ -h <= b /\ b < h
      BY <1>2, <2>1 DEF InRange, SignedTypes
    <2>3. CASE a = -h /\ b = -1
      <3>m. a + h = 0 /\ b + 1 = 0
        BY <2>3
      <3>0. a < 0 /\ b < 0 /\ -a = h /\ -b = 1
        BY <3>m
      <3>1. A = h /\ B = 1
        BY <1>a, <3>0 DEF Abs
      <3>2. s = 0 /\ k = h
        BY <1>1, <1>a, <3>1
      <3>3. q = h /\ r = 0
        <4>1. Neg(a) = Neg(b)
          BY <3>0 DEF Neg
        <4>2. q = k /\ r + s = 0
          BY <1>q, <3>0, <4>1
        <4> QED BY <3>2, <4>2
      <3>4. a = MinOf(t) /\ b = -1
        BY <2>1, <2>3
      <3>5. ~InRange(t, q) /\ InRange(t, r)
        BY <2>1, <3>3 DEF InRange
      <3> QED BY <1>q, <2>2, <3>4, <3>5
    <2>4. CASE ~(a = -h /\ b = -1)
      <3>1. -h <= q /\ q <= h - 1
        <4>1. A <= h
          BY <1>a, <2>2 DEF Abs
        <4>2. CASE Neg(a) # Neg(b)
          BY <1>1, <1>a, <1>q, <4>1, <4>2
        <4>3. CASE Neg(a) = Neg(b) /\ k < h
          BY <1>1, <1>q, <4>3
        <4>4. CASE Neg(a) = Neg(b) /\ k >= h
          <5>1. k = h /\ A = h
            BY <1>1, <1>a, <4>1, <4>4
          <5>2. a = -h /\ b < 0 /\ B = 1
            BY <1>1, <1>a, <2>2, <4>4, <5>1 DEF Abs, Neg
          <5>3. b = -1
            BY <1>a, <5>2 DEF Abs
          <5> QED BY <2>4, <5>2, <5>3
        <4> QED BY <4>2, <4>3, <4>4
      <3>2. -h <= r /\ r <= h - 1
        BY <1>1, <1>a, <1>q, <2>2 DEF Abs
      <3> QED BY <1>q, <2>1, <2>4, <3>1, <3>2 DEF InRange
    <2> QED BY <2>3, <2>4
  <1>3. CASE t \in PlainTypes
    <2>1. PICK m \in Nat \ {0} : MinOf(t) = 0 /\ MaxOf(t) = m - 1
      BY <1>3, PlainBounds
    <2>2. ~IsSigned(t) /\ 0 <= a /\ a < m /\ 0 <= b
      BY <1>3, <2>1 DEF InRange, PlainTypes
    <2>3. Abs(a) = a /\ Neg(a) = Neg(b)
      BY <2>2 DEF Abs, Neg
    <2> QED BY <1>1, <2>1, <2>2, <2>3 DEF InRange
  <1> QED BY <1>2, <1>3, TypesSplit

---------------------------------------------------------------------------
(* Shifts. *)

LEMMA MSBFound ==
    ASSUME NEW t \in Types, NEW n \in Nat, n < 2^Bits(t)
    PROVE  /\ MSB(t, n) \in 0 .. Bits(t) /\ n < 2^MSB(t, n)
           /\ MSB(t, n) > 0 => 2^(MSB(t, n) - 1) <= n
  <1>b. Bits(t) \in Nat /\ Bits(t) <= LongBits
    BY BitsInRange, LongIsNat
  <1> DEFINE Fits(m) == n < 2^m /\ (m > 0 => 2^(m - 1) <= n)
  <1>1. \E m \in 0 .. Bits(t) : Fits(m)
    <2> SUFFICES ASSUME \A m \in 0 .. Bits(t) : ~Fits(m) PROVE FALSE
      OBVIOUS
    <2> DEFINE P == {k \in Nat : k <= Bits(t) => 2^k <= n}
    <2>0. \A k \in 0 .. Bits(t) : 2^k \in Nat
      BY <1>b, LongIsNat, PowerIsNat
    <2>1. 0 \in P
      <3>0. 0 \in 0 .. Bits(t)
        BY <1>b
      <3>1. ~Fits(0)
        BY <3>0
      <3>2. 2^0 = 1
        BY PowerAssumption
      <3> QED BY <3>1, <3>2
    <2>2. ASSUME NEW k \in P PROVE k + 1 \in P
      <3> SUFFICES ASSUME k + 1 <= Bits(t) PROVE 2^(k + 1) <= n
        OBVIOUS
      <3>1. k + 1 \in 0 .. Bits(t) /\ (k + 1) - 1 = k /\ k <= Bits(t)
        BY <1>b
      <3>2. ~Fits(k + 1) /\ 2^k <= n
        BY <3>1
      <3>3. ~(n < 2^(k + 1))
        BY <3>1, <3>2
      <3> QED BY <2>0, <3>1, <3>3
    <2>3. P = Nat
      <3>1. P \subseteq Nat
        OBVIOUS
      <3> HIDE DEF P
      <3> QED BY <2>1, <2>2, <3>1, CountingUp
    <2>4. 2^Bits(t) <= n
      BY <1>b, <2>3
    <2> QED BY <1>b, <2>0, <2>4
  <1>2. MSB(t, n) = CHOOSE m \in 0 .. Bits(t) : Fits(m)
    BY DEF MSB
  <1>3. MSB(t, n) \in 0 .. Bits(t) /\ Fits(MSB(t, n))
    <2> HIDE DEF Fits
    <2> QED BY <1>1, <1>2
  <1> QED BY <1>3
\* Shifting by n moves the most significant bit by n.
LEMMA ShiftedBeyond ==
    ASSUME NEW v \in Nat, NEW m \in Nat, NEW n \in Nat, NEW K \in Nat,
           m - 1 <= K, n <= LongBits, K <= LongBits, m <= LongBits, m = 0 => n <= K,
           v < 2^m, m > 0 => 2^(m - 1) <= v
    PROVE  v * 2^n >= 2^K <=> n + m > K
  <1>l. LongBits \in Nat
    BY LongIsNat
  <1>1. PICK N \in Nat, M \in Nat, S \in Nat : N = 2^n /\ M = 2^m /\ S = 2^K
    BY <1>l, PowerIsNat
  <1>2. CASE n + m <= K
    <2>1. m + n <= LongBits /\ m + n <= K /\ m + n \in Nat
      BY <1>l, <1>2
    <2>2. 2^(m + n) = M * N
      BY <1>1, <2>1, PowerSum
    <2>3. 2^(m + n) <= S
      BY <1>1, <2>1, PowerRises
    <2>4. N \in Nat \ {0}
      BY <1>1, <1>l, PowerIsNat
    <2>5. v < M
      BY <1>1
    <2>6. v * N < M * N
      BY <2>4, <2>5, Z3
    <2>7. M * N <= S
      BY <2>2, <2>3
    <2>8. PICK p \in Int, q \in Int : p = v * N /\ q = M * N
      BY Z3
    <2> QED BY <1>1, <1>2, <2>6, <2>7, <2>8
  <1>3. CASE n + m > K
    <2>1. m > 0
      BY <1>3
    <2>2. PICK j \in Nat, i \in Nat : i = m - 1 /\ j = K - i /\ i + j = K /\ j <= n
      BY <1>3, <2>1
    <2>3. i <= LongBits /\ j <= LongBits /\ 2^i <= v
      BY <1>l, <2>1, <2>2
    <2>4. S = 2^i * 2^j
      BY <1>1, <2>2, PowerSum
    <2>5. 2^j <= N
      BY <1>1, <2>2, PowerRises
    <2>6. PICK I \in Nat, J \in Nat : I = 2^i /\ J = 2^j
      BY <1>l, <2>3, PowerIsNat
    <2>7. I <= v /\ J <= N /\ S = I * J
      BY <2>3, <2>4, <2>5, <2>6
    <2>8. I * J <= v * J
      BY <2>7, Z3
    <2>9. v * J <= v * N
      BY <2>7, Z3
    <2>10. PICK p \in Int, q \in Int, r \in Int : p = I * J /\ q = v * J /\ r = v * N
      BY Z3
    <2> QED BY <1>1, <1>3, <2>7, <2>8, <2>9, <2>10
  <1> QED BY <1>2, <1>3

\* leftShiftOperator: the most significant bit tells exactly whether the result
\* of a signed shift is one that C, or C++, allows.
THEOREM ShiftCheckExact ==
    ASSUME NEW a, a.ty \in SignedTypes, a.v \in Nat, InRange(a.ty, a.v),
           NEW n \in 0 .. (Bits(a.ty) - 1), NEW c \in BOOLEAN
    PROVE  ShiftsOut(c, a, n) <=>
               a.v * 2^n > (IF c THEN MaxOf(a.ty) ELSE 2 * MaxOf(a.ty) + 1)
  <1>1. PICK t, v : t = a.ty /\ v = a.v
    OBVIOUS
  <1>2. t \in SignedTypes /\ t \in Types /\ v \in Nat
    BY <1>1 DEF SignedTypes
  <1>3. PICK h \in Nat \ {0} : /\ 2^Bits(t) = 2 * h /\ 2^(Bits(t) - 1) = h
                               /\ MinOf(t) = -h /\ MaxOf(t) = h - 1
    BY <1>2, SignedBounds
  <1>4. PICK B \in Nat \ {0} : B = Bits(t) /\ B <= LongBits
    BY <1>2, BitsInRange, LongIsNat
  <1>5. v < h /\ v < 2^Bits(t)
    BY <1>1, <1>2, <1>3 DEF InRange
  <1>6. PICK m \in Nat : m = MSB(t, v)
    BY <1>2, <1>4, <1>5, MSBFound
  <1>7. m <= B /\ v < 2^m /\ (m > 0 => 2^(m - 1) <= v)
    BY <1>2, <1>4, <1>5, <1>6, MSBFound
  <1>8. PICK K \in Nat : K = IF c THEN B - 1 ELSE B
    BY <1>4
  <1>9. n \in Nat /\ n <= B - 1
    BY <1>1, <1>4
  <1>10. ShiftsOut(c, a, n) <=> n + m > K
    BY <1>1, <1>4, <1>6, <1>8, <1>9 DEF ShiftsOut
  <1>11. v * 2^n >= 2^K <=> n + m > K
    <2>1. m - 1 <= K /\ n <= LongBits /\ K <= LongBits /\ m <= LongBits /\ n <= K
      BY <1>4, <1>7, <1>8, <1>9, LongIsNat
    <2> QED BY <1>2, <1>7, <1>9, <2>1, ShiftedBeyond
  <1>12. PICK N \in Nat : N = 2^n
    BY <1>4, <1>9, PowerIsNat, LongIsNat
  <1>13. PICK p \in Nat : p = v * N
    BY <1>2, Z3
  <1>14. 2^K = IF c THEN h ELSE 2 * h
    BY <1>3, <1>4, <1>8
  <1> QED BY <1>1, <1>3, <1>10, <1>11, <1>12, <1>13, <1>14

\* A shift to the right stays between zero and the value.
LEMMA ShiftRightInRange ==
    ASSUME NEW t \in Types, NEW v \in Nat, InRange(t, v), NEW n \in 0 .. (Bits(t) - 1)
    PROVE  v \div 2^n \in Int /\ InRange(t, v \div 2^n)
  <1>1. n \in 0 .. LongBits
    BY BitsInRange, LongIsNat
  <1>2. PICK N \in Nat \ {0} : N = 2^n
    BY <1>1, PowerIsNat
  <1>3. PICK q \in Nat, r \in 0 .. (N - 1) : q = v \div N /\ r = v % N /\ v = q * N + r
    BY NatDivision
  <1>4. q <= v
    <2>1. q * N >= q /\ q * N \in Nat
      BY Z3
    <2> QED BY <1>3, <2>1
  <1>5. MinOf(t) \in Int /\ MaxOf(t) \in Int /\ MinOf(t) <= 0
    <2>1. MinOf(t) <= 0
      BY TypesSplit, SignedBounds, PlainBounds, BoolBounds
    <2> QED BY <2>1, BoundsAreInt
  <1>6. MinOf(t) <= q /\ q <= MaxOf(t)
    BY <1>4, <1>5 DEF InRange
  <1> QED BY <1>2, <1>3, <1>6 DEF InRange

---------------------------------------------------------------------------
(* Sums of powers of two, in which FromOnes writes a value.  The sum over a *)
(* set is the last entry of a table over its subsets.                       *)

First(s) == CHOOSE x \in s : TRUE
Rest(s)  == s \ {First(s)}
Sums(D, g) == g = [s \in D |-> IF s = {} THEN 0 ELSE 2^First(s) + g[Rest(s)]]

Peels(D, g) == \A s \in D : \A x \in s : g[s] = 2^x + g[s \ {x}]

LEMMA FirstInSet == \A s : s # {} => First(s) \in s
  BY DEF First

LEMMA SumsExist ==
    ASSUME NEW S, IsFiniteSet(S)
    PROVE  \E g : Sums(SUBSET S, g)
  <1> DEFINE Small(n) == {s \in SUBSET S : Cardinality(s) <= n}
  <1> DEFINE P == {n \in Nat : \E g : Sums(Small(n), g)}
  <1>1. \A s \in SUBSET S : IsFiniteSet(s) /\ Cardinality(s) \in Nat
    BY FS_Subset, FS_CardinalityType
  <1>2. 0 \in P
    <2>1. \A s \in Small(0) : s = {}
      BY <1>1, FS_EmptySet
    <2> DEFINE g == [s \in Small(0) |-> 0]
    <2>2. Sums(Small(0), g)
      BY <2>1 DEF Sums
    <2> QED BY <2>2
  <1>3. ASSUME NEW n \in P PROVE n + 1 \in P
    <2>1. PICK g : Sums(Small(n), g)
      OBVIOUS
    <2> DEFINE h == [s \in Small(n + 1) |-> IF s = {} THEN 0 ELSE 2^First(s) + g[Rest(s)]]
    <2>2. \A s \in Small(n) : s \in Small(n + 1)
      BY <1>1
    <2>3. \A s \in Small(n) : h[s] = g[s]
      BY <2>1, <2>2 DEF Sums
    <2>4. \A s \in Small(n + 1) : s # {} => Rest(s) \in Small(n)
      <3> SUFFICES ASSUME NEW s \in Small(n + 1), s # {} PROVE Rest(s) \in Small(n)
        OBVIOUS
      <3>1. First(s) \in s
        BY FirstInSet
      <3>2. Cardinality(Rest(s)) = Cardinality(s) - 1
        BY <1>1, <3>1, FS_RemoveElement DEF Rest
      <3> QED BY <1>1, <3>2 DEF Rest
    <2>5. Sums(Small(n + 1), h)
      <3>1. h = [s \in Small(n + 1) |-> IF s = {} THEN 0 ELSE 2^First(s) + h[Rest(s)]]
        BY <2>3, <2>4
      <3> HIDE DEF h
      <3> QED BY <3>1 DEF Sums
    <2>6. n + 1 \in Nat
      OBVIOUS
    <2> HIDE DEF h
    <2> QED BY <2>5, <2>6
  <1>4. P = Nat
    <2>1. P \subseteq Nat
      OBVIOUS
    <2> HIDE DEF P
    <2> QED BY <1>2, <1>3, <2>1, CountingUp
  <1>5. Cardinality(S) \in P
    BY <1>1, <1>4
  <1>6. Small(Cardinality(S)) = SUBSET S
    BY <1>1, FS_Subset
  <1> QED BY <1>5, <1>6

LEMMA SumUnfolds ==
    ASSUME NEW S, IsFiniteSet(S)
    PROVE  \E g : Sums(SUBSET S, g) /\ MapThenSumSet(LAMBDA i : 2^i, S) = g[S]
  <1> DEFINE iter == CHOOSE g : Sums(SUBSET S, g)
  <1>1. Sums(SUBSET S, iter)
    BY SumsExist
  <1>2. MapThenSumSet(LAMBDA i : 2^i, S) = iter[S]
    BY Zenon DEF MapThenSumSet, MapThenFoldSet, Sums, First, Rest
  <1> QED BY <1>1, <1>2

\* Any element can be summed first.
LEMMA SumsOfPowers ==
    ASSUME NEW S, S \subseteq 0 .. LongBits, IsFiniteSet(S), NEW g, Sums(SUBSET S, g)
    PROVE  /\ g[{}] = 0
           /\ \A s \in SUBSET S : g[s] \in Nat
           /\ Peels(SUBSET S, g)
  <1> DEFINE Fine(s) == g[s] \in Nat /\ \A x \in s : g[s] = 2^x + g[s \ {x}]
  <1> DEFINE P == {n \in Nat : \A s \in SUBSET S : Cardinality(s) <= n => Fine(s)}
  <1>1. \A s \in SUBSET S : IsFiniteSet(s) /\ Cardinality(s) \in Nat
    BY FS_Subset, FS_CardinalityType
  <1>2. g[{}] = 0
    BY DEF Sums
  <1>3. \A s \in SUBSET S : s # {} => g[s] = 2^First(s) + g[Rest(s)]
    BY DEF Sums
  <1>4. 0 \in P
    <2>1. \A s \in SUBSET S : Cardinality(s) <= 0 => s = {}
      BY <1>1, FS_EmptySet
    <2>2. Fine({})
      BY <1>2
    <2> HIDE DEF Fine
    <2>3. \A s \in SUBSET S : Cardinality(s) <= 0 => Fine(s)
      BY <2>1, <2>2
    <2> QED BY <2>3
  <1>5. ASSUME NEW n \in P PROVE n + 1 \in P
    <2> SUFFICES ASSUME NEW s \in SUBSET S, Cardinality(s) <= n + 1 PROVE Fine(s)
      OBVIOUS
    <2>1. CASE s = {}
      BY <1>2, <2>1
    <2>2. CASE s # {}
      <3>1. PICK f \in s : f = First(s)
        BY <2>2, FirstInSet
      <3>2. \A x \in s : Cardinality(s \ {x}) = Cardinality(s) - 1
        BY <1>1, FS_RemoveElement
      <3>3. \A x \in s : s \ {x} \in SUBSET S /\ Cardinality(s \ {x}) <= n
        BY <1>1, <3>2
      <3>4. \A x \in s : Fine(s \ {x})
        BY <3>3
      <3>5. g[s] = 2^f + g[s \ {f}]
        BY <1>3, <2>2, <3>1 DEF Rest
      <3>6. \A x \in s : 2^x \in Nat
        BY PowerIsNat
      <3>7. g[s] \in Nat
        <4>1. PICK y, z : y \in Nat /\ y = 2^f /\ z = g[s \ {f}] /\ z \in Nat
          BY <3>1, <3>4, <3>6
        <4> QED BY <3>5, <4>1
      <3>8. ASSUME NEW x \in s, x # f PROVE g[s] = 2^x + g[s \ {x}]
        <4>1. x \in s \ {f} /\ f \in s \ {x}
          BY <3>1, <3>8
        <4>2. g[s \ {f}] = 2^x + g[(s \ {f}) \ {x}]
          BY <3>1, <3>4, <4>1
        <4>3. g[s \ {x}] = 2^f + g[(s \ {x}) \ {f}]
          BY <3>4, <3>8, <4>1
        <4>4. (s \ {f}) \ {x} = (s \ {x}) \ {f}
          OBVIOUS
        <4>5. (s \ {f}) \ {x} \in SUBSET S /\ Cardinality((s \ {f}) \ {x}) <= n
          <5>1. Cardinality((s \ {f}) \ {x}) = Cardinality(s \ {f}) - 1
            BY <1>1, <3>1, <3>3, <4>1, FS_RemoveElement
          <5>2. Cardinality(s \ {f}) \in Nat /\ Cardinality(s \ {f}) <= n /\ n \in Nat
            BY <1>1, <3>1, <3>3
          <5>3. Cardinality((s \ {f}) \ {x}) <= n
            BY <5>1, <5>2
          <5> QED BY <5>3
        <4>6. Fine((s \ {f}) \ {x})
          BY <4>5
        <4>7. PICK y, z, u : /\ y \in Nat /\ y = 2^f /\ z \in Nat /\ z = 2^x
                             /\ u \in Nat /\ u = g[(s \ {f}) \ {x}]
          BY <3>1, <3>6, <3>8, <4>6
        <4>8. g[s] = y + (z + u) /\ g[s \ {x}] = y + u
          BY <3>5, <4>2, <4>3, <4>4, <4>7
        <4> QED BY <4>7, <4>8
      <3> QED BY <3>1, <3>5, <3>7, <3>8
    <2> QED BY <2>1, <2>2
  <1>6. P = Nat
    <2>1. P \subseteq Nat
      OBVIOUS
    <2> HIDE DEF P
    <2> QED BY <1>4, <1>5, <2>1, CountingUp
  <1>7. \A s \in SUBSET S : Fine(s)
    BY <1>1, <1>6
  <1> QED BY <1>2, <1>7 DEF Peels

LEMMA OnesAddUp ==
    ASSUME NEW S, S \subseteq 0 .. LongBits
    PROVE  MapThenSumSet(LAMBDA i : 2^i, S) \in Nat
  <1>1. IsFiniteSet(S)
    <2>1. IsFiniteSet(0 .. LongBits)
      BY LongIsNat, FS_Interval
    <2> QED BY <2>1, FS_Subset
  <1>2. PICK g : Sums(SUBSET S, g) /\ MapThenSumSet(LAMBDA i : 2^i, S) = g[S]
    BY <1>1, SumUnfolds
  <1>3. g[S] \in Nat
    BY <1>1, <1>2, SumsOfPowers
  <1> QED BY <1>2, <1>3

\* Halving a shifted number shifts it once more.
LEMMA HalveAgain ==
    ASSUME NEW N \in Nat \ {0}, NEW a \in Int
    PROVE  \E q \in Int, p \in Int, b \in {0, 1} :
              q = a \div N /\ p = a \div (2 * N) /\ b = q % 2 /\ q = 2 * p + b
  <1>1. PICK q \in Int, r \in 0 .. (N - 1) : q = a \div N /\ a = q * N + r
    BY Division
  <1>2. PICK p, b : p \in Int /\ b \in {0, 1} /\ p = q \div 2 /\ b = q % 2 /\ q = 2 * p + b
    BY <1>1
  <1>3. PICK M, s : M \in Nat \ {0} /\ M = 2 * N /\ s \in 0 .. (M - 1) /\ s = b * N + r
    BY <1>1, <1>2
  <1>4. p * M = (2 * p) * N
    BY <1>2, <1>3
  <1>5. a = p * M + s
    <2>1. q * N = (2 * p) * N + b * N
      BY <1>2
    <2> QED BY <1>1, <1>2, <1>3, <1>4, <2>1
  <1>6. (p * M + s) \div M = p
    BY <1>2, <1>3, OneDivision
  <1>7. p = a \div (2 * N)
    BY <1>3, <1>5, <1>6
  <1> QED BY <1>1, <1>2, <1>7

\* The complement of a number, read off its zeroes.
LEMMA ZeroesAddUp ==
    ASSUME NEW a \in Int, NEW B \in 0 .. LongBits
    PROVE  \E q \in Int : MapThenSumSet(LAMBDA i : 2^i,
                                         {i \in 0 .. (B - 1) : (a \div 2^i) % 2 # 1})
                             = (-a - 1) + q * 2^B
  <1> DEFINE Zero(i) == (a \div 2^i) % 2 # 1
  <1> DEFINE S == {i \in 0 .. (B - 1) : Zero(i)}
  <1> DEFINE Low(k) == {i \in 0 .. (k - 1) : Zero(i)}
  <1>l. LongBits \in Nat /\ B \in Nat /\ B <= LongBits
    BY LongIsNat
  <1>1. IsFiniteSet(S) /\ S \subseteq 0 .. LongBits
    <2>1. S \subseteq 0 .. LongBits
      BY <1>l
    <2> HIDE DEF S
    <2>2. IsFiniteSet(0 .. LongBits)
      BY <1>l, FS_Interval
    <2> QED BY <2>1, <2>2, FS_Subset
  <1>2. PICK g : Sums(SUBSET S, g) /\ MapThenSumSet(LAMBDA i : 2^i, S) = g[S]
    <2> HIDE DEF S
    <2> QED BY <1>1, SumUnfolds
  <1>3. /\ g[{}] = 0
        /\ \A s \in SUBSET S : g[s] \in Nat
        /\ \A s \in SUBSET S : \A x \in s : g[s] = 2^x + g[s \ {x}]
    <2>1. Sums(SUBSET S, g)
      BY <1>2
    <2> HIDE DEF S
    <2>2. g[{}] = 0 /\ \A s \in SUBSET S : g[s] \in Nat
      BY <1>1, <2>1, SumsOfPowers
    <2>3. \A s \in SUBSET S : \A x \in s : g[s] = 2^x + g[s \ {x}]
      <3>1. Peels(SUBSET S, g)
        BY <1>1, <2>1, SumsOfPowers
      <3> QED BY <3>1 DEF Peels
    <2> QED BY <2>2, <2>3
  <1> DEFINE P == {k \in Nat : k <= B => g[Low(k)] = (-a - 1) + ((a \div 2^k) + 1) * 2^k}
  <1>4. 0 \in P
    <2>1. Low(0) = {}
      OBVIOUS
    <2>2. 2^0 = 1 /\ a \div 1 = a
      BY PowerAssumption
    <2> QED BY <1>3, <2>1, <2>2
  <1>5. ASSUME NEW k \in P PROVE k + 1 \in P
    <2> SUFFICES ASSUME k + 1 <= B
                 PROVE  g[Low(k + 1)] = (-a - 1) + ((a \div 2^(k + 1)) + 1) * 2^(k + 1)
      OBVIOUS
    <2>1. k \in Nat /\ k \in 0 .. LongBits /\ k \in 0 .. (LongBits - 1) /\ k <= B
      BY <1>l
    <2>2. PICK N \in Nat \ {0} : N = 2^k
      BY <2>1, PowerIsNat
    <2>3. 2^(k + 1) = 2 * N
      BY <2>1, <2>2, PowerDoubles
    <2>4. PICK q \in Int, p \in Int, b \in {0, 1} :
            q = a \div N /\ p = a \div (2 * N) /\ b = q % 2 /\ q = 2 * p + b
      BY HalveAgain
    <2>5. g[Low(k)] = (-a - 1) + (q + 1) * N
      BY <2>1, <2>2, <2>4
    <2>6. Low(k + 1) \in SUBSET S /\ Low(k) = Low(k + 1) \ {k}
      BY <1>l, <2>1
    <2>7. Zero(k) <=> b = 0
      BY <2>2, <2>4
    <2>8. CASE b = 0
      <3>1. k \in Low(k + 1)
        BY <2>1, <2>7, <2>8
      <3>2. g[Low(k + 1)] = N + g[Low(k)]
        <4>1. PICK s : s = Low(k + 1) /\ s \in SUBSET S /\ k \in s /\ s \ {k} = Low(k)
          BY <2>6, <3>1
        <4> HIDE DEF Low, S, P
        <4>2. g[s] = 2^k + g[s \ {k}]
          BY <1>3, <4>1
        <4> QED BY <2>2, <4>1, <4>2
      <3>3. q = 2 * p
        BY <2>4, <2>8
      <3>4. PICK w \in Int : w = p * N
        BY Z3
      <3>5. (q + 1) * N = 2 * w + N /\ (p + 1) * (2 * N) = 2 * w + 2 * N
        BY <3>3, <3>4, Z3
      <3>6. a \div 2^(k + 1) = p
        BY <2>3, <2>4
      <3>7. g[Low(k + 1)] = (-a - 1) + (p + 1) * (2 * N)
        <4> HIDE DEF Low
        <4> QED BY <2>4, <2>5, <3>2, <3>4, <3>5
      <3> QED BY <2>3, <3>6, <3>7
    <2>9. CASE b = 1
      <3>1. k \notin Low(k + 1)
        BY <2>7, <2>9
      <3> HIDE DEF Low
      <3>4. Low(k + 1) = Low(k)
        BY <2>6, <3>1
      <3>2. q = 2 * p + 1
        BY <2>4, <2>9
      <3>3. (q + 1) * N = (p + 1) * (2 * N)
        BY ONLY <3>2, <2>4, N \in Nat, a \in Int
      <3> QED BY <2>3, <2>4, <2>5, <3>4, <3>3
    <2> QED BY <2>4, <2>8, <2>9
  <1>6. P = Nat
    <2>1. P \subseteq Nat
      OBVIOUS
    <2> HIDE DEF P
    <2> QED BY <1>4, <1>5, <2>1, CountingUp
  <1>7. g[Low(B)] = (-a - 1) + ((a \div 2^B) + 1) * 2^B
    <2>1. B \in P
      <3> HIDE DEF P
      <3> QED BY <1>6, <1>l
    <2> QED BY <2>1, <1>l
  <1>8. PICK N \in Nat \ {0} : N = 2^B
    BY PowerIsNat
  <1>9. (a \div N) + 1 \in Int
    OBVIOUS
  <1> QED BY <1>2, <1>7, <1>8, <1>9

\* Multiples of 2^Bits do not matter to a conversion.
LEMMA WrapPeriodic ==
    ASSUME NEW t \in Types \ {"BOOL"}, NEW x \in Int, NEW q \in Int
    PROVE  Wrap(t, x + q * 2^Bits(t)) = Wrap(t, x)
  <1>1. CASE t \in SignedTypes
    <2>1. PICK h \in Nat \ {0} : 2^Bits(t) = 2 * h /\ MinOf(t) = -h
      BY <1>1, SignedBounds
    <2>2. PICK m, y : m \in Nat \ {0} /\ m = 2^Bits(t) /\ y \in Int /\ y = x - MinOf(t)
      BY <2>1
    <2>3. (y + q * m) % m = y % m
      BY <2>2, SameRemainder
    <2>4. (x + q * m) - MinOf(t) = y + q * m
      BY <2>1, <2>2
    <2> QED BY <1>1, <2>2, <2>3, <2>4 DEF Wrap, SignedTypes
  <1>2. CASE t \in PlainTypes
    <2>1. PICK m \in Nat \ {0} : 2^Bits(t) = m
      BY <1>2, PlainBounds
    <2>2. (x + q * m) % m = x % m
      BY SameRemainder
    <2> QED BY <1>2, <2>1, <2>2 DEF Wrap, PlainTypes
  <1> QED BY <1>1, <1>2, TypesSplit

---------------------------------------------------------------------------
(* Values, and what the operators of ir_value.cpp make of them.            *)

ArithTypes == {"INT", "UINT", "LLONG", "ULLONG"}
Values == {a \in [ty : Types, v : Int, ub : UBKinds] : InRange(a.ty, a.v)}

\* r is a value of type t; if it is defined, it is what m says.
Denotes(r, t, m) == r \in Values /\ r.ty = t /\ (~HasUB(r) => m = {r.v})

LEMMA ArithTypeFacts ==
    ASSUME NEW t \in ArithTypes
    PROVE  /\ t \in Types /\ t \in Types \ {"BOOL"} /\ t # "BOOL"
           /\ IsSigned(t) => t \in SignedTypes /\ t \in {"INT", "LLONG"}
           /\ ~IsSigned(t) => t \in PlainTypes
  BY DEF ArithTypes, Types, SignedTypes, PlainTypes, IsSigned

LEMMA ZeroInRange == \A t \in Types : InRange(t, 0)
  <1> SUFFICES ASSUME NEW t \in Types PROVE MinOf(t) <= 0 /\ 0 <= MaxOf(t)
    BY DEF InRange
  <1>1. t \in SignedTypes => MinOf(t) <= 0 /\ 0 <= MaxOf(t)
    BY SignedBounds
  <1>2. t \in PlainTypes => MinOf(t) <= 0 /\ 0 <= MaxOf(t)
    BY PlainBounds
  <1> QED BY <1>1, <1>2, BoolBounds, TypesSplit

LEMMA ValueFacts ==
    ASSUME NEW a \in Values
    PROVE  /\ a.ty \in Types /\ a.v \in Int /\ a.ub \in UBKinds /\ InRange(a.ty, a.v)
           /\ Wrap(a.ty, a.v) = a.v
           /\ ~HasUB(a) => a = Val(a.ty, a.v)
  <1>1. /\ a.ty \in Types /\ a.v \in Int /\ a.ub \in UBKinds /\ InRange(a.ty, a.v)
        /\ a = [ty |-> a.ty, v |-> a.v, ub |-> a.ub]
    BY DEF Values
  <1>2. Wrap(a.ty, a.v) = a.v
    BY <1>1, WrapKeeps
  <1> QED BY <1>1, <1>2 DEF HasUB, Val

LEMMA ValDenotes ==
    ASSUME NEW t \in Types, NEW x \in Int
    PROVE  /\ Denotes(Val(t, x), t, {Wrap(t, x)})
           /\ ~HasUB(Val(t, x)) /\ Val(t, x).v = Wrap(t, x)
  BY WrapInRange DEF Denotes, Values, Val, HasUB, UBKinds

LEMMA BadDenotes ==
    ASSUME NEW t \in Types, NEW kind \in UBKinds \ {"NoUB"}, NEW m
    PROVE  Denotes(Bad(t, kind), t, m) /\ HasUB(Bad(t, kind)) /\ Bad(t, kind).v = 0
  BY ZeroInRange DEF Denotes, Values, Bad, HasUB

LEMMA GuardedDenotes ==
    ASSUME NEW t \in Types, NEW S, NEW r, NEW m,
           (\A x \in S : ~HasUB(x)) => Denotes(r, t, m)
    PROVE  /\ Denotes(Guarded(t, S, r), t, m)
           /\ ~HasUB(Guarded(t, S, r)) => \A x \in S : ~HasUB(x)
           /\ (\A x \in S : ~HasUB(x)) => Guarded(t, S, r) = r
  <1>1. "Uninit" \in UBKinds \ {"NoUB"}
    BY DEF UBKinds
  <1>2. Denotes(Bad(t, "Uninit"), t, m) /\ HasUB(Bad(t, "Uninit"))
    BY <1>1, BadDenotes
  <1> QED BY <1>2 DEF Guarded

\* Exact results of a type without overflow, or of one that wraps around.
LEMMA ExactVal ==
    ASSUME NEW t \in Types, NEW x \in Int, IsSigned(t) => InRange(t, x)
    PROVE  Denotes(Val(t, x), t, Exact(t, x))
  BY ValDenotes DEF Exact

-----------------------------------------------------------------------------
(* Arithmetic.                                                             *)

LEMMA AddDenotes ==
    ASSUME NEW a \in Values, NEW b \in Values, a.ty \in ArithTypes, b.ty = a.ty
    PROVE  /\ Denotes(Add(a, b), a.ty, Exact(a.ty, a.v + b.v))
           /\ ~HasUB(Add(a, b)) => ~HasUB(a) /\ ~HasUB(b)
  <1> DEFINE t == a.ty
  <1> DEFINE m == Exact(t, a.v + b.v)
  <1> DEFINE r == IF IsSigned(t) /\ AddOverflows(t, a.v, b.v) THEN Bad(t, "SignOvf")
                  ELSE Val(t, a.v + b.v)
  <1>1. /\ t \in Types /\ a.v \in Int /\ b.v \in Int /\ a.v + b.v \in Int
        /\ InRange(t, a.v) /\ InRange(t, b.v) /\ (IsSigned(t) => t \in SignedTypes)
    BY ValueFacts, ArithTypeFacts
  <1>2. Denotes(r, t, m)
    <2>1. "SignOvf" \in UBKinds \ {"NoUB"}
      BY DEF UBKinds
    <2>2. Denotes(Bad(t, "SignOvf"), t, m)
      BY <1>1, <2>1, BadDenotes
    <2>3. IsSigned(t) /\ ~AddOverflows(t, a.v, b.v) => InRange(t, a.v + b.v)
      BY <1>1, AddCheckExact
    <2>4. ~(IsSigned(t) /\ AddOverflows(t, a.v, b.v)) => Denotes(Val(t, a.v + b.v), t, m)
      BY <1>1, <2>3, ExactVal
    <2> QED BY <2>2, <2>4
  <1>3. Add(a, b) = Guarded(t, {a, b}, r)
    BY DEF Add
  <1> HIDE DEF t, m, r
  <1>4. Denotes(Guarded(t, {a, b}, r), t, m)
    BY <1>1, <1>2, GuardedDenotes
  <1>5. ~HasUB(Guarded(t, {a, b}, r)) => \A x \in {a, b} : ~HasUB(x)
    BY <1>1, <1>2, GuardedDenotes
  <1> QED BY <1>3, <1>4, <1>5 DEF t, m

LEMMA SubDenotes ==
    ASSUME NEW a \in Values, NEW b \in Values, a.ty \in ArithTypes, b.ty = a.ty
    PROVE  /\ Denotes(Sub(a, b), a.ty, Exact(a.ty, a.v - b.v))
           /\ ~HasUB(Sub(a, b)) => ~HasUB(a) /\ ~HasUB(b)
  <1> DEFINE t == a.ty
  <1> DEFINE m == Exact(t, a.v - b.v)
  <1> DEFINE r == IF IsSigned(t) /\ SubOverflows(t, a.v, b.v) THEN Bad(t, "SignOvf")
                  ELSE Val(t, a.v - b.v)
  <1>1. /\ t \in Types /\ a.v \in Int /\ b.v \in Int /\ a.v - b.v \in Int
        /\ InRange(t, a.v) /\ InRange(t, b.v) /\ (IsSigned(t) => t \in SignedTypes)
    BY ValueFacts, ArithTypeFacts
  <1>2. Denotes(r, t, m)
    <2>1. "SignOvf" \in UBKinds \ {"NoUB"}
      BY DEF UBKinds
    <2>2. Denotes(Bad(t, "SignOvf"), t, m)
      BY <1>1, <2>1, BadDenotes
    <2>3. IsSigned(t) /\ ~SubOverflows(t, a.v, b.v) => InRange(t, a.v - b.v)
      BY <1>1, SubCheckExact
    <2>4. ~(IsSigned(t) /\ SubOverflows(t, a.v, b.v)) => Denotes(Val(t, a.v - b.v), t, m)
      BY <1>1, <2>3, ExactVal
    <2> QED BY <2>2, <2>4
  <1>3. Sub(a, b) = Guarded(t, {a, b}, r)
    BY DEF Sub
  <1> HIDE DEF t, m, r
  <1>4. Denotes(Guarded(t, {a, b}, r), t, m)
    BY <1>1, <1>2, GuardedDenotes
  <1>5. ~HasUB(Guarded(t, {a, b}, r)) => \A x \in {a, b} : ~HasUB(x)
    BY <1>1, <1>2, GuardedDenotes
  <1> QED BY <1>3, <1>4, <1>5 DEF t, m

LEMMA MinusDenotes ==
    ASSUME NEW a \in Values, a.ty \in ArithTypes
    PROVE  /\ Denotes(Minus(a), a.ty, Exact(a.ty, -a.v))
           /\ ~HasUB(Minus(a)) => ~HasUB(a)
  <1> DEFINE t == a.ty
  <1> DEFINE m == Exact(t, -a.v)
  <1> DEFINE r == IF IsSigned(t) /\ a.v = MinOf(t) THEN Bad(t, "SignOvf") ELSE Val(t, -a.v)
  <1>1. /\ t \in Types /\ a.v \in Int /\ InRange(t, a.v)
        /\ (IsSigned(t) => t \in SignedTypes)
    BY ValueFacts, ArithTypeFacts
  <1>2. PICK v \in Int, n \in Int : v = a.v /\ n = -v
    BY <1>1
  <1>3. Denotes(r, t, m)
    <2>1. "SignOvf" \in UBKinds \ {"NoUB"}
      BY DEF UBKinds
    <2>2. Denotes(Bad(t, "SignOvf"), t, m)
      BY <1>1, <2>1, BadDenotes
    <2>3. IsSigned(t) /\ v # MinOf(t) => InRange(t, n)
      <3> SUFFICES ASSUME IsSigned(t), v # MinOf(t) PROVE InRange(t, n)
        OBVIOUS
      <3>1. PICK h \in Nat \ {0} : MinOf(t) = -h /\ MaxOf(t) = h - 1
        BY <1>1, SignedBounds
      <3> QED BY <1>1, <1>2, <3>1 DEF InRange
    <2>4. ~(IsSigned(t) /\ v = MinOf(t)) => Denotes(Val(t, n), t, Exact(t, n))
      BY <1>1, <1>2, <2>3, ExactVal
    <2> QED BY <1>2, <2>2, <2>4
  <1>4. Minus(a) = Guarded(t, {a}, r)
    BY DEF Minus
  <1> HIDE DEF t, m, r
  <1>5. Denotes(Guarded(t, {a}, r), t, m)
    BY <1>1, <1>3, GuardedDenotes
  <1>6. ~HasUB(Guarded(t, {a}, r)) => \A x \in {a} : ~HasUB(x)
    BY <1>1, <1>3, GuardedDenotes
  <1> QED BY <1>4, <1>5, <1>6 DEF t, m

LEMMA MulDenotes ==
    ASSUME NEW a \in Values, NEW b \in Values, a.ty \in ArithTypes, b.ty = a.ty
    PROVE  /\ Denotes(Mul(a, b), a.ty, Exact(a.ty, a.v * b.v))
           /\ ~HasUB(Mul(a, b)) => ~HasUB(a) /\ ~HasUB(b)
  <1> DEFINE t == a.ty
  <1> DEFINE m == Exact(t, a.v * b.v)
  <1> DEFINE r == IF IsSigned(t) /\ MinAndMinusOne(t, a.v, b.v) THEN Bad(t, "SignOvfMin")
                  ELSE IF IsSigned(t) /\ ~MulFits(t, a.v, b.v) THEN Bad(t, "SignOvf")
                  ELSE Val(t, a.v * b.v)
  <1>1. /\ t \in Types /\ a.v \in Int /\ b.v \in Int
        /\ InRange(t, a.v) /\ InRange(t, b.v) /\ (IsSigned(t) => t \in {"INT", "LLONG"})
    BY ValueFacts, ArithTypeFacts
  <1>2. PICK p \in Int : p = a.v * b.v
    BY <1>1
  <1>3. Denotes(r, t, m)
    <2>1. {"SignOvf", "SignOvfMin"} \subseteq UBKinds \ {"NoUB"}
      BY DEF UBKinds
    <2>2. Denotes(Bad(t, "SignOvf"), t, m) /\ Denotes(Bad(t, "SignOvfMin"), t, m)
      BY <1>1, <2>1, BadDenotes
    <2>3. IsSigned(t) /\ MulFits(t, a.v, b.v) => InRange(t, p)
      BY <1>1, <1>2, MulCheckExact
    <2>4. ~(IsSigned(t) /\ ~MulFits(t, a.v, b.v)) => Denotes(Val(t, p), t, Exact(t, p))
      BY <1>1, <1>2, <2>3, ExactVal
    <2> QED BY <1>2, <2>2, <2>4
  <1>4. Mul(a, b) = Guarded(t, {a, b}, r)
    BY DEF Mul
  <1> HIDE DEF t, m, r
  <1>5. Denotes(Guarded(t, {a, b}, r), t, m)
    BY <1>1, <1>3, GuardedDenotes
  <1>6. ~HasUB(Guarded(t, {a, b}, r)) => \A x \in {a, b} : ~HasUB(x)
    BY <1>1, <1>3, GuardedDenotes
  <1> QED BY <1>4, <1>5, <1>6 DEF t, m

\* Quotient or remainder, whichever the result x is.
LEMMA DivModDenotes ==
    ASSUME NEW a \in Values, NEW b \in Values, a.ty \in ArithTypes, b.ty = a.ty,
           NEW x, x \in {Quotient(a.v, b.v), Remainder(a.v, b.v)}
    PROVE  /\ Denotes(DivMod(a, b, x), a.ty,
                      IF b.v = 0 \/ ~InRange(a.ty, Quotient(a.v, b.v)) THEN {} ELSE {x})
           /\ ~HasUB(DivMod(a, b, x)) => ~HasUB(a) /\ ~HasUB(b)
  <1> DEFINE t == a.ty
  <1> DEFINE m == IF b.v = 0 \/ ~InRange(a.ty, Quotient(a.v, b.v)) THEN {} ELSE {x}
  <1> DEFINE r == IF b.v = 0 THEN Bad(t, "ZeroDiv")
                  ELSE IF IsSigned(t) /\ MinAndMinusOne(t, a.v, b.v) THEN Bad(t, "SignOvf")
                  ELSE Val(t, x)
  <1>1. /\ t \in Types /\ t # "BOOL" /\ a.v \in Int /\ b.v \in Int
        /\ InRange(t, a.v) /\ InRange(t, b.v)
    BY ValueFacts, ArithTypeFacts
  <1>2. Denotes(r, t, m)
    <2>1. {"SignOvf", "ZeroDiv"} \subseteq UBKinds \ {"NoUB"}
      BY DEF UBKinds
    <2>2. Denotes(Bad(t, "SignOvf"), t, m) /\ Denotes(Bad(t, "ZeroDiv"), t, m)
      BY <1>1, <2>1, BadDenotes
    <2>3. ASSUME b.v # 0, ~(IsSigned(t) /\ MinAndMinusOne(t, a.v, b.v))
          PROVE  Denotes(Val(t, x), t, m)
      <3>1. InRange(t, Quotient(a.v, b.v))
        <4>1. InRange(t, Quotient(a.v, b.v)) <=> ~(IsSigned(t) /\ a.v = MinOf(t) /\ b.v = -1)
          BY <1>1, <2>3, DivCheckSound
        <4>2. ~(IsSigned(t) /\ a.v = MinOf(t) /\ b.v = -1)
          BY <2>3, Zenon DEF MinAndMinusOne
        <4> QED BY <4>1, <4>2
      <3>2. /\ InRange(t, Remainder(a.v, b.v))
            /\ Quotient(a.v, b.v) \in Int /\ Remainder(a.v, b.v) \in Int
        BY <1>1, <2>3, DivCheckSound
      <3>3. x \in Int /\ InRange(t, x)
        BY <3>1, <3>2
      <3>4. Wrap(t, x) = x
        BY <1>1, <3>3, WrapKeeps
      <3>5. m = {x}
        BY <2>3, <3>1
      <3> HIDE DEF m
      <3> QED BY <1>1, <3>3, <3>4, <3>5, ValDenotes
    <2> QED BY <2>2, <2>3
  <1>3. DivMod(a, b, x) = Guarded(t, {a, b}, r)
    BY DEF DivMod
  <1> HIDE DEF t, m, r
  <1>4. Denotes(Guarded(t, {a, b}, r), t, m)
    BY <1>1, <1>2, GuardedDenotes
  <1>5. ~HasUB(Guarded(t, {a, b}, r)) => \A y \in {a, b} : ~HasUB(y)
    BY <1>1, <1>2, GuardedDenotes
  <1> QED BY <1>3, <1>4, <1>5 DEF t, m

-----------------------------------------------------------------------------
(* Comparisons, logical and bitwise operators, casts.                      *)

LEMMA CompareDenotes ==
    ASSUME NEW a, NEW b, NEW holds
    PROVE  /\ Compare(a, b, holds) \in Values /\ Compare(a, b, holds).ty = "BOOL"
           /\ ~HasUB(Compare(a, b, holds)) <=> ~HasUB(a) /\ ~HasUB(b)
           /\ ~HasUB(a) /\ ~HasUB(b) => Compare(a, b, holds).v = Truth(holds)
           /\ HasUB(a) \/ HasUB(b) => Compare(a, b, holds).v = 0
  <1>1. "BOOL" \in Types /\ Truth(holds) \in {0, 1} /\ "Uninit" \in UBKinds \ {"NoUB"}
    BY DEF Types, Truth, UBKinds
  <1>2. Wrap("BOOL", Truth(holds)) = Truth(holds)
    BY <1>1 DEF Wrap
  <1>3. /\ Denotes(Val("BOOL", Truth(holds)), "BOOL", {Truth(holds)})
        /\ ~HasUB(Val("BOOL", Truth(holds))) /\ Val("BOOL", Truth(holds)).v = Truth(holds)
    BY <1>1, <1>2, ValDenotes
  <1>4. /\ Denotes(Bad("BOOL", "Uninit"), "BOOL", {}) /\ HasUB(Bad("BOOL", "Uninit"))
        /\ Bad("BOOL", "Uninit").v = 0
    BY <1>1, BadDenotes
  <1> QED BY <1>3, <1>4 DEF Compare, Guarded, Denotes

\* The positions of ones, whatever set of them is taken, make a value.
LEMMA FromOnesDenotes ==
    ASSUME NEW t \in Types, NEW S, S \subseteq 0 .. (Bits(t) - 1)
    PROVE  Denotes(FromOnes(t, S), t, {FromOnes(t, S).v}) /\ ~HasUB(FromOnes(t, S))
  <1>1. S \subseteq 0 .. LongBits
    BY BitsInRange, LongIsNat
  <1> DEFINE n == MapThenSumSet(LAMBDA i : 2^i, S)
  <1>2. n \in Nat
    BY <1>1, OnesAddUp
  <1>3. FromOnes(t, S) = Val(t, n)
    BY DEF FromOnes
  <1> HIDE DEF n
  <1>4. FromOnes(t, S) = Val(t, n) /\ n \in Int
    BY <1>2, <1>3
  <1> QED BY <1>4, ValDenotes

LEMMA BitOpDenotes ==
    ASSUME NEW a \in Values, NEW b \in Values, NEW S, S \subseteq Ones(a) \cup Ones(b), b.ty = a.ty
    PROVE  LET r == Guarded(a.ty, {a, b}, FromOnes(a.ty, S))
           IN  /\ Denotes(r, a.ty, {r.v}) /\ (~HasUB(r) <=> ~HasUB(a) /\ ~HasUB(b))
  <1>1. a.ty \in Types /\ S \subseteq 0 .. (Bits(a.ty) - 1)
    BY ValueFacts DEF Ones
  <1>2. /\ Denotes(FromOnes(a.ty, S), a.ty, {FromOnes(a.ty, S).v})
        /\ ~HasUB(FromOnes(a.ty, S))
    BY <1>1, FromOnesDenotes
  <1>3. Bad(a.ty, "Uninit") \in Values /\ Bad(a.ty, "Uninit").ty = a.ty /\ HasUB(Bad(a.ty, "Uninit"))
    <2>1. "Uninit" \in UBKinds \ {"NoUB"}
      BY DEF UBKinds
    <2> QED BY <1>1, <2>1, BadDenotes DEF Denotes
  <1> QED BY <1>2, <1>3 DEF Guarded, Denotes

\* The complement of the ones of a is -a - 1, as a value of its type.
LEMMA BitNotDenotes ==
    ASSUME NEW a \in Values, a.ty \in ArithTypes
    PROVE  /\ Denotes(BitNot(a), a.ty, {Wrap(a.ty, -a.v - 1)})
           /\ ~HasUB(BitNot(a)) <=> ~HasUB(a)
  <1> DEFINE S == {i \in 0 .. (Bits(a.ty) - 1) : (a.v \div 2^i) % 2 # 1}
  <1>1. /\ a.ty \in Types \ {"BOOL"} /\ a.ty \in Types /\ a.v \in Int
        /\ Bits(a.ty) \in 0 .. LongBits
    BY ValueFacts, ArithTypeFacts, BitsInRange, LongIsNat
  <1>2. (0 .. Bits(a.ty) - 1) \ Ones(a) = S
    BY DEF Ones
  <1>3. PICK q \in Int : MapThenSumSet(LAMBDA i : 2^i, S) = (-a.v - 1) + q * 2^Bits(a.ty)
    BY <1>1, ZeroesAddUp
  <1>4. PICK x \in Int : x = -a.v - 1
    BY <1>1
  <1>5. PICK y \in Int : y = x + q * 2^Bits(a.ty)
    <2>1. PICK N \in Nat : N = 2^Bits(a.ty)
      BY <1>1, PowerIsNat
    <2>2. PICK w \in Int : w = q * N
      BY Z3
    <2> QED BY <1>4, <2>1, <2>2
  <1>6. Wrap(a.ty, y) = Wrap(a.ty, x)
    BY <1>1, <1>5, WrapPeriodic
  <1>7. FromOnes(a.ty, (0 .. Bits(a.ty) - 1) \ Ones(a)) = Val(a.ty, y)
    <2> HIDE DEF S
    <2>1. MapThenSumSet(LAMBDA i : 2^i, S) = y
      BY <1>3, <1>4, <1>5
    <2> QED BY <1>2, <2>1, Zenon DEF FromOnes
  <1>8. BitNot(a) = Guarded(a.ty, {a}, Val(a.ty, y))
    BY <1>7 DEF BitNot
  <1>9. /\ Denotes(Val(a.ty, y), a.ty, {Wrap(a.ty, x)}) /\ ~HasUB(Val(a.ty, y))
    BY <1>1, <1>6, ValDenotes
  <1>10. /\ Denotes(Guarded(a.ty, {a}, Val(a.ty, y)), a.ty, {Wrap(a.ty, x)})
         /\ ~HasUB(Guarded(a.ty, {a}, Val(a.ty, y))) => \A z \in {a} : ~HasUB(z)
         /\ (\A z \in {a} : ~HasUB(z)) => Guarded(a.ty, {a}, Val(a.ty, y)) = Val(a.ty, y)
    BY <1>1, <1>9, GuardedDenotes
  <1> QED BY <1>4, <1>8, <1>9, <1>10

LEMMA LogNotDenotes ==
    ASSUME NEW a \in Values, a.ty = "BOOL"
    PROVE  /\ Denotes(LogNot(a), "BOOL", {1 - a.v})
           /\ ~HasUB(LogNot(a)) <=> ~HasUB(a)
  <1>1. "BOOL" \in Types /\ a.v \in {0, 1}
    BY ValueFacts, BoolBounds DEF InRange, Types
  <1>2. 1 - a.v \in Int /\ Wrap("BOOL", 1 - a.v) = 1 - a.v
    BY <1>1 DEF Wrap
  <1>3. Denotes(Val("BOOL", 1 - a.v), "BOOL", {1 - a.v}) /\ ~HasUB(Val("BOOL", 1 - a.v))
    BY <1>1, <1>2, ValDenotes
  <1>4. LogNot(a) = Guarded("BOOL", {a}, Val("BOOL", 1 - a.v))
    BY DEF LogNot
  <1>5. /\ Denotes(LogNot(a), "BOOL", {1 - a.v})
        /\ ~HasUB(LogNot(a)) => \A z \in {a} : ~HasUB(z)
        /\ (\A z \in {a} : ~HasUB(z)) => LogNot(a) = Val("BOOL", 1 - a.v)
    BY <1>1, <1>3, <1>4, GuardedDenotes
  <1> QED BY <1>3, <1>5

LEMMA CastDenotes ==
    ASSUME NEW a \in Values, NEW t \in Types
    PROVE  /\ Denotes(CastToType(t, a), t, {Wrap(t, a.v)})
           /\ ~HasUB(CastToType(t, a)) <=> ~HasUB(a)
           /\ HasUB(a) => CastToType(t, a).v = 0
  <1>1. a.v \in Int
    BY ValueFacts
  <1>2. Denotes(Val(t, a.v), t, {Wrap(t, a.v)}) /\ ~HasUB(Val(t, a.v))
    BY <1>1, ValDenotes
  <1>3. CastToType(t, a) = Guarded(t, {a}, Val(t, a.v))
    BY DEF CastToType
  <1>4. /\ Denotes(CastToType(t, a), t, {Wrap(t, a.v)})
        /\ ~HasUB(CastToType(t, a)) => \A z \in {a} : ~HasUB(z)
        /\ (\A z \in {a} : ~HasUB(z)) => CastToType(t, a) = Val(t, a.v)
    BY <1>2, <1>3, GuardedDenotes
  <1>5. HasUB(a) => CastToType(t, a).v = 0
    BY DEF CastToType, Guarded, Bad
  <1> QED BY <1>2, <1>4, <1>5

-----------------------------------------------------------------------------
(* Shifts, and the choice of the smaller or larger argument.               *)

\* Both shifts judge the amount and the operand alike.
LEMMA ShiftGuards ==
    ASSUME NEW a \in Values, NEW b \in Values, a.ty \in ArithTypes, NEW tooLarge, NEW x, NEW m,
           b.v < 0 \/ b.v >= Bits(a.ty) => m = {},
           b.v \in 0 .. (Bits(a.ty) - 1) =>
              IF IsSigned(a.ty) /\ a.v < 0 THEN m = {}
              ELSE IF tooLarge THEN m = {} ELSE x \in Int /\ m = {Wrap(a.ty, x)}
    PROVE  /\ Denotes(Shift(a, b, tooLarge, x), a.ty, m)
           /\ ~HasUB(Shift(a, b, tooLarge, x)) => ~HasUB(a) /\ ~HasUB(b)
           /\ Shift(a, b, tooLarge, x).ub = "ShiftRhsNeg" => b.v < 0
           /\ Shift(a, b, tooLarge, x).ub = "ShiftRhsLarge" /\ ~tooLarge => b.v >= Bits(a.ty)
           /\ Shift(a, b, tooLarge, x).ub = "ShiftRhsLarge" /\ b.v < Bits(a.ty) => a.v >= 0 \/ ~IsSigned(a.ty)
           /\ Shift(a, b, tooLarge, x).ub = "ShiftRhsLarge" => b.v >= 0
  <1> DEFINE t == a.ty
  <1>1. /\ t \in Types /\ a.v \in Int /\ b.v \in Int /\ Bits(t) \in Nat /\ Bits(t) >= 1
    BY ValueFacts, BitsInRange
  <1>2. {"ShiftRhsNeg", "ShiftRhsLarge", "NegShift", "Uninit"} \subseteq UBKinds \ {"NoUB"}
    BY DEF UBKinds
  <1>3. \A k \in {"ShiftRhsNeg", "ShiftRhsLarge", "NegShift", "Uninit"} :
           Denotes(Bad(t, k), t, m) /\ HasUB(Bad(t, k)) /\ Bad(t, k).ub = k
    BY <1>1, <1>2, BadDenotes DEF Bad
  <1> DEFINE r == IF IsSigned(t) /\ a.v < 0 THEN Bad(t, "NegShift")
                  ELSE IF tooLarge THEN Bad(t, "ShiftRhsLarge") ELSE Val(t, x)
  <1>4. CASE b.v < 0
    BY <1>1, <1>3, <1>4 DEF Shift
  <1>5. CASE ~(b.v < 0) /\ b.v >= Bits(t)
    BY <1>1, <1>3, <1>5 DEF Shift
  <1>6. CASE ~(b.v < 0) /\ ~(b.v >= Bits(t))
    <2>1. b.v \in 0 .. (Bits(t) - 1)
      BY <1>1, <1>6
    <2>2. Denotes(r, t, m)
      <3>1. ~(IsSigned(t) /\ a.v < 0) /\ ~tooLarge => x \in Int /\ m = {Wrap(t, x)}
        BY <2>1
      <3>2. x \in Int => Denotes(Val(t, x), t, {Wrap(t, x)})
        BY <1>1, ValDenotes
      <3> QED BY <1>3, <3>1, <3>2
    <2>3. Shift(a, b, tooLarge, x) = Guarded(t, {a, b}, r)
      BY <1>6 DEF Shift
    <2>4. r.ub = "ShiftRhsLarge" => tooLarge /\ ~(IsSigned(t) /\ a.v < 0)
      BY DEF Bad, Val
    <2>5. r.ub # "ShiftRhsNeg"
      BY DEF Bad, Val
    <2>6. Guarded(t, {a, b}, r) \in {Bad(t, "Uninit"), r}
      BY DEF Guarded
    <2>7. Bad(t, "Uninit").ub = "Uninit"
      BY <1>3
    <2> HIDE DEF t, r
    <2>8. Denotes(Guarded(t, {a, b}, r), t, m)
      BY <1>1, <2>2, GuardedDenotes
    <2>9. ~HasUB(Guarded(t, {a, b}, r)) => \A y \in {a, b} : ~HasUB(y)
      BY <1>1, <2>2, GuardedDenotes
    <2>10. /\ Guarded(t, {a, b}, r).ub # "ShiftRhsNeg"
           /\ Guarded(t, {a, b}, r).ub = "ShiftRhsLarge" => tooLarge /\ ~(IsSigned(t) /\ a.v < 0)
      BY <2>4, <2>5, <2>6, <2>7
    <2>11. b.v >= 0
      BY <1>1, <1>6
    <2>12. a.ty = t
      BY DEF t
    <2> QED BY <2>1, <2>3, <2>8, <2>9, <2>10, <2>11, <2>12, <1>1, <1>6
  <1> QED BY <1>4, <1>5, <1>6

LEMMA ShiftLeftDenotes ==
    ASSUME NEW a \in Values, NEW b \in Values, a.ty \in ArithTypes, isC \in BOOLEAN
    PROVE  /\ Denotes(ShiftLeft(isC, a, b), a.ty, ShiftMeaning("SHL", a.ty, a.v, b.v))
           /\ ~HasUB(ShiftLeft(isC, a, b)) => ~HasUB(a) /\ ~HasUB(b)
           /\ ShiftLeft(isC, a, b).ub = "ShiftRhsNeg" => b.v < 0
           /\ ShiftLeft(isC, a, b).ub = "ShiftRhsLarge" => b.v >= 0
           /\ ShiftLeft(isC, a, b).ub = "ShiftRhsLarge" =>
                 \/ b.v >= Bits(a.ty)
                 \/ IsSigned(a.ty) /\ a.v >= 0 /\ ShiftsOut(isC, a, b.v)
  <1> DEFINE t == a.ty
  <1> DEFINE tooLarge == IsSigned(t) /\ ShiftsOut(isC, a, b.v)
  <1> DEFINE x == a.v * 2^b.v
  <1> DEFINE m == ShiftMeaning("SHL", t, a.v, b.v)
  <1>1. /\ t \in Types /\ a.v \in Int /\ b.v \in Int /\ Bits(t) \in Nat /\ Bits(t) >= 1
        /\ Bits(t) <= LongBits /\ InRange(t, a.v) /\ (IsSigned(t) => t \in SignedTypes)
        /\ LongBits \in Nat
    BY ValueFacts, ArithTypeFacts, BitsInRange, LongIsNat
  <1>2. b.v < 0 \/ b.v >= Bits(t) => m = {}
    BY <1>1 DEF ShiftMeaning
  <1>3. ASSUME b.v \in 0 .. (Bits(t) - 1)
        PROVE  IF IsSigned(t) /\ a.v < 0 THEN m = {}
               ELSE IF tooLarge THEN m = {} ELSE x \in Int /\ m = {Wrap(t, x)}
    <2>1. b.v \in 0 .. LongBits /\ ~(b.v < 0 \/ b.v >= Bits(t))
      BY <1>1, <1>3
    <2>2. PICK N \in Nat : N = 2^b.v
      BY <2>1, PowerIsNat
    <2>3. PICK y \in Int : y = a.v * N
      BY <1>1, Z3
    <2>4. x = y
      BY <2>2, <2>3
    <2>5. m = IF ~IsSigned(t) THEN {Wrap(t, x)}
              ELSE IF a.v < 0 \/ x > (IF isC THEN MaxOf(t) ELSE 2 * MaxOf(t) + 1) THEN {}
              ELSE {Wrap(t, x)}
      BY <1>3, <2>1 DEF ShiftMeaning
    <2>6. CASE IsSigned(t) /\ ~(a.v < 0)
      <3>1. a.v \in Nat
        BY <1>1, <2>6
      <3>2. ShiftsOut(isC, a, b.v) <=> x > (IF isC THEN MaxOf(t) ELSE 2 * MaxOf(t) + 1)
        BY <1>1, <1>3, <2>6, <3>1, ShiftCheckExact
      <3> HIDE DEF x, m, t
      <3> QED BY <2>3, <2>4, <2>5, <2>6, <3>2 DEF tooLarge
    <2>7. CASE ~(IsSigned(t) /\ ~(a.v < 0))
      <3> HIDE DEF x, m, t
      <3> QED BY <2>3, <2>4, <2>5, <2>7 DEF tooLarge
    <2> QED BY <2>6, <2>7
  <1>4. ShiftLeft(isC, a, b) = Shift(a, b, tooLarge, x)
    BY DEF ShiftLeft
  <1>5. a.ty = t /\ tooLarge = (IsSigned(t) /\ ShiftsOut(isC, a, b.v))
        /\ m = ShiftMeaning("SHL", t, a.v, b.v)
    OBVIOUS
  <1> HIDE DEF x, m, tooLarge, t
  <1>6. /\ Denotes(Shift(a, b, tooLarge, x), t, m)
        /\ ~HasUB(Shift(a, b, tooLarge, x)) => ~HasUB(a) /\ ~HasUB(b)
        /\ Shift(a, b, tooLarge, x).ub = "ShiftRhsNeg" => b.v < 0
        /\ Shift(a, b, tooLarge, x).ub = "ShiftRhsLarge" /\ ~tooLarge => b.v >= Bits(t)
        /\ Shift(a, b, tooLarge, x).ub = "ShiftRhsLarge" /\ b.v < Bits(t) => a.v >= 0 \/ ~IsSigned(t)
        /\ Shift(a, b, tooLarge, x).ub = "ShiftRhsLarge" => b.v >= 0
    BY <1>2, <1>3, <1>5, ShiftGuards
  <1>7. b.v < Bits(t) \/ b.v >= Bits(t)
    BY <1>1
  <1>8. tooLarge <=> IsSigned(t) /\ ShiftsOut(isC, a, b.v)
    BY DEF tooLarge
  <1>9. Shift(a, b, tooLarge, x).ub = "ShiftRhsLarge" =>
            b.v >= Bits(t) \/ (IsSigned(t) /\ a.v >= 0 /\ ShiftsOut(isC, a, b.v))
    BY <1>6, <1>7, <1>8, Zenon
  <1> QED BY <1>4, <1>5, <1>6, <1>9, Zenon

LEMMA ShiftRightDenotes ==
    ASSUME NEW a \in Values, NEW b \in Values, a.ty \in ArithTypes
    PROVE  /\ Denotes(ShiftRight(a, b), a.ty, ShiftMeaning("SHR", a.ty, a.v, b.v))
           /\ ~HasUB(ShiftRight(a, b)) => ~HasUB(a) /\ ~HasUB(b)
           /\ ShiftRight(a, b).ub = "ShiftRhsNeg" => b.v < 0
           /\ ShiftRight(a, b).ub = "ShiftRhsLarge" => b.v >= 0 /\ b.v >= Bits(a.ty)
  <1> DEFINE t == a.ty
  <1> DEFINE x == a.v \div 2^b.v
  <1> DEFINE m == IF IsSigned(t) /\ a.v < 0 THEN {} ELSE ShiftMeaning("SHR", t, a.v, b.v)
  <1>1. /\ t \in Types /\ a.v \in Int /\ b.v \in Int /\ Bits(t) \in Nat /\ Bits(t) >= 1
        /\ InRange(t, a.v) /\ (~IsSigned(t) => t \in PlainTypes)
    BY ValueFacts, ArithTypeFacts, BitsInRange, LongIsNat
  <1>2. b.v < 0 \/ b.v >= Bits(t) => m = {}
    BY <1>1 DEF ShiftMeaning
  <1>3. ASSUME b.v \in 0 .. (Bits(t) - 1)
        PROVE  IF IsSigned(t) /\ a.v < 0 THEN m = {}
               ELSE IF FALSE THEN m = {} ELSE x \in Int /\ m = {Wrap(t, x)}
    <2>1. CASE IsSigned(t) /\ a.v < 0
      BY <2>1
    <2>2. CASE ~(IsSigned(t) /\ a.v < 0)
      <3>1. a.v \in Nat
        <4>1. ~IsSigned(t) => MinOf(t) = 0
          BY <1>1, PlainBounds
        <4> QED BY <1>1, <2>2, <4>1 DEF InRange
      <3>2. x \in Int /\ InRange(t, x)
        BY <1>1, <1>3, <3>1, ShiftRightInRange
      <3>3. Wrap(t, x) = x
        BY <1>1, <3>2, WrapKeeps
      <3>4. m = {x}
        BY <1>1, <1>3, <2>2 DEF ShiftMeaning
      <3> HIDE DEF x, m, t
      <3> QED BY <2>2, <3>2, <3>3, <3>4
    <2> QED BY <2>1, <2>2
  <1>4. ShiftRight(a, b) = Shift(a, b, FALSE, x)
    BY DEF ShiftRight
  <1>5. a.ty = t /\ (IsSigned(t) /\ a.v < 0 => HasUB(ShiftRight(a, b)))
    BY <1>1, BadDenotes DEF ShiftRight, Shift, Guarded, HasUB, Bad
  <1>6. IF IsSigned(t) /\ a.v < 0 THEN m = {} ELSE m = ShiftMeaning("SHR", t, a.v, b.v)
    OBVIOUS
  <1> HIDE DEF x, m, t
  <1>7. /\ Denotes(Shift(a, b, FALSE, x), t, m)
        /\ ~HasUB(Shift(a, b, FALSE, x)) => ~HasUB(a) /\ ~HasUB(b)
        /\ Shift(a, b, FALSE, x).ub = "ShiftRhsNeg" => b.v < 0
        /\ Shift(a, b, FALSE, x).ub = "ShiftRhsLarge" /\ ~FALSE => b.v >= Bits(t)
        /\ Shift(a, b, FALSE, x).ub = "ShiftRhsLarge" => b.v >= 0
    BY <1>2, <1>3, <1>5, ShiftGuards
  <1> QED BY <1>1, <1>4, <1>5, <1>6, <1>7 DEF Denotes

\* A long long holds every signed value, an unsigned long long the others.
LEMMA WideHolds ==
    ASSUME NEW t \in Types, NEW v \in Int, InRange(t, v)
    PROVE  LET wide == IF IsSigned(t) THEN "LLONG" ELSE "ULLONG"
           IN  wide \in Types /\ Wrap(wide, v) = v
  <1>1. "LLONG" \in SignedTypes /\ "ULLONG" \in PlainTypes /\ {"LLONG", "ULLONG"} \subseteq Types
    BY DEF SignedTypes, PlainTypes, Types, IsSigned
  <1>2. Bits("LLONG") = LongBits /\ Bits("ULLONG") = LongBits /\ Bits(t) \in 1 .. LongBits
        /\ LongBits \in Nat
    BY BitsInRange, LongIsNat DEF Bits
  <1>3. CASE t \in SignedTypes
    <2>1. PICK h \in Nat \ {0} : 2^(Bits(t) - 1) = h /\ MinOf(t) = -h /\ MaxOf(t) = h - 1
      BY <1>3, SignedBounds
    <2>2. PICK k \in Nat \ {0} : 2^(LongBits - 1) = k /\ MinOf("LLONG") = -k /\ MaxOf("LLONG") = k - 1
      BY <1>1, <1>2, SignedBounds
    <2>3. h <= k
      BY <1>2, <2>1, <2>2, PowerRises
    <2>4. InRange("LLONG", v)
      BY <2>1, <2>2, <2>3 DEF InRange
    <2>5. Wrap("LLONG", v) = v
      BY <1>1, <2>4, WrapKeeps
    <2> QED BY <1>1, <1>3, <2>5 DEF SignedTypes
  <1>4. CASE t \in PlainTypes
    <2>1. PICK h \in Nat \ {0} : 2^Bits(t) = h /\ MinOf(t) = 0 /\ MaxOf(t) = h - 1
      BY <1>4, PlainBounds
    <2>2. PICK k \in Nat \ {0} : 2^LongBits = k /\ MinOf("ULLONG") = 0 /\ MaxOf("ULLONG") = k - 1
      BY <1>1, <1>2, PlainBounds
    <2>3. h <= k
      BY <1>2, <2>1, <2>2, PowerRises
    <2>4. InRange("ULLONG", v)
      BY <2>1, <2>2, <2>3 DEF InRange
    <2>5. Wrap("ULLONG", v) = v
      BY <1>1, <2>4, WrapKeeps
    <2> QED BY <1>1, <1>4, <2>5 DEF PlainTypes
  <1>5. CASE t = "BOOL"
    <2>1. PICK k \in Nat \ {0} : 2^LongBits = k /\ MinOf("ULLONG") = 0 /\ MaxOf("ULLONG") = k - 1
      BY <1>1, <1>2, PlainBounds
    <2>2. 2 <= 2^LongBits
      <3>1. 2^1 = 2 * 2^(1 - 1) /\ 2^(1 - 1) = 2^0
        BY <1>2, PowerAssumption
      <3>2. 2^1 <= 2^LongBits
        <4>1. 1 \in Nat /\ 1 <= LongBits /\ LongBits <= LongBits
          BY <1>2
        <4> QED BY <1>2, <4>1, PowerRises
      <3> QED BY <2>1, <3>1, <3>2, PowerAssumption
    <2>3. InRange("ULLONG", v)
      BY <1>5, <2>1, <2>2, BoolBounds DEF InRange
    <2>4. Wrap("ULLONG", v) = v
      BY <1>1, <2>3, WrapKeeps
    <2> QED BY <1>1, <1>5, <2>4 DEF IsSigned
  <1> QED BY <1>3, <1>4, <1>5, TypesSplit

LEMMA MinMaxDenotes ==
    ASSUME NEW a \in Values, NEW b \in Values, b.ty = a.ty, NEW op \in {"MIN", "MAX"}
    PROVE  /\ EvalMinMax(op, a, b) \in {a, b}
           /\ ~HasUB(a) /\ ~HasUB(b) =>
                {EvalMinMax(op, a, b).v} = {IF (a.v < b.v) = (op = "MIN") THEN a.v ELSE b.v}
  <1> DEFINE wide == IF IsSigned(a.ty) THEN "LLONG" ELSE "ULLONG"
  <1> DEFINE x == CastToType(wide, a)
  <1> DEFINE y == CastToType(wide, b)
  <1> DEFINE holds == IF op = "MAX" THEN x.v > y.v ELSE x.v < y.v
  <1> DEFINE first == Compare(x, y, holds)
  <1>1. EvalMinMax(op, a, b) = IF first.v = 1 THEN a ELSE b
    BY DEF EvalMinMax
  <1>2. EvalMinMax(op, a, b) \in {a, b}
    BY <1>1
  <1>3. ASSUME ~HasUB(a), ~HasUB(b)
        PROVE  EvalMinMax(op, a, b).v = IF (a.v < b.v) = (op = "MIN") THEN a.v ELSE b.v
    <2>1. a.v \in Int /\ b.v \in Int /\ a.ty \in Types /\ InRange(a.ty, a.v) /\ InRange(a.ty, b.v)
      BY ValueFacts
    <2>2. wide \in Types /\ Wrap(wide, a.v) = a.v /\ Wrap(wide, b.v) = b.v
      BY <2>1, WideHolds
    <2> HIDE DEF wide
    <2>3. /\ Denotes(x, wide, {Wrap(wide, a.v)}) /\ ~HasUB(x)
          /\ Denotes(y, wide, {Wrap(wide, b.v)}) /\ ~HasUB(y)
      BY <1>3, <2>2, CastDenotes
    <2>4. x.v = a.v /\ y.v = b.v
      BY <2>2, <2>3 DEF Denotes
    <2> HIDE DEF x, y
    <2>5. first.v = Truth(holds)
      <3> HIDE DEF holds
      <3> QED BY <2>3, CompareDenotes
    <2>6. first.v = 1 <=> holds
      <3> HIDE DEF first, holds
      <3> QED BY <2>5 DEF Truth
    <2>7. holds <=> IF op = "MAX" THEN a.v > b.v ELSE a.v < b.v
      BY <2>4
    <2> HIDE DEF first, holds
    <2>8. CASE op = "MAX"
      <3>1. EvalMinMax(op, a, b).v = IF a.v > b.v THEN a.v ELSE b.v
        BY <1>1, <2>6, <2>7, <2>8
      <3>2. ((a.v < b.v) = (op = "MIN")) <=> ~(a.v < b.v)
        BY <2>8
      <3> QED BY <2>1, <3>1, <3>2
    <2>9. CASE op = "MIN"
      <3>1. EvalMinMax(op, a, b).v = IF a.v < b.v THEN a.v ELSE b.v
        BY <1>1, <2>6, <2>7, <2>9
      <3>2. ((a.v < b.v) = (op = "MIN")) <=> a.v < b.v
        BY <2>9
      <3> QED BY <2>1, <3>1, <3>2
    <2> QED BY <2>8, <2>9
  <1> QED BY <1>2, <1>3

-----------------------------------------------------------------------------
(* What evaluate makes of operands that have the types of the operator.    *)

Ops == UnaryOps \cup BinaryOps \cup {"TERNARY", "MIN", "MAX"}

\* The operators that no longer have undefined behaviour once their operands
\* have none.
SafeOps == (UnaryOps \ {"NEGATE"}) \cup Comparison \cup BitOp \cup Logical \cup {"TERNARY", "MIN", "MAX"}

LEMMA EvalBinaryIs ==
    ASSUME NEW a, NEW b
    PROVE  /\ EvalBinary("ADD", a, b) = Add(a, b) /\ EvalBinary("SUB", a, b) = Sub(a, b)
           /\ EvalBinary("MUL", a, b) = Mul(a, b) /\ EvalBinary("DIV", a, b) = Div(a, b)
           /\ EvalBinary("MOD", a, b) = Mod(a, b)
           /\ EvalBinary("BIT_AND", a, b) = BitAnd(a, b)
           /\ EvalBinary("BIT_OR", a, b) = BitOr(a, b)
           /\ EvalBinary("BIT_XOR", a, b) = BitXor(a, b)
           /\ EvalBinary("SHL", a, b) = ShiftLeft(isC, a, b)
           /\ EvalBinary("SHR", a, b) = ShiftRight(a, b)
           /\ \A op \in Comparison \cup Logical :
                 \E holds : EvalBinary(op, a, b) = Compare(a, b, holds)
  <1>1. \A op \in Comparison \cup Logical :
                 \E holds : EvalBinary(op, a, b) = Compare(a, b, holds)
    <2> SUFFICES ASSUME NEW op \in Comparison \cup Logical
                 PROVE  \E holds : EvalBinary(op, a, b) = Compare(a, b, holds)
      OBVIOUS
    <2>1. CASE op = "LT"
      <3>1. EvalBinary(op, a, b) = Compare(a, b, a.v < b.v)
        BY <2>1 DEF EvalBinary
      <3> QED BY <3>1
    <2>2. CASE op = "GT"
      <3>1. EvalBinary(op, a, b) = Compare(a, b, a.v > b.v)
        BY <2>2 DEF EvalBinary
      <3> QED BY <3>1
    <2>3. CASE op = "LE"
      <3>1. EvalBinary(op, a, b) = Compare(a, b, a.v <= b.v)
        BY <2>3 DEF EvalBinary
      <3> QED BY <3>1
    <2>4. CASE op = "GE"
      <3>1. EvalBinary(op, a, b) = Compare(a, b, a.v >= b.v)
        BY <2>4 DEF EvalBinary
      <3> QED BY <3>1
    <2>5. CASE op = "EQ"
      <3>1. EvalBinary(op, a, b) = Compare(a, b, a.v = b.v)
        BY <2>5 DEF EvalBinary
      <3> QED BY <3>1
    <2>6. CASE op = "NE"
      <3>1. EvalBinary(op, a, b) = Compare(a, b, a.v # b.v)
        BY <2>6 DEF EvalBinary
      <3> QED BY <3>1
    <2>7. CASE op = "LOG_AND"
      <3>1. EvalBinary(op, a, b) = Compare(a, b, a.v = 1 /\ b.v = 1)
        BY <2>7 DEF EvalBinary
      <3> QED BY <3>1
    <2>8. CASE op = "LOG_OR"
      <3>1. EvalBinary(op, a, b) = Compare(a, b, a.v = 1 \/ b.v = 1)
        BY <2>8 DEF EvalBinary
      <3> QED BY <3>1
    <2> QED BY <2>1, <2>2, <2>3, <2>4, <2>5, <2>6, <2>7, <2>8 DEF Comparison, Logical
  <1>2. /\ EvalBinary("ADD", a, b) = Add(a, b) /\ EvalBinary("SUB", a, b) = Sub(a, b)
        /\ EvalBinary("MUL", a, b) = Mul(a, b) /\ EvalBinary("DIV", a, b) = Div(a, b)
        /\ EvalBinary("MOD", a, b) = Mod(a, b)
    BY DEF EvalBinary
  <1>3. /\ EvalBinary("BIT_AND", a, b) = BitAnd(a, b)
        /\ EvalBinary("BIT_OR", a, b) = BitOr(a, b)
        /\ EvalBinary("BIT_XOR", a, b) = BitXor(a, b)
        /\ EvalBinary("SHL", a, b) = ShiftLeft(isC, a, b)
        /\ EvalBinary("SHR", a, b) = ShiftRight(a, b)
    BY DEF EvalBinary
  <1> QED BY <1>1, <1>2, <1>3

LEMMA ArithmeticDenotes ==
    ASSUME NEW op \in Arithmetic, NEW a \in Values, NEW b \in Values,
           a.ty \in ArithTypes, b.ty = a.ty
    PROVE  /\ Denotes(EvalBinary(op, a, b), a.ty, BinaryMeaning(op, a.ty, a.v, b.v))
           /\ ~HasUB(EvalBinary(op, a, b)) => ~HasUB(a) /\ ~HasUB(b)
  <1>0. \A t, x, y :
          /\ BinaryMeaning("ADD", t, x, y) = Exact(t, x + y)
          /\ BinaryMeaning("SUB", t, x, y) = Exact(t, x - y)
          /\ BinaryMeaning("MUL", t, x, y) = Exact(t, x * y)
    BY DEF BinaryMeaning, ShiftOp, Comparison, Logical, BitOp
  <1>1. CASE op = "ADD"
    BY <1>1, <1>0, EvalBinaryIs, AddDenotes
  <1>2. CASE op = "SUB"
    BY <1>2, <1>0, EvalBinaryIs, SubDenotes
  <1>3. CASE op = "MUL"
    BY <1>3, <1>0, EvalBinaryIs, MulDenotes
  <1>4. CASE op = "DIV"
    <2>1. PICK x : x = Quotient(a.v, b.v)
      OBVIOUS
    <2>2. EvalBinary(op, a, b) = DivMod(a, b, x)
      BY <1>4, <2>1, EvalBinaryIs DEF Div
    <2>3. BinaryMeaning(op, a.ty, a.v, b.v) =
             IF b.v = 0 \/ ~InRange(a.ty, Quotient(a.v, b.v)) THEN {} ELSE {x}
      BY <1>4, <2>1 DEF BinaryMeaning, ShiftOp, Comparison, Logical, BitOp
    <2>4. x \in {Quotient(a.v, b.v), Remainder(a.v, b.v)}
      BY <2>1
    <2> QED BY <2>2, <2>3, <2>4, DivModDenotes
  <1>5. CASE op = "MOD"
    <2>1. PICK x : x = Remainder(a.v, b.v)
      OBVIOUS
    <2>2. EvalBinary(op, a, b) = DivMod(a, b, x)
      BY <1>5, <2>1, EvalBinaryIs DEF Mod
    <2>3. BinaryMeaning(op, a.ty, a.v, b.v) =
             IF b.v = 0 \/ ~InRange(a.ty, Quotient(a.v, b.v)) THEN {} ELSE {x}
      BY <1>5, <2>1 DEF BinaryMeaning, ShiftOp, Comparison, Logical, BitOp
    <2>4. x \in {Quotient(a.v, b.v), Remainder(a.v, b.v)}
      BY <2>1
    <2> QED BY <2>2, <2>3, <2>4, DivModDenotes
  <1> QED BY <1>1, <1>2, <1>3, <1>4, <1>5 DEF Arithmetic

LEMMA TestDenotes ==
    ASSUME NEW op \in Comparison \cup Logical, NEW a \in Values, NEW b \in Values, b.ty = a.ty
    PROVE  /\ EvalBinary(op, a, b) \in Values /\ EvalBinary(op, a, b).ty = "BOOL"
           /\ ~HasUB(a) /\ ~HasUB(b) =>
                 /\ ~HasUB(EvalBinary(op, a, b))
                 /\ BinaryMeaning(op, a.ty, a.v, b.v) = {EvalBinary(op, a, b).v}
  <1>1. EvalBinary(op, a, b) \in Values /\ EvalBinary(op, a, b).ty = "BOOL"
        /\ (~HasUB(a) /\ ~HasUB(b) => ~HasUB(EvalBinary(op, a, b)))
    <2>1. PICK holds : EvalBinary(op, a, b) = Compare(a, b, holds)
      BY EvalBinaryIs
    <2> QED BY <2>1, CompareDenotes
  <1>2. BinaryMeaning(op, a.ty, a.v, b.v) = {EvalBinary(op, Val(a.ty, a.v), Val(a.ty, b.v)).v}
    BY DEF BinaryMeaning, Comparison, Logical, ShiftOp, BitOp
  <1>3. ~HasUB(a) /\ ~HasUB(b) => Val(a.ty, a.v) = a /\ Val(a.ty, b.v) = b
    BY ValueFacts
  <1> QED BY <1>1, <1>2, <1>3

LEMMA BitsDenote ==
    ASSUME NEW op \in BitOp, NEW a \in Values, NEW b \in Values, b.ty = a.ty
    PROVE  /\ EvalBinary(op, a, b) \in Values /\ EvalBinary(op, a, b).ty = a.ty
           /\ ~HasUB(a) /\ ~HasUB(b) =>
                 /\ ~HasUB(EvalBinary(op, a, b))
                 /\ BinaryMeaning(op, a.ty, a.v, b.v) = {EvalBinary(op, a, b).v}
  <1>1. PICK S : /\ S \subseteq Ones(a) \cup Ones(b)
                 /\ EvalBinary(op, a, b) = Guarded(a.ty, {a, b}, FromOnes(a.ty, S))
    <2>1. CASE op = "BIT_AND"
      <3>1. EvalBinary(op, a, b) = Guarded(a.ty, {a, b}, FromOnes(a.ty, Ones(a) \cap Ones(b)))
        BY <2>1, EvalBinaryIs DEF BitAnd
      <3>2. Ones(a) \cap Ones(b) \subseteq Ones(a) \cup Ones(b)
        OBVIOUS
      <3> QED BY <3>1, <3>2
    <2>2. CASE op = "BIT_OR"
      <3>1. EvalBinary(op, a, b) = Guarded(a.ty, {a, b}, FromOnes(a.ty, Ones(a) \cup Ones(b)))
        BY <2>2, EvalBinaryIs DEF BitOr
      <3> QED BY <3>1
    <2>3. CASE op = "BIT_XOR"
      <3>1. EvalBinary(op, a, b) = Guarded(a.ty, {a, b},
                 FromOnes(a.ty, (Ones(a) \cup Ones(b)) \ (Ones(a) \cap Ones(b))))
        BY <2>3, EvalBinaryIs DEF BitXor
      <3>2. (Ones(a) \cup Ones(b)) \ (Ones(a) \cap Ones(b)) \subseteq Ones(a) \cup Ones(b)
        OBVIOUS
      <3> QED BY <3>1, <3>2
    <2> QED BY <2>1, <2>2, <2>3 DEF BitOp
  <1>2. Denotes(EvalBinary(op, a, b), a.ty, {EvalBinary(op, a, b).v})
        /\ (~HasUB(EvalBinary(op, a, b)) <=> ~HasUB(a) /\ ~HasUB(b))
    <2>1. PICK g : g = Guarded(a.ty, {a, b}, FromOnes(a.ty, S))
      OBVIOUS
    <2>2. Denotes(g, a.ty, {g.v}) /\ (~HasUB(g) <=> ~HasUB(a) /\ ~HasUB(b))
      BY <1>1, <2>1, BitOpDenotes
    <2> QED BY <1>1, <2>1, <2>2
  <1>3. BinaryMeaning(op, a.ty, a.v, b.v) = {EvalBinary(op, Val(a.ty, a.v), Val(a.ty, b.v)).v}
    BY DEF BinaryMeaning, Comparison, Logical, ShiftOp, BitOp
  <1>4. ~HasUB(a) /\ ~HasUB(b) => Val(a.ty, a.v) = a /\ Val(a.ty, b.v) = b
    BY ValueFacts
  <1> QED BY <1>2, <1>3, <1>4 DEF Denotes

LEMMA ShiftDenotes ==
    ASSUME NEW op \in ShiftOp, NEW a \in Values, NEW b \in Values, a.ty \in ArithTypes,
           isC \in BOOLEAN
    PROVE  /\ Denotes(EvalBinary(op, a, b), a.ty, BinaryMeaning(op, a.ty, a.v, b.v))
           /\ ~HasUB(EvalBinary(op, a, b)) => ~HasUB(a) /\ ~HasUB(b)
  <1>1. BinaryMeaning(op, a.ty, a.v, b.v) = ShiftMeaning(op, a.ty, a.v, b.v)
    BY DEF BinaryMeaning, Comparison, Logical, ShiftOp, BitOp
  <1>2. CASE op = "SHL"
    BY <1>1, <1>2, EvalBinaryIs, ShiftLeftDenotes
  <1>3. CASE op = "SHR"
    BY <1>1, <1>3, EvalBinaryIs, ShiftRightDenotes
  <1> QED BY <1>2, <1>3 DEF ShiftOp

-----------------------------------------------------------------------------
(* Nodes.  A node fits if its children have the types of its operator.     *)

ResultType(op, kids) == IF op \in Comparison \cup Logical THEN "BOOL"
                        ELSE IF op = "TERNARY" THEN TypeOf(kids[2])
                        ELSE TypeOf(kids[1])

Fits(op, kids) ==
    \/ op \in {"PLUS", "NEGATE", "BIT_NOT"} /\ kids = <<kids[1]>> /\ TypeOf(kids[1]) \in ArithTypes
    \/ op = "LOG_NOT" /\ kids = <<kids[1]>> /\ TypeOf(kids[1]) = "BOOL"
    \/ /\ op \in Arithmetic \cup Comparison \cup BitOp /\ kids = <<kids[1], kids[2]>>
       /\ TypeOf(kids[1]) \in ArithTypes /\ TypeOf(kids[2]) = TypeOf(kids[1])
    \/ /\ op \in ShiftOp /\ kids = <<kids[1], kids[2]>>
       /\ TypeOf(kids[1]) \in ArithTypes /\ TypeOf(kids[2]) \in ArithTypes
    \/ /\ op \in Logical /\ kids = <<kids[1], kids[2]>>
       /\ TypeOf(kids[1]) = "BOOL" /\ TypeOf(kids[2]) = "BOOL"
    \/ /\ op = "TERNARY" /\ kids = <<kids[1], kids[2], kids[3]>> /\ TypeOf(kids[1]) = "BOOL"
       /\ TypeOf(kids[2]) \in ArithTypes /\ TypeOf(kids[3]) = TypeOf(kids[2])
    \/ /\ op \in {"MIN", "MAX"} /\ kids = <<kids[1], kids[2]>> /\ TypeOf(kids[2]) = TypeOf(kids[1])

Result(op, kids) == Evaluate(op, [i \in DOMAIN kids |-> kids[i].val])

\* A node computes a value of its type, and the right one if its operands are
\* defined and it says that it is.
Computes(op, kids) ==
    LET r == Result(op, kids)
    IN  /\ r \in Values /\ r.ty = ResultType(op, kids)
        /\ (\A i \in DOMAIN kids : ~HasUB(kids[i].val)) =>
             /\ ~HasUB(r) => Meaning(Tree(op, kids, r)) = {r.v}
             /\ op \in SafeOps => ~HasUB(r)

LEMMA UnaryComputes ==
    ASSUME NEW op \in UnaryOps, NEW kids, Fits(op, kids),
           \A i \in DOMAIN kids : kids[i].val \in Values
    PROVE  Computes(op, kids)
  <1>1. kids = <<kids[1]>> /\ DOMAIN kids = {1}
    BY DEF Fits, UnaryOps, Arithmetic, Comparison, BitOp, ShiftOp, Logical
  <1>2. PICK a \in Values : a = kids[1].val
    BY <1>1
  <1>3. Result(op, kids) = EvalUnary(op, a)
    <2> DEFINE vals == [i \in DOMAIN kids |-> kids[i].val]
    <2>1. vals[1] = a
      BY <1>1, <1>2
    <2>3. Result(op, kids) = Evaluate(op, vals)
      BY DEF Result
    <2> HIDE DEF vals
    <2>2. Evaluate(op, vals) = EvalUnary(op, a)
      BY <2>1 DEF Evaluate, UnaryOps, BinaryOps, Arithmetic, Comparison, BitOp, ShiftOp, Logical
    <2> QED BY <2>2, <2>3
  <1>4. \A r : /\ Tree(op, kids, r).op = op /\ Tree(op, kids, r).kids[1].val.v = a.v
               /\ TypeOf(Tree(op, kids, r)) = r.ty
    BY <1>2 DEF Tree, TypeOf
  <1>5. ResultType(op, kids) = a.ty
    BY <1>2 DEF ResultType, UnaryOps, Comparison, Logical, TypeOf
  <1>6. CASE op = "PLUS"
    <2>1. Result(op, kids) = a
      BY <1>3, <1>6 DEF EvalUnary
    <2>2. Meaning(Tree(op, kids, a)) = {a.v}
      BY <1>4, <1>6 DEF Meaning, BinaryOps, Arithmetic, Comparison, BitOp, ShiftOp, Logical
    <2> QED BY <1>1, <1>2, <1>5, <2>1, <2>2 DEF Computes
  <1>7. CASE op = "NEGATE"
    <2>1. Result(op, kids) = Minus(a)
      BY <1>3, <1>7 DEF EvalUnary
    <2>2. a.ty \in ArithTypes
      BY <1>2, <1>7 DEF Fits, TypeOf, Arithmetic, Comparison, BitOp, ShiftOp, Logical
    <2>3. Denotes(Minus(a), a.ty, Exact(a.ty, -a.v))
      BY <2>2, MinusDenotes
    <2>4. Meaning(Tree(op, kids, Minus(a))) = Exact(a.ty, -a.v)
      BY <1>4, <1>7, <2>3 DEF Meaning, Denotes, BinaryOps, Arithmetic, Comparison, BitOp, ShiftOp, Logical
    <2>5. op \notin SafeOps
      BY <1>7 DEF SafeOps, Comparison, BitOp, Logical
    <2> QED BY <1>5, <2>1, <2>3, <2>4, <2>5 DEF Computes, Denotes
  <1>8. CASE op = "BIT_NOT"
    <2>1. Result(op, kids) = BitNot(a)
      BY <1>3, <1>8 DEF EvalUnary
    <2>2. a.ty \in ArithTypes
      BY <1>2, <1>8 DEF Fits, TypeOf, Arithmetic, Comparison, BitOp, ShiftOp, Logical
    <2>3. Denotes(BitNot(a), a.ty, {Wrap(a.ty, -a.v - 1)}) /\ (~HasUB(BitNot(a)) <=> ~HasUB(a))
      BY <2>2, BitNotDenotes
    <2>4. Meaning(Tree(op, kids, BitNot(a))) = {Wrap(a.ty, -a.v - 1)}
      BY <1>4, <1>8, <2>3 DEF Meaning, Denotes, BinaryOps, Arithmetic, Comparison, BitOp, ShiftOp, Logical
    <2> QED BY <1>1, <1>2, <1>5, <2>1, <2>3, <2>4 DEF Computes, Denotes
  <1>9. CASE op = "LOG_NOT"
    <2>1. Result(op, kids) = LogNot(a)
      BY <1>3, <1>9 DEF EvalUnary
    <2>2. a.ty = "BOOL"
      BY <1>2, <1>9 DEF Fits, TypeOf, Arithmetic, Comparison, BitOp, ShiftOp, Logical
    <2>3. Denotes(LogNot(a), "BOOL", {1 - a.v}) /\ (~HasUB(LogNot(a)) <=> ~HasUB(a))
      BY <2>2, LogNotDenotes
    <2>4. Meaning(Tree(op, kids, LogNot(a))) = {1 - a.v}
      BY <1>4, <1>9 DEF Meaning, BinaryOps, Arithmetic, Comparison, BitOp, ShiftOp, Logical
    <2> QED BY <1>1, <1>2, <1>5, <2>1, <2>2, <2>3, <2>4 DEF Computes, Denotes
  <1> QED BY <1>6, <1>7, <1>8, <1>9 DEF UnaryOps

\* The values of two operands, and what Evaluate and Meaning make of them.
LEMMA BinaryNode ==
    ASSUME NEW op \in BinaryOps, NEW kids, Fits(op, kids),
           \A i \in DOMAIN kids : kids[i].val \in Values
    PROVE  \E a \in Values, b \in Values :
              /\ a = kids[1].val /\ b = kids[2].val
              /\ Result(op, kids) = EvalBinary(op, a, b)
              /\ \A r : Meaning(Tree(op, kids, r)) = BinaryMeaning(op, a.ty, a.v, b.v)
              /\ (\A i \in DOMAIN kids : ~HasUB(kids[i].val)) <=> ~HasUB(a) /\ ~HasUB(b)
  <1>1. kids = <<kids[1], kids[2]>> /\ DOMAIN kids = {1, 2}
    BY DEF Fits, BinaryOps, Arithmetic, Comparison, BitOp, ShiftOp, Logical
  <1>2. PICK a \in Values, b \in Values : a = kids[1].val /\ b = kids[2].val
    BY <1>1
  <1>3. Result(op, kids) = EvalBinary(op, a, b)
    <2> DEFINE vals == [i \in DOMAIN kids |-> kids[i].val]
    <2>1. vals[1] = a /\ vals[2] = b
      BY <1>1, <1>2
    <2>2. Result(op, kids) = Evaluate(op, vals)
      BY DEF Result
    <2> HIDE DEF vals
    <2>3. Evaluate(op, vals) = EvalBinary(op, a, b)
      BY <2>1 DEF Evaluate, UnaryOps, BinaryOps, Arithmetic, Comparison, BitOp, ShiftOp, Logical
    <2> QED BY <2>2, <2>3
  <1>4. \A r : Meaning(Tree(op, kids, r)) = BinaryMeaning(op, a.ty, a.v, b.v)
    <2> SUFFICES ASSUME NEW r PROVE Meaning(Tree(op, kids, r)) = BinaryMeaning(op, a.ty, a.v, b.v)
      OBVIOUS
    <2>1. PICK e : e = Tree(op, kids, r)
      OBVIOUS
    <2>2. e.op = op /\ e.kids[1].val = a /\ e.kids[2].val = b /\ TypeOf(e.kids[1]) = a.ty
      BY <1>2, <2>1 DEF Tree, TypeOf
    <2>3. Meaning(e) = BinaryMeaning(op, a.ty, a.v, b.v)
      BY <2>2 DEF Meaning, BinaryOps, Arithmetic, Comparison, BitOp, ShiftOp, Logical
    <2> QED BY <2>1, <2>3
  <1>5. (\A i \in DOMAIN kids : ~HasUB(kids[i].val)) <=> ~HasUB(a) /\ ~HasUB(b)
    BY <1>1, <1>2
  <1> QED BY <1>2, <1>3, <1>4, <1>5

LEMMA BinaryComputes ==
    ASSUME NEW op \in BinaryOps, NEW kids, Fits(op, kids), isC \in BOOLEAN,
           \A i \in DOMAIN kids : kids[i].val \in Values
    PROVE  /\ Computes(op, kids)
           /\ op \in Arithmetic \cup ShiftOp /\ ~HasUB(Result(op, kids)) =>
                 ~HasUB(kids[1].val) /\ ~HasUB(kids[2].val)
  <1>1. PICK a \in Values, b \in Values :
              /\ a = kids[1].val /\ b = kids[2].val
              /\ Result(op, kids) = EvalBinary(op, a, b)
              /\ \A r : Meaning(Tree(op, kids, r)) = BinaryMeaning(op, a.ty, a.v, b.v)
              /\ (\A i \in DOMAIN kids : ~HasUB(kids[i].val)) <=> ~HasUB(a) /\ ~HasUB(b)
    BY BinaryNode
  <1>2. CASE op \in Arithmetic \cup ShiftOp
    <2>1. Denotes(EvalBinary(op, a, b), a.ty, BinaryMeaning(op, a.ty, a.v, b.v))
          /\ (~HasUB(EvalBinary(op, a, b)) => ~HasUB(a) /\ ~HasUB(b))
      <3>1. CASE op \in Arithmetic
        <4>1. a.ty \in ArithTypes /\ b.ty = a.ty
          BY <1>1, <3>1 DEF Fits, TypeOf, Arithmetic, ShiftOp, Logical
        <4> QED BY <3>1, <4>1, ArithmeticDenotes
      <3>2. CASE op \in ShiftOp
        <4>1. a.ty \in ArithTypes
          BY <1>1, <3>2 DEF Fits, TypeOf, ShiftOp, Arithmetic, Comparison, BitOp, Logical
        <4> QED BY <3>2, <4>1, ShiftDenotes
      <3> QED BY <1>2, <3>1, <3>2
    <2>2. ResultType(op, kids) = a.ty /\ op \notin SafeOps
      BY <1>1, <1>2 DEF ResultType, TypeOf, SafeOps, UnaryOps, Arithmetic, ShiftOp,
                        Comparison, BitOp, Logical
    <2> QED BY <1>1, <2>1, <2>2 DEF Computes, Denotes
  <1>3. CASE op \in Comparison \cup Logical
    <2>1. b.ty = a.ty
      BY <1>1, <1>3 DEF Fits, TypeOf, Comparison, Logical, ShiftOp, Arithmetic, BitOp
    <2>2. /\ EvalBinary(op, a, b) \in Values /\ EvalBinary(op, a, b).ty = "BOOL"
          /\ ~HasUB(a) /\ ~HasUB(b) =>
                /\ ~HasUB(EvalBinary(op, a, b))
                /\ BinaryMeaning(op, a.ty, a.v, b.v) = {EvalBinary(op, a, b).v}
      BY <1>3, <2>1, TestDenotes
    <2>3. ResultType(op, kids) = "BOOL" /\ op \notin Arithmetic \cup ShiftOp
      BY <1>3 DEF ResultType, Arithmetic, ShiftOp, Comparison, Logical
    <2> QED BY <1>1, <2>2, <2>3 DEF Computes
  <1>4. CASE op \in BitOp
    <2>1. b.ty = a.ty
      BY <1>1, <1>4 DEF Fits, TypeOf, Comparison, Logical, ShiftOp, Arithmetic, BitOp
    <2>2. /\ EvalBinary(op, a, b) \in Values /\ EvalBinary(op, a, b).ty = a.ty
          /\ ~HasUB(a) /\ ~HasUB(b) =>
                /\ ~HasUB(EvalBinary(op, a, b))
                /\ BinaryMeaning(op, a.ty, a.v, b.v) = {EvalBinary(op, a, b).v}
      BY <1>4, <2>1, BitsDenote
    <2>3. ResultType(op, kids) = a.ty /\ op \notin Arithmetic \cup ShiftOp
      BY <1>1, <1>4 DEF ResultType, TypeOf, Arithmetic, ShiftOp, Comparison, Logical, BitOp
    <2> QED BY <1>1, <2>2, <2>3 DEF Computes
  <1> QED BY <1>2, <1>3, <1>4 DEF BinaryOps

LEMMA ChoiceComputes ==
    ASSUME NEW kids, Fits("TERNARY", kids),
           \A i \in DOMAIN kids : kids[i].val \in Values
    PROVE  Computes("TERNARY", kids)
  <1>1. /\ kids = <<kids[1], kids[2], kids[3]>> /\ DOMAIN kids = {1, 2, 3}
        /\ TypeOf(kids[3]) = TypeOf(kids[2])
    BY DEF Fits, BinaryOps, Arithmetic, Comparison, BitOp, ShiftOp, Logical
  <1>2. PICK a, b, c : /\ a = kids[1].val /\ b = kids[2].val /\ c = kids[3].val
                       /\ a \in Values /\ b \in Values /\ c \in Values
    BY <1>1
  <1>3. Result("TERNARY", kids) = IF a.v = 1 THEN b ELSE c
    <2> DEFINE vals == [i \in DOMAIN kids |-> kids[i].val]
    <2>1. vals[1] = a /\ vals[2] = b /\ vals[3] = c
      BY <1>1, <1>2
    <2>2. Result("TERNARY", kids) = Evaluate("TERNARY", vals)
      BY DEF Result
    <2> HIDE DEF vals
    <2>3. Evaluate("TERNARY", vals) = IF a.v = 1 THEN b ELSE c
      BY <2>1 DEF Evaluate, UnaryOps, BinaryOps, Arithmetic, Comparison, BitOp, ShiftOp, Logical
    <2> QED BY <2>2, <2>3
  <1>4. \A r : Meaning(Tree("TERNARY", kids, r)) = {IF a.v = 1 THEN b.v ELSE c.v}
    <2> SUFFICES ASSUME NEW r
                 PROVE  Meaning(Tree("TERNARY", kids, r)) = {IF a.v = 1 THEN b.v ELSE c.v}
      OBVIOUS
    <2>1. PICK e : e = Tree("TERNARY", kids, r)
      OBVIOUS
    <2>2. e.op = "TERNARY" /\ e.kids[1].val = a /\ e.kids[2].val = b /\ e.kids[3].val = c
      BY <1>2, <2>1 DEF Tree
    <2>3. Meaning(e) = {e.kids[IF a.v = 1 THEN 2 ELSE 3].val.v}
      BY <2>2 DEF Meaning, BinaryOps, Arithmetic, Comparison, BitOp, ShiftOp, Logical
    <2> QED BY <2>1, <2>2, <2>3
  <1>5. ResultType("TERNARY", kids) = b.ty /\ b.ty = c.ty
    BY <1>1, <1>2 DEF ResultType, TypeOf, Comparison, Logical
  <1>6. (\A i \in DOMAIN kids : ~HasUB(kids[i].val)) <=> ~HasUB(a) /\ ~HasUB(b) /\ ~HasUB(c)
    BY <1>1, <1>2
  <1> QED BY <1>2, <1>3, <1>4, <1>5, <1>6 DEF Computes

LEMMA ExtremeComputes ==
    ASSUME NEW op \in {"MIN", "MAX"}, NEW kids, Fits(op, kids),
           \A i \in DOMAIN kids : kids[i].val \in Values
    PROVE  Computes(op, kids)
  <1>1. /\ kids = <<kids[1], kids[2]>> /\ DOMAIN kids = {1, 2}
        /\ TypeOf(kids[2]) = TypeOf(kids[1])
    BY DEF Fits, BinaryOps, Arithmetic, Comparison, BitOp, ShiftOp, Logical
  <1>2. PICK a \in Values, b \in Values : a = kids[1].val /\ b = kids[2].val
    BY <1>1
  <1>3. Result(op, kids) = EvalMinMax(op, a, b)
    <2> DEFINE vals == [i \in DOMAIN kids |-> kids[i].val]
    <2>1. vals[1] = a /\ vals[2] = b
      BY <1>1, <1>2
    <2>2. Result(op, kids) = Evaluate(op, vals)
      BY DEF Result
    <2> HIDE DEF vals
    <2>3. Evaluate(op, vals) = EvalMinMax(op, a, b)
      BY <2>1 DEF Evaluate, UnaryOps, BinaryOps, Arithmetic, Comparison, BitOp, ShiftOp, Logical
    <2> QED BY <2>2, <2>3
  <1>4. \A r : Meaning(Tree(op, kids, r)) = {IF (a.v < b.v) = (op = "MIN") THEN a.v ELSE b.v}
    <2> SUFFICES ASSUME NEW r
                 PROVE  Meaning(Tree(op, kids, r))
                          = {IF (a.v < b.v) = (op = "MIN") THEN a.v ELSE b.v}
      OBVIOUS
    <2>1. PICK e : e = Tree(op, kids, r)
      OBVIOUS
    <2>2. e.op = op /\ e.kids[1].val = a /\ e.kids[2].val = b
      BY <1>2, <2>1 DEF Tree
    <2>3. Meaning(e) = {IF (a.v < b.v) = (op = "MIN") THEN a.v ELSE b.v}
      BY <2>2 DEF Meaning, BinaryOps, Arithmetic, Comparison, BitOp, ShiftOp, Logical
    <2> QED BY <2>1, <2>3
  <1>5. ResultType(op, kids) = a.ty /\ b.ty = a.ty
    BY <1>1, <1>2 DEF ResultType, TypeOf, Comparison, Logical
  <1>6. (\A i \in DOMAIN kids : ~HasUB(kids[i].val)) <=> ~HasUB(a) /\ ~HasUB(b)
    BY <1>1, <1>2
  <1>7. /\ EvalMinMax(op, a, b) \in {a, b}
        /\ ~HasUB(a) /\ ~HasUB(b) =>
             {EvalMinMax(op, a, b).v} = {IF (a.v < b.v) = (op = "MIN") THEN a.v ELSE b.v}
    BY <1>5, MinMaxDenotes
  <1> QED BY <1>2, <1>3, <1>4, <1>5, <1>6, <1>7 DEF Computes

LEMMA NodeComputes ==
    ASSUME NEW op \in Ops, NEW kids, Fits(op, kids), isC \in BOOLEAN,
           \A i \in DOMAIN kids : kids[i].val \in Values
    PROVE  Computes(op, kids)
  <1>1. CASE op \in UnaryOps
    BY <1>1, UnaryComputes
  <1>2. CASE op \in BinaryOps
    BY <1>2, BinaryComputes
  <1>3. CASE op = "TERNARY"
    BY <1>3, ChoiceComputes
  <1>4. CASE op \in {"MIN", "MAX"}
    BY <1>4, ExtremeComputes
  <1> QED BY <1>1, <1>2, <1>3, <1>4 DEF Ops

-----------------------------------------------------------------------------
(* Conversions.  The constructors wrap the children in casts until they    *)
(* have the types of the operator, and leave those alone that do.          *)

LEMMA RankFacts ==
    /\ Rank["INT"] = 5
    /\ \A t \in Types : Rank[t] \in 0 .. 8 /\ (Rank[t] >= 5 <=> t \in ArithTypes)
  <1> DEFINE R == Rank
  <1>1. /\ R["BOOL"] = 0 /\ R["SCHAR"] = 1 /\ R["UCHAR"] = 2 /\ R["SHORT"] = 3
        /\ R["USHORT"] = 4 /\ R["INT"] = 5 /\ R["UINT"] = 6 /\ R["LLONG"] = 7 /\ R["ULLONG"] = 8
    BY DEF Rank
  <1> HIDE DEF R
  <1>2. R["INT"] = 5 /\ \A t \in Types : R[t] \in 0 .. 8 /\ (R[t] >= 5 <=> t \in ArithTypes)
    BY <1>1 DEF Types, ArithTypes
  <1> QED BY <1>2 DEF R

LEMMA CommonTypeFacts ==
    ASSUME NEW l \in ArithTypes, NEW r \in ArithTypes
    PROVE  CommonType(l, r) \in ArithTypes /\ (l = r => CommonType(l, r) = l)
  <1>1. CommonType(l, r) \in {l, r, "UINT", "ULLONG"}
    BY DEF CommonType, GetCorrUnsigned
  <1>2. l = r => CommonType(l, r) = l
    BY DEF CommonType
  <1> QED BY <1>1, <1>2 DEF ArithTypes

\* What is local to a node: it is a constant, a cast, or an operator whose
\* children fit, with the value that evaluate gives it.
Local(x) ==
    /\ x = Tree(x.op, x.kids, x.val) /\ x.val \in Values
    /\ \/ x.op = "CONST" /\ x.kids = <<>> /\ ~HasUB(x.val)
       \/ x.op = "CAST" /\ x.kids = <<x.kids[1]>> /\ x.val = CastToType(TypeOf(x), x.kids[1].val)
       \/ x.op \in Ops /\ Fits(x.op, x.kids) /\ x.val = Result(x.op, x.kids)

\* A set of such nodes that holds the children of each.
Closed(W) == \A x \in W : Local(x) /\ \A i \in DOMAIN x.kids : x.kids[i] \in W

\* x, or a cast of it.
Converted(y, x) == y = x \/ \E t \in Types : y = TypeCastExpr(t, x)

Shaped(op, kids) ==
    \/ op \in UnaryOps /\ kids = <<kids[1]>>
    \/ op \in BinaryOps \cup {"MIN", "MAX"} /\ kids = <<kids[1], kids[2]>>
    \/ op = "TERNARY" /\ kids = <<kids[1], kids[2], kids[3]>>

LEMMA CastFacts ==
    ASSUME NEW x, x.val \in Values, NEW t \in Types
    PROVE  /\ Local(TypeCastExpr(t, x)) /\ TypeOf(TypeCastExpr(t, x)) = t
           /\ TypeCastExpr(t, x).kids = <<x>> /\ TypeCastExpr(t, x).op = "CAST"
           /\ TypeCastExpr(t, x).val = CastToType(t, x.val)
           /\ ~HasUB(TypeCastExpr(t, x).val) <=> ~HasUB(x.val)
           /\ Meaning(TypeCastExpr(t, x)) = {Wrap(t, x.val.v)}
  <1>1. PICK e : e = TypeCastExpr(t, x)
    OBVIOUS
  <1>2. /\ e.op = "CAST" /\ e.kids = <<x>> /\ e.val = CastToType(t, x.val)
        /\ e = Tree(e.op, e.kids, e.val) /\ e.kids[1] = x
    BY <1>1 DEF TypeCastExpr, Tree
  <1>3. Denotes(e.val, t, {Wrap(t, x.val.v)}) /\ (~HasUB(e.val) <=> ~HasUB(x.val))
    BY <1>2, CastDenotes
  <1>4. e.val \in Values /\ TypeOf(e) = t
    BY <1>3 DEF Denotes, TypeOf
  <1>5. Local(e)
    BY <1>2, <1>4 DEF Local
  <1>6. Meaning(e) = {Wrap(t, x.val.v)}
    BY <1>2, <1>4 DEF Meaning, BinaryOps, Arithmetic, Comparison, BitOp, ShiftOp, Logical
  <1> QED BY <1>1, <1>2, <1>3, <1>4, <1>5, <1>6

LEMMA ConvToFacts ==
    ASSUME NEW x, x.val \in Values, NEW t \in Types
    PROVE  /\ Converted(ConvTo(t, x), x) /\ TypeOf(ConvTo(t, x)) = t
           /\ TypeOf(x) = t => ConvTo(t, x) = x
  BY CastFacts DEF ConvTo, Converted

LEMMA IntegralPromFacts ==
    ASSUME NEW x, x.val \in Values
    PROVE  /\ Converted(IntegralProm(x), x) /\ TypeOf(IntegralProm(x)) \in ArithTypes
           /\ TypeOf(x) \in ArithTypes => IntegralProm(x) = x
  <1>1. TypeOf(x) \in Types /\ "INT" \in Types /\ "INT" \in ArithTypes
    BY ValueFacts DEF TypeOf, Types, ArithTypes
  <1>2. Rank[TypeOf(x)] >= Rank["INT"] <=> TypeOf(x) \in ArithTypes
    BY <1>1, RankFacts
  <1>3. TypeOf(TypeCastExpr("INT", x)) = "INT"
    BY <1>1, CastFacts
  <1> QED BY <1>1, <1>2, <1>3 DEF IntegralProm, Converted

\* Only one cast is put on a child: both conversions together are a cast of
\* its promotion, which has to be a tree of its own.
ConvertedTwice(y, x) == \E z : Converted(z, x) /\ Converted(y, z) /\ z.val \in Values

LEMMA ConvertedValue ==
    ASSUME NEW x, x.val \in Values, NEW y, Converted(y, x)
    PROVE  y.val \in Values
  BY CastFacts DEF Converted, Local

LEMMA ArithPair ==
    ASSUME NEW x, NEW y, x.val \in Values, y.val \in Values
    PROVE  LET p == ArithConv(IntegralProm(x), IntegralProm(y))
           IN  /\ p = <<p[1], p[2]>> /\ ConvertedTwice(p[1], x) /\ ConvertedTwice(p[2], y)
               /\ TypeOf(p[1]) \in ArithTypes /\ TypeOf(p[2]) = TypeOf(p[1])
               /\ TypeOf(x) \in ArithTypes /\ TypeOf(y) = TypeOf(x) => p = <<x, y>>
  <1>1. PICK u, v : u = IntegralProm(x) /\ v = IntegralProm(y)
    OBVIOUS
  <1>2. /\ Converted(u, x) /\ Converted(v, y) /\ u.val \in Values /\ v.val \in Values
        /\ TypeOf(u) \in ArithTypes /\ TypeOf(v) \in ArithTypes
        /\ (TypeOf(x) \in ArithTypes => u = x) /\ (TypeOf(y) \in ArithTypes => v = y)
    BY <1>1, IntegralPromFacts, ConvertedValue
  <1>3. PICK t : t = CommonType(TypeOf(u), TypeOf(v))
    OBVIOUS
  <1>4. t \in ArithTypes /\ t \in Types /\ (TypeOf(u) = TypeOf(v) => t = TypeOf(u))
    BY <1>2, <1>3, CommonTypeFacts, ArithTypeFacts
  <1>5. ArithConv(u, v) = <<ConvTo(t, u), ConvTo(t, v)>>
    BY <1>3 DEF ArithConv
  <1>6. PICK a, b : a = ConvTo(t, u) /\ b = ConvTo(t, v)
    OBVIOUS
  <1>7. /\ Converted(a, u) /\ Converted(b, v) /\ TypeOf(a) = t /\ TypeOf(b) = t
        /\ (TypeOf(u) = t => a = u) /\ (TypeOf(v) = t => b = v)
    BY <1>2, <1>4, <1>6, ConvToFacts
  <1>8. ConvertedTwice(a, x) /\ ConvertedTwice(b, y)
    BY <1>2, <1>7 DEF ConvertedTwice
  <1>9. TypeOf(x) \in ArithTypes /\ TypeOf(y) = TypeOf(x) => a = x /\ b = y
    BY <1>2, <1>4, <1>7
  <1> QED BY <1>1, <1>4, <1>5, <1>6, <1>7, <1>8, <1>9

LEMMA Prepend ==
    ASSUME NEW u, NEW a, NEW b
    PROVE  <<u>> \o <<a, b>> = <<u, a, b>>
  <1>1. PICK S : S = {u, a, b}
    OBVIOUS
  <1>2. PICK p, q, r : p = <<u>> /\ q = <<a, b>> /\ r = <<u, a, b>>
    OBVIOUS
  <1>3. /\ p \in Seq(S) /\ q \in Seq(S) /\ r \in Seq(S)
        /\ Len(p) = 1 /\ Len(q) = 2 /\ Len(r) = 3
    BY <1>1, <1>2
  <1>4. /\ p \o q \in Seq(S) /\ Len(p \o q) = Len(p) + Len(q)
        /\ \A i \in 1 .. Len(p) + Len(q) : (p \o q)[i] = IF i <= Len(p) THEN p[i] ELSE q[i - Len(p)]
    BY <1>3, ConcatProperties
  <1>5. (p \o q)[1] = u /\ (p \o q)[2] = a /\ (p \o q)[3] = b
    BY <1>2, <1>3, <1>4
  <1>6. \A i \in 1 .. Len(r) : (p \o q)[i] = r[i]
    BY <1>2, <1>3, <1>5
  <1>7. p \o q = r
    BY <1>3, <1>4, <1>6, SeqEqual
  <1> QED BY <1>2, <1>7

LEMMA PropagateFits ==
    ASSUME NEW op \in Ops, NEW kids, Shaped(op, kids),
           \A i \in DOMAIN kids : kids[i].val \in Values
    PROVE  /\ Fits(op, PropagateType(op, kids))
           /\ DOMAIN PropagateType(op, kids) = DOMAIN kids
           /\ \A i \in DOMAIN kids : ConvertedTwice(PropagateType(op, kids)[i], kids[i])
           /\ Fits(op, kids) => PropagateType(op, kids) = kids
  <1> DEFINE c == PropagateType(op, kids)
  <1> DEFINE Done == /\ Fits(op, c) /\ DOMAIN c = DOMAIN kids
                     /\ \A i \in DOMAIN kids : ConvertedTwice(c[i], kids[i])
                     /\ Fits(op, kids) => c = kids
  <1>1. \A x, y : x.val \in Values /\ Converted(y, x) => ConvertedTwice(y, x)
    BY DEF ConvertedTwice, Converted
  <1>2. CASE op \in {"PLUS", "NEGATE", "BIT_NOT"}
    <2>1. kids = <<kids[1]>> /\ DOMAIN kids = {1}
      BY <1>2 DEF Shaped, BinaryOps, Arithmetic, Comparison, BitOp, ShiftOp, Logical
    <2>2. PICK x, y : x = kids[1] /\ y = IntegralProm(x) /\ x.val \in Values
      BY <2>1
    <2>3. c = <<y>>
      BY <1>2, <2>2 DEF PropagateType, Arithmetic, Comparison, BitOp, ShiftOp, Logical
    <2>4. /\ Converted(y, x) /\ TypeOf(y) \in ArithTypes /\ (TypeOf(x) \in ArithTypes => y = x)
      BY <2>2, IntegralPromFacts
    <2>5. Fits(op, <<y>>)
      BY <1>2, <2>4 DEF Fits
    <2>6. Fits(op, kids) => TypeOf(x) \in ArithTypes
      BY <1>2, <2>2 DEF Fits, Arithmetic, Comparison, BitOp, ShiftOp, Logical
    <2>7. ConvertedTwice(y, x)
      BY <1>1, <2>2, <2>4
    <2> HIDE DEF c
    <2>8. Done
      BY <2>1, <2>2, <2>3, <2>4, <2>5, <2>6, <2>7
    <2> QED BY <2>8 DEF c
  <1>3. CASE op = "LOG_NOT"
    <2>1. kids = <<kids[1]>> /\ DOMAIN kids = {1}
      BY <1>3 DEF Shaped, BinaryOps, Arithmetic, Comparison, BitOp, ShiftOp, Logical
    <2>2. PICK x, y : x = kids[1] /\ y = ConvTo("BOOL", x) /\ x.val \in Values
      BY <2>1
    <2>3. c = <<y>>
      BY <1>3, <2>2 DEF PropagateType, ConvToBool, Arithmetic, Comparison, BitOp, ShiftOp, Logical
    <2>4. Converted(y, x) /\ TypeOf(y) = "BOOL" /\ (TypeOf(x) = "BOOL" => y = x)
      <3>1. "BOOL" \in Types
        BY DEF Types
      <3> QED BY <2>2, <3>1, ConvToFacts
    <2>5. Fits(op, <<y>>)
      BY <1>3, <2>4 DEF Fits
    <2>6. Fits(op, kids) => TypeOf(x) = "BOOL"
      BY <1>3, <2>2 DEF Fits, Arithmetic, Comparison, BitOp, ShiftOp, Logical
    <2>7. ConvertedTwice(y, x)
      BY <1>1, <2>2, <2>4
    <2> HIDE DEF c
    <2>8. Done
      BY <2>1, <2>2, <2>3, <2>4, <2>5, <2>6, <2>7
    <2> QED BY <2>8 DEF c
  <1>4. CASE op \in Arithmetic \cup Comparison \cup BitOp
    <2>1. kids = <<kids[1], kids[2]>> /\ DOMAIN kids = {1, 2}
      BY <1>4 DEF Shaped, UnaryOps, BinaryOps, Arithmetic, Comparison, BitOp, ShiftOp, Logical
    <2>2. PICK x, y : x = kids[1] /\ y = kids[2] /\ x.val \in Values /\ y.val \in Values
      BY <2>1
    <2>3. PICK p : p = ArithConv(IntegralProm(x), IntegralProm(y))
      OBVIOUS
    <2>4. c = p
      BY <1>4, <2>2, <2>3 DEF PropagateType, Arithmetic, Comparison, BitOp, ShiftOp, Logical
    <2>5. /\ p = <<p[1], p[2]>> /\ ConvertedTwice(p[1], x) /\ ConvertedTwice(p[2], y)
          /\ TypeOf(p[1]) \in ArithTypes /\ TypeOf(p[2]) = TypeOf(p[1])
          /\ TypeOf(x) \in ArithTypes /\ TypeOf(y) = TypeOf(x) => p = <<x, y>>
      BY <2>2, <2>3, ArithPair
    <2>6. Fits(op, p)
      BY <1>4, <2>5 DEF Fits
    <2>7. Fits(op, kids) => TypeOf(x) \in ArithTypes /\ TypeOf(y) = TypeOf(x)
      BY <1>4, <2>2 DEF Fits, Arithmetic, Comparison, BitOp, ShiftOp, Logical
    <2>8. DOMAIN p = {1, 2}
      BY <2>5
    <2> HIDE DEF c
    <2>9. Done
      BY <2>1, <2>2, <2>4, <2>5, <2>6, <2>7, <2>8
    <2> QED BY <2>9 DEF c
  <1>5. CASE op \in ShiftOp
    <2>1. kids = <<kids[1], kids[2]>> /\ DOMAIN kids = {1, 2}
      BY <1>5 DEF Shaped, UnaryOps, BinaryOps, Arithmetic, Comparison, BitOp, ShiftOp, Logical
    <2>2. PICK x, y : x = kids[1] /\ y = kids[2] /\ x.val \in Values /\ y.val \in Values
      BY <2>1
    <2>3. PICK u, v : u = IntegralProm(x) /\ v = IntegralProm(y)
      OBVIOUS
    <2>4. c = <<u, v>>
      BY <1>5, <2>2, <2>3 DEF PropagateType, Arithmetic, Comparison, BitOp, ShiftOp, Logical
    <2>5. /\ Converted(u, x) /\ Converted(v, y)
          /\ TypeOf(u) \in ArithTypes /\ TypeOf(v) \in ArithTypes
          /\ (TypeOf(x) \in ArithTypes => u = x) /\ (TypeOf(y) \in ArithTypes => v = y)
      BY <2>2, <2>3, IntegralPromFacts
    <2>6. Fits(op, <<u, v>>)
      BY <1>5, <2>5 DEF Fits
    <2>7. Fits(op, kids) => TypeOf(x) \in ArithTypes /\ TypeOf(y) \in ArithTypes
      BY <1>5, <2>2 DEF Fits, Arithmetic, Comparison, BitOp, ShiftOp, Logical
    <2>8. ConvertedTwice(u, x) /\ ConvertedTwice(v, y)
      BY <1>1, <2>2, <2>5
    <2> HIDE DEF c
    <2>9. Done
      BY <2>1, <2>2, <2>4, <2>5, <2>6, <2>7, <2>8
    <2> QED BY <2>9 DEF c
  <1>6. CASE op \in Logical
    <2>1. kids = <<kids[1], kids[2]>> /\ DOMAIN kids = {1, 2}
      BY <1>6 DEF Shaped, UnaryOps, BinaryOps, Arithmetic, Comparison, BitOp, ShiftOp, Logical
    <2>2. PICK x, y : x = kids[1] /\ y = kids[2] /\ x.val \in Values /\ y.val \in Values
      BY <2>1
    <2>3. PICK u, v : u = ConvTo("BOOL", x) /\ v = ConvTo("BOOL", y)
      OBVIOUS
    <2>4. c = <<u, v>>
      BY <1>6, <2>2, <2>3 DEF PropagateType, ConvToBool, Arithmetic, Comparison, BitOp, ShiftOp, Logical
    <2>5. /\ Converted(u, x) /\ Converted(v, y) /\ TypeOf(u) = "BOOL" /\ TypeOf(v) = "BOOL"
          /\ (TypeOf(x) = "BOOL" => u = x) /\ (TypeOf(y) = "BOOL" => v = y)
      <3>1. "BOOL" \in Types
        BY DEF Types
      <3> QED BY <2>2, <2>3, <3>1, ConvToFacts
    <2>6. Fits(op, <<u, v>>)
      BY <1>6, <2>5 DEF Fits
    <2>7. Fits(op, kids) => TypeOf(x) = "BOOL" /\ TypeOf(y) = "BOOL"
      BY <1>6, <2>2 DEF Fits, Arithmetic, Comparison, BitOp, ShiftOp, Logical
    <2>8. ConvertedTwice(u, x) /\ ConvertedTwice(v, y)
      BY <1>1, <2>2, <2>5
    <2> HIDE DEF c
    <2>9. Done
      BY <2>1, <2>2, <2>4, <2>5, <2>6, <2>7, <2>8
    <2> QED BY <2>9 DEF c
  <1>7. CASE op \in {"MIN", "MAX"}
    <2>1. kids = <<kids[1], kids[2]>> /\ DOMAIN kids = {1, 2}
      BY <1>7 DEF Shaped, UnaryOps, BinaryOps, Arithmetic, Comparison, BitOp, ShiftOp, Logical
    <2>2. PICK x, y : x = kids[1] /\ y = kids[2] /\ x.val \in Values /\ y.val \in Values
      BY <2>1
    <2>3. PICK t : t = TopType(x, y) /\ t \in Types /\ (TypeOf(x) = TypeOf(y) => t = TypeOf(x))
      BY <2>2, ValueFacts DEF TopType, TypeOf
    <2>4. PICK u, v : u = ConvTo(t, x) /\ v = ConvTo(t, y)
      OBVIOUS
    <2>5. c = <<u, v>>
      BY <1>7, <2>2, <2>3, <2>4 DEF PropagateType, Arithmetic, Comparison, BitOp, ShiftOp, Logical
    <2>6. /\ Converted(u, x) /\ Converted(v, y) /\ TypeOf(u) = t /\ TypeOf(v) = t
          /\ (TypeOf(x) = t => u = x) /\ (TypeOf(y) = t => v = y)
      BY <2>2, <2>3, <2>4, ConvToFacts
    <2>7. Fits(op, <<u, v>>)
      BY <1>7, <2>6 DEF Fits
    <2>8. Fits(op, kids) => TypeOf(x) = TypeOf(y)
      BY <1>7, <2>2 DEF Fits, Arithmetic, Comparison, BitOp, ShiftOp, Logical
    <2>9. ConvertedTwice(u, x) /\ ConvertedTwice(v, y)
      BY <1>1, <2>2, <2>6
    <2> HIDE DEF c
    <2>10. Done
      BY <2>1, <2>2, <2>3, <2>5, <2>6, <2>7, <2>8, <2>9
    <2> QED BY <2>10 DEF c
  <1>8. CASE op = "TERNARY"
    <2>1. kids = <<kids[1], kids[2], kids[3]>> /\ DOMAIN kids = {1, 2, 3}
      BY <1>8 DEF Shaped, UnaryOps, BinaryOps, Arithmetic, Comparison, BitOp, ShiftOp, Logical
    <2>2. PICK w, x, y : /\ w = kids[1] /\ x = kids[2] /\ y = kids[3]
                         /\ w.val \in Values /\ x.val \in Values /\ y.val \in Values
      BY <2>1
    <2>3. PICK u, p : u = ConvTo("BOOL", w) /\ p = ArithConv(IntegralProm(x), IntegralProm(y))
      OBVIOUS
    <2>4. /\ p = <<p[1], p[2]>> /\ ConvertedTwice(p[1], x) /\ ConvertedTwice(p[2], y)
          /\ TypeOf(p[1]) \in ArithTypes /\ TypeOf(p[2]) = TypeOf(p[1])
          /\ TypeOf(x) \in ArithTypes /\ TypeOf(y) = TypeOf(x) => p = <<x, y>>
      BY <2>2, <2>3, ArithPair
    <2>5. c = <<u>> \o p
      BY <1>8, <2>2, <2>3 DEF PropagateType, ConvToBool, Arithmetic, Comparison, BitOp, ShiftOp, Logical
    <2>6. PICK a, b : p = <<a, b>> /\ a = p[1] /\ b = p[2]
      BY <2>4
    <2>7. c = <<u, a, b>>
      <3>1. <<u>> \o <<a, b>> = <<u, a, b>>
        BY Prepend
      <3> QED BY <2>5, <2>6, <3>1
    <2>8. Converted(u, w) /\ TypeOf(u) = "BOOL" /\ (TypeOf(w) = "BOOL" => u = w)
      <3>1. "BOOL" \in Types
        BY DEF Types
      <3> QED BY <2>2, <2>3, <3>1, ConvToFacts
    <2>9. Fits(op, <<u, a, b>>)
      BY <1>8, <2>4, <2>6, <2>8 DEF Fits
    <2>10. Fits(op, kids) => TypeOf(w) = "BOOL" /\ TypeOf(x) \in ArithTypes /\ TypeOf(y) = TypeOf(x)
      BY <1>8, <2>2 DEF Fits, Arithmetic, Comparison, BitOp, ShiftOp, Logical
    <2>11. ConvertedTwice(u, w)
      BY <1>1, <2>2, <2>8
    <2>12. TypeOf(x) \in ArithTypes /\ TypeOf(y) = TypeOf(x) => a = x /\ b = y
      BY <2>4, <2>6
    <2> HIDE DEF c
    <2>13. Fits(op, c) /\ DOMAIN c = DOMAIN kids
      BY <2>1, <2>7, <2>9
    <2>14. \A i \in DOMAIN kids : ConvertedTwice(c[i], kids[i])
      BY <2>1, <2>2, <2>4, <2>6, <2>7, <2>11
    <2>15. Fits(op, kids) => c = kids
      BY <2>1, <2>2, <2>7, <2>8, <2>10, <2>12
    <2>16. Done
      BY <2>13, <2>14, <2>15
    <2> QED BY <2>16 DEF c
  <1> QED BY <1>2, <1>3, <1>4, <1>5, <1>6, <1>7, <1>8 DEF Ops, UnaryOps, BinaryOps

LEMMA NodeIs ==
    ASSUME NEW op, NEW kids
    PROVE  Node(op, kids) = Tree(op, PropagateType(op, kids), Result(op, PropagateType(op, kids)))
  BY DEF Node, Result

-----------------------------------------------------------------------------
(* Nodes that fit, one by one.                                             *)

\* A node whose value is defined, and is what the emitted text means.
Sound(x) == ~HasUB(x.val) /\ Meaning(x) = {x.val.v}

LEMMA KidsShape ==
    ASSUME NEW x, Local(x)
    PROVE  Len(x.kids) \in 0 .. 3 /\ DOMAIN x.kids = 1 .. Len(x.kids)
  <1>1. \/ x.kids = <<>> \/ x.kids = <<x.kids[1]>> \/ x.kids = <<x.kids[1], x.kids[2]>>
        \/ x.kids = <<x.kids[1], x.kids[2], x.kids[3]>>
    BY DEF Local, Fits
  <1>2. CASE x.kids = <<>>
    BY <1>2
  <1>3. CASE x.kids = <<x.kids[1]>>
    <2>1. PICK a : x.kids = <<a>>
      BY <1>3
    <2>2. Len(x.kids) = 1 /\ DOMAIN x.kids = 1 .. 1
      BY <2>1
    <2> QED BY <2>2
  <1>4. CASE x.kids = <<x.kids[1], x.kids[2]>>
    <2>1. PICK a, b : x.kids = <<a, b>>
      BY <1>4
    <2>2. Len(x.kids) = 2 /\ DOMAIN x.kids = 1 .. 2
      BY <2>1
    <2> QED BY <2>2
  <1>5. CASE x.kids = <<x.kids[1], x.kids[2], x.kids[3]>>
    <2>1. PICK a, b, c : x.kids = <<a, b, c>>
      BY <1>5
    <2>2. Len(x.kids) = 3 /\ DOMAIN x.kids = 1 .. 3
      BY <2>1
    <2> QED BY <2>2
  <1> QED BY <1>1, <1>2, <1>3, <1>4, <1>5

\* A tuple with one member replaced is a tuple.
LEMMA TupleExcept ==
    ASSUME NEW i, NEW k
    PROVE  /\ \A a : i = 1 => [<<a>> EXCEPT ![i] = k] = <<k>>
           /\ \A a, b : /\ i = 1 => [<<a, b>> EXCEPT ![i] = k] = <<k, b>>
                        /\ i = 2 => [<<a, b>> EXCEPT ![i] = k] = <<a, k>>
           /\ \A a, b, c : /\ i = 1 => [<<a, b, c>> EXCEPT ![i] = k] = <<k, b, c>>
                           /\ i = 2 => [<<a, b, c>> EXCEPT ![i] = k] = <<a, k, c>>
                           /\ i = 3 => [<<a, b, c>> EXCEPT ![i] = k] = <<a, b, k>>
  OBVIOUS

LEMMA FitsWithKid ==
    ASSUME NEW op \in Ops, NEW kids, Fits(op, kids), NEW i \in DOMAIN kids, NEW k,
           TypeOf(k) = TypeOf(kids[i])
    PROVE  /\ Fits(op, [kids EXCEPT ![i] = k])
           /\ ResultType(op, [kids EXCEPT ![i] = k]) = ResultType(op, kids)
  <1> DEFINE new == [kids EXCEPT ![i] = k]
  <1>1. \A j \in DOMAIN kids : TypeOf(new[j]) = TypeOf(kids[j])
    OBVIOUS
  <1>2. CASE op \in UnaryOps
    <2>1. PICK a : kids = <<a>>
      BY <1>2 DEF Fits, UnaryOps, Arithmetic, Comparison, BitOp, ShiftOp, Logical
    <2>2. i = 1 /\ kids[1] = a
      BY <2>1
    <2>3. new = <<new[1]>> /\ TypeOf(new[1]) = TypeOf(kids[1])
      BY <1>1, <2>1, <2>2, TupleExcept
    <2> HIDE DEF new
    <2>4. Fits(op, new) /\ ResultType(op, new) = ResultType(op, kids)
      BY <1>2, <2>3 DEF Fits, ResultType, UnaryOps, Arithmetic, Comparison, BitOp, ShiftOp, Logical
    <2> QED BY <2>4 DEF new
  <1>3. CASE op \in BinaryOps \cup {"MIN", "MAX"}
    <2>1. PICK a, b : kids = <<a, b>>
      BY <1>3 DEF Fits, BinaryOps, Arithmetic, Comparison, BitOp, ShiftOp, Logical
    <2>2. i \in {1, 2} /\ DOMAIN kids = {1, 2}
      BY <2>1
    <2>3. /\ new = <<new[1], new[2]>> /\ TypeOf(new[1]) = TypeOf(kids[1])
          /\ TypeOf(new[2]) = TypeOf(kids[2])
      BY <1>1, <2>1, <2>2, TupleExcept
    <2> HIDE DEF new
    <2>4. Fits(op, new) /\ ResultType(op, new) = ResultType(op, kids)
      BY <1>3, <2>3 DEF Fits, ResultType, BinaryOps, Arithmetic, Comparison, BitOp, ShiftOp, Logical
    <2> QED BY <2>4 DEF new
  <1>4. CASE op = "TERNARY"
    <2>1. PICK a, b, c : kids = <<a, b, c>>
      BY <1>4 DEF Fits, BinaryOps, Arithmetic, Comparison, BitOp, ShiftOp, Logical
    <2>2. i \in {1, 2, 3} /\ DOMAIN kids = {1, 2, 3}
      BY <2>1
    <2>3. /\ new = <<new[1], new[2], new[3]>> /\ TypeOf(new[1]) = TypeOf(kids[1])
          /\ TypeOf(new[2]) = TypeOf(kids[2]) /\ TypeOf(new[3]) = TypeOf(kids[3])
      BY <1>1, <2>1, <2>2, TupleExcept
    <2> HIDE DEF new
    <2>4. Fits(op, new) /\ ResultType(op, new) = ResultType(op, kids)
      BY <1>4, <2>3 DEF Fits, ResultType, BinaryOps, Arithmetic, Comparison, BitOp, ShiftOp, Logical
    <2> QED BY <2>4 DEF new
  <1> QED BY <1>2, <1>3, <1>4 DEF Ops

\* The constructor of an operator whose children fit adds no conversion.
LEMMA NodeKept ==
    ASSUME NEW op \in Ops, NEW kids, Fits(op, kids), isC \in BOOLEAN,
           \A i \in DOMAIN kids : kids[i].val \in Values
    PROVE  /\ Node(op, kids).op = op /\ Node(op, kids).kids = kids
           /\ Node(op, kids).val = Result(op, kids)
           /\ Local(Node(op, kids)) /\ TypeOf(Node(op, kids)) = ResultType(op, kids)
           /\ Node(op, kids) # Aborted
  <1>1. Shaped(op, kids)
    BY DEF Fits, Shaped, Ops, UnaryOps, BinaryOps
  <1>2. PropagateType(op, kids) = kids
    BY <1>1, PropagateFits
  <1>3. PICK n : n = Node(op, kids) /\ n = Tree(op, kids, Result(op, kids))
    BY <1>2, NodeIs
  <1>4. n.op = op /\ n.kids = kids /\ n.val = Result(op, kids) /\ n = Tree(n.op, n.kids, n.val)
    BY <1>3 DEF Tree
  <1>5. n.val \in Values /\ TypeOf(n) = ResultType(op, kids)
    BY <1>4, NodeComputes DEF Computes, TypeOf
  <1>6. Local(n)
    BY <1>4, <1>5 DEF Local
  <1>7. op # "ABORT"
    BY DEF Ops, UnaryOps, BinaryOps, Arithmetic, Comparison, BitOp, ShiftOp, Logical
  <1>8. n # Aborted
    BY <1>4, <1>7 DEF Aborted
  <1> QED BY <1>3, <1>4, <1>5, <1>6, <1>8

LEMMA WithKidFacts ==
    ASSUME NEW e, Local(e), NEW i \in DOMAIN e.kids, NEW k, k.val \in Values, isC \in BOOLEAN,
           \A j \in DOMAIN e.kids : e.kids[j].val \in Values, TypeOf(k) = TypeOf(e.kids[i])
    PROVE  LET w == WithKid(e, i, k)
           IN  /\ Local(w) /\ TypeOf(w) = TypeOf(e)
               /\ Len(w.kids) = Len(e.kids) /\ DOMAIN w.kids = DOMAIN e.kids
               /\ w.kids = [e.kids EXCEPT ![i] = k]
  <1>1. PICK w : w = WithKid(e, i, k)
    OBVIOUS
  <1>2. CASE e.op = "CAST"
    <2>1. e.kids = <<e.kids[1]>>
      BY <1>2 DEF Local, Ops, UnaryOps, BinaryOps, Arithmetic, Comparison, BitOp, ShiftOp, Logical
    <2>2. w = TypeCastExpr(TypeOf(e), k) /\ TypeOf(e) \in Types
      BY <1>1, <1>2, ValueFacts DEF WithKid, Local, TypeOf
    <2>3. Local(w) /\ TypeOf(w) = TypeOf(e) /\ w.kids = <<k>>
      BY <2>2, CastFacts
    <2>4. PICK a : e.kids = <<a>>
      BY <2>1
    <2>5. i = 1
      BY <2>4
    <2>6. w.kids = [e.kids EXCEPT ![i] = k]
      BY <2>3, <2>4, <2>5, TupleExcept
    <2>7. Len(w.kids) = Len(e.kids) /\ DOMAIN w.kids = DOMAIN e.kids
      BY <2>3, <2>4
    <2> QED BY <1>1, <2>3, <2>6, <2>7
  <1>3. CASE e.op # "CAST"
    <2>1. e.op \in Ops /\ Fits(e.op, e.kids) /\ e.val = Result(e.op, e.kids)
      BY <1>3 DEF Local
    <2>2. PICK new : new = [e.kids EXCEPT ![i] = k]
      OBVIOUS
    <2>3. w = Node(e.op, new)
      BY <1>1, <1>3, <2>2 DEF WithKid
    <2>4. Fits(e.op, new) /\ ResultType(e.op, new) = ResultType(e.op, e.kids)
      BY <2>1, <2>2, FitsWithKid
    <2>5. DOMAIN new = DOMAIN e.kids /\ \A j \in DOMAIN new : new[j].val \in Values
      BY <2>2
    <2>6. w.kids = new /\ Local(w) /\ TypeOf(w) = ResultType(e.op, new)
      BY <2>1, <2>3, <2>4, <2>5, NodeKept
    <2>7. TypeOf(e) = ResultType(e.op, e.kids)
      BY <2>1, NodeComputes DEF Computes, TypeOf
    <2>8. Len(w.kids) = Len(e.kids)
      <3>1. PICK m, n : /\ m = Len(w.kids) /\ n = Len(e.kids) /\ m \in 0 .. 3 /\ n \in 0 .. 3
                        /\ DOMAIN w.kids = 1 .. m /\ DOMAIN e.kids = 1 .. n
        BY <2>6, KidsShape
      <3>2. 1 .. m = 1 .. n
        BY <2>5, <2>6, <3>1
      <3>3. m = n
        BY <3>1, <3>2
      <3> QED BY <3>1, <3>3
    <2> QED BY <1>1, <2>2, <2>4, <2>5, <2>6, <2>7, <2>8
  <1> QED BY <1>2, <1>3

LEMMA LocalAccepts ==
    ASSUME NEW x, Local(x)
    PROVE  Accepts(x)
  <1>1. CASE x.op \in {"CONST", "CAST", "TERNARY", "PLUS"}
    BY <1>1 DEF Accepts, Arithmetic, Comparison, BitOp, ShiftOp, Logical
  <1>2. CASE x.op \notin {"CONST", "CAST", "TERNARY", "PLUS"}
    <2>1. x.op \in Ops /\ Fits(x.op, x.kids)
      BY <1>2 DEF Local
    <2> QED BY <1>2, <2>1 DEF Accepts, Fits, ArithTypes, Ops, UnaryOps, BinaryOps,
                              Arithmetic, Comparison, BitOp, ShiftOp, Logical
  <1> QED BY <1>1, <1>2

\* With its children sound, a node is sound unless it has undefined behaviour,
\* and then it is one that rebuild repairs.
LEMMA NodeIsSound ==
    ASSUME NEW x, Local(x), isC \in BOOLEAN,
           \A i \in DOMAIN x.kids : x.kids[i].val \in Values /\ Sound(x.kids[i])
    PROVE  /\ ~HasUB(x.val) => Sound(x)
           /\ HasUB(x.val) => x.op \in Arithmetic \cup ShiftOp \cup {"NEGATE"}
           /\ NeedsRepair(x) <=> HasUB(x.val)
  <1>1. CASE x.op = "CONST"
    <2>1. ~HasUB(x.val)
      BY <1>1 DEF Local, Ops, UnaryOps, BinaryOps, Arithmetic, Comparison, BitOp, ShiftOp, Logical
    <2>2. Meaning(x) = {x.val.v}
      BY <1>1 DEF Meaning, BinaryOps, Arithmetic, Comparison, BitOp, ShiftOp, Logical
    <2> QED BY <2>1, <2>2, LocalAccepts DEF Sound, NeedsRepair
  <1>2. CASE x.op = "CAST"
    <2>1. x.kids = <<x.kids[1]>> /\ x.val = CastToType(TypeOf(x), x.kids[1].val)
      BY <1>2 DEF Local, Ops, UnaryOps, BinaryOps, Arithmetic, Comparison, BitOp, ShiftOp, Logical
    <2>2. 1 \in DOMAIN x.kids
      BY <2>1
    <2>3. PICK a \in Values : a = x.kids[1].val /\ ~HasUB(a)
      BY <2>2 DEF Sound
    <2>4. TypeOf(x) \in Types
      BY ValueFacts DEF Local, TypeOf
    <2>5. Denotes(x.val, TypeOf(x), {Wrap(TypeOf(x), a.v)}) /\ ~HasUB(x.val)
      BY <2>1, <2>3, <2>4, CastDenotes
    <2>6. Meaning(x) = {Wrap(TypeOf(x), a.v)}
      BY <1>2, <2>3 DEF Meaning, BinaryOps, Arithmetic, Comparison, BitOp, ShiftOp, Logical
    <2> QED BY <2>5, <2>6, LocalAccepts DEF Sound, NeedsRepair, Denotes
  <1>3. CASE x.op \notin {"CONST", "CAST"}
    <2>1. /\ x.op \in Ops /\ Fits(x.op, x.kids) /\ x.val = Result(x.op, x.kids)
          /\ x = Tree(x.op, x.kids, x.val)
      BY <1>3 DEF Local
    <2>2. Computes(x.op, x.kids)
      BY <2>1, NodeComputes
    <2>3. \A i \in DOMAIN x.kids : ~HasUB(x.kids[i].val)
      BY DEF Sound
    <2>4. ~HasUB(x.val) => Meaning(x) = {x.val.v}
      BY <2>1, <2>2, <2>3 DEF Computes
    <2>5. x.op \in SafeOps => ~HasUB(x.val)
      BY <2>1, <2>2, <2>3 DEF Computes
    <2>6. x.op \in SafeOps \/ x.op \in Arithmetic \cup ShiftOp \cup {"NEGATE"}
      BY <2>1 DEF Ops, SafeOps, UnaryOps, BinaryOps
    <2>7. x.op \in Arithmetic \cup ShiftOp \cup {"NEGATE"} => x.op \notin NeverRepaired
      BY DEF Arithmetic, ShiftOp, NeverRepaired
    <2> QED BY <2>4, <2>5, <2>6, <2>7, LocalAccepts DEF Sound, NeedsRepair
  <1> QED BY <1>1, <1>2, <1>3

-----------------------------------------------------------------------------
(* Trees.  A tree is well made if some closed set holds its root; all the  *)
(* nodes of a tree in a good set are sound.                                *)

GoodSet(G) == Closed(G) /\ \A x \in G : Sound(x)

LEMMA AddNode ==
    ASSUME NEW W, Closed(W), NEW x, Local(x), \A i \in DOMAIN x.kids : x.kids[i] \in W
    PROVE  Closed(W \cup {x})
  BY DEF Closed

LEMMA JoinClosed ==
    ASSUME NEW W, Closed(W), NEW V, Closed(V)
    PROVE  Closed(W \cup V)
  BY DEF Closed

LEMMA ClosedValues ==
    ASSUME NEW W, Closed(W), NEW x \in W
    PROVE  /\ Local(x) /\ x.val \in Values
           /\ \A i \in DOMAIN x.kids : x.kids[i] \in W /\ x.kids[i].val \in Values
  BY DEF Closed, Local

\* A sound set stays so with a node over its members that has no undefined
\* behaviour itself.
LEMMA AddGood ==
    ASSUME NEW G, GoodSet(G), NEW x, Local(x), \A i \in DOMAIN x.kids : x.kids[i] \in G,
           ~HasUB(x.val), isC \in BOOLEAN
    PROVE  GoodSet(G \cup {x})
  <1>1. Closed(G \cup {x})
    BY AddNode DEF GoodSet
  <1>2. \A i \in DOMAIN x.kids : x.kids[i].val \in Values /\ Sound(x.kids[i])
    BY ClosedValues DEF GoodSet
  <1>3. Sound(x)
    BY <1>2, NodeIsSound
  <1> QED BY <1>1, <1>3 DEF GoodSet

LEMMA AddConverted ==
    ASSUME NEW W, Closed(W), NEW x \in W, NEW y, ConvertedTwice(y, x)
    PROVE  \E V : W \subseteq V /\ Closed(V) /\ y \in V
  <1>1. PICK z : Converted(z, x) /\ Converted(y, z) /\ z.val \in Values
    BY DEF ConvertedTwice
  <1>2. PICK U : W \subseteq U /\ Closed(U) /\ z \in U
    <2>1. CASE z = x
      BY <2>1
    <2>2. CASE z # x
      <3>1. Local(z) /\ z.kids = <<x>>
        BY <1>1, <2>2, ClosedValues, CastFacts DEF Converted
      <3>2. \A i \in DOMAIN z.kids : z.kids[i] \in W
        BY <3>1
      <3>3. Closed(W \cup {z})
        BY <3>1, <3>2, AddNode
      <3> QED BY <3>3
    <2> QED BY <2>1, <2>2
  <1>3. CASE y = z
    BY <1>2, <1>3
  <1>4. CASE y # z
    <2>1. Local(y) /\ y.kids = <<z>>
      BY <1>1, <1>4, CastFacts DEF Converted
    <2>2. \A i \in DOMAIN y.kids : y.kids[i] \in U
      BY <1>2, <2>1
    <2>3. Closed(U \cup {y})
      BY <1>2, <2>1, <2>2, AddNode
    <2> QED BY <1>2, <2>3
  <1> QED BY <1>3, <1>4

LEMMA AddThree ==
    ASSUME NEW W, Closed(W), NEW x1 \in W, NEW x2 \in W, NEW x3 \in W,
           NEW y1, NEW y2, NEW y3,
           ConvertedTwice(y1, x1), ConvertedTwice(y2, x2), ConvertedTwice(y3, x3)
    PROVE  \E V : W \subseteq V /\ Closed(V) /\ {y1, y2, y3} \subseteq V
  <1>1. PICK V1 : W \subseteq V1 /\ Closed(V1) /\ y1 \in V1
    BY AddConverted
  <1>2. x2 \in V1 /\ x3 \in V1
    BY <1>1
  <1>3. PICK V2 : V1 \subseteq V2 /\ Closed(V2) /\ y2 \in V2
    BY <1>1, <1>2, AddConverted
  <1>4. x3 \in V2
    BY <1>2, <1>3
  <1>5. PICK V3 : V2 \subseteq V3 /\ Closed(V3) /\ y3 \in V3
    BY <1>3, <1>4, AddConverted
  <1> QED BY <1>1, <1>3, <1>5

\* What the constructors build is well made.
LEMMA NodeMade ==
    ASSUME NEW W, Closed(W), NEW op \in Ops, NEW kids, Shaped(op, kids),
           \A i \in DOMAIN kids : kids[i] \in W, isC \in BOOLEAN
    PROVE  \E V : W \subseteq V /\ Closed(V) /\ Node(op, kids) \in V
  <1>1. PICK c : c = PropagateType(op, kids)
    OBVIOUS
  <1>2. \A i \in DOMAIN kids : kids[i].val \in Values
    BY ClosedValues
  <1>3. Fits(op, c) /\ DOMAIN c = DOMAIN kids /\ \A i \in DOMAIN c : ConvertedTwice(c[i], kids[i])
    BY <1>1, <1>2, PropagateFits
  <1>4. PICK V : W \subseteq V /\ Closed(V) /\ \A i \in DOMAIN c : c[i] \in V
    <2>1. CASE op \in UnaryOps
      <3>1. PICK a : kids = <<a>>
        BY <2>1 DEF Shaped, UnaryOps, BinaryOps, Arithmetic, Comparison, BitOp, ShiftOp, Logical
      <3>2. DOMAIN kids = {1}
        BY <3>1
      <3>3. kids[1] \in W /\ ConvertedTwice(c[1], kids[1])
        BY <1>3, <3>2
      <3>4. PICK V : W \subseteq V /\ Closed(V) /\ c[1] \in V
        BY <3>3, AddConverted
      <3> QED BY <1>3, <3>2, <3>4
    <2>2. CASE op \in BinaryOps \cup {"MIN", "MAX"}
      <3>1. PICK a, b : kids = <<a, b>>
        BY <2>2 DEF Shaped, UnaryOps, BinaryOps, Arithmetic, Comparison, BitOp, ShiftOp, Logical
      <3>2. DOMAIN kids = {1, 2}
        BY <3>1
      <3>3. /\ kids[1] \in W /\ ConvertedTwice(c[1], kids[1])
            /\ kids[2] \in W /\ ConvertedTwice(c[2], kids[2])
        BY <1>3, <3>2
      <3>4. PICK V : W \subseteq V /\ Closed(V) /\ {c[1], c[2], c[2]} \subseteq V
        BY <3>3, AddThree
      <3> QED BY <1>3, <3>2, <3>4
    <2>3. CASE op = "TERNARY"
      <3>1. PICK a, b, d : kids = <<a, b, d>>
        BY <2>3 DEF Shaped, UnaryOps, BinaryOps, Arithmetic, Comparison, BitOp, ShiftOp, Logical
      <3>2. DOMAIN kids = {1, 2, 3}
        BY <3>1
      <3>3. /\ kids[1] \in W /\ ConvertedTwice(c[1], kids[1])
            /\ kids[2] \in W /\ ConvertedTwice(c[2], kids[2])
            /\ kids[3] \in W /\ ConvertedTwice(c[3], kids[3])
        BY <1>3, <3>2
      <3>4. PICK V : W \subseteq V /\ Closed(V) /\ {c[1], c[2], c[3]} \subseteq V
        BY <3>3, AddThree
      <3> QED BY <1>3, <3>2, <3>4
    <2> QED BY <2>1, <2>2, <2>3 DEF Ops
  <1>5. \A i \in DOMAIN c : c[i].val \in Values
    BY <1>4, ClosedValues
  <1>6. PICK n : n = Node(op, kids) /\ n = Tree(op, c, Result(op, c))
    BY <1>1, NodeIs
  <1>7. n.op = op /\ n.kids = c /\ n.val = Result(op, c) /\ n = Tree(n.op, n.kids, n.val)
    BY <1>6 DEF Tree
  <1>8. n.val \in Values
    BY <1>3, <1>5, <1>7, NodeComputes DEF Computes
  <1>9. Local(n)
    BY <1>3, <1>7, <1>8 DEF Local
  <1>10. Closed(V \cup {n})
    BY <1>4, <1>7, <1>9, AddNode
  <1> QED BY <1>4, <1>6, <1>10

\* A constant is a tree, and a sound one.
LEMMA ConstantFacts ==
    ASSUME NEW t \in Types, NEW n \in Int
    PROVE  LET c == ConstantExpr(Val(t, n))
           IN  /\ Local(c) /\ c.kids = <<>> /\ DOMAIN c.kids = {} /\ ~HasUB(c.val) /\ TypeOf(c) = t
  <1>1. PICK c : c = ConstantExpr(Val(t, n))
    OBVIOUS
  <1>2. /\ c.op = "CONST" /\ c.kids = <<>> /\ c.val = Val(t, n) /\ c = Tree(c.op, c.kids, c.val)
    BY <1>1 DEF ConstantExpr, Tree
  <1>3. c.val \in Values /\ ~HasUB(c.val) /\ TypeOf(c) = t
    BY <1>2, ValDenotes DEF Denotes, TypeOf
  <1>4. Local(c)
    BY <1>2, <1>3 DEF Local
  <1>5. DOMAIN c.kids = {}
    BY <1>2
  <1> QED BY <1>1, <1>2, <1>3, <1>4, <1>5

LEMMA GrowFacts ==
    ASSUME NEW ops, NEW left, NEW right, NEW x \in Grow(ops, left, right)
    PROVE  \E op \in ops, a \in left, b \in right : x = BinaryExpr(op, a, b)
  BY DEF Grow

\* The expressions to begin with.
LEMMA GeneratedMade ==
    ASSUME NEW e \in Generated, isC \in BOOLEAN
    PROVE  \E W : Closed(W) /\ e \in W
  <1> DEFINE L == {ConstantExpr(a) : a \in Constants \cup DeepConstants}
  <1> DEFINE leaves == {ConstantExpr(a) : a \in Constants}
  <1> DEFINE deep == {ConstantExpr(a) : a \in DeepConstants}
  <1> DEFINE inner == Grow(DeepOps \cap BinaryOps, deep, deep)
  <1>1. leaves \subseteq L /\ deep \subseteq L
    OBVIOUS
  <1>2. Closed(L)
    <2> SUFFICES ASSUME NEW a \in Constants \cup DeepConstants
                 PROVE  /\ Local(ConstantExpr(a))
                        /\ \A i \in DOMAIN ConstantExpr(a).kids : ConstantExpr(a).kids[i] \in L
      BY Zenon DEF Closed
    <2>1. a.ty \in Types /\ a.v \in Int /\ a = Val(a.ty, a.v)
      BY ConstantsAssumption
    <2> QED BY <2>1, ConstantFacts
  <1>3. \A W : Closed(W) => \A op \in BinaryOps \cup {"MIN", "MAX"} : \A a \in W, b \in W :
           \E V : W \subseteq V /\ Closed(V) /\ BinaryExpr(op, a, b) \in V
    <2> SUFFICES ASSUME NEW W, Closed(W), NEW op \in BinaryOps \cup {"MIN", "MAX"},
                        NEW a \in W, NEW b \in W
                 PROVE  \E V : W \subseteq V /\ Closed(V) /\ BinaryExpr(op, a, b) \in V
      OBVIOUS
    <2>1. PICK kids : kids = <<a, b>>
      OBVIOUS
    <2>2. op \in Ops /\ Shaped(op, kids) /\ \A i \in DOMAIN kids : kids[i] \in W
      BY <2>1 DEF Ops, Shaped
    <2> QED BY <2>1, <2>2, NodeMade DEF BinaryExpr
  <1>4. \A W : Closed(W) => \A op \in UnaryOps : \A a \in W :
           \E V : W \subseteq V /\ Closed(V) /\ UnaryExpr(op, a) \in V
    <2> SUFFICES ASSUME NEW W, Closed(W), NEW op \in UnaryOps, NEW a \in W
                 PROVE  \E V : W \subseteq V /\ Closed(V) /\ UnaryExpr(op, a) \in V
      OBVIOUS
    <2>1. PICK kids : kids = <<a>>
      OBVIOUS
    <2>2. op \in Ops /\ Shaped(op, kids) /\ \A i \in DOMAIN kids : kids[i] \in W
      BY <2>1 DEF Ops, Shaped
    <2> QED BY <2>1, <2>2, NodeMade DEF UnaryExpr
  <1>5. \A x \in inner : \E V : L \subseteq V /\ Closed(V) /\ x \in V
    <2> SUFFICES ASSUME NEW x \in inner PROVE \E V : L \subseteq V /\ Closed(V) /\ x \in V
      OBVIOUS
    <2>1. PICK op \in DeepOps \cap BinaryOps, a \in deep, b \in deep : x = BinaryExpr(op, a, b)
      <3> HIDE DEF deep
      <3> QED BY GrowFacts
    <2>2. a \in L /\ b \in L /\ op \in BinaryOps \cup {"MIN", "MAX"}
      BY <1>1
    <2> HIDE DEF L, deep, inner
    <2> QED BY <1>2, <1>3, <2>1, <2>2
  <1>6. CASE \E op \in UnaryOps, a \in leaves : e = UnaryExpr(op, a)
    <2>1. PICK op \in UnaryOps, a \in leaves : e = UnaryExpr(op, a)
      BY <1>6
    <2>2. a \in L
      BY <1>1
    <2> HIDE DEF L, leaves
    <2> QED BY <1>2, <1>4, <2>1, <2>2
  <1>7. CASE e \in Grow(BinaryOps \cup {"MIN", "MAX"}, leaves, leaves)
    <2>1. PICK op \in BinaryOps \cup {"MIN", "MAX"}, a \in leaves, b \in leaves : e = BinaryExpr(op, a, b)
      <3> HIDE DEF leaves
      <3> QED BY <1>7, GrowFacts
    <2>2. a \in L /\ b \in L
      BY <1>1
    <2> HIDE DEF L, leaves
    <2> QED BY <1>2, <1>3, <2>1, <2>2
  <1>8. CASE e \in Grow(DeepOps, inner, deep) \/ e \in Grow(DeepOps, deep, inner)
    <2>1. PICK op \in DeepOps, x \in inner, d \in deep : e = BinaryExpr(op, x, d) \/ e = BinaryExpr(op, d, x)
      <3> HIDE DEF inner, deep
      <3> QED BY <1>8, GrowFacts
    <2>2. d \in L /\ op \in BinaryOps \cup {"MIN", "MAX"}
      BY <1>1, BoundsAssumption
    <2> HIDE DEF L, deep, inner
    <2>3. PICK V : L \subseteq V /\ Closed(V) /\ x \in V
      BY <1>5
    <2>4. d \in V
      BY <2>2, <2>3
    <2>5. PICK T : V \subseteq T /\ Closed(T) /\ BinaryExpr(op, x, d) \in T
      BY <1>3, <2>2, <2>3, <2>4
    <2>6. PICK U : V \subseteq U /\ Closed(U) /\ BinaryExpr(op, d, x) \in U
      BY <1>3, <2>2, <2>3, <2>4
    <2> QED BY <2>1, <2>5, <2>6
  <1>9. CASE \E c \in deep, x \in inner :
                e = TernaryExpr(c, x, TypeCastExpr("SCHAR", UnaryExpr("NEGATE", c)))
    <2>1. PICK c \in deep, x \in inner :
                e = TernaryExpr(c, x, TypeCastExpr("SCHAR", UnaryExpr("NEGATE", c)))
      BY <1>9
    <2>2. c \in L
      BY <1>1
    <2> HIDE DEF L, deep, inner
    <2>3. PICK V : L \subseteq V /\ Closed(V) /\ x \in V
      BY <1>5
    <2>4. c \in V /\ "NEGATE" \in UnaryOps
      BY <2>2, <2>3 DEF UnaryOps
    <2>5. PICK U : V \subseteq U /\ Closed(U) /\ UnaryExpr("NEGATE", c) \in U
      BY <1>4, <2>3, <2>4
    <2>6. PICK y : y = TypeCastExpr("SCHAR", UnaryExpr("NEGATE", c))
      OBVIOUS
    <2>7. Converted(y, UnaryExpr("NEGATE", c)) /\ UnaryExpr("NEGATE", c).val \in Values
      BY <2>5, <2>6, ClosedValues DEF Converted, Types
    <2>8. ConvertedTwice(y, UnaryExpr("NEGATE", c))
      BY <2>7 DEF ConvertedTwice, Converted
    <2>9. PICK T : U \subseteq T /\ Closed(T) /\ y \in T
      BY <2>5, <2>8, AddConverted
    <2>10. PICK kids : kids = <<c, x, y>>
      OBVIOUS
    <2>11. /\ "TERNARY" \in Ops /\ Shaped("TERNARY", kids)
           /\ \A i \in DOMAIN kids : kids[i] \in T
      BY <2>3, <2>4, <2>5, <2>9, <2>10 DEF Ops, Shaped
    <2>12. \E S : T \subseteq S /\ Closed(S) /\ TernaryExpr(c, x, y) \in S
      BY <2>9, <2>10, <2>11, NodeMade DEF TernaryExpr
    <2> QED BY <2>1, <2>6, <2>12
  <1>10. \/ \E op \in UnaryOps, a \in leaves : e = UnaryExpr(op, a)
         \/ e \in Grow(BinaryOps \cup {"MIN", "MAX"}, leaves, leaves)
         \/ e \in Grow(DeepOps, inner, deep)
         \/ e \in Grow(DeepOps, deep, inner)
         \/ \E c \in deep, x \in inner :
                e = TernaryExpr(c, x, TypeCastExpr("SCHAR", UnaryExpr("NEGATE", c)))
    <2> DEFINE one == {UnaryExpr(op, a) : op \in UnaryOps, a \in leaves}
    <2> DEFINE two == Grow(BinaryOps \cup {"MIN", "MAX"}, leaves, leaves)
    <2> DEFINE three == Grow(DeepOps, inner, deep)
    <2> DEFINE four == Grow(DeepOps, deep, inner)
    <2> DEFINE five == {TernaryExpr(c, x, TypeCastExpr("SCHAR", UnaryExpr("NEGATE", c))) :
                          c \in deep, x \in inner}
    <2>1. Generated = UNION {one, two, three, four, five}
      BY DEF Generated
    <2>2. e \in one => \E op \in UnaryOps, a \in leaves : e = UnaryExpr(op, a)
      OBVIOUS
    <2>3. e \in five => \E c \in deep, x \in inner :
                e = TernaryExpr(c, x, TypeCastExpr("SCHAR", UnaryExpr("NEGATE", c)))
      <3> SUFFICES ASSUME e \in five
                   PROVE \E c \in deep, x \in inner :
                e = TernaryExpr(c, x, TypeCastExpr("SCHAR", UnaryExpr("NEGATE", c)))
        OBVIOUS
      <3> HIDE DEF deep, inner
      <3> QED OBVIOUS
    <2>4. e \in two => e \in Grow(BinaryOps \cup {"MIN", "MAX"}, leaves, leaves)
      OBVIOUS
    <2>5. e \in three \/ e \in four => e \in Grow(DeepOps, inner, deep) \/ e \in Grow(DeepOps, deep, inner)
      OBVIOUS
    <2>6. e \in one \/ e \in two \/ e \in three \/ e \in four \/ e \in five
      <3> HIDE DEF one, two, three, four, five
      <3> QED BY <2>1
    <2> HIDE DEF one, two, three, four, five, leaves, deep, inner
    <2> QED BY <2>2, <2>3, <2>4, <2>5, <2>6, Zenon
  <1> QED BY <1>6, <1>7, <1>8, <1>9, <1>10

-----------------------------------------------------------------------------
(* Repairs.                                                                *)

\* e may take the place of x: it has its type, and if it has no undefined
\* behaviour it is sound as a whole.
Repaired(e, x, W, G) ==
    /\ e # Aborted /\ TypeOf(e) = TypeOf(x)
    /\ \E V : W \subseteq V /\ Closed(V) /\ e \in V
    /\ ~HasUB(e.val) => \E H : G \subseteq H /\ GoodSet(H) /\ e \in H

LEMMA NodeRepaired ==
    ASSUME NEW W, NEW G, NEW x, isC \in BOOLEAN,
           NEW U, W \subseteq U, Closed(U), NEW op \in Ops, NEW kids, Fits(op, kids),
           ResultType(op, kids) = TypeOf(x), \A i \in DOMAIN kids : kids[i] \in U,
           ~HasUB(Result(op, kids)) =>
              \E H : G \subseteq H /\ GoodSet(H) /\ \A i \in DOMAIN kids : kids[i] \in H
    PROVE  Repaired(Node(op, kids), x, W, G)
  <1>1. \A i \in DOMAIN kids : kids[i].val \in Values
    BY ClosedValues
  <1>2. PICK n : n = Node(op, kids)
    OBVIOUS
  <1>3. /\ n.kids = kids /\ n.val = Result(op, kids) /\ Local(n)
        /\ TypeOf(n) = ResultType(op, kids) /\ n # Aborted
    BY <1>1, <1>2, NodeKept
  <1>4. Closed(U \cup {n})
    BY <1>3, AddNode
  <1>5. ASSUME ~HasUB(n.val)
        PROVE  \E H : G \subseteq H /\ GoodSet(H) /\ n \in H
    <2>1. PICK H : G \subseteq H /\ GoodSet(H) /\ \A i \in DOMAIN kids : kids[i] \in H
      BY <1>3, <1>5
    <2>2. GoodSet(H \cup {n})
      BY <1>3, <1>5, <2>1, AddGood
    <2> QED BY <2>1, <2>2
  <1> QED BY <1>2, <1>3, <1>4, <1>5 DEF Repaired

\* A child with a constant added or subtracted.
LEMMA Operand ==
    ASSUME NEW W, Closed(W), NEW G, GoodSet(G), NEW k \in W, k \in G, isC \in BOOLEAN,
           TypeOf(k) \in ArithTypes, NEW n \in Int, NEW op \in Arithmetic
    PROVE  LET f == BinaryExpr(op, k, ConstantExpr(Val(TypeOf(k), n)))
           IN  /\ TypeOf(f) = TypeOf(k)
               /\ \E U : W \subseteq U /\ Closed(U) /\ f \in U
               /\ ~HasUB(f.val) => \E H : G \subseteq H /\ GoodSet(H) /\ f \in H
  <1>1. PICK c : c = ConstantExpr(Val(TypeOf(k), n))
    OBVIOUS
  <1>2. /\ Local(c) /\ DOMAIN c.kids = {} /\ ~HasUB(c.val) /\ TypeOf(c) = TypeOf(k)
    BY <1>1, ConstantFacts, ArithTypeFacts
  <1>3. Closed(W \cup {c})
    BY <1>2, AddNode
  <1>4. GoodSet(G \cup {c})
    BY <1>2, AddGood
  <1>5. PICK kids : kids = <<k, c>>
    OBVIOUS
  <1>6. /\ kids = <<kids[1], kids[2]>> /\ DOMAIN kids = {1, 2} /\ kids[1] = k /\ kids[2] = c
    BY <1>5
  <1>7. Fits(op, kids) /\ ResultType(op, kids) = TypeOf(k) /\ op \in Ops
    BY <1>2, <1>6 DEF Fits, ResultType, Ops, BinaryOps, Arithmetic, Comparison, Logical
  <1>8. /\ \A i \in DOMAIN kids : kids[i] \in W \cup {c}
        /\ \A i \in DOMAIN kids : kids[i] \in G \cup {c}
    BY <1>6
  <1>9. \A i \in DOMAIN kids : kids[i].val \in Values
    BY <1>3, <1>8, ClosedValues
  <1>10. PICK f : f = Node(op, kids)
    OBVIOUS
  <1>11. f.kids = kids /\ Local(f) /\ TypeOf(f) = TypeOf(k)
    BY <1>7, <1>9, <1>10, NodeKept
  <1>12. Closed((W \cup {c}) \cup {f})
    BY <1>3, <1>8, <1>11, AddNode
  <1>13. ~HasUB(f.val) => GoodSet((G \cup {c}) \cup {f})
    BY <1>4, <1>8, <1>11, AddGood
  <1>14. f = BinaryExpr(op, k, ConstantExpr(Val(TypeOf(k), n)))
    BY <1>1, <1>5, <1>10 DEF BinaryExpr
  <1>15. \E U : W \subseteq U /\ Closed(U) /\ f \in U
    BY <1>12
  <1>16. ~HasUB(f.val) => \E H : G \subseteq H /\ GoodSet(H) /\ f \in H
    BY <1>13
  <1> QED BY <1>11, <1>14, <1>15, <1>16

\* A shift with an operand replaced.
LEMMA ShiftRepaired ==
    ASSUME NEW W, NEW G, NEW x, isC \in BOOLEAN, NEW U, W \subseteq U, Closed(U),
           NEW op \in ShiftOp, NEW a \in U, NEW b \in U, TypeOf(a) = TypeOf(x),
           TypeOf(a) \in ArithTypes, TypeOf(b) \in ArithTypes,
           ~HasUB(a.val) /\ ~HasUB(b.val) =>
              \E H : G \subseteq H /\ GoodSet(H) /\ a \in H /\ b \in H
    PROVE  Repaired(BinaryExpr(op, a, b), x, W, G)
  <1>1. PICK kids : kids = <<a, b>>
    OBVIOUS
  <1>2. kids = <<kids[1], kids[2]>> /\ DOMAIN kids = {1, 2} /\ kids[1] = a /\ kids[2] = b
    BY <1>1
  <1>3. Fits(op, kids) /\ ResultType(op, kids) = TypeOf(x) /\ op \in Ops /\ op \in BinaryOps
    BY <1>2 DEF Fits, ResultType, Ops, BinaryOps, ShiftOp, Comparison, Logical
  <1>4. \A i \in DOMAIN kids : kids[i] \in U /\ kids[i].val \in Values
    BY <1>2, ClosedValues
  <1>5. ~HasUB(Result(op, kids)) => ~HasUB(a.val) /\ ~HasUB(b.val)
    BY <1>2, <1>3, <1>4, BinaryComputes
  <1>6. ~HasUB(Result(op, kids)) =>
           \E H : G \subseteq H /\ GoodSet(H) /\ \A i \in DOMAIN kids : kids[i] \in H
    BY <1>2, <1>5
  <1>7. Repaired(Node(op, kids), x, W, G)
    BY <1>3, <1>4, <1>6, NodeRepaired
  <1> QED BY <1>1, <1>7 DEF BinaryExpr

\* The amount that is taken away from one that is too large is smaller, and
\* the one added to a negative amount fits a size_t.
LEMMA MaxShiftFacts ==
    ASSUME NEW op \in ShiftOp, NEW a \in Values, NEW b \in Values, a.ty \in ArithTypes,
           isC \in BOOLEAN, NEW ub, ub = EvalBinary(op, a, b).ub
    PROVE  /\ MaxShift(op, a, ub) \in 0 .. (Bits(a.ty) - 1)
           /\ ub = "ShiftRhsLarge" => b.v \in Nat /\ MaxShift(op, a, ub) < b.v
           /\ ub = "ShiftRhsNeg" => b.v < 0
  <1> DEFINE t == a.ty
  <1>1. /\ t \in Types /\ a.v \in Int /\ b.v \in Int /\ Bits(t) \in Nat /\ Bits(t) >= 1
        /\ Bits(t) <= LongBits /\ InRange(t, a.v) /\ (IsSigned(t) => t \in SignedTypes)
    BY ValueFacts, ArithTypeFacts, BitsInRange, LongIsNat
  <1>2. /\ ub = "ShiftRhsNeg" => b.v < 0
        /\ ub = "ShiftRhsLarge" => b.v >= 0
        /\ ub = "ShiftRhsLarge" =>
             b.v >= Bits(t) \/ (op = "SHL" /\ IsSigned(t) /\ a.v >= 0 /\ ShiftsOut(isC, a, b.v))
    <2>1. CASE op = "SHL"
      BY <2>1, EvalBinaryIs, ShiftLeftDenotes
    <2>2. CASE op = "SHR"
      BY <2>2, EvalBinaryIs, ShiftRightDenotes
    <2> QED BY <2>1, <2>2 DEF ShiftOp
  <1>3. PICK B \in Nat, v \in Int, r \in Int : B = Bits(t) /\ v = a.v /\ r = b.v
    BY <1>1
  <1>4. PICK m : m = MSB(t, v)
    OBVIOUS
  <1>5. CASE op = "SHL" /\ IsSigned(t) /\ ub = "ShiftRhsLarge" /\ m > 0
    <2>1. MaxShift(op, a, ub) = IF isC /\ B - 1 - (m - 1) > 0 THEN B - 1 - (m - 1) - 1
                                ELSE B - 1 - (m - 1)
      BY <1>3, <1>4, <1>5 DEF MaxShift
    <2>2. CASE v < 0
      <3>1. m = B
        BY <1>3, <1>4, <2>2 DEF MSB
      <3>2. r >= B /\ B >= 1
        BY <1>1, <1>2, <1>3, <1>5, <2>2
      <3>3. MaxShift(op, a, ub) = 0
        BY <2>1, <3>1
      <3> QED BY <1>2, <1>3, <1>5, <3>2, <3>3
    <2>3. CASE v >= 0
      <3>1. PICK h \in Nat \ {0} : 2^B = 2 * h /\ 2^(B - 1) = h /\ MaxOf(t) = h - 1
        BY <1>1, <1>3, <1>5, SignedBounds
      <3>2. v < h
        BY <1>1, <1>3, <3>1 DEF InRange
      <3>3. m \in 0 .. B /\ 2^(m - 1) <= v
        BY <1>1, <1>3, <1>4, <1>5, <2>3, <3>1, <3>2, MSBFound
      <3>4. m # B
        BY <3>1, <3>2, <3>3
      <3>5. m \in 1 .. (B - 1)
        BY <1>5, <3>3, <3>4
      <3>6. ShiftsOut(isC, a, r) => IF isC THEN r >= B - m ELSE r > B - m
        BY <1>3, <1>4 DEF ShiftsOut
      <3>7. r >= B \/ (IF isC THEN r >= B - m ELSE r > B - m)
        BY <1>2, <1>3, <1>5, <3>6
      <3>8. PICK k : k = MaxShift(op, a, ub) /\ k = IF isC THEN B - m - 1 ELSE B - m
        BY <2>1, <3>5
      <3>9. k \in 0 .. (B - 1) /\ k < r /\ r \in Nat
        BY <3>5, <3>7, <3>8
      <3> QED BY <1>2, <1>3, <3>8, <3>9
    <2> QED BY <2>2, <2>3
  <1>6. CASE ~(op = "SHL" /\ IsSigned(t) /\ ub = "ShiftRhsLarge" /\ m > 0)
    <2>1. MaxShift(op, a, ub) = B - 1 /\ B >= 1
      BY <1>1, <1>3, <1>4, <1>6 DEF MaxShift
    <2>2. ASSUME ub = "ShiftRhsLarge", r < B PROVE FALSE
      <3>1. op = "SHL" /\ IsSigned(t) /\ v >= 0 /\ ShiftsOut(isC, a, r)
        BY <1>2, <1>3, <2>2
      <3>2. PICK h \in Nat \ {0} : 2^B = 2 * h /\ MaxOf(t) = h - 1
        BY <1>1, <1>3, <3>1, SignedBounds
      <3>3. v < 2 * h
        BY <1>1, <1>3, <3>2 DEF InRange
      <3>4. m \in 0 .. B
        BY <1>1, <1>3, <1>4, <3>1, <3>2, <3>3, MSBFound
      <3>5. m = 0
        BY <1>6, <2>2, <3>1, <3>4
      <3>6. IF isC THEN r >= B - m ELSE r > B - m
        BY <1>3, <1>4, <3>1 DEF ShiftsOut
      <3> QED BY <2>2, <3>5, <3>6
    <2>3. ub = "ShiftRhsLarge" => r >= B
      BY <2>2
    <2> QED BY <1>2, <1>3, <2>1, <2>3
  <1> QED BY <1>5, <1>6

\* The correction of the amount b by n.
LEMMA CorrectionFacts ==
    ASSUME NEW b \in Values, NEW n \in 0 .. (LongBits - 1)
    PROVE  /\ b.v < 0 => (n + Abs(b.v)) % 2^LongBits \in Int \ {0}
           /\ b.v >= 0 /\ n < b.v => (Abs(b.v) - n) % 2^LongBits \in Int \ {0}
  <1>1. PICK L \in Nat \ {0} : L = LongBits
    BY LongIsNat
  <1>2. L - 1 \in 0 .. LongBits /\ L \in 0 .. LongBits /\ L \in 1 .. LongBits
    BY <1>1
  <1>3. PICK h \in Nat \ {0} : h = 2^(L - 1) /\ 2^LongBits = 2 * h /\ L - 1 < h
    BY <1>1, <1>2, PowerIsNat, PowerAssumption, PowerExceeds
  <1>4. PICK v \in Int : v = b.v /\ b.ty \in Types /\ InRange(b.ty, v)
    BY ValueFacts
  <1>5. Bits(b.ty) \in 1 .. L
    BY <1>1, <1>4, BitsInRange
  <1>6. v <= 2 * h - 1 /\ v >= -h
    <2>1. CASE b.ty \in SignedTypes
      <3>1. PICK k \in Nat \ {0} : 2^Bits(b.ty) = 2 * k /\ 2^(Bits(b.ty) - 1) = k
                                   /\ MinOf(b.ty) = -k /\ MaxOf(b.ty) = k - 1
        BY <2>1, SignedBounds
      <3>2. k <= h
        <4>1. Bits(b.ty) - 1 \in Nat /\ L - 1 \in Nat /\ Bits(b.ty) - 1 <= L - 1 /\ L - 1 <= LongBits
          BY <1>1, <1>5
        <4> QED BY <1>3, <3>1, <4>1, PowerRises
      <3> QED BY <1>4, <3>1, <3>2 DEF InRange
    <2>2. CASE b.ty \in PlainTypes
      <3>1. PICK k \in Nat \ {0} : 2^Bits(b.ty) = k /\ MinOf(b.ty) = 0 /\ MaxOf(b.ty) = k - 1
        BY <2>2, PlainBounds
      <3>2. k <= 2 * h
        <4>1. Bits(b.ty) \in Nat /\ L \in Nat /\ Bits(b.ty) <= L /\ L <= LongBits
          BY <1>1, <1>5
        <4> QED BY <1>1, <1>3, <3>1, <4>1, PowerRises
      <3> QED BY <1>4, <3>1, <3>2 DEF InRange
    <2>3. CASE b.ty = "BOOL"
      BY <1>4, <2>3, BoolBounds DEF InRange
    <2> QED BY <1>4, <2>1, <2>2, <2>3, TypesSplit
  <1>7. n \in 0 .. (L - 1)
    BY <1>1
  <1>8. ASSUME v < 0 PROVE (n + Abs(v)) % 2^LongBits \in Int \ {0}
    <2>1. PICK y \in Int : y = n + Abs(v) /\ 0 < y /\ y < 2 * h
      BY <1>3, <1>6, <1>7, <1>8 DEF Abs
    <2>2. PICK m \in Nat \ {0} : m = 2 * h
      OBVIOUS
    <2>3. y % m = y
      BY <2>1, <2>2, Remainders
    <2> QED BY <1>3, <2>1, <2>2, <2>3
  <1>9. ASSUME v >= 0, n < v PROVE (Abs(v) - n) % 2^LongBits \in Int \ {0}
    <2>1. PICK y \in Int : y = Abs(v) - n /\ 0 < y /\ y < 2 * h
      BY <1>6, <1>7, <1>9 DEF Abs
    <2>2. PICK m \in Nat \ {0} : m = 2 * h
      OBVIOUS
    <2>3. y % m = y
      BY <2>1, <2>2, Remainders
    <2> QED BY <1>3, <2>1, <2>2, <2>3
  <1> QED BY <1>4, <1>8, <1>9

\* The amount that n of the choices leaves to add or to subtract.
Correction(r, ub, n) ==
    (IF ub = "ShiftRhsNeg" THEN n + Abs(r.val.v) ELSE Abs(r.val.v) - n) % 2^LongBits

LEMMA ShiftRepairsAre ==
    ASSUME NEW x, NEW ub, NEW e \in ShiftRepairs(x, ub), NEW l, NEW r,
           l = x.kids[1], r = x.kids[2]
    PROVE  IF ub \in {"ShiftRhsLarge", "ShiftRhsNeg"}
           THEN \E n \in 0 .. MaxShift(x.op, l.val, ub) :
                   \/ Correction(r, ub, n) = 0
                   \/ e = BinaryExpr(x.op, l,
                            BinaryExpr(IF ub = "ShiftRhsNeg" THEN "ADD" ELSE "SUB", r,
                                       ConstantExpr(Val(TypeOf(r), Correction(r, ub, n)))))
           ELSE e = BinaryExpr(x.op,
                      BinaryExpr("ADD", l, ConstantExpr(Val(TypeOf(l), MaxOf(TypeOf(l))))), r)
  <1> DEFINE C == {Correction(r, ub, n) : n \in 0 .. MaxShift(x.op, l.val, ub)}
  <1> DEFINE K == {ConstantExpr(Val(TypeOf(r), n)) : n \in C \ {0}}
  <1> DEFINE plus == IF ub = "ShiftRhsNeg" THEN "ADD" ELSE "SUB"
  <1> DEFINE A == {BinaryExpr(plus, r, c) : c \in K}
  <1> DEFINE B == {BinaryExpr(x.op, l, f) : f \in A}
  <1> DEFINE R == BinaryExpr("ADD", l, ConstantExpr(Val(TypeOf(l), MaxOf(TypeOf(l)))))
  <1>1. ShiftRepairs(x, ub) = IF ub \in {"ShiftRhsLarge", "ShiftRhsNeg"}
                              THEN B \cup (IF 0 \in C THEN {Aborted} ELSE {})
                              ELSE {BinaryExpr(x.op, R, r)}
    BY DEF ShiftRepairs, Correction
  <1>2. 0 \in C => \E n \in 0 .. MaxShift(x.op, l.val, ub) : Correction(r, ub, n) = 0
    OBVIOUS
  <1>3. ASSUME NEW y \in B
        PROVE  \E n \in 0 .. MaxShift(x.op, l.val, ub) :
                  y = BinaryExpr(x.op, l, BinaryExpr(plus, r, ConstantExpr(Val(TypeOf(r), Correction(r, ub, n)))))
    <2>1. PICK f \in A : y = BinaryExpr(x.op, l, f)
      <3> HIDE DEF A
      <3> QED BY <1>3
    <2>2. PICK c \in K : f = BinaryExpr(plus, r, c)
      <3> HIDE DEF K, plus
      <3> QED BY <2>1
    <2>3. PICK k \in C : c = ConstantExpr(Val(TypeOf(r), k))
      <3> HIDE DEF C
      <3> QED BY <2>2
    <2>4. PICK n \in 0 .. MaxShift(x.op, l.val, ub) : k = Correction(r, ub, n)
      BY <2>3
    <2> QED BY <2>1, <2>2, <2>3, <2>4
  <1> HIDE DEF C, B, R
  <1>4. CASE ub \in {"ShiftRhsLarge", "ShiftRhsNeg"}
    <2>1. e \in B \/ 0 \in C
      BY <1>1, <1>4
    <2> QED BY <1>2, <1>3, <1>4, <2>1
  <1>5. CASE ub \notin {"ShiftRhsLarge", "ShiftRhsNeg"}
    BY <1>1, <1>5 DEF R
  <1> QED BY <1>4, <1>5

LEMMA ShiftRepairsMade ==
    ASSUME NEW W, Closed(W), NEW G, GoodSet(G), NEW x \in W, x.op \in ShiftOp,
           \A i \in DOMAIN x.kids : x.kids[i] \in G, isC \in BOOLEAN,
           NEW e \in ShiftRepairs(x, x.val.ub)
    PROVE  Repaired(e, x, W, G)
  <1>1. PICK op : op = x.op
    OBVIOUS
  <1>2. PICK ub : ub = x.val.ub
    OBVIOUS
  <1>3. op \in Ops /\ op \in BinaryOps /\ Fits(op, x.kids) /\ x.val = Result(op, x.kids)
    BY <1>1 DEF Closed, Local, Ops, BinaryOps, ShiftOp
  <1>4. PICK l, r : x.kids = <<l, r>> /\ TypeOf(l) \in ArithTypes /\ TypeOf(r) \in ArithTypes
    BY <1>1, <1>3 DEF Fits, ShiftOp, Arithmetic, Comparison, BitOp, Logical
  <1>5. /\ l = x.kids[1] /\ r = x.kids[2] /\ DOMAIN x.kids = {1, 2}
        /\ l \in G /\ r \in G /\ l \in W /\ r \in W
    BY <1>4 DEF Closed
  <1>6. PICK a \in Values, b \in Values : a = l.val /\ b = r.val
    BY <1>5, ClosedValues
  <1>7. x.val = EvalBinary(op, a, b)
    <2>1. \A i \in DOMAIN x.kids : x.kids[i].val \in Values
      BY <1>5, <1>6
    <2> QED BY <1>3, <1>5, <1>6, <2>1, BinaryNode
  <1>8. TypeOf(x) = TypeOf(l)
    <2>1. \A i \in DOMAIN x.kids : x.kids[i].val \in Values
      BY <1>5, <1>6
    <2>2. TypeOf(x) = ResultType(op, x.kids)
      BY <1>3, <2>1, NodeComputes DEF Computes, TypeOf
    <2> QED BY <1>1, <1>5, <2>2 DEF ResultType, ShiftOp, Comparison, Logical
  <1>9. IF ub \in {"ShiftRhsLarge", "ShiftRhsNeg"}
        THEN \E n \in 0 .. MaxShift(op, l.val, ub) :
                \/ Correction(r, ub, n) = 0
                \/ e = BinaryExpr(op, l,
                         BinaryExpr(IF ub = "ShiftRhsNeg" THEN "ADD" ELSE "SUB", r,
                                    ConstantExpr(Val(TypeOf(r), Correction(r, ub, n)))))
        ELSE e = BinaryExpr(op,
                   BinaryExpr("ADD", l, ConstantExpr(Val(TypeOf(l), MaxOf(TypeOf(l))))), r)
    BY <1>1, <1>2, <1>5, ShiftRepairsAre
  <1>10. CASE ub \in {"ShiftRhsLarge", "ShiftRhsNeg"}
    <2>1. PICK n \in 0 .. MaxShift(op, a, ub) :
                \/ Correction(r, ub, n) = 0
                \/ e = BinaryExpr(op, l,
                         BinaryExpr(IF ub = "ShiftRhsNeg" THEN "ADD" ELSE "SUB", r,
                                    ConstantExpr(Val(TypeOf(r), Correction(r, ub, n)))))
      BY <1>6, <1>9, <1>10
    <2>2. /\ MaxShift(op, a, ub) \in 0 .. (Bits(a.ty) - 1)
          /\ ub = "ShiftRhsLarge" => b.v \in Nat /\ MaxShift(op, a, ub) < b.v
          /\ ub = "ShiftRhsNeg" => b.v < 0
      BY <1>1, <1>2, <1>4, <1>6, <1>7, MaxShiftFacts DEF TypeOf
    <2>3. Bits(a.ty) \in Nat /\ Bits(a.ty) <= LongBits /\ LongBits \in Nat
      BY ValueFacts, BitsInRange, LongIsNat
    <2>4. PICK m \in Nat : m = MaxShift(op, a, ub) /\ m <= LongBits - 1 /\ n \in 0 .. m
      BY <2>1, <2>2, <2>3
    <2>5. n \in 0 .. (LongBits - 1)
      BY <2>3, <2>4
    <2>6. /\ b.v < 0 => (n + Abs(b.v)) % 2^LongBits \in Int \ {0}
          /\ b.v >= 0 /\ n < b.v => (Abs(b.v) - n) % 2^LongBits \in Int \ {0}
      BY <2>5, CorrectionFacts
    <2>7. ub = "ShiftRhsLarge" => b.v >= 0 /\ n < b.v
      BY <2>2, <2>4
    <2>8. PICK k : k = Correction(r, ub, n) /\ k \in Int \ {0}
      <3>1. CASE ub = "ShiftRhsLarge"
        BY <1>6, <2>6, <2>7, <3>1 DEF Correction
      <3>2. CASE ub = "ShiftRhsNeg"
        BY <1>6, <2>2, <2>6, <3>2 DEF Correction
      <3> QED BY <1>10, <3>1, <3>2
    <2>9. PICK plus \in Arithmetic : plus = IF ub = "ShiftRhsNeg" THEN "ADD" ELSE "SUB"
      BY DEF Arithmetic
    <2>10. PICK f : f = BinaryExpr(plus, r, ConstantExpr(Val(TypeOf(r), k)))
      OBVIOUS
    <2>11. e = BinaryExpr(op, l, f)
      BY <2>1, <2>8, <2>9, <2>10
    <2>12. /\ TypeOf(f) = TypeOf(r)
           /\ \E U : W \subseteq U /\ Closed(U) /\ f \in U
           /\ ~HasUB(f.val) => \E H : G \subseteq H /\ GoodSet(H) /\ f \in H
      BY <1>4, <1>5, <2>8, <2>10, Operand
    <2>13. PICK U : W \subseteq U /\ Closed(U) /\ f \in U
      BY <2>12
    <2>14. ~HasUB(l.val) /\ ~HasUB(f.val) =>
              \E H : G \subseteq H /\ GoodSet(H) /\ l \in H /\ f \in H
      BY <1>5, <2>12
    <2>15. l \in U /\ TypeOf(f) \in ArithTypes
      BY <1>4, <1>5, <2>12, <2>13
    <2>16. Repaired(BinaryExpr(op, l, f), x, W, G)
      BY <1>1, <1>4, <1>8, <2>13, <2>14, <2>15, ShiftRepaired
    <2> QED BY <2>11, <2>16
  <1>11. CASE ub \notin {"ShiftRhsLarge", "ShiftRhsNeg"}
    <2>1. PICK f : f = BinaryExpr("ADD", l, ConstantExpr(Val(TypeOf(l), MaxOf(TypeOf(l)))))
      OBVIOUS
    <2>2. e = BinaryExpr(op, f, r)
      BY <1>9, <1>11, <2>1
    <2>3. MaxOf(TypeOf(l)) \in Int /\ "ADD" \in Arithmetic
      BY <1>4, ArithTypeFacts, BoundsAreInt DEF Arithmetic
    <2>4. /\ TypeOf(f) = TypeOf(l)
          /\ \E U : W \subseteq U /\ Closed(U) /\ f \in U
          /\ ~HasUB(f.val) => \E H : G \subseteq H /\ GoodSet(H) /\ f \in H
      BY <1>4, <1>5, <2>1, <2>3, Operand
    <2>5. PICK U : W \subseteq U /\ Closed(U) /\ f \in U
      BY <2>4
    <2>6. ~HasUB(f.val) /\ ~HasUB(r.val) =>
              \E H : G \subseteq H /\ GoodSet(H) /\ f \in H /\ r \in H
      BY <1>5, <2>4
    <2>7. r \in U /\ TypeOf(f) \in ArithTypes /\ TypeOf(f) = TypeOf(x)
      BY <1>4, <1>5, <1>8, <2>4, <2>5
    <2>8. Repaired(BinaryExpr(op, f, r), x, W, G)
      BY <1>1, <1>4, <2>5, <2>6, <2>7, ShiftRepaired
    <2> QED BY <2>2, <2>8
  <1> QED BY <1>10, <1>11

\* With its children sound, all that may take the place of a node is as good.
LEMMA RepairsMade ==
    ASSUME NEW W, Closed(W), NEW G, GoodSet(G), NEW x \in W, HasUB(x.val),
           \A i \in DOMAIN x.kids : x.kids[i] \in G, isC \in BOOLEAN,
           NEW e \in Repairs(x, x.val.ub)
    PROVE  Repaired(e, x, W, G)
  <1>1. Local(x) /\ \A i \in DOMAIN x.kids : x.kids[i] \in W
    BY DEF Closed
  <1>2. \A i \in DOMAIN x.kids : x.kids[i].val \in Values /\ Sound(x.kids[i])
    BY <1>1, ClosedValues DEF GoodSet
  <1>3. x.op \in Arithmetic \cup ShiftOp \cup {"NEGATE"} /\ Accepts(x)
    BY <1>1, <1>2, NodeIsSound, LocalAccepts
  <1>4. PICK ub : ub = x.val.ub
    OBVIOUS
  <1>5. x.op \in Ops /\ Fits(x.op, x.kids) /\ x.val = Result(x.op, x.kids)
    BY <1>1, <1>3 DEF Local, Arithmetic, ShiftOp
  <1>6. CASE x.op \in ShiftOp
    <2>1. Repairs(x, ub) = ShiftRepairs(x, ub)
      BY <1>3, <1>6 DEF Repairs, UnaryOps, Arithmetic, Comparison, BitOp, ShiftOp, Logical
    <2> QED BY <1>4, <1>6, <2>1, ShiftRepairsMade
  <1>7. CASE x.op \in Arithmetic \cup {"NEGATE"}
    <2>1. PICK op : op = Weaker(x.op, ub)
      OBVIOUS
    <2>2. e = Node(op, x.kids)
      BY <1>3, <1>4, <1>7, <2>1 DEF Repairs, UnaryOps, Arithmetic, Comparison, BitOp, ShiftOp, Logical
    <2>3. (x.op = "NEGATE" /\ op = "PLUS") \/ (x.op \in Arithmetic /\ op \in Arithmetic)
      <3>1. x.op = "NEGATE" => op = "PLUS"
        BY <2>1 DEF Weaker
      <3>2. x.op = "ADD" => op = "SUB"
        BY <2>1 DEF Weaker
      <3>3. x.op = "SUB" => op = "ADD"
        BY <2>1 DEF Weaker
      <3>4. x.op = "MUL" => op \in {"SUB", "DIV"}
        BY <2>1 DEF Weaker
      <3>5. \A o \in {"DIV", "MOD"} : Weaker(o, ub) \in {"MUL", "SUB"}
        BY DEF Weaker
      <3> QED BY <1>7, <2>1, <3>1, <3>2, <3>3, <3>4, <3>5 DEF Arithmetic
    <2>4. op \in Ops /\ Fits(op, x.kids)
      BY <1>5, <2>3 DEF Fits, Ops, UnaryOps, BinaryOps, Arithmetic, Comparison, BitOp, ShiftOp, Logical
    <2>5. ResultType(op, x.kids) = ResultType(x.op, x.kids)
      BY <2>3 DEF ResultType, Arithmetic, Comparison, Logical
    <2>6. ResultType(x.op, x.kids) = TypeOf(x)
      BY <1>2, <1>5, NodeComputes DEF Computes, TypeOf
    <2>7. Repaired(Node(op, x.kids), x, W, G)
      BY <1>1, <2>4, <2>5, <2>6, NodeRepaired
    <2> QED BY <2>2, <2>7
  <1> QED BY <1>3, <1>6, <1>7

-----------------------------------------------------------------------------
(* The language stays the same, and so does what it makes sound.           *)

LEMMA SameResult ==
    ASSUME isC' = isC
    PROVE  \A op, kids : Result(op, kids)' = Result(op, kids)
  <1>1. \A op, a, b : EvalBinary(op, a, b)' = EvalBinary(op, a, b)
    BY DEF EvalBinary
  <1>2. \A op, vals : Evaluate(op, vals)' = Evaluate(op, vals)
    BY <1>1 DEF Evaluate
  <1> QED BY <1>2 DEF Result

LEMMA SameMeaning ==
    ASSUME isC' = isC
    PROVE  \A e : Meaning(e)' = Meaning(e)
  <1>1. \A op, a, b : EvalBinary(op, a, b)' = EvalBinary(op, a, b)
    BY DEF EvalBinary
  <1>2. \A op, t, a, n : ShiftMeaning(op, t, a, n)' = ShiftMeaning(op, t, a, n)
    BY DEF ShiftMeaning
  <1>3. \A op, t, a, b : BinaryMeaning(op, t, a, b)' = BinaryMeaning(op, t, a, b)
    BY <1>1, <1>2 DEF BinaryMeaning
  <1> QED BY <1>3 DEF Meaning

LEMMA SameLanguage ==
    ASSUME isC' = isC
    PROVE  /\ \A x : Local(x)' <=> Local(x)
           /\ \A x : Sound(x)' <=> Sound(x)
           /\ \A S : Closed(S)' <=> Closed(S)
           /\ \A S : GoodSet(S)' <=> GoodSet(S)
  <1>1. \A x : Local(x)' <=> Local(x)
    BY SameResult DEF Local
  <1>2. \A x : Sound(x)' <=> Sound(x)
    BY SameMeaning DEF Sound
  <1>3. \A S : Closed(S)' <=> Closed(S)
    BY <1>1 DEF Closed
  <1>4. \A S : GoodSet(S)' <=> GoodSet(S)
    BY <1>2, <1>3 DEF GoodSet
  <1> QED BY <1>1, <1>2, <1>3, <1>4

-----------------------------------------------------------------------------
(* The calls in progress.                                                  *)

\* W holds the nodes in work, G those that were returned.
FrameOK(f, W, G) ==
    /\ f \in [e : W, next : Nat] /\ f.next \in 1 .. Len(f.e.kids) + 1
    /\ \A k \in DOMAIN f.e.kids : k < f.next => f.e.kids[k] \in G

\* f waits for a child of type t.
Calls(f, t) == f.next <= Len(f.e.kids) /\ t = TypeOf(f.e.kids[f.next])

StackOK(s, W, G) ==
    /\ s \in Seq([e : W, next : Nat]) /\ Len(s) >= 1
    /\ \A i \in 1 .. Len(s) : FrameOK(s[i], W, G)
    /\ \A i \in 1 .. Len(s) - 1 : Calls(s[i], TypeOf(s[i + 1].e))

TypesKept(s, t) == \A i \in 1 .. Len(s) : i <= Len(t) => TypeOf(t[i].e) = TypeOf(s[i].e)

LEMMA FrameKept ==
    ASSUME NEW W, NEW G, NEW V, NEW H, W \subseteq V, G \subseteq H, NEW f, FrameOK(f, W, G)
    PROVE  FrameOK(f, V, H)
  BY DEF FrameOK

\* The first n calls, with another one on top.
LEMMA Stacked ==
    ASSUME NEW S, NEW s \in Seq(S), NEW n \in 0 .. Len(s), NEW f \in S
    PROVE  LET t == Append(SubSeq(s, 1, n), f)
           IN  /\ t \in Seq(S) /\ Len(t) = n + 1 /\ t[n + 1] = f
               /\ \A i \in 1 .. n : t[i] = s[i]
  <1>1. PICK u : u = SubSeq(s, 1, n)
    OBVIOUS
  <1>2. u \in Seq(S) /\ Len(u) = n /\ \A i \in 1 .. n : u[i] = s[i]
    <2>1. CASE n = 0
      <3>1. u = <<>>
        BY <1>1, <2>1
      <3> QED BY <2>1, <3>1
    <2>2. CASE n # 0
      <3>1. /\ 1 \in 1 .. Len(s) + 1 /\ n \in 0 .. Len(s) /\ Len(s) \in Nat
        BY <2>2
      <3> QED BY <1>1, <2>2, <3>1, SubSeqProperties
    <2> QED BY <2>1, <2>2
  <1>3. PICK t : t = Append(u, f)
    OBVIOUS
  <1>4. /\ t \in Seq(S) /\ Len(t) = n + 1 /\ t[n + 1] = f
        /\ \A i \in 1 .. n : t[i] = u[i]
    BY <1>2, <1>3, AppendProperties
  <1> QED BY <1>1, <1>2, <1>3, <1>4

LEMMA StackCut ==
    ASSUME NEW W, NEW G, NEW s, StackOK(s, W, G), NEW V, NEW H, W \subseteq V, G \subseteq H,
           NEW n \in 0 .. Len(s), NEW f, FrameOK(f, V, H),
           IF n < Len(s) THEN TypeOf(f.e) = TypeOf(s[n + 1].e) ELSE Calls(s[n], TypeOf(f.e))
    PROVE  LET t == Append(SubSeq(s, 1, n), f)
           IN  StackOK(t, V, H) /\ TypesKept(s, t)
  <1> DEFINE S == [e : V, next : Nat]
  <1>1. s \in Seq(S) /\ f \in S /\ Len(s) \in Nat /\ Len(s) >= 1
    <2>1. [e : W, next : Nat] \subseteq S
      OBVIOUS
    <2>2. s \in Seq([e : W, next : Nat]) /\ Len(s) >= 1
      BY DEF StackOK
    <2>3. f \in S
      BY DEF FrameOK
    <2> HIDE DEF S
    <2>4. s \in Seq(S)
      BY <2>1, <2>2, SeqMonotonic
    <2> QED BY <2>2, <2>3, <2>4
  <1> HIDE DEF S
  <1>2. PICK t : t = Append(SubSeq(s, 1, n), f)
    OBVIOUS
  <1>3. /\ t \in Seq(S) /\ Len(t) = n + 1 /\ t[n + 1] = f
        /\ \A i \in 1 .. n : t[i] = s[i]
    BY <1>1, <1>2, Stacked
  <1>4. \A i \in 1 .. Len(t) : FrameOK(t[i], V, H)
    <2> SUFFICES ASSUME NEW i \in 1 .. n + 1 PROVE FrameOK(t[i], V, H)
      BY <1>3
    <2>1. CASE i = n + 1
      BY <1>3, <2>1
    <2>2. CASE i \in 1 .. n
      <3>1. t[i] = s[i] /\ i \in 1 .. Len(s)
        BY <1>1, <1>3, <2>2
      <3>2. FrameOK(s[i], W, G)
        BY <3>1 DEF StackOK
      <3> QED BY <3>1, <3>2, FrameKept
    <2> QED BY <2>1, <2>2
  <1>5. \A i \in 1 .. Len(t) - 1 : Calls(t[i], TypeOf(t[i + 1].e))
    <2> SUFFICES ASSUME NEW i \in 1 .. n PROVE Calls(t[i], TypeOf(t[i + 1].e))
      BY <1>1, <1>3
    <2>1. t[i] = s[i]
      BY <1>3
    <2>2. CASE i < n
      <3>1. t[i + 1] = s[i + 1] /\ i \in 1 .. Len(s) - 1
        BY <1>1, <1>3, <2>2
      <3> QED BY <2>1, <3>1 DEF StackOK
    <2>3. CASE i = n
      <3>1. t[i + 1] = f
        BY <1>3, <2>3
      <3>2. CASE n < Len(s)
        <4>1. i \in 1 .. Len(s) - 1
          BY <1>1, <2>3, <3>2
        <4>2. Calls(s[i], TypeOf(s[i + 1].e))
          BY <4>1 DEF StackOK
        <4> QED BY <2>1, <2>3, <3>1, <3>2, <4>2
      <3>3. CASE n = Len(s)
        BY <2>1, <2>3, <3>1, <3>3, <1>1
      <3> QED BY <1>1, <3>2, <3>3
    <2> QED BY <2>2, <2>3
  <1>6. StackOK(t, V, H)
    BY <1>1, <1>3, <1>4, <1>5 DEF StackOK, S
  <1>7. TypesKept(s, t)
    <2> SUFFICES ASSUME NEW i \in 1 .. Len(s), i <= n + 1
                 PROVE  TypeOf(t[i].e) = TypeOf(s[i].e)
      BY <1>3 DEF TypesKept
    <2>1. CASE i \in 1 .. n
      BY <1>3, <2>1
    <2>2. CASE i = n + 1
      BY <1>1, <1>3, <2>2
    <2> QED BY <1>1, <2>1, <2>2
  <1> QED BY <1>2, <1>6, <1>7

LEMMA TopFacts ==
    ASSUME NEW W, NEW G, StackOK(stack, W, G)
    PROVE  /\ Top = stack[Len(stack)] /\ FrameOK(Top, W, G) /\ Len(stack) \in Nat /\ Len(stack) >= 1
           /\ Top.e \in W
  <1>1. Len(stack) \in Nat /\ Len(stack) >= 1
    BY DEF StackOK
  <1>2. Top = stack[Len(stack)]
    BY DEF Top, Last
  <1>3. FrameOK(Top, W, G)
    BY <1>1, <1>2 DEF StackOK
  <1> QED BY <1>1, <1>2, <1>3 DEF FrameOK

-----------------------------------------------------------------------------
(* The steps.                                                              *)

\* The state of rebuild: at work on well-made trees, with all that was
\* returned sound; or done, with a tree that is sound in every node.
Working(st, p, W, G) ==
    \/ p = "rebuild" /\ StackOK(st, W, G)
    \/ p = "done" /\ \E f : st = <<f>> /\ f.e \in G

Inv ==
    /\ isC \in BOOLEAN
    /\ \E W, G : Closed(W) /\ GoodSet(G) /\ Working(stack, pc, W, G)

\* What a step leads to, in terms of the language before it.
Stays ==
    /\ \E W, G : Closed(W) /\ GoodSet(G) /\ Working(stack', pc', W, G)
    /\ TypesKept(stack, stack')

LEMMA StaysInv ==
    ASSUME Inv, isC' = isC, Stays
    PROVE  Inv'
  <1>1. PICK W, G : Closed(W) /\ GoodSet(G) /\ Working(stack', pc', W, G)
    BY DEF Stays
  <1>2. Closed(W)' /\ GoodSet(G)'
    BY <1>1, SameLanguage
  <1>3. isC' \in BOOLEAN
    BY DEF Inv
  <1> QED BY <1>1, <1>2, <1>3 DEF Inv

LEMMA ReturnStays ==
    ASSUME NEW W, Closed(W), NEW G, GoodSet(G), StackOK(stack, W, G), pc = "rebuild",
           isC \in BOOLEAN, NEW V, W \subseteq V, Closed(V), NEW H, G \subseteq H, GoodSet(H),
           NEW e \in V, e \in H, TypeOf(e) = TypeOf(Top.e), ReturnWith(e)
    PROVE  Stays
  <1>1. /\ Top = stack[Len(stack)] /\ FrameOK(Top, W, G) /\ Len(stack) \in Nat /\ Len(stack) >= 1
    BY TopFacts
  <1>2. CASE Len(stack) = 1
    <2>1. PICK f : f = [Top EXCEPT !.e = e]
      OBVIOUS
    <2>2. stack' = <<f>> /\ pc' = "done"
      BY <1>2, <2>1 DEF ReturnWith
    <2>3. f.e = e
      BY <1>1, <2>1 DEF FrameOK
    <2>4. Working(stack', pc', V, H)
      BY <2>2, <2>3 DEF Working
    <2>5. Len(stack') = 1 /\ stack'[1] = f
      BY <2>2
    <2>6. TypesKept(stack, stack')
      BY <1>1, <1>2, <2>3, <2>5 DEF TypesKept
    <2> QED BY <2>4, <2>6 DEF Stays
  <1>3. CASE Len(stack) # 1
    <2>1. PICK n \in Nat : n = Len(stack) - 2 /\ n + 1 = Len(stack) - 1 /\ n + 2 = Len(stack)
      <3>1. PICK L \in Nat : L = Len(stack) /\ L >= 2
        <4>1. PICK L : L = Len(stack)
          OBVIOUS
        <4>2. L \in Nat /\ L >= 1 /\ L # 1
          BY <1>1, <1>3, <4>1
        <4>3. L >= 2
          BY <4>2
        <4> QED BY <4>1, <4>2, <4>3
      <3>2. L - 2 \in Nat /\ (L - 2) + 1 = L - 1 /\ (L - 2) + 2 = L
        BY <3>1
      <3> QED BY <3>1, <3>2
    <2>2. PICK c : c = stack[n + 1]
      OBVIOUS
    <2>3. FrameOK(c, W, G) /\ Calls(c, TypeOf(stack[n + 2].e))
      <3>1. n + 1 \in 1 .. Len(stack) /\ n + 1 \in 1 .. Len(stack) - 1 /\ (n + 1) + 1 = n + 2
        BY <2>1
      <3> QED BY <2>2, <3>1 DEF StackOK
    <2>4. TypeOf(e) = TypeOf(c.e.kids[c.next]) /\ c.next <= Len(c.e.kids)
      BY <1>1, <2>1, <2>3 DEF Calls
    <2>5. /\ c.e \in W /\ Local(c.e) /\ c.next \in Nat /\ c.next >= 1
          /\ \A k \in DOMAIN c.e.kids : c.e.kids[k] \in W
      BY <2>3 DEF FrameOK, Closed
    <2>6. PICK m \in 0 .. 3 : m = Len(c.e.kids) /\ DOMAIN c.e.kids = 1 .. m
      BY <2>5, KidsShape
    <2>7. c.next \in DOMAIN c.e.kids
      BY <2>4, <2>5, <2>6
    <2>8. /\ e.val \in Values
          /\ \A k \in DOMAIN c.e.kids : c.e.kids[k].val \in Values
      BY <2>5, ClosedValues
    <2>9. PICK w : w = WithKid(c.e, c.next, e)
      OBVIOUS
    <2>10. /\ Local(w) /\ TypeOf(w) = TypeOf(c.e) /\ Len(w.kids) = m /\ DOMAIN w.kids = 1 .. m
           /\ w.kids = [c.e.kids EXCEPT ![c.next] = e]
      <3>1. PICK x, i : x = c.e /\ i = c.next
        OBVIOUS
      <3>2. /\ Local(x) /\ i \in DOMAIN x.kids /\ TypeOf(e) = TypeOf(x.kids[i])
            /\ \A k \in DOMAIN x.kids : x.kids[k].val \in Values
        BY <2>4, <2>5, <2>7, <2>8, <3>1
      <3>3. w = WithKid(x, i, e)
        BY <2>9, <3>1
      <3>4. /\ Local(w) /\ TypeOf(w) = TypeOf(x) /\ Len(w.kids) = Len(x.kids)
            /\ DOMAIN w.kids = DOMAIN x.kids /\ w.kids = [x.kids EXCEPT ![i] = e]
        BY <2>8, <3>2, <3>3, WithKidFacts
      <3> QED BY <2>6, <3>1, <3>4
    <2>11. /\ \A k \in 1 .. m : w.kids[k] = IF k = c.next THEN e ELSE c.e.kids[k]
      BY <2>6, <2>10
    <2>12. \A k \in DOMAIN w.kids : w.kids[k] \in V
      BY <2>5, <2>6, <2>10, <2>11
    <2>13. Closed(V \cup {w})
      BY <2>10, <2>12, AddNode
    <2>14. PICK f : f = [e |-> w, next |-> c.next + 1]
      OBVIOUS
    <2>15. FrameOK(f, V \cup {w}, H)
      <3>1. f \in [e : V \cup {w}, next : Nat] /\ f.e = w /\ f.next = c.next + 1
        BY <2>5, <2>14
      <3>2. f.next \in 1 .. m + 1
        BY <2>4, <2>5, <2>6, <3>1
      <3>3. \A k \in 1 .. m : k < c.next => c.e.kids[k] \in G
        BY <2>3, <2>6 DEF FrameOK
      <3>4. \A k \in 1 .. m : k < c.next + 1 => w.kids[k] \in H
        BY <2>5, <2>11, <3>3
      <3> QED BY <2>10, <3>1, <3>2, <3>4 DEF FrameOK
    <2>16. stack' = Append(SubSeq(stack, 1, n), f) /\ pc' = "rebuild"
      <3>1. Len(stack) - 1 = n + 1 /\ Len(stack) - 2 = n
        BY <2>1
      <3> QED BY <1>3, <2>2, <2>9, <2>14, <3>1 DEF ReturnWith
    <2>17. n \in 0 .. Len(stack) /\ n < Len(stack) /\ TypeOf(f.e) = TypeOf(stack[n + 1].e)
      BY <2>1, <2>2, <2>10, <2>14
    <2>18. W \subseteq V \cup {w}
      OBVIOUS
    <2>19. StackOK(stack', V \cup {w}, H) /\ TypesKept(stack, stack')
      BY <2>15, <2>16, <2>17, <2>18, StackCut
    <2> QED BY <2>13, <2>16, <2>19 DEF Stays, Working
  <1> QED BY <1>2, <1>3

\* A step of rebuild, with the sets the invariant speaks of.
LEMMA RebuildKidStays ==
    ASSUME NEW W, Closed(W), NEW G, GoodSet(G), StackOK(stack, W, G), RebuildKid
    PROVE  Stays
  <1>1. /\ Top = stack[Len(stack)] /\ FrameOK(Top, W, G) /\ Len(stack) \in Nat /\ Len(stack) >= 1
        /\ Top.e \in W
    BY TopFacts
  <1>2. Top.next <= Len(Top.e.kids) /\ pc' = "rebuild"
    BY DEF RebuildKid
  <1>3. Local(Top.e)
    BY <1>1 DEF Closed
  <1>4. PICK m \in 0 .. 3 : m = Len(Top.e.kids) /\ DOMAIN Top.e.kids = 1 .. m
    BY <1>3, KidsShape
  <1>5. PICK k : k = Top.e.kids[Top.next] /\ k \in W
    <2>1. Top.next \in 1 .. m
      BY <1>1, <1>2, <1>4 DEF FrameOK
    <2> QED BY <1>1, <1>4, <2>1 DEF Closed
  <1>6. PICK f : f = Frame(k)
    OBVIOUS
  <1>7. f.e = k /\ f.next = 1 /\ f \in [e : W, next : Nat]
    BY <1>5, <1>6 DEF Frame
  <1>8. FrameOK(f, W, G)
    <2>1. Local(k)
      BY <1>5 DEF Closed
    <2>2. PICK j \in 0 .. 3 : j = Len(k.kids) /\ DOMAIN k.kids = 1 .. j
      BY <2>1, KidsShape
    <2>3. 1 \in 1 .. j + 1 /\ \A i \in 1 .. j : ~(i < 1)
      OBVIOUS
    <2> QED BY <1>7, <2>2, <2>3 DEF FrameOK
  <1>9. PICK n \in Nat : n = Len(stack)
    BY <1>1
  <1>10. stack' = Append(SubSeq(stack, 1, n), f)
    <2>1. SubSeq(stack, 1, n) = stack
      BY <1>9 DEF StackOK
    <2> QED BY <1>5, <1>6, <2>1 DEF RebuildKid
  <1>11. Calls(stack[n], TypeOf(f.e)) /\ n \in 0 .. Len(stack) /\ ~(n < Len(stack))
    BY <1>1, <1>2, <1>5, <1>7, <1>9 DEF Calls
  <1>12. StackOK(stack', W, G) /\ TypesKept(stack, stack')
    BY <1>8, <1>10, <1>11, StackCut
  <1> QED BY <1>2, <1>12 DEF Stays, Working

\* What the guards of the other two steps mean.
LEMMA RebuiltFacts ==
    ASSUME NEW W, Closed(W), NEW G, GoodSet(G), StackOK(stack, W, G), KidsRebuilt,
           isC \in BOOLEAN
    PROVE  /\ Top.e \in W /\ Local(Top.e)
           /\ \A i \in DOMAIN Top.e.kids : Top.e.kids[i] \in G
           /\ \A i \in DOMAIN Top.e.kids : Top.e.kids[i].val \in Values /\ Sound(Top.e.kids[i])
           /\ ~HasUB(Top.e.val) => Sound(Top.e)
           /\ NeedsRepair(Top.e) <=> HasUB(Top.e.val)
  <1>1. FrameOK(Top, W, G) /\ Top.e \in W
    BY TopFacts
  <1>2. Local(Top.e)
    BY <1>1 DEF Closed
  <1>3. PICK m \in 0 .. 3 : m = Len(Top.e.kids) /\ DOMAIN Top.e.kids = 1 .. m
    BY <1>2, KidsShape
  <1>4. \A i \in DOMAIN Top.e.kids : Top.e.kids[i] \in G
    BY <1>1, <1>3 DEF FrameOK, KidsRebuilt
  <1>5. \A i \in DOMAIN Top.e.kids : Top.e.kids[i].val \in Values /\ Sound(Top.e.kids[i])
    BY <1>4, ClosedValues DEF GoodSet
  <1> QED BY <1>1, <1>2, <1>4, <1>5, NodeIsSound

LEMMA ReturnStep ==
    ASSUME NEW W, Closed(W), NEW G, GoodSet(G), StackOK(stack, W, G), isC \in BOOLEAN, Return
    PROVE  Stays
  <1>1. KidsRebuilt /\ ~NeedsRepair(Top.e) /\ ReturnWith(Top.e) /\ pc = "rebuild"
    BY DEF Return, KidsRebuilt
  <1>2. /\ Top.e \in W /\ Local(Top.e) /\ ~HasUB(Top.e.val)
        /\ \A i \in DOMAIN Top.e.kids : Top.e.kids[i] \in G
    BY <1>1, RebuiltFacts
  <1>3. GoodSet(G \cup {Top.e})
    BY <1>2, AddGood
  <1>4. G \subseteq G \cup {Top.e} /\ Top.e \in G \cup {Top.e} /\ W \subseteq W
    OBVIOUS
  <1> QED BY <1>1, <1>2, <1>3, <1>4, ReturnStays

LEMMA RepairStep ==
    ASSUME NEW W, Closed(W), NEW G, GoodSet(G), StackOK(stack, W, G), isC \in BOOLEAN, Repair
    PROVE  Stays
  <1>1. KidsRebuilt /\ NeedsRepair(Top.e) /\ pc = "rebuild"
    BY DEF Repair, KidsRebuilt
  <1>2. /\ Top.e \in W /\ Local(Top.e) /\ HasUB(Top.e.val)
        /\ \A i \in DOMAIN Top.e.kids : Top.e.kids[i] \in G
    BY <1>1, RebuiltFacts
  <1>3. PICK e \in Repairs(Top.e, Top.e.val.ub) :
           IF e = Aborted THEN pc' = "aborted" /\ UNCHANGED stack
           ELSE IF HasUB(e.val) THEN stack' = Append(Front(stack), Frame(e)) /\ UNCHANGED pc
           ELSE ReturnWith(e)
    BY DEF Repair
  <1>4. Repaired(e, Top.e, W, G)
    BY <1>2, RepairsMade
  <1>5. e # Aborted /\ TypeOf(e) = TypeOf(Top.e)
    BY <1>4 DEF Repaired
  <1>6. PICK V : W \subseteq V /\ Closed(V) /\ e \in V
    BY <1>4 DEF Repaired
  <1>7. CASE HasUB(e.val)
    <2>1. stack' = Append(Front(stack), Frame(e)) /\ pc' = "rebuild"
      BY <1>1, <1>3, <1>5, <1>7
    <2>2. Top = stack[Len(stack)] /\ Len(stack) \in Nat /\ Len(stack) >= 1
      BY TopFacts
    <2>3. PICK n \in Nat : n = Len(stack) - 1 /\ n + 1 = Len(stack)
      BY <2>2
    <2>4. PICK f : f = Frame(e)
      OBVIOUS
    <2>5. stack' = Append(SubSeq(stack, 1, n), f)
      BY <2>1, <2>3, <2>4 DEF Front
    <2>6. f.e = e /\ f.next = 1 /\ f \in [e : V, next : Nat]
      BY <1>6, <2>4 DEF Frame
    <2>7. FrameOK(f, V, G)
      <3>1. Local(e)
        BY <1>6 DEF Closed
      <3>2. PICK j \in 0 .. 3 : j = Len(e.kids) /\ DOMAIN e.kids = 1 .. j
        BY <3>1, KidsShape
      <3>3. 1 \in 1 .. j + 1 /\ \A i \in 1 .. j : ~(i < 1)
        OBVIOUS
      <3> QED BY <2>6, <3>2, <3>3 DEF FrameOK
    <2>8. n \in 0 .. Len(stack) /\ n < Len(stack) /\ TypeOf(f.e) = TypeOf(stack[n + 1].e)
      BY <1>5, <2>2, <2>3, <2>6
    <2>9. G \subseteq G
      OBVIOUS
    <2>10. StackOK(stack', V, G) /\ TypesKept(stack, stack')
      BY <1>6, <2>5, <2>7, <2>8, <2>9, StackCut
    <2> QED BY <1>6, <2>1, <2>10 DEF Stays, Working
  <1>8. CASE ~HasUB(e.val)
    <2>1. ReturnWith(e)
      BY <1>3, <1>5, <1>8
    <2>2. PICK H : G \subseteq H /\ GoodSet(H) /\ e \in H
      BY <1>4, <1>8 DEF Repaired
    <2> QED BY <1>1, <1>5, <1>6, <2>1, <2>2, ReturnStays
  <1> QED BY <1>7, <1>8

-----------------------------------------------------------------------------
(* The nodes of a tree.                                                    *)

Levels(e, k, g) ==
    g = [n \in 0 .. k |-> IF n = 0 THEN {e} ELSE UNION {Range(x.kids) : x \in g[n - 1]}]

LEMMA LevelsExist == \A e : \A k \in Nat : \E g : Levels(e, k, g)
  <1> SUFFICES ASSUME NEW e PROVE \A k \in Nat : \E g : Levels(e, k, g)
    OBVIOUS
  <1> DEFINE below(S) == UNION {Range(x.kids) : x \in S}
  <1> DEFINE P == {k \in Nat : \E g : Levels(e, k, g)}
  <1>1. 0 \in P
    <2> DEFINE g == [n \in 0 .. 0 |-> {e}]
    <2>1. Levels(e, 0, g)
      BY DEF Levels
    <2> HIDE DEF g
    <2> QED BY <2>1
  <1>2. ASSUME NEW k \in P PROVE k + 1 \in P
    <2>1. PICK g : Levels(e, k, g)
      OBVIOUS
    <2> DEFINE h == [n \in 0 .. k + 1 |-> IF n = k + 1 THEN below(g[k]) ELSE g[n]]
    <2>2. k \in Nat
      OBVIOUS
    <2> HIDE DEF P, below
    <2>3. g = [n \in 0 .. k |-> IF n = 0 THEN {e} ELSE below(g[n - 1])]
      BY <2>1 DEF Levels, below
    <2>4. \A n \in 0 .. k + 1 : h[n] = IF n = 0 THEN {e} ELSE below(h[n - 1])
      <3> SUFFICES ASSUME NEW n \in 0 .. k + 1
                   PROVE  h[n] = IF n = 0 THEN {e} ELSE below(h[n - 1])
        OBVIOUS
      <3>1. CASE n = 0
        <4>1. h[n] = g[0] /\ g[0] = {e}
          BY <2>2, <2>3, <3>1
        <4> QED BY <3>1, <4>1
      <3>2. CASE n \in 1 .. k
        <4>1. h[n] = g[n] /\ n # 0 /\ n - 1 \in 0 .. k /\ n \in 0 .. k
          BY <2>2, <3>2
        <4>2. h[n - 1] = g[n - 1]
          BY <2>2, <4>1
        <4>3. g[n] = below(g[n - 1])
          BY <2>3, <4>1
        <4> QED BY <4>1, <4>2, <4>3
      <3>3. CASE n = k + 1
        <4>1. h[n] = below(g[k]) /\ n # 0 /\ n - 1 = k /\ h[k] = g[k]
          BY <2>2, <3>3
        <4> QED BY <4>1
      <3> QED BY <2>2, <3>1, <3>2, <3>3
    <2>5. h = [n \in 0 .. k + 1 |-> h[n]]
      OBVIOUS
    <2> HIDE DEF h
    <2>6. h = [n \in 0 .. k + 1 |-> IF n = 0 THEN {e} ELSE below(h[n - 1])]
      BY <2>4, <2>5
    <2>7. Levels(e, k + 1, h)
      BY <2>6 DEF Levels, below
    <2> QED BY <2>2, <2>7 DEF P
  <1>3. P \subseteq Nat
    OBVIOUS
  <1> HIDE DEF P
  <1>4. P = Nat
    BY <1>1, <1>2, <1>3, CountingUp
  <1> QED BY <1>4 DEF P

LEMMA NodesAreGood ==
    ASSUME NEW G, Closed(G), NEW e \in G
    PROVE  Nodes(e) \subseteq G
  <1> DEFINE level == CHOOSE g : Levels(e, MaxHeight, g)
  <1>1. Levels(e, MaxHeight, level)
    BY LevelsExist, BoundsAssumption
  <1>2. Nodes(e) = UNION {level[n] : n \in 0 .. MaxHeight}
    BY DEF Nodes, Levels
  <1> HIDE DEF level
  <1>3. \A n \in 0 .. MaxHeight :
           level[n] = IF n = 0 THEN {e} ELSE UNION {Range(x.kids) : x \in level[n - 1]}
    BY <1>1 DEF Levels
  <1> DEFINE P == {n \in Nat : n <= MaxHeight => level[n] \subseteq G}
  <1>4. 0 \in P
    <2>1. 0 \in 0 .. MaxHeight
      BY BoundsAssumption
    <2>2. level[0] = {e}
      BY <1>3, <2>1
    <2> QED BY <2>2
  <1>5. ASSUME NEW n \in P PROVE n + 1 \in P
    <2> SUFFICES ASSUME n + 1 <= MaxHeight PROVE level[n + 1] \subseteq G
      OBVIOUS
    <2>1. n \in Nat /\ level[n] \subseteq G /\ n + 1 \in 0 .. MaxHeight /\ n + 1 # 0 /\ (n + 1) - 1 = n
      BY BoundsAssumption
    <2>2. level[n + 1] = UNION {Range(x.kids) : x \in level[n]}
      BY <1>3, <2>1
    <2>3. \A x \in level[n] : Range(x.kids) \subseteq G
      BY <2>1 DEF Closed, Range
    <2> QED BY <2>2, <2>3
  <1>6. P \subseteq Nat
    OBVIOUS
  <1> HIDE DEF P
  <1>7. P = Nat
    BY <1>4, <1>5, <1>6, CountingUp
  <1>8. \A n \in 0 .. MaxHeight : level[n] \subseteq G
    BY <1>7, BoundsAssumption DEF P
  <1> QED BY <1>2, <1>8

-----------------------------------------------------------------------------
(* The invariant, and what follows from it.                                *)

LEMMA InitInv == Init => Inv
  <1> SUFFICES ASSUME Init PROVE Inv
    OBVIOUS
  <1>1. isC \in BOOLEAN /\ pc = "rebuild"
    BY DEF Init
  <1>2. PICK e \in Generated : stack = <<Frame(e)>>
    BY DEF Init
  <1>3. PICK W : Closed(W) /\ e \in W
    BY <1>1, GeneratedMade
  <1>4. GoodSet({})
    BY DEF GoodSet, Closed
  <1>5. PICK f : f = Frame(e)
    OBVIOUS
  <1>6. f.e = e /\ f.next = 1 /\ f \in [e : W, next : Nat]
    BY <1>3, <1>5 DEF Frame
  <1>7. FrameOK(f, W, {})
    <2>1. Local(e)
      BY <1>3 DEF Closed
    <2>2. PICK j \in 0 .. 3 : j = Len(e.kids) /\ DOMAIN e.kids = 1 .. j
      BY <2>1, KidsShape
    <2>3. 1 \in 1 .. j + 1 /\ \A i \in 1 .. j : ~(i < 1)
      OBVIOUS
    <2> QED BY <1>6, <2>2, <2>3 DEF FrameOK
  <1>8. stack \in Seq([e : W, next : Nat]) /\ Len(stack) = 1 /\ stack[1] = f
    <2> DEFINE S == [e : W, next : Nat]
    <2>1. f \in S
      BY <1>6
    <2> HIDE DEF S
    <2>2. stack \in Seq(S) /\ Len(stack) = 1 /\ stack[1] = f
      BY <1>2, <1>5, <2>1
    <2> QED BY <2>2 DEF S
  <1>9. StackOK(stack, W, {})
    BY <1>7, <1>8 DEF StackOK
  <1> QED BY <1>1, <1>3, <1>4, <1>9 DEF Inv, Working

\* Every step keeps the invariant, and the types of the nodes in work.
LEMMA NextInv == Inv /\ [Next]_vars => Inv' /\ TypesKept(stack, stack')
  <1> SUFFICES ASSUME Inv, [Next]_vars PROVE Inv' /\ TypesKept(stack, stack')
    OBVIOUS
  <1>1. CASE UNCHANGED vars
    <2>1. isC' = isC /\ stack' = stack /\ pc' = pc
      BY <1>1 DEF vars
    <2>2. TypesKept(stack, stack')
      BY <2>1 DEF TypesKept
    <2>3. Stays
      BY <2>1, <2>2 DEF Stays, Inv
    <2> QED BY <2>1, <2>2, <2>3, StaysInv
  <1>2. CASE Next
    <2>1. PICK W, G : Closed(W) /\ GoodSet(G) /\ Working(stack, pc, W, G)
      BY DEF Inv
    <2>2. pc = "rebuild" /\ isC' = isC
      BY <1>2 DEF Next, RebuildKid, Return, Repair, KidsRebuilt
    <2>3. StackOK(stack, W, G) /\ isC \in BOOLEAN
      BY <2>1, <2>2 DEF Working, Inv
    <2>4. Stays
      BY <1>2, <2>1, <2>3, RebuildKidStays, ReturnStep, RepairStep DEF Next
    <2> QED BY <2>2, <2>4, StaysInv DEF Stays
  <1> QED BY <1>1, <1>2

\* While rebuild runs, its trees are closed under evaluation: every node has
\* the value, the conversions and the operand types that its operator gives it,
\* and all the children it has got back are sound in every node below them.
THEOREM TreesAreWellMade == Spec => []Inv
  <1>1. Init => Inv
    BY InitInv
  <1>2. Inv /\ [Next]_vars => Inv'
    BY NextInv
  <1> QED BY <1>1, <1>2, PTL DEF Spec

\* The expression that rebuild hands back has no undefined behaviour in any
\* node, and each recorded value is what C or C++ gives the emitted text.
THEOREM RebuiltDefined == Spec => []RebuiltIsDefined
  <1>1. Inv => RebuiltIsDefined
    <2> SUFFICES ASSUME Inv, pc = "done", NEW x \in Nodes(Top.e)
                 PROVE  ~HasUB(x.val) /\ Meaning(x) = {x.val.v}
      BY DEF RebuiltIsDefined
    <2>1. PICK W, G : Closed(W) /\ GoodSet(G) /\ Working(stack, pc, W, G)
      BY DEF Inv
    <2>2. PICK f : stack = <<f>> /\ f.e \in G
      BY <2>1 DEF Working
    <2>3. Top = f
      BY <2>2 DEF Top, Last
    <2>4. x \in G
      BY <2>1, <2>2, <2>3, NodesAreGood DEF GoodSet
    <2> QED BY <2>1, <2>4 DEF GoodSet, Sound
  <1> QED BY <1>1, TreesAreWellMade, PTL

\* A node whose children are rebuilt evaluates to undefined behaviour whenever
\* it has any, and otherwise to its value: the sign bits, halves of products and
\* most significant bits that ir_value.cpp looks at are enough for every width.
THEOREM EvaluationSound == Spec => []EvaluationIsSound
  <1>1. Inv => EvaluationIsSound
    <2> SUFFICES ASSUME Inv, KidsRebuilt
                 PROVE  /\ \A kid \in Range(Top.e.kids) : ~HasUB(kid.val)
                        /\ ~HasUB(Top.e.val) => Meaning(Top.e) = {Top.e.val.v}
      BY DEF EvaluationIsSound
    <2>1. PICK W, G : Closed(W) /\ GoodSet(G) /\ Working(stack, pc, W, G)
      BY DEF Inv
    <2>2. StackOK(stack, W, G) /\ isC \in BOOLEAN
      BY <2>1 DEF Working, KidsRebuilt, Inv
    <2>3. /\ \A i \in DOMAIN Top.e.kids : Top.e.kids[i].val \in Values /\ Sound(Top.e.kids[i])
          /\ ~HasUB(Top.e.val) => Sound(Top.e)
      BY <2>1, <2>2, RebuiltFacts
    <2> QED BY <2>3 DEF Sound, Range
  <1> QED BY <1>1, TreesAreWellMade, PTL

\* No ERROR and no assertion of expr.cpp is reached: operands always have types
\* the operators are defined for, and no correction of a shift is zero.
THEOREM NothingAborts == Spec => []NeverAborts
  <1>1. Inv => NeverAborts
    BY DEF Inv, Working, NeverAborts
  <1> QED BY <1>1, TreesAreWellMade, PTL

\* A repair, like any other step, leaves the types of the nodes in work alone.
THEOREM TypesAreKept == Spec => RepairKeepsType
  <1>1. Inv /\ [Next]_vars =>
           [\A i \in 1 .. Len(stack) : i <= Len(stack') => TypeOf(stack'[i].e) = TypeOf(stack[i].e)]_vars
    BY NextInv DEF TypesKept
  <1> QED BY <1>1, TreesAreWellMade, PTL DEF Spec, RepairKeepsType
=============================================================================
