------------------------------ MODULE IRValue ------------------------------
(***************************************************************************)
(* The integer values of YARPGen (ir_value.cpp, type.cpp): every operator  *)
(* computes the C/C++ result of its operands, or the kind of undefined     *)
(* behaviour the operation would have.  Operators are translated with the  *)
(* checks the code makes (sign bits, halves of a product, most significant *)
(* bits), not with the mathematical condition they stand for, which module *)
(* Expr states for comparison.  The widths are constants, so that TLC can  *)
(* enumerate the operands of a scaled-down machine.                        *)
(***************************************************************************)
EXTENDS Integers, FiniteSetsExt

CONSTANTS CharBits, ShortBits, IntBits, LongBits    \* bits of the C types

\* int32_t and int64_t are halved by checkMulIsOk, and canRepresentType relies
\* on a long long being wider than an int.
ASSUME WidthAssumption ==
    /\ {CharBits, ShortBits, IntBits, LongBits} \subseteq Nat \ {0}
    /\ CharBits < ShortBits /\ ShortBits < IntBits /\ IntBits < LongBits
    /\ IntBits % 2 = 0 /\ LongBits % 2 = 0

\* Powers of two, as the proofs need them.
ASSUME PowerAssumption == 2^0 = 1 /\ \A n \in 1 .. LongBits : 2^n = 2 * 2^(n - 1)

Types == {"BOOL", "SCHAR", "UCHAR", "SHORT", "USHORT", "INT", "UINT", "LLONG", "ULLONG"}

\* The order of the enumeration IntTypeID.
Rank == [BOOL |-> 0, SCHAR |-> 1, UCHAR |-> 2, SHORT |-> 3, USHORT |-> 4,
         INT |-> 5, UINT |-> 6, LLONG |-> 7, ULLONG |-> 8]

IsSigned(t) == t \in {"SCHAR", "SHORT", "INT", "LLONG"}

\* sizeof(bool) is a byte.
Bits(t) == IF t \in {"BOOL", "SCHAR", "UCHAR"} THEN CharBits
           ELSE IF t \in {"SHORT", "USHORT"} THEN ShortBits
           ELSE IF t \in {"INT", "UINT"} THEN IntBits
           ELSE LongBits

MinOf(t) == IF IsSigned(t) THEN -(2^(Bits(t) - 1)) ELSE 0
MaxOf(t) == IF t = "BOOL" THEN 1
            ELSE IF IsSigned(t) THEN 2^(Bits(t) - 1) - 1
            ELSE 2^Bits(t) - 1
InRange(t, n) == MinOf(t) <= n /\ n <= MaxOf(t)

\* Conversion of an integer to a type, as static_cast does it.
Wrap(t, n) == IF t = "BOOL" THEN (IF n = 0 THEN 0 ELSE 1)
              ELSE IF IsSigned(t) THEN ((n - MinOf(t)) % 2^Bits(t)) + MinOf(t)
              ELSE n % 2^Bits(t)

UBKinds == {"NoUB", "Uninit", "SignOvf", "SignOvfMin", "ZeroDiv", "ShiftRhsNeg",
            "ShiftRhsLarge", "NegShift"}

\* A value with undefined behaviour keeps the zero it was constructed with.
Val(t, n)   == [ty |-> t, v |-> Wrap(t, n), ub |-> "NoUB"]
Bad(t, kind) == [ty |-> t, v |-> 0, ub |-> kind]
HasUB(a) == a.ub # "NoUB"

\* Every operator starts by refusing operands that have undefined behaviour.
Guarded(t, operands, result) ==
    IF \E a \in operands : HasUB(a) THEN Bad(t, "Uninit") ELSE result

-----------------------------------------------------------------------------
(* Additive operators: overflow is read off the sign bits.                 *)

Neg(n) == n < 0
Abs(n) == IF n < 0 THEN -n ELSE n

AddOverflows(t, a, b) == Neg(a) = Neg(b) /\ Neg(b) # Neg(Wrap(t, a + b))

\* Seeded fault: the sign of the other operand is compared.
SubOverflows_Fault(t, a, b) == Neg(a) # Neg(b) /\ Neg(b) # Neg(Wrap(t, a - b))

SubOverflows(t, a, b) == Neg(a) # Neg(b) /\ Neg(a) # Neg(Wrap(t, a - b))

Add(a, b) == Guarded(a.ty, {a, b},
    IF IsSigned(a.ty) /\ AddOverflows(a.ty, a.v, b.v) THEN Bad(a.ty, "SignOvf")
    ELSE Val(a.ty, a.v + b.v))
Sub(a, b) == Guarded(a.ty, {a, b},
    IF IsSigned(a.ty) /\ SubOverflows(a.ty, a.v, b.v) THEN Bad(a.ty, "SignOvf")
    ELSE Val(a.ty, a.v - b.v))
Minus(a) == Guarded(a.ty, {a},
    IF IsSigned(a.ty) /\ a.v = MinOf(a.ty) THEN Bad(a.ty, "SignOvf")
    ELSE Val(a.ty, -a.v))

(* The product, from the halves of the operands' absolute values.          *)
MulFits(t, a, b) ==
    LET half  == 2^(Bits(t) \div 2)
        hi(n) == Abs(n) \div half
        lo(n) == Abs(n) % half
        mid   == hi(a) * lo(b) + hi(b) * lo(a)
        ret   == (mid * half + lo(a) * lo(b)) % 2^Bits(t)
    IN  /\ hi(a) = 0 \/ hi(b) = 0
        /\ mid < half
        /\ ret >= mid * half
        /\ ret <= IF (a > 0 /\ b > 0) \/ (a < 0 /\ b < 0) THEN MaxOf(t) ELSE -MinOf(t)

\* MIN and -1, in either order.
MinAndMinusOne(t, a, b) == {a, b} = {MinOf(t), -1}

Mul(a, b) == Guarded(a.ty, {a, b},
    IF IsSigned(a.ty) /\ MinAndMinusOne(a.ty, a.v, b.v) THEN Bad(a.ty, "SignOvfMin")
    ELSE IF IsSigned(a.ty) /\ ~MulFits(a.ty, a.v, b.v) THEN Bad(a.ty, "SignOvf")
    ELSE Val(a.ty, a.v * b.v))

(* Division truncates toward zero.                                         *)
Quotient(a, b)  == IF Neg(a) = Neg(b) THEN Abs(a) \div Abs(b) ELSE -(Abs(a) \div Abs(b))
Remainder(a, b) == a - b * Quotient(a, b)

DivMod(a, b, result) == Guarded(a.ty, {a, b},
    IF b.v = 0 THEN Bad(a.ty, "ZeroDiv")
    ELSE IF IsSigned(a.ty) /\ MinAndMinusOne(a.ty, a.v, b.v) THEN Bad(a.ty, "SignOvf")
    ELSE Val(a.ty, result))

Div(a, b) == DivMod(a, b, Quotient(a.v, b.v))
Mod(a, b) == DivMod(a, b, Remainder(a.v, b.v))

-----------------------------------------------------------------------------
(* Comparisons, logical and bitwise operators.                             *)

Truth(b) == IF b THEN 1 ELSE 0
Compare(a, b, holds) == Guarded("BOOL", {a, b}, Val("BOOL", Truth(holds)))

\* The positions of the ones in the two's complement of a, and back.
Ones(a) == {i \in 0 .. Bits(a.ty) - 1 : (a.v \div 2^i) % 2 = 1}
FromOnes(t, ones) == Val(t, MapThenSumSet(LAMBDA i : 2^i, ones))

BitAnd(a, b) == Guarded(a.ty, {a, b}, FromOnes(a.ty, Ones(a) \cap Ones(b)))
BitOr(a, b)  == Guarded(a.ty, {a, b}, FromOnes(a.ty, Ones(a) \cup Ones(b)))
BitXor(a, b) == Guarded(a.ty, {a, b},
                        FromOnes(a.ty, (Ones(a) \cup Ones(b)) \ (Ones(a) \cap Ones(b))))
BitNot(a) == Guarded(a.ty, {a}, FromOnes(a.ty, (0 .. Bits(a.ty) - 1) \ Ones(a)))
LogNot(a) == Guarded(a.ty, {a}, Val(a.ty, 1 - a.v))

(* Shifts.  The amount is judged before the operands' own state is.        *)
MSB(t, n) == IF n < 0 THEN Bits(t)
             ELSE CHOOSE m \in 0 .. Bits(t) : n < 2^m /\ (m > 0 => 2^(m - 1) <= n)

\* Seeded fault: the rule of C++ for both languages.
ShiftsOut_Fault(isC, a, n) == n > Bits(a.ty) - MSB(a.ty, a.v)

\* C wants the result of a signed left shift to fit the type, C++ the
\* corresponding unsigned type.
ShiftsOut(isC, a, n) ==
    LET available == Bits(a.ty) - MSB(a.ty, a.v)
    IN  IF isC THEN n >= available ELSE n > available

Shift(a, b, tooLarge, result) ==
    IF b.v < 0 THEN Bad(a.ty, "ShiftRhsNeg")
    ELSE IF b.v >= Bits(a.ty) THEN Bad(a.ty, "ShiftRhsLarge")
    ELSE Guarded(a.ty, {a, b},
           IF IsSigned(a.ty) /\ a.v < 0 THEN Bad(a.ty, "NegShift")
           ELSE IF tooLarge THEN Bad(a.ty, "ShiftRhsLarge")
           ELSE Val(a.ty, result))

ShiftLeft(isC, a, b) ==
    Shift(a, b, IsSigned(a.ty) /\ ShiftsOut(isC, a, b.v), a.v * 2^b.v)
ShiftRight(a, b) == Shift(a, b, FALSE, a.v \div 2^b.v)

CastToType(t, a) == Guarded(t, {a}, Val(t, a.v))

-----------------------------------------------------------------------------
(* Types: promotion, conversion, representability.                         *)

CanRepresentType(a, b) == \/ a = "INT" /\ b = "LLONG"
                          \/ a = "UINT" /\ b \in {"ULLONG", "LLONG"}

GetCorrUnsigned(t) == IF t \in {"INT", "UINT"} THEN "UINT" ELSE "ULLONG"

\* The type both operands of a binary operator are converted to (arithConv).
CommonType(l, r) ==
    LET higher == IF Rank[l] > Rank[r] THEN l ELSE r
        s == IF IsSigned(l) THEN l ELSE r       \* the signed one of the two
        u == IF IsSigned(l) THEN r ELSE l
    IN  IF IsSigned(l) = IsSigned(r) THEN higher
        ELSE IF Rank[u] >= Rank[s] THEN u
        ELSE IF CanRepresentType(s, u) THEN s
        ELSE GetCorrUnsigned(s)
=============================================================================
