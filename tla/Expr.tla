-------------------------------- MODULE Expr --------------------------------
(***************************************************************************)
(* YARPGen's expression trees and the repair of undefined behaviour in     *)
(* them (expr.cpp).  A random expression is built first; rebuild then      *)
(* walks it, children before their parent, and where the value of a node   *)
(* has undefined behaviour it changes the operator or adds a constant,     *)
(* evaluates again and starts over at that node until it is defined.  The  *)
(* recursive calls of rebuild are an explicit stack here, one step per     *)
(* call, return or repair.  ISPC's vector types are left out.              *)
(***************************************************************************)
EXTENDS IRValue, SequencesExt

CONSTANTS Constants,        \* values of the leaves
          DeepConstants,    \* values of the leaves of two-level expressions
          DeepOps,          \* the operators above another operator
          MaxHeight         \* bound: how far down the properties look into a tree

ASSUME ConstantsAssumption ==
    \A a \in Constants \cup DeepConstants :
        a.ty \in Types /\ a.v \in Int /\ a = Val(a.ty, a.v)

VARIABLES isC,              \* Options.isC(): C, or C++
          stack,            \* calls of rebuild in progress: node, next child
          pc                \* "rebuild", "done", "aborted" (ERROR or assert)

vars == <<isC, stack, pc>>

-----------------------------------------------------------------------------
(* Operators, and what evaluate makes of the values of their children.     *)

Arithmetic == {"ADD", "SUB", "MUL", "DIV", "MOD"}
Comparison == {"LT", "GT", "LE", "GE", "EQ", "NE"}
BitOp      == {"BIT_AND", "BIT_OR", "BIT_XOR"}
ShiftOp    == {"SHL", "SHR"}
Logical    == {"LOG_AND", "LOG_OR"}
UnaryOps   == {"PLUS", "NEGATE", "BIT_NOT", "LOG_NOT"}
BinaryOps  == Arithmetic \cup Comparison \cup BitOp \cup ShiftOp \cup Logical

ASSUME BoundsAssumption ==
    DeepOps \subseteq BinaryOps \cup {"MIN", "MAX"} /\ MaxHeight \in Nat

EvalUnary(op, a) ==
    CASE op = "PLUS" -> a      [] op = "NEGATE" -> Minus(a)
      [] op = "BIT_NOT" -> BitNot(a)  [] op = "LOG_NOT" -> LogNot(a)

EvalBinary(op, a, b) ==
    CASE op = "ADD" -> Add(a, b)
      [] op = "SUB" -> Sub(a, b)
      [] op = "MUL" -> Mul(a, b)
      [] op = "DIV" -> Div(a, b)
      [] op = "MOD" -> Mod(a, b)
      [] op = "LT"  -> Compare(a, b, a.v < b.v)
      [] op = "GT"  -> Compare(a, b, a.v > b.v)
      [] op = "LE"  -> Compare(a, b, a.v <= b.v)
      [] op = "GE"  -> Compare(a, b, a.v >= b.v)
      [] op = "EQ"  -> Compare(a, b, a.v = b.v)
      [] op = "NE"  -> Compare(a, b, a.v # b.v)
      [] op = "LOG_AND" -> Compare(a, b, a.v = 1 /\ b.v = 1)
      [] op = "LOG_OR"  -> Compare(a, b, a.v = 1 \/ b.v = 1)
      [] op = "BIT_AND" -> BitAnd(a, b)
      [] op = "BIT_OR"  -> BitOr(a, b)
      [] op = "BIT_XOR" -> BitXor(a, b)
      [] op = "SHL" -> ShiftLeft(isC, a, b)
      [] op = "SHR" -> ShiftRight(a, b)

\* The arguments are compared as long long; a comparison without a value
\* reads as false.
EvalMinMax(op, a, b) ==
    LET wide == IF IsSigned(a.ty) THEN "LLONG" ELSE "ULLONG"
        x == CastToType(wide, a)
        y == CastToType(wide, b)
        first == Compare(x, y, IF op = "MAX" THEN x.v > y.v ELSE x.v < y.v)
    IN  IF first.v = 1 THEN a ELSE b

Evaluate(op, vals) ==
    CASE op \in UnaryOps  -> EvalUnary(op, vals[1])
      [] op \in BinaryOps -> EvalBinary(op, vals[1], vals[2])
      [] op = "TERNARY"   -> IF vals[1].v = 1 THEN vals[2] ELSE vals[3]
      [] op \in {"MIN", "MAX"} -> EvalMinMax(op, vals[1], vals[2])

-----------------------------------------------------------------------------
(* Trees.  A node keeps the value it was evaluated to last, and the type   *)
(* of that value is the type of the node.                                  *)

Tree(op, kids, val) == [op |-> op, kids |-> kids, val |-> val]
TypeOf(e) == e.val.ty

ConstantExpr(val) == Tree("CONST", <<>>, val)
TypeCastExpr(t, e) == Tree("CAST", <<e>>, CastToType(t, e.val))

ConvTo(t, e) == IF TypeOf(e) = t THEN e ELSE TypeCastExpr(t, e)
IntegralProm(e) == IF Rank[TypeOf(e)] >= Rank["INT"] THEN e ELSE TypeCastExpr("INT", e)
ConvToBool(e) == ConvTo("BOOL", e)
ArithConv(l, r) == LET t == CommonType(TypeOf(l), TypeOf(r)) IN <<ConvTo(t, l), ConvTo(t, r)>>

\* getTopIntID and cxxArgPromotion: the arguments get the higher type.
TopType(l, r) == IF Rank[TypeOf(l)] > Rank[TypeOf(r)] THEN TypeOf(l) ELSE TypeOf(r)

\* propagateType: the conversions a node wraps its children in.
PropagateType(op, kids) ==
    CASE op \in {"PLUS", "NEGATE", "BIT_NOT"} -> <<IntegralProm(kids[1])>>
      [] op = "LOG_NOT" -> <<ConvToBool(kids[1])>>
      [] op \in Arithmetic \cup Comparison \cup BitOp ->
           ArithConv(IntegralProm(kids[1]), IntegralProm(kids[2]))
      [] op \in ShiftOp -> <<IntegralProm(kids[1]), IntegralProm(kids[2])>>
      [] op \in Logical -> <<ConvToBool(kids[1]), ConvToBool(kids[2])>>
      [] op = "TERNARY" -> <<ConvToBool(kids[1])>>
                           \o ArithConv(IntegralProm(kids[2]), IntegralProm(kids[3]))
      [] op \in {"MIN", "MAX"} ->
           LET t == TopType(kids[1], kids[2])
           IN  <<ConvTo(t, kids[1]), ConvTo(t, kids[2])>>

\* The constructors, and evaluate on a tree: convert the children, compute.
Node(op, kids) ==
    CHOOSE e \in {Tree(op, c, Evaluate(op, [i \in DOMAIN c |-> c[i].val])) :
                     c \in {PropagateType(op, kids)}} : TRUE

UnaryExpr(op, e) == Node(op, <<e>>)
BinaryExpr(op, l, r) == Node(op, <<l, r>>)
TernaryExpr(c, l, r) == Node("TERNARY", <<c, l, r>>)

\* Seeded fault: the cast follows the type of its operand.
WithKid_Fault(e, i, kid) ==
    IF e.op = "CAST" THEN TypeCastExpr(TypeOf(kid), kid)
    ELSE Node(e.op, [e.kids EXCEPT ![i] = kid])

\* e with a child that was rebuilt.
WithKid(e, i, kid) ==
    IF e.op = "CAST" THEN TypeCastExpr(TypeOf(e), kid)
    ELSE Node(e.op, [e.kids EXCEPT ![i] = kid])

\* The operators ERROR out unless they get the types they are defined for.
Accepts(e) ==
    LET ty(i) == TypeOf(e.kids[i])
        arithmetic == {"INT", "UINT", "LLONG", "ULLONG"}
    IN  CASE e.op \in {"CONST", "CAST", "TERNARY", "PLUS"} -> TRUE
          [] e.op \in {"NEGATE", "BIT_NOT"} -> ty(1) \in arithmetic
          [] e.op = "LOG_NOT" -> ty(1) = "BOOL"
          [] e.op \in Logical -> ty(1) = "BOOL" /\ ty(2) = "BOOL"
          [] e.op \in ShiftOp -> ty(1) \in arithmetic /\ ty(2) \in arithmetic
          [] e.op \in {"MIN", "MAX"} -> ty(1) = ty(2)
          [] e.op \in Arithmetic \cup Comparison \cup BitOp ->
               ty(1) = ty(2) /\ ty(1) \in arithmetic

-----------------------------------------------------------------------------
(* rebuild.                                                                *)

Frame(e) == [e |-> e, next |-> 1]
Top == Last(stack)
Aborted == [op |-> "ABORT"]

\* Seeded fault: the most significant bit is left out of account.
MaxShift_Fault(op, lhs, ub) == Bits(lhs.ty) - 1

\* The largest amount lhs can be shifted by.  The most significant bit limits
\* only the left shift of a signed value that was too large.
MaxShift(op, lhs, ub) ==
    LET msb  == MSB(lhs.ty, lhs.v)
        room == Bits(lhs.ty) - 1 - (msb - 1)
    IN  IF op = "SHL" /\ IsSigned(lhs.ty) /\ ub = "ShiftRhsLarge" /\ msb > 0
        THEN IF isC /\ room > 0 THEN room - 1 ELSE room
        ELSE Bits(lhs.ty) - 1

\* A constant brings the amount to a random legal one; a negative lhs gets the
\* maximum of its type.  size_t is as wide as a long long.
ShiftRepairs(e, ub) ==
    LET l == e.kids[1]
        r == e.kids[2]
        corrections == {(IF ub = "ShiftRhsNeg" THEN n + Abs(r.val.v) ELSE Abs(r.val.v) - n)
                        % 2^LongBits : n \in 0 .. MaxShift(e.op, l.val, ub)}
        constants(ns) == {ConstantExpr(Val(TypeOf(r), n)) : n \in ns}
        adjusted == {BinaryExpr(IF ub = "ShiftRhsNeg" THEN "ADD" ELSE "SUB", r, c) :
                       c \in constants(corrections \ {0})}
        raised == BinaryExpr("ADD", l, ConstantExpr(Val(TypeOf(l), MaxOf(TypeOf(l)))))
    IN  IF ub \in {"ShiftRhsLarge", "ShiftRhsNeg"}
        THEN {BinaryExpr(e.op, l, f) : f \in adjusted} \cup (IF 0 \in corrections THEN {Aborted} ELSE {})
        ELSE {BinaryExpr(e.op, raised, r)}

\* Seeded fault: the causes of the undefined behaviour are not told apart.
Weaker_Fault(op, ub) ==
    CASE op = "NEGATE" -> "PLUS"   [] op = "ADD" -> "SUB"   [] op = "SUB" -> "ADD"
      [] op = "MUL" -> "DIV"       [] op \in {"DIV", "MOD"} -> "MUL"

\* The operator put in the place of one with undefined behaviour ub.
Weaker(op, ub) ==
    CASE op = "NEGATE" -> "PLUS"   [] op = "ADD" -> "SUB"   [] op = "SUB" -> "ADD"
      [] op = "MUL" -> IF ub = "SignOvfMin" THEN "SUB" ELSE "DIV"
      [] op \in {"DIV", "MOD"} -> IF ub = "ZeroDiv" THEN "MUL" ELSE "SUB"

\* What rebuild may turn a node into that has undefined behaviour ub, or types
\* its operator is not defined for.
Repairs(e, ub) ==
    IF ~Accepts(e) THEN {Aborted}
    ELSE CASE e.op \in Arithmetic \cup {"NEGATE"} -> {Node(Weaker(e.op, ub), e.kids)}
           [] e.op \in UnaryOps \ {"NEGATE"} -> {Aborted}
           [] e.op \in ShiftOp -> ShiftRepairs(e, ub)
           [] e.op \in Comparison \cup BitOp \cup Logical \cup {"CAST"} -> {e}

\* rebuild of these nodes returns whatever it evaluates to.
NeverRepaired == {"CONST", "TERNARY", "MIN", "MAX"}

\* The call on top returns e to its caller.
ReturnWith(e) ==
    IF Len(stack) = 1
    THEN stack' = <<[Top EXCEPT !.e = e]>> /\ pc' = "done"
    ELSE LET caller == stack[Len(stack) - 1]
         IN  /\ stack' = Append(SubSeq(stack, 1, Len(stack) - 2),
                                [e |-> WithKid(caller.e, caller.next, e),
                                 next |-> caller.next + 1])
             /\ UNCHANGED pc

\* The expressions ArithmeticExpr::create builds from the leaves of values: one
\* operator over them, or a choice between two operators.
Grow(ops, left, right) == {BinaryExpr(op, a, b) : op \in ops, a \in left, b \in right}

Generated ==
    LET leaves == {ConstantExpr(a) : a \in Constants}
        deep   == {ConstantExpr(a) : a \in DeepConstants}
        inner  == Grow(DeepOps \cap BinaryOps, deep, deep)
    IN  UNION {{UnaryExpr(op, a) : op \in UnaryOps, a \in leaves},
               Grow(BinaryOps \cup {"MIN", "MAX"}, leaves, leaves),
               Grow(DeepOps, inner, deep),
               Grow(DeepOps, deep, inner),
               {TernaryExpr(c, e, TypeCastExpr("SCHAR", UnaryExpr("NEGATE", c))) :
                  c \in deep, e \in inner}}

Init ==
    /\ isC \in BOOLEAN
    /\ \E e \in Generated : stack = <<Frame(e)>>
    /\ pc = "rebuild"

RebuildKid ==
    /\ pc = "rebuild" /\ Top.next <= Len(Top.e.kids)
    /\ stack' = Append(stack, Frame(Top.e.kids[Top.next]))
    /\ UNCHANGED <<isC, pc>>

KidsRebuilt == pc = "rebuild" /\ Top.next > Len(Top.e.kids)

NeedsRepair(e) == ~Accepts(e) \/ (HasUB(e.val) /\ e.op \notin NeverRepaired)

Return ==
    /\ KidsRebuilt /\ ~NeedsRepair(Top.e)
    /\ ReturnWith(Top.e)
    /\ UNCHANGED isC

\* Repair, evaluate; if that did not do, rebuild this node from its children.
Repair ==
    /\ KidsRebuilt /\ NeedsRepair(Top.e)
    /\ \E e \in Repairs(Top.e, Top.e.val.ub) :
         IF e = Aborted THEN pc' = "aborted" /\ UNCHANGED stack
         ELSE IF HasUB(e.val) THEN stack' = Append(Front(stack), Frame(e)) /\ UNCHANGED pc
         ELSE ReturnWith(e)
    /\ UNCHANGED isC

Next == RebuildKid \/ Return \/ Repair

Spec == Init /\ [][Next]_vars
FairSpec == Spec /\ WF_vars(Next)

-----------------------------------------------------------------------------
(* What the emitted text means: exact integers and the C/C++ rules, apart  *)
(* from the code's own checks.  {} is undefined behaviour.                 *)

Exact(t, n) == IF IsSigned(t) /\ ~InRange(t, n) THEN {} ELSE {Wrap(t, n)}

ShiftMeaning(op, t, a, n) ==
    CASE n < 0 \/ n >= Bits(t) -> {}
      [] n \in 0 .. Bits(t) - 1 /\ op = "SHR" -> {a \div 2^n}
      [] n \in 0 .. Bits(t) - 1 /\ op = "SHL" /\ ~IsSigned(t) -> {Wrap(t, a * 2^n)}
      [] n \in 0 .. Bits(t) - 1 /\ op = "SHL" /\ IsSigned(t) ->
           IF a < 0 \/ a * 2^n > (IF isC THEN MaxOf(t) ELSE 2 * MaxOf(t) + 1) THEN {}
           ELSE {Wrap(t, a * 2^n)}

BinaryMeaning(op, t, a, b) ==
    CASE op = "ADD" -> Exact(t, a + b)
      [] op = "SUB" -> Exact(t, a - b)
      [] op = "MUL" -> Exact(t, a * b)
      [] op \in {"DIV", "MOD"} ->
           IF b = 0 \/ ~InRange(t, Quotient(a, b)) THEN {}
           ELSE {IF op = "DIV" THEN Quotient(a, b) ELSE Remainder(a, b)}
      [] op \in ShiftOp -> ShiftMeaning(op, t, a, b)
      [] op \in Comparison \cup Logical \cup BitOp ->
           {EvalBinary(op, Val(t, a), Val(t, b)).v}

\* The value of a node, given those of its children.
Meaning(e) ==
    LET kid(i) == e.kids[i].val.v
    IN  CASE e.op = "CONST" -> {e.val.v}
          [] e.op = "CAST" -> {Wrap(TypeOf(e), kid(1))}
          [] e.op = "PLUS" -> {kid(1)}
          [] e.op = "NEGATE" -> Exact(TypeOf(e), -kid(1))
          [] e.op = "BIT_NOT" -> {Wrap(TypeOf(e), -kid(1) - 1)}
          [] e.op = "LOG_NOT" -> {1 - kid(1)}
          [] e.op \in BinaryOps -> BinaryMeaning(e.op, TypeOf(e.kids[1]), kid(1), kid(2))
          [] e.op = "TERNARY" -> {kid(IF kid(1) = 1 THEN 2 ELSE 3)}
          [] e.op \in {"MIN", "MAX"} ->
               {IF (kid(1) < kid(2)) = (e.op = "MIN") THEN kid(1) ELSE kid(2)}

\* The nodes of the tree e, the branches not taken included.
Nodes(e) ==
    LET level[n \in 0 .. MaxHeight] ==
            IF n = 0 THEN {e} ELSE UNION {Range(x.kids) : x \in level[n - 1]}
    IN  UNION {level[n] : n \in 0 .. MaxHeight}

-----------------------------------------------------------------------------
(* Properties.                                                             *)

\* What rebuild hands back is free of undefined behaviour in every node,
\* whichever branch is taken, and the value recorded for each is the one that
\* the emitted text has: ArithmeticExpr::create promises it for code that runs,
\* and the checksum of the test depends on it.
RebuiltIsDefined ==
    pc = "done" => \A x \in Nodes(Top.e) : ~HasUB(x.val) /\ Meaning(x) = {x.val.v}

\* Once the children of a node are rebuilt they are defined, and evaluate sees
\* all the undefined behaviour there is: where it reports none, the emitted
\* expression is defined and has the computed value (the overflow tricks of
\* ir_value.cpp against exact integers).  Before that it need not: max(a, b)
\* with an undefined a evaluates to b.
EvaluationIsSound ==
    KidsRebuilt =>
        /\ \A kid \in Range(Top.e.kids) : ~HasUB(kid.val)
        /\ ~HasUB(Top.e.val) => Meaning(Top.e) = {Top.e.val.v}

\* No ERROR or assertion is reached: operands have the types the operators are
\* defined for, a unary operator other than minus never overflows, and the
\* correction of a shift is never zero.
NeverAborts == pc # "aborted"

\* The repair of a node leaves its type alone, on which the conversions its
\* callers have wrapped it in depend (TypeCastExpr does not look again).
RepairKeepsType ==
    [][\A i \in 1 .. Len(stack) : i <= Len(stack') => TypeOf(stack'[i].e) = TypeOf(stack[i].e)]_vars

\* rebuild ends: a repair never leads back to the undefined behaviour it
\* removed, so the loop of evaluate and rebuild leaves every node.
Terminates == <>(pc # "rebuild")
=============================================================================
