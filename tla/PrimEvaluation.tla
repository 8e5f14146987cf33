--------------------------- MODULE PrimEvaluation ---------------------------
(***************************************************************************)
(* evalPrimOp (compiler/evaluator_op.cpp): a primitive operation evaluated *)
(* by the compiler itself.  An answer lists what is written to the cells   *)
(* of the results, each with the type that the code asserts the cell to    *)
(* have.  Primitives whose results are all static objects write nothing.   *)
(***************************************************************************)
EXTENDS PrimAnalysis

CONSTANTS SizeOf(_),        \* the size of a value in bytes,
          AlignOf(_),       \* and its alignment: the data layout of the target
          BitAnd(_, _), BitOr(_, _), BitXor(_, _)   \* of patterns of bits, by host and target

ASSUME LayoutAssumption == \A t \in Types : SizeOf(t) \in Nat /\ AlignOf(t) \in Nat

Writes(ws) == [out |-> "ok", writes |-> ws]
Write(t, n) == Writes(<<Arg(t, n)>>)
Untouched == [out |-> "static"]
Truth(b) == IF b THEN 1 ELSE 0
Test(b) == Write(BoolT, Truth(b))
-----------------------------------------------------------------------------
\* Questions about static objects.
EvalTypeP(a) == When(Len(a) = 1, Test(IsType(a, 1)))
EvalSymbolTest(op, a) ==
  When(Len(a) = 1,
       Test(LET obj == Obj(a, 1) IN
            CASE op = "OperatorP" -> obj.objKind = "PROCEDURE" /\ obj.isOperator
              [] op = "SymbolP" -> obj.objKind \in {"TYPE", "PROCEDURE"}))
EvalMonoP(a) == When(Len(a) = 1, Test(Obj(a, 1).objKind = "PROCEDURE" /\ Obj(a, 1).mono # <<>>))
EvalRecordP(a) == When(Len(a) = 1, Test(IsTypeOfKind(a, 1, "record")))
EvalVariantP(a) == When(Len(a) = 1, Test(IsTypeOfKind(a, 1, "variant")))
EvalEnumP(a) == When(Len(a) = 1, Test(IsTypeOfKind(a, 1, "enum")))
EvalSizes(op, a) ==
  When(Len(a) = 1 /\ IsType(a, 1),
       Write(SizeT, CASE op = "TypeSize" -> SizeOf(TypeArg(a, 1))
                      [] op = "TypeAlignment" -> AlignOf(TypeArg(a, 1))))
EvalCallDefined(a) ==
  When(/\ Len(a) >= 1 /\ Obj(a, 1).objKind \in {"TYPE", "PROCEDURE"}
       /\ \A i \in 2..Len(a) : IsType(a, i),
       Test(Finds(a, 2)))
\* What is copied is written to the first argument, not to a result.
EvalBitcopy(a) ==
  When(Len(a) = 2 /\ IsPrimitive(a[1].type) /\ a[1].type = a[2].type, Writes(<<>>))
EvalBoolNot(a) == When(Len(a) = 1 /\ a[1].type = BoolT, Test(a[1].val = 0))
-----------------------------------------------------------------------------
\* The host's arithmetic on floats: NaN is unordered, and the small numbers
\* used here are exact.
NaN == 1000
FloatArithmetic(op, x, y) ==
  IF NaN \in {x, y} THEN NaN
  ELSE CASE op = "numericAdd" -> x + y
         [] op = "numericSubtract" -> x - y
         [] op = "numericMultiply" -> x * y
         [] op = "floatDivide" -> IF y = 0 THEN NaN ELSE Quot(x, y)

\* Comparisons of the host language; they are false of a NaN, but for !=.
Below(x, y) == NaN \notin {x, y} /\ x < y
AtMost(x, y) == NaN \notin {x, y} /\ x <= y
Same(x, y) == NaN \notin {x, y} /\ x = y
FloatTest(op, x, y) ==
  CASE op = "floatOrderedEqualsP" -> Same(x, y)
    [] op = "floatOrderedLesserP" -> Below(x, y)
    [] op = "floatOrderedLesserEqualsP" -> AtMost(x, y)
    [] op = "floatOrderedGreaterP" -> Below(y, x)
    [] op = "floatOrderedGreaterEqualsP" -> AtMost(y, x)
    [] op = "floatOrderedNotEqualsP" -> ~Same(x, y) /\ Same(x, x) /\ Same(y, y)
    [] op = "floatOrderedP" -> Same(x, x) /\ Same(y, y)
    [] op = "floatUnorderedEqualsP" -> Same(x, y) \/ ~Same(x, x) \/ ~Same(y, y)
    [] op = "floatUnorderedLesserP" -> ~AtMost(y, x)
    [] op = "floatUnorderedLesserEqualsP" -> ~Below(y, x)
    [] op = "floatUnorderedGreaterP" -> ~AtMost(x, y)
    [] op = "floatUnorderedGreaterEqualsP" -> ~Below(x, y)
    [] op = "floatUnorderedNotEqualsP" -> ~Same(x, y)
    [] op = "floatUnorderedP" -> ~Same(x, x) \/ ~Same(y, y)
EvalFloatComparison(op, a) ==
  When(Len(a) = 2 /\ HasKind(a, 1, "float") /\ a[1].type = a[2].type,
       Test(FloatTest(op, a[1].val, a[2].val)))
EvalIntegerComparison(op, a) ==
  When(/\ Len(a) = 2 /\ a[1].type = a[2].type
       /\ HasKind(a, 1, "integer") \/ IsPointerLike(a[1].type),
       Test(IF op = "integerEqualsP" THEN a[1].val = a[2].val ELSE a[1].val < a[2].val))

EvalNumeric(op, a) ==
  When(/\ Len(a) = 2 /\ a[1].type = a[2].type
       /\ IF op = "floatDivide" THEN HasKind(a, 1, "float") ELSE IsNumeric(a[1].type),
       Write(a[1].type,
             IF HasKind(a, 1, "float") THEN FloatArithmetic(op, a[1].val, a[2].val)
             ELSE Wrap(a[1].type, CASE op = "numericAdd" -> a[1].val + a[2].val
                                    [] op = "numericSubtract" -> a[1].val - a[2].val
                                    [] op = "numericMultiply" -> a[1].val * a[2].val)))
Negated(t, x) == IF t.kind = "integer" THEN Wrap(t, -x) ELSE IF x = NaN THEN NaN ELSE -x
EvalNegate(a) == When(Len(a) = 1 /\ IsNumeric(a[1].type), Write(a[1].type, Negated(a[1].type, a[1].val)))
-----------------------------------------------------------------------------
\* Integers.  Both operands have the type t of the first.  The host computes
\* with a type narrower than its int in int, so that a shift may exceed the
\* type's width, and only a wide quotient of the least integer overflows.
HostBits(t) == IF t.bits < PtrBits THEN PtrBits ELSE t.bits
HostDivides(t, x, y) == y # 0 /\ ~(t.signed /\ t.bits >= PtrBits /\ x = MinOf(t) /\ y = -1)
Pattern(t, n) == n % 2 ^ t.bits
Division(op, t, x, y) ==
  IF ~HostDivides(t, x, y) THEN Undefined
  ELSE Write(t, IF op = "integerQuotient" THEN Wrap(t, Quot(x, y)) ELSE Rem(x, y))
BitOperation(op, t, x, y) ==
  CASE op \in {"integerShiftLeft", "integerShiftRight"} ->
         IF y \notin 0..(HostBits(t) - 1) THEN Undefined
         ELSE Write(t, IF op = "integerShiftLeft" THEN Wrap(t, x * 2 ^ y) ELSE x \div 2 ^ y)
    [] op = "integerBitwiseAnd" -> Write(t, Wrap(t, BitAnd(Pattern(t, x), Pattern(t, y))))
    [] op = "integerBitwiseOr" -> Write(t, Wrap(t, BitOr(Pattern(t, x), Pattern(t, y))))
    [] op = "integerBitwiseXor" -> Write(t, Wrap(t, BitXor(Pattern(t, x), Pattern(t, y))))

\* The bound is excluded where it should be included.
AddCheckedEarly(t, x, y) ==
  IF (y < 0 /\ x <= MinOf(t) - y) \/ (y > 0 /\ x >= MaxOf(t) - y) THEN Overflow ELSE Write(t, x + y)
AddChecked(t, x, y) ==
  IF (y < 0 /\ x < MinOf(t) - y) \/ (y > 0 /\ x > MaxOf(t) - y) THEN Overflow ELSE Write(t, x + y)
SubtractChecked(t, x, y) ==
  IF (y < 0 /\ x > MaxOf(t) + y) \/ (y > 0 /\ x < MinOf(t) + y) THEN Overflow ELSE Write(t, x - y)
NextLarger(t) == IF t.bits = MaxBits THEN t ELSE [t EXCEPT !.bits = 2 * t.bits]
MultiplyChecked(t, x, y) ==
  LET big == Wrap(NextLarger(t), x * y) IN
  IF Fits(t, big) THEN Write(t, Wrap(t, x * y)) ELSE Overflow
ShiftLeftChecked(t, x, y) ==
  LET magnitude == IF x < 0 THEN -x - 1 ELSE x IN
  CASE y < 0 -> Overflow
    [] y = 0 -> Write(t, x)
    [] y > 0 -> IF IF t.signed THEN y > t.bits - 1 \/ magnitude \div 2 ^ (t.bits - y - 1) # 0
                   ELSE y > t.bits \/ x \div 2 ^ (t.bits - y) # 0
                THEN Overflow
                ELSE IF y >= HostBits(t) THEN Undefined ELSE Write(t, Wrap(t, x * 2 ^ y))
QuotientChecked(t, x, y) ==
  IF y = 0 \/ (t.signed /\ x = MinOf(t) /\ y = -1) THEN Overflow ELSE Write(t, Quot(x, y))
\* Only a zero is tested for.
RemainderChecked(t, x, y) ==
  CASE y = 0 -> Overflow
    [] HostDivides(t, x, y) -> Write(t, Rem(x, y))
    [] OTHER -> Undefined
Checked(op, t, x, y) ==
  CASE op = "integerAddChecked" -> AddChecked(t, x, y)
    [] op = "integerSubtractChecked" -> SubtractChecked(t, x, y)
    [] op = "integerMultiplyChecked" -> MultiplyChecked(t, x, y)
    [] op = "integerQuotientChecked" -> QuotientChecked(t, x, y)
    [] op = "integerRemainderChecked" -> RemainderChecked(t, x, y)
    [] op = "integerShiftLeftChecked" -> ShiftLeftChecked(t, x, y)

BothIntegers(a) == Len(a) = 2 /\ HasKind(a, 1, "integer") /\ a[1].type = a[2].type
EvalChecked(op, a) == When(BothIntegers(a), Checked(op, a[1].type, a[1].val, a[2].val))
EvalDivision(op, a) == When(BothIntegers(a), Division(op, a[1].type, a[1].val, a[2].val))
EvalBits(op, a) == When(BothIntegers(a), BitOperation(op, a[1].type, a[1].val, a[2].val))
NegateChecked(t, x) ==
  IF t.signed /\ x = MinOf(t) THEN Overflow ELSE Write(t, Wrap(t, -x))
EvalNegateChecked(a) ==
  When(Len(a) = 1 /\ HasKind(a, 1, "integer"), NegateChecked(a[1].type, a[1].val))
Complement(t, x) == Wrap(t, -x - 1)
EvalBitwiseNot(a) ==
  When(Len(a) = 1 /\ HasKind(a, 1, "integer"), Write(a[1].type, Complement(a[1].type, a[1].val)))

\* A conversion of the host language, which is undefined of a float that is
\* out of range.  The checked conversion does the same.
Convert(dest, src, n) ==
  IF dest.kind = "float" THEN Write(dest, n)
  ELSE IF src.kind = "float" /\ (n = NaN \/ ~Fits(dest, n)) THEN Undefined
  ELSE Write(dest, Wrap(dest, n))
EvalConvert(op, a) ==
  When(/\ Len(a) = 2 /\ IsType(a, 1)
       /\ IF op = "numericConvert" THEN IsNumeric(TypeArg(a, 1)) ELSE IsTypeOfKind(a, 1, "integer")
       /\ IsNumeric(a[2].type),
       Convert(TypeArg(a, 1), a[2].type, a[2].val))
-----------------------------------------------------------------------------
\* An integer as a ptrdiff_t, and as a size_t or an address.
Offset(n) == Wrap(IntT, n)
Address(n) == n % MaxSize

EvalPointer(op, a) ==
  CASE op = "addressOf" -> When(Len(a) = 1, Write(PointerT(a[1].type), Place(1, 0)))
    [] op = "pointerDereference" ->
         When(Len(a) = 1 /\ HasKind(a, 1, "pointer"), Write(a[1].type, a[1].val))
    [] op = "pointerOffset" ->
         When(Len(a) = 2 /\ HasKind(a, 1, "pointer") /\ HasKind(a, 2, "integer"),
              Write(a[1].type, Address(a[1].val + Offset(a[2].val) * SizeOf(a[1].type.pointee))))
EvalNullPointer(a) ==
  When(Len(a) = 1 /\ IsType(a, 1) /\ IsPointerLike(TypeArg(a, 1)), Write(TypeArg(a, 1), 0))
\* The bytes of the pointer are copied: a wider integer takes others as well.
PointerBytes(t, n) == IF t.bits > PtrBits THEN Undefined ELSE Write(t, Wrap(t, n))
EvalPointerToInt(a) ==
  When(Len(a) = 2 /\ IsTypeOfKind(a, 1, "integer") /\ IsPointerLike(a[2].type),
       PointerBytes(TypeArg(a, 1), a[2].val))
EvalIntToPointer(a) ==
  When(Len(a) = 2 /\ IsType(a, 1) /\ IsPointerLike(TypeArg(a, 1)) /\ HasKind(a, 2, "integer"),
       Write(TypeArg(a, 1), Address(Offset(a[2].val))))
EvalBitcast(a) ==
  When(/\ Len(a) = 2 /\ IsType(a, 1)
       /\ SizeOf(TypeArg(a, 1)) <= SizeOf(a[2].type)
       /\ AlignOf(TypeArg(a, 1)) <= AlignOf(a[2].type),
       Write(PointerT(TypeArg(a, 1)), Place(2, 0)))
-----------------------------------------------------------------------------
\* References to the parts of an aggregate, at the positions given.
Parts(ts, S) == [k \in 1..Len(S) |-> Arg(PointerT(ts[S[k]]), Place(1, S[k]))]
Span(m, n) == [k \in 1..(n - m + 1) |-> m + k - 1]

EvalArrayRef(a) ==
  When(Len(a) = 2 /\ HasKind(a, 1, "array") /\ HasKind(a, 2, "integer"),
       Write(PointerT(a[1].type.elem),
             Address(Place(1, 0) + Offset(a[2].val) * SizeOf(a[1].type.elem))))
EvalArrayElements(a) ==
  When(Len(a) = 1 /\ HasKind(a, 1, "array"),
       Writes([k \in 1..a[1].type.size |->
                 Arg(PointerT(a[1].type.elem), Place(1, 0) + (k - 1) * SizeOf(a[1].type.elem))]))
EvalTuple(op, a) ==
  CASE op = "tupleRef" ->
         When(/\ Len(a) = 2 /\ HasKind(a, 1, "tuple") /\ IsStaticCount(a, 2)
              /\ StaticCount(a, 2) < Len(a[1].type.elems),
              Writes(Parts(a[1].type.elems, <<StaticCount(a, 2) + 1>>)))
    [] op = "tupleElements" ->
         When(Len(a) = 1 /\ HasKind(a, 1, "tuple"),
              Writes(Parts(a[1].type.elems, Span(1, Len(a[1].type.elems)))))
\* The positions that the field i of a record stands for.
Positions(t, i) ==
  IF t.var # 0 /\ i >= t.var
  THEN IF i = t.var THEN Span(i, i + VarFieldSize(t) - 1) ELSE <<i + VarFieldSize(t) - 1>>
  ELSE <<i>>
EvalFieldRef(a) ==
  When(/\ Len(a) = 2 /\ HasKind(a, 1, "record") /\ IsStaticCount(a, 2)
       /\ StaticCount(a, 2) < Len(a[1].type.names),
       Writes(Parts(a[1].type.types, Positions(a[1].type, StaticCount(a, 2) + 1))))
EvalFieldRefByName(a) ==
  When(Len(a) = 2 /\ HasKind(a, 1, "record") /\ IsName(a, 2) /\ HasField(a[1].type, Obj(a, 2)),
       Writes(Parts(a[1].type.types, Positions(a[1].type, FieldIndex(a[1].type, Obj(a, 2))))))
EvalRecordFields(a) ==
  When(Len(a) = 1 /\ HasKind(a, 1, "record"),
       Writes(Parts(a[1].type.types, Span(1, Len(a[1].type.types)))))
\* Two assertions about the number of results, one of which is wrong of a
\* record with other fields.
EvalVariadicField(a, cells) ==
  When(Len(a) = 1 /\ HasKind(a, 1, "record") /\ a[1].type.var # 0,
       IF Len(cells) # Len(a[1].type.types) THEN [out |-> "assert"]
       ELSE Writes(Parts(a[1].type.types, Positions(a[1].type, a[1].type.var))))
-----------------------------------------------------------------------------
EvalMemberCount(op, a) ==
  CASE op = "TupleElementCount" ->
         When(Len(a) = 1 /\ IsTypeOfKind(a, 1, "tuple"), Write(SizeT, Len(TypeArg(a, 1).elems)))
    [] op = "UnionMemberCount" ->
         When(Len(a) = 1 /\ IsTypeOfKind(a, 1, "union"), Write(SizeT, Len(TypeArg(a, 1).members)))
    [] op = "RecordFieldCount" ->
         When(Len(a) = 1 /\ IsTypeOfKind(a, 1, "record"), Write(SizeT, Len(TypeArg(a, 1).names)))
    [] op = "VariantMemberCount" ->
         When(Len(a) = 1 /\ IsTypeOfKind(a, 1, "variant"), Write(SizeT, Len(TypeArg(a, 1).members)))
    [] op = "EnumMemberCount" ->
         When(Len(a) = 1 /\ IsTypeOfKind(a, 1, "enum"), Write(SizeT, TypeArg(a, 1).size))
\* The largest size_t stands for a type that is no member.
EvalMemberIndex(a) ==
  When(Len(a) = 2 /\ IsTypeOfKind(a, 1, "variant") /\ IsType(a, 2),
       Write(SizeT, LET found == {i \in 1..Len(TypeArg(a, 1).members) :
                                    TypeArg(a, 1).members[i] = TypeArg(a, 2)}
                    IN  IF found = {} THEN MaxSize - 1
                        ELSE (CHOOSE i \in found : \A j \in found : i <= j) - 1))
EvalWithField(a) ==
  When(Len(a) = 2 /\ IsName(a, 2),
       Test(IsTypeOfKind(a, 1, "record") /\ HasField(TypeArg(a, 1), Obj(a, 2))))
EvalFieldName(a) ==
  When(/\ Len(a) = 2 /\ IsTypeOfKind(a, 1, "record") /\ IsStaticCount(a, 2)
       /\ StaticCount(a, 2) < Len(TypeArg(a, 1).names), Untouched)
EvalIntegers(a) ==
  When(Len(a) = 1 /\ IsStaticCount(a, 1) /\ Obj(a, 1).val >= 0,
       Writes([i \in 1..Obj(a, 1).val |-> Arg(Obj(a, 1).type, i - 1)]))
EvalStaticFieldRef(a) ==
  When(/\ Len(a) = 2 /\ Obj(a, 1).objKind = "MODULE" /\ IsName(a, 2)
       /\ \E m \in ToSet(Obj(a, 1).publics) : m.name = Obj(a, 2), Untouched)
EvalEnum(op, a) ==
  CASE op = "enumToInt" -> When(Len(a) = 1 /\ HasKind(a, 1, "enum"), Write(IntT, a[1].val))
    [] op = "intToEnum" ->
         When(Len(a) = 2 /\ IsTypeOfKind(a, 1, "enum") /\ a[2].type = IntT,
              Write(TypeArg(a, 1), a[2].val))
\* The bytes of a literal are signed characters.
Char(n) == Wrap(IntegerT(ByteBits, TRUE), n)
EvalString(op, a) ==
  CASE op = "StringLiteralP" -> When(Len(a) = 1, Test(IsName(a, 1)))
    [] op = "stringLiteralByteIndex" ->
         When(/\ Len(a) = 2 /\ IsName(a, 1) /\ IsStaticCount(a, 2)
              /\ StaticCount(a, 2) < Len(Obj(a, 1).str),
              Write(IntT, Char(Obj(a, 1).str[StaticCount(a, 2) + 1])))
    [] op = "stringLiteralBytes" ->
         When(Len(a) = 1 /\ IsName(a, 1),
              Writes([i \in 1..Len(Obj(a, 1).str) |-> Arg(IntT, Char(Obj(a, 1).str[i]))]))
    [] op = "stringLiteralByteSize" ->
         When(Len(a) = 1 /\ IsName(a, 1), Write(SizeT, Len(Obj(a, 1).str)))
    [] op = "stringTableConstant" ->
         When(Len(a) = 1 /\ IsName(a, 1), Write(PointerT(SizeT), Place(1, 0)))
\* No flag was given on the command line.
EvalFlag(a) == When(Len(a) = 1 /\ IsName(a, 1), Test(FALSE))
\* A copy of n bytes from one address to another; no result.
Copies(n) == [out |-> "ok", writes |-> <<>>, copied |-> n]
\* A negative count becomes a very large one.
EvalMemory(op, a) ==
  When(/\ op \in {"memcpy", "memmove"} /\ Len(a) = 3
       /\ HasKind(a, 1, "pointer") /\ HasKind(a, 2, "pointer") /\ HasKind(a, 3, "integer"),
       Copies(Address(a[3].val)))
-----------------------------------------------------------------------------
\* A cell of the argument's type takes the value, another one its address.
Forward(a, i, cell) ==
  IF cell = a[i].type THEN Arg(cell, a[i].val) ELSE Arg(PointerT(a[i].type), Place(i, 0))
\* The arguments from the mth to the nth, but for skip, into the cells; the
\* number of cells is asserted before any of them is written.
Forwarded(a, I, cells) ==
  IF Len(cells) # Len(I) THEN [out |-> "assert"]
  ELSE Writes([k \in 1..Len(I) |-> Forward(a, I[k], cells[k])])

\* The positions after the first, but for the nth.
AllBut(a, n) == Span(2, n - 1) \o Span(IF n = 1 THEN 2 ELSE n + 1, Len(a))

EvalValueList(op, a, cells) ==
  LET next == Successor(StaticCount(a, 1))
      last == IF next >= Len(a) THEN Len(a) ELSE next
  IN CASE op = "countValues" -> Write(IntT, Len(a))
       [] op = "nthValue" ->
            When(Len(a) >= 1 /\ IsStaticCount(a, 1) /\ next < Len(a),
                 Forwarded(a, <<next + 1>>, cells))
       [] op = "withoutNthValue" ->
            IF Len(a) >= 1 /\ Len(cells) # Len(a) - 2 THEN [out |-> "assert"]
            ELSE When(Len(a) >= 1 /\ IsStaticCount(a, 1) /\ next < Len(a),
                      Forwarded(a, AllBut(a, next + 1), cells))
       [] op = "takeValues" ->
            When(Len(a) >= 1 /\ IsStaticCount(a, 1),
                 IF next = 0 THEN [out |-> "assert"] ELSE Forwarded(a, Span(2, last), cells))
       [] op = "dropValues" ->
            When(Len(a) >= 1 /\ IsStaticCount(a, 1), Forwarded(a, Span(last + 1, Len(a)), cells))

EvalLambdaTest(op, a) ==
  When(Len(a) = 1,
       CASE op = "LambdaSymbolP" -> Test(Obj(a, 1).objKind = "PROCEDURE" /\ Obj(a, 1).isLambda)
         [] op = "LambdaRecordP" ->
              Test(IsTypeOfKind(a, 1, "record") /\ TypeArg(a, 1).lambda # "none")
         [] op = "LambdaMonoP" ->
              IF IsTypeOfKind(a, 1, "record") /\ TypeArg(a, 1).lambda = "none" THEN Crash
              ELSE Test(IsTypeOfKind(a, 1, "record") /\ TypeArg(a, 1).lambda = "mono"))
\* The expected value is not looked at.
EvalUsuallyEquals(a) ==
  When(Len(a) = 2 /\ IsPrimitive(a[1].type), Write(a[1].type, a[1].val))

\* Not to be had at compile time.
OnlyAtRunTime == {"makeCodePointer", "makeExternalCodePointer", "callExternalCodePointer",
  "atomicFence", "atomicRMW", "atomicLoad", "atomicStore", "atomicCompareExchange",
  "activeException"} \union Constructors
-----------------------------------------------------------------------------
\* evalPrimOp; cells are the types of the cells allocated for the results.
EvalPrimOp(op, a, cells) ==
  CASE op = "TypeP" -> EvalTypeP(a)
    [] op \in {"OperatorP", "SymbolP"} -> EvalSymbolTest(op, a)
    [] op = "StaticMonoP" -> EvalMonoP(a)
    [] op = "RecordP" -> EvalRecordP(a)
    [] op = "VariantP" -> EvalVariantP(a)
    [] op = "EnumP" -> EvalEnumP(a)
    [] op \in {"TypeSize", "TypeAlignment"} -> EvalSizes(op, a)
    [] op = "StaticCallDefinedP" -> EvalCallDefined(a)
    [] op = "bitcopy" -> EvalBitcopy(a)
    [] op = "boolNot" -> EvalBoolNot(a)
    [] op \in FloatComparisons -> EvalFloatComparison(op, a)
    [] op \in {"integerEqualsP", "integerLesserP"} -> EvalIntegerComparison(op, a)
    [] op \in NumericBinary -> EvalNumeric(op, a)
    [] op = "numericNegate" -> EvalNegate(a)
    [] op \in {"integerQuotient", "integerRemainder"} -> EvalDivision(op, a)
    [] op \in PlainIntegerBinary \ {"integerQuotient", "integerRemainder"} -> EvalBits(op, a)
    [] op \in CheckedBinary -> EvalChecked(op, a)
    [] op = "integerNegateChecked" -> EvalNegateChecked(a)
    [] op = "integerBitwiseNot" -> EvalBitwiseNot(a)
    [] op \in Conversions -> EvalConvert(op, a)
    [] op \in {"addressOf", "pointerDereference", "pointerOffset"} -> EvalPointer(op, a)
    [] op = "nullPointer" -> EvalNullPointer(a)
    [] op = "pointerToInt" -> EvalPointerToInt(a)
    [] op = "intToPointer" -> EvalIntToPointer(a)
    [] op = "bitcast" -> EvalBitcast(a)
    [] op = "arrayRef" -> EvalArrayRef(a)
    [] op = "arrayElements" -> EvalArrayElements(a)
    [] op \in {"tupleRef", "tupleElements"} -> EvalTuple(op, a)
    [] op = "recordFieldRef" -> EvalFieldRef(a)
    [] op = "recordFieldRefByName" -> EvalFieldRefByName(a)
    [] op = "recordFields" -> EvalRecordFields(a)
    [] op = "recordVariadicField" -> EvalVariadicField(a, cells)
    [] op \in {"TupleElementCount", "UnionMemberCount", "RecordFieldCount", "VariantMemberCount",
               "EnumMemberCount"} -> EvalMemberCount(op, a)
    [] op = "VariantMemberIndex" -> EvalMemberIndex(a)
    [] op = "RecordWithFieldP" -> EvalWithField(a)
    [] op = "RecordFieldName" -> EvalFieldName(a)
    [] op = "integers" -> EvalIntegers(a)
    [] op = "staticFieldRef" -> EvalStaticFieldRef(a)
    [] op \in {"enumToInt", "intToEnum"} -> EvalEnum(op, a)
    [] op \in {"StringLiteralP", "stringLiteralByteIndex", "stringLiteralBytes",
               "stringLiteralByteSize", "stringTableConstant"} -> EvalString(op, a)
    [] op = "FlagP" -> EvalFlag(a)
    [] op \in {"memcpy", "memmove"} -> EvalMemory(op, a)
    [] op \in ValueLists \union {"countValues"} -> EvalValueList(op, a, cells)
    [] op \in LambdaTests -> EvalLambdaTest(op, a)
    [] op = "usuallyEquals" -> EvalUsuallyEquals(a)
    [] op \in OnlyAtRunTime -> Refused
    [] OTHER -> Untouched
=============================================================================
