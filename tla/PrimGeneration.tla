--------------------------- MODULE PrimGeneration ---------------------------
(***************************************************************************)
(* codegenPrimOp (compiler/codegen_op.cpp): the code generated for a       *)
(* primitive operation, modelled by what it computes when it runs, and the *)
(* library procedures that the checked integer operations call             *)
(* (lib-ceramic/core/numbers/overflow/overflow.crm).  An answer lists what *)
(* the code stores in the cells of the results, with the types that the    *)
(* generator asserts the cells to have.                                    *)
(***************************************************************************)
EXTENDS PrimEvaluation

\* A constant that the generator stores in the only cell of the results.
Constant(t, n) == Write(t, n)
Flag(b) == Constant(BoolT, Truth(b))
\* The pointers to parts of an aggregate at the positions given (GEP).
PointersTo(ts, S) == [k \in 1..Len(S) |-> Arg(PointerT(ts[S[k]]), Place(1, S[k]))]
\* The value that an atomic operation finds in memory.
Word == 0
-----------------------------------------------------------------------------
\* The instructions of LLVM that the code is made of.
AsSigned(t, n) == Wrap([t EXCEPT !.signed = TRUE], n)
\* Unsigned operands are compared as signed ones.
ICmpLessSigned(signed, t, x, y) == AsSigned(t, x) < AsSigned(t, y)
ICmpLess(signed, t, x, y) ==
  IF signed THEN AsSigned(t, x) < AsSigned(t, y) ELSE x % 2 ^ t.bits < y % 2 ^ t.bits
\* A predicate of fcmp is a set of outcomes.
FCmp(preds, x, y) ==
  (CASE NaN \in {x, y} -> "unordered"
     [] NaN \notin {x, y} -> IF x = y THEN "equal" ELSE IF x < y THEN "less" ELSE "greater")
    \in preds
FAdd(x, y) == IF NaN \in {x, y} THEN NaN ELSE x + y
FSub(x, y) == IF NaN \in {x, y} THEN NaN ELSE x - y
FMul(x, y) == IF NaN \in {x, y} THEN NaN ELSE x * y
FDiv(x, y) == IF NaN \in {x, y} \/ y = 0 THEN NaN ELSE Quot(x, y)
\* Division and remainder trap, or do anything, where there is no result.
Divide(t, x, y, result) ==
  IF y = 0 \/ (t.signed /\ y = -1 /\ x = MinOf(t)) THEN Undefined ELSE Write(t, result)
\* A shift by the width or more is poison.
Shift(t, y, result) == IF y \notin 0..(t.bits - 1) THEN Undefined ELSE Write(t, result)
ShiftLeft(t, x, y) == Shift(t, y, Wrap(t, x * 2 ^ y))
ShiftRight(t, x, y) == Shift(t, y, x \div 2 ^ y)
FloatToInt(t, n) == IF n = NaN \/ n < MinOf(t) \/ n > MaxOf(t) THEN Undefined ELSE Write(t, n)
\* A number of type t as an index or an address: extended or truncated.
SignExtended(t, n) == Wrap(IntegerT(PtrBits, TRUE), AsSigned(t, n))
Index(t, n) == IF ~t.signed /\ t.bits < PtrBits THEN n ELSE SignExtended(t, n)
ToPointer(n) == n % MaxSize
-----------------------------------------------------------------------------
GenTypeP(a) == When(Len(a) = 1, Flag(IsType(a, 1)))
GenSymbolTest(op, a) ==
  When(Len(a) = 1,
       LET callable == Obj(a, 1) IN
       Flag(CASE op = "OperatorP" -> callable.objKind = "PROCEDURE" /\ callable.isOperator
              [] op = "SymbolP" -> callable.objKind \in {"TYPE", "PROCEDURE"}))
GenMonoP(a) == When(Len(a) = 1, Flag(Obj(a, 1).objKind = "PROCEDURE" /\ Len(Obj(a, 1).mono) > 0))
GenRecordP(a) == When(Len(a) = 1, Flag(IsType(a, 1) /\ TypeArg(a, 1).kind = "record"))
GenVariantP(a) == When(Len(a) = 1, Flag(IsType(a, 1) /\ TypeArg(a, 1).kind = "variant"))
GenEnumP(a) == When(Len(a) = 1, Flag(IsType(a, 1) /\ TypeArg(a, 1).kind = "enum"))
GenSizes(op, a) ==
  LET t == TypeArg(a, 1) IN
  When(Len(a) = 1 /\ IsType(a, 1), Constant(SizeT, IF op = "TypeSize" THEN SizeOf(t) ELSE AlignOf(t)))
GenCallDefined(a) ==
  When(/\ Len(a) # 0 /\ Obj(a, 1).objKind \in {"TYPE", "PROCEDURE"}
       /\ \A i \in 2..Len(a) : IsType(a, i),
       Flag(Finds(a, 2)))
GenBitcopy(a) ==
  When(Len(a) = 2 /\ IsPrimitive(a[1].type) /\ a[2].type = a[1].type, Writes(<<>>))
GenBoolNot(a) == When(Len(a) = 1 /\ a[1].type = BoolT, Flag(a[1].val = 0))
-----------------------------------------------------------------------------
SameTypes(a) == Len(a) = 2 /\ a[2].type = a[1].type

GenIntegerComparison(op, a) ==
  When(SameTypes(a) /\ (HasKind(a, 1, "integer") \/ IsPointerLike(a[1].type)),
       Flag(IF op = "integerEqualsP" THEN a[1].val = a[2].val
            ELSE IF HasKind(a, 1, "integer")
            THEN ICmpLess(a[1].type.signed, a[1].type, a[1].val, a[2].val)
            ELSE ICmpLess(FALSE, IntegerT(PtrBits, FALSE), a[1].val, a[2].val)))

\* The predicate of fcmp that each comparison is generated as.
Predicate(op) ==
  CASE op = "floatOrderedEqualsP" -> {"equal"}
    [] op = "floatOrderedLesserP" -> {"less"}
    [] op = "floatOrderedLesserEqualsP" -> {"less", "equal"}
    [] op = "floatOrderedGreaterP" -> {"greater"}
    [] op = "floatOrderedGreaterEqualsP" -> {"greater", "equal"}
    [] op = "floatOrderedNotEqualsP" -> {"less", "greater"}
    [] op = "floatOrderedP" -> {"less", "equal", "greater"}
    [] op = "floatUnorderedEqualsP" -> {"unordered", "equal"}
    [] op = "floatUnorderedLesserP" -> {"unordered", "less"}
    [] op = "floatUnorderedLesserEqualsP" -> {"unordered", "less", "equal"}
    [] op = "floatUnorderedGreaterP" -> {"unordered", "greater"}
    [] op = "floatUnorderedGreaterEqualsP" -> {"unordered", "greater", "equal"}
    [] op = "floatUnorderedNotEqualsP" -> {"unordered", "less", "greater"}
    [] op = "floatUnorderedP" -> {"unordered"}
GenFloatComparison(op, a) ==
  When(SameTypes(a) /\ HasKind(a, 1, "float"), Flag(FCmp(Predicate(op), a[1].val, a[2].val)))

GenNumeric(op, a) ==
  LET x == a[1].val   y == a[2].val   t == a[1].type   float == t.kind = "float"
  IN  When(SameTypes(a) /\ IsNumeric(t) /\ (op = "floatDivide" => float),
           Write(t, CASE op = "numericAdd" -> IF float THEN FAdd(x, y) ELSE Wrap(t, x + y)
                      [] op = "numericSubtract" -> IF float THEN FSub(x, y) ELSE Wrap(t, x - y)
                      [] op = "numericMultiply" -> IF float THEN FMul(x, y) ELSE Wrap(t, x * y)
                      [] op = "floatDivide" -> FDiv(x, y)))
GenNegate(a) ==
  When(Len(a) = 1 /\ IsNumeric(a[1].type),
       Write(a[1].type, IF HasKind(a, 1, "float") THEN FSub(0, a[1].val)
                        ELSE Wrap(a[1].type, 0 - a[1].val)))

GenInteger(op, a) ==
  LET t == a[1].type
      x == a[1].val   y == a[2].val
      bits(n) == n % 2 ^ t.bits
  IN  When(SameTypes(a) /\ t.kind = "integer",
           CASE op = "integerQuotient" -> Divide(t, x, y, Quot(x, y))
             [] op = "integerRemainder" -> Divide(t, x, y, Rem(x, y))
             [] op = "integerShiftLeft" -> ShiftLeft(t, x, y)
             [] op = "integerShiftRight" -> ShiftRight(t, x, y)
             [] op = "integerBitwiseAnd" -> Write(t, Wrap(t, BitAnd(bits(x), bits(y))))
             [] op = "integerBitwiseOr" -> Write(t, Wrap(t, BitOr(bits(x), bits(y))))
             [] op = "integerBitwiseXor" -> Write(t, Wrap(t, BitXor(bits(x), bits(y)))))
GenBitwiseNot(a) ==
  When(Len(a) = 1 /\ HasKind(a, 1, "integer"), Write(a[1].type, Wrap(a[1].type, -1 - a[1].val)))

GenConvert(a) ==
  LET dest == TypeArg(a, 1)   src == a[2].type   v == a[2].val
  IN  When(Len(a) = 2 /\ IsType(a, 1) /\ IsNumeric(dest) /\ IsNumeric(src),
           IF src = dest \/ dest.kind = "float" THEN Write(dest, v)
           ELSE IF src.kind = "float" THEN FloatToInt(dest, v)
           \* A truncation keeps the low bits, an extension the number.
           ELSE Write(dest, Wrap(dest, v)))
-----------------------------------------------------------------------------
\* overflow.crm.  The result and the flag of an operation that reports
\* overflow; checked() ends the program when the flag is set.
WithOverflow(answer, overflows) == IF overflows THEN Overflow ELSE answer

\* The intrinsics of LLVM, or a computation in the next wider type; there is
\* neither for the widest type, of which no overflow is reported.
Exactly(t, n) == WithOverflow(Write(t, Wrap(t, n)), t.bits < MaxBits /\ ~Fits(t, n))
IntegerAdd(t, x, y) == Exactly(t, x + y)
IntegerSubtract(t, x, y) == Exactly(t, x - y)
\* Where a pointer is narrower than the second widest type, the last overloads
\* for that type multiply and report nothing: the intrinsics are broken there.
MultipliesUnchecked(t) == 2 * t.bits = MaxBits /\ PtrBits < t.bits
IntegerMultiply(t, x, y) ==
  IF MultipliesUnchecked(t) THEN Write(t, Wrap(t, x * y)) ELSE Exactly(t, x * y)
\* Only the signed quotient tests before it divides.
IntegerQuotient(t, x, y) ==
  IF t.signed /\ (y = 0 \/ (x = MinOf(t) /\ y = -1)) THEN Overflow ELSE Divide(t, x, y, Quot(x, y))
IntegerRemainder(t, x, y) == Divide(t, x, y, Rem(x, y))
\* There is no overload for the unsigned types.
IntegerNegate(t, x) ==
  When(t.signed, WithOverflow(Write(t, Wrap(t, -x)), x = MinOf(t)))
ShiftOverflows(t, x, y) ==
  LET test == IF x < 0 THEN -x - 1 ELSE x
      room == IF t.signed THEN t.bits - 1 ELSE t.bits
  IN  y > room \/ test \div 2 ^ (room - y) # 0
IntegerShiftLeft(t, x, y) ==
  WithOverflow(ShiftLeft(t, x, y), y < 0 \/ (y > 0 /\ ShiftOverflows(t, x, y)))
\* One overload for each pair of signednesses and sizes.
ConvertOverflows(A, B, b) ==
  CASE B.kind = "float" -> b < MinOf(A) \/ b > MaxOf(A)
    [] B.kind = "integer" /\ A.signed = B.signed -> A.bits < B.bits /\ (b < MinOf(A) \/ b > MaxOf(A))
    [] B.kind = "integer" /\ A.signed /\ ~B.signed -> A.bits <= B.bits /\ b > MaxOf(A)
    [] B.kind = "integer" /\ ~A.signed /\ B.signed -> b < 0 \/ (A.bits < B.bits /\ b > MaxOf(A))
\* The conversion comes first: of a float that is out of range it is undefined.
IntegerConvert(A, B, b) ==
  When(IsNumeric(B),
       IF B.kind = "float" THEN FloatToInt(A, b)
       ELSE WithOverflow(Write(A, Wrap(A, b)), ConvertOverflows(A, B, b)))

Reported(op, t, x, y) ==
  CASE op = "integerAddChecked" -> IntegerAdd(t, x, y)
    [] op = "integerSubtractChecked" -> IntegerSubtract(t, x, y)
    [] op = "integerMultiplyChecked" -> IntegerMultiply(t, x, y)
    [] op = "integerQuotientChecked" -> IntegerQuotient(t, x, y)
    [] op = "integerRemainderChecked" -> IntegerRemainder(t, x, y)
    [] op = "integerShiftLeftChecked" -> IntegerShiftLeft(t, x, y)
GenChecked(op, a) ==
  When(SameTypes(a) /\ HasKind(a, 1, "integer"), Reported(op, a[1].type, a[1].val, a[2].val))
GenNegateChecked(a) ==
  When(Len(a) = 1 /\ HasKind(a, 1, "integer"), IntegerNegate(a[1].type, a[1].val))
GenConvertChecked(a) ==
  When(Len(a) = 2 /\ IsTypeOfKind(a, 1, "integer"),
       IntegerConvert(TypeArg(a, 1), a[2].type, a[2].val))
-----------------------------------------------------------------------------
GenPointer(op, a) ==
  CASE op = "addressOf" -> When(Len(a) = 1, Write(PointerT(a[1].type), Place(1, 0)))
    [] op = "pointerDereference" ->
         When(Len(a) = 1 /\ HasKind(a, 1, "pointer"), Write(a[1].type, a[1].val))
    [] op = "pointerOffset" ->
         When(Len(a) = 2 /\ HasKind(a, 1, "pointer") /\ HasKind(a, 2, "integer"),
              Write(a[1].type,
                    ToPointer(a[1].val + SizeOf(a[1].type.pointee) * Index(a[2].type, a[2].val))))
GenNullPointer(a) ==
  When(Len(a) = 1 /\ IsType(a, 1) /\ IsPointerLike(TypeArg(a, 1)), Constant(TypeArg(a, 1), 0))
GenPointerToInt(a) ==
  When(Len(a) = 2 /\ IsTypeOfKind(a, 1, "integer") /\ IsPointerLike(a[2].type),
       Write(TypeArg(a, 1), Wrap(TypeArg(a, 1), a[2].val)))
GenIntToPointer(a) ==
  When(Len(a) = 2 /\ IsType(a, 1) /\ IsPointerLike(TypeArg(a, 1)) /\ HasKind(a, 2, "integer"),
       Write(TypeArg(a, 1), ToPointer(a[2].val)))
GenBitcast(a) ==
  When(/\ Len(a) = 2 /\ IsType(a, 1)
       /\ SizeOf(a[2].type) >= SizeOf(TypeArg(a, 1)) /\ AlignOf(a[2].type) >= AlignOf(TypeArg(a, 1)),
       Write(PointerT(TypeArg(a, 1)), Place(2, 0)))

\* The type of a pointer to the code of an entry that has been analysed.
CodeOf(a, first) ==
  IF ~Entry(a).analyzed THEN [out |-> "assert"]
  ELSE Write(CodePointerT(InputTypes(a, first), Entry(a).refs, Entry(a).rets), Place(1, 0))
GenMakeCodePointer(a) == When(HasEntry(a, 2) /\ Finds(a, 2) /\ ~Entry(a).byName, CodeOf(a, 2))
\* The wrapper is generated before the number of results is looked at.
GenMakeExternal(a) ==
  When(/\ HasEntry(a, 4) /\ Len(a) >= 3
       /\ Obj(a, 2) = PrimOpObj("callingConv") /\ Obj(a, 3) = ValueObj(BoolT, 0)
       /\ Finds(a, 4) /\ ~Entry(a).byName,
       IF ~Entry(a).analyzed THEN [out |-> "assert"]
       ELSE When(Len(Entry(a).rets) < 2 /\ TRUE \notin ToSet(Entry(a).refs),
                 Write(CCodePointerT(InputTypes(a, 4), FALSE, Entry(a).rets), Place(1, 0))))
\* The function called through the pointer is not ours: any result.  What is
\* given to a variadic one after its parameters may be of any type.
GenCallExternal(a) ==
  LET given == Len(a) - 1   params == a[1].type.args IN
  When(/\ Len(a) >= 1 /\ HasKind(a, 1, "cCodePointer")
       /\ IF a[1].type.hasVarArgs THEN given >= Len(params) ELSE given = Len(params)
       /\ \A i \in 1..Len(params) : a[i + 1].type = params[i],
       Writes([i \in 1..Len(a[1].type.rets) |-> Arg(a[1].type.rets[i], 0)]))
-----------------------------------------------------------------------------
GenArray(op, a) ==
  CASE op = "arrayRef" ->
         When(Len(a) = 2 /\ HasKind(a, 1, "array") /\ HasKind(a, 2, "integer"),
              Write(PointerT(a[1].type.elem),
                    ToPointer(Place(1, 0) + SizeOf(a[1].type.elem) * Index(a[2].type, a[2].val))))
    [] op = "arrayElements" ->
         When(Len(a) = 1 /\ HasKind(a, 1, "array"),
              Writes([k \in 1..a[1].type.size |->
                        Arg(PointerT(a[1].type.elem), Place(1, 0) + SizeOf(a[1].type.elem) * (k - 1))]))
GenTuple(op, a) ==
  CASE op = "tupleRef" ->
         When(/\ Len(a) = 2 /\ HasKind(a, 1, "tuple")
              /\ IsStaticCount(a, 2) /\ StaticCount(a, 2) < Len(a[1].type.elems),
              Writes(PointersTo(a[1].type.elems, <<StaticCount(a, 2) + 1>>)))
    [] op = "tupleElements" ->
         When(Len(a) = 1 /\ HasKind(a, 1, "tuple"),
              Writes(PointersTo(a[1].type.elems, Span(1, Len(a[1].type.elems)))))
\* A reference to field i of a record; after the variadic one the positions shift.
GenField(t, i) ==
  Writes(PointersTo(t.types, CASE t.var = 0 \/ i < t.var -> <<i>>
                               [] t.var # 0 /\ i = t.var -> Span(i, i + VarFieldSize(t) - 1)
                               [] t.var # 0 /\ i > t.var -> <<i - 1 + VarFieldSize(t)>>))
GenFieldRef(a) ==
  When(/\ Len(a) = 2 /\ HasKind(a, 1, "record")
       /\ IsStaticCount(a, 2) /\ StaticCount(a, 2) < Len(a[1].type.names),
       GenField(a[1].type, StaticCount(a, 2) + 1))
GenFieldRefByName(a) ==
  When(Len(a) = 2 /\ HasKind(a, 1, "record") /\ IsName(a, 2) /\ HasField(a[1].type, Obj(a, 2)),
       GenField(a[1].type, FieldIndex(a[1].type, Obj(a, 2))))
GenRecordFields(a) ==
  When(Len(a) = 1 /\ HasKind(a, 1, "record"),
       Writes(PointersTo(a[1].type.types, Span(1, Len(a[1].type.types)))))
GenVariadicField(a) ==
  When(Len(a) = 1 /\ HasKind(a, 1, "record") /\ a[1].type.var # 0, GenField(a[1].type, a[1].type.var))
-----------------------------------------------------------------------------
GenMemberCount(op, a) ==
  LET counted == [TupleElementCount |-> "tuple", UnionMemberCount |-> "union",
                  RecordFieldCount |-> "record", VariantMemberCount |-> "variant",
                  EnumMemberCount |-> "enum"][op]
      t == TypeArg(a, 1)
  IN  When(Len(a) = 1 /\ IsTypeOfKind(a, 1, counted),
           Constant(SizeT, CASE counted = "tuple" -> Len(t.elems)
                             [] counted = "record" -> Len(t.names)
                             [] counted = "enum" -> t.size
                             [] OTHER -> Len(t.members)))
\* The search stops at the first of several equal members.
GenMemberIndex(a) ==
  When(Len(a) = 2 /\ IsTypeOfKind(a, 1, "variant") /\ IsType(a, 2),
       LET at == SelectInSeq(TypeArg(a, 1).members, LAMBDA t : t = TypeArg(a, 2))
       IN  Constant(SizeT, (at - 1) % MaxSize))
GenWithField(a) ==
  When(Len(a) = 2 /\ IsName(a, 2),
       Flag(IsTypeOfKind(a, 1, "record") /\ \E i \in DOMAIN TypeArg(a, 1).names :
              TypeArg(a, 1).names[i] = Obj(a, 2)))
GenFieldName(a) ==
  When(/\ Len(a) = 2 /\ IsTypeOfKind(a, 1, "record")
       /\ IsStaticCount(a, 2) /\ StaticCount(a, 2) < Len(TypeArg(a, 1).names), Untouched)
GenIntegers(a) ==
  When(Len(a) = 1 /\ IsStaticCount(a, 1) /\ Obj(a, 1).val >= 0,
       Writes([i \in 1..Obj(a, 1).val |-> Arg(Obj(a, 1).type, i - 1)]))
GenStaticFieldRef(a) ==
  When(/\ Len(a) = 2 /\ Obj(a, 1).objKind = "MODULE" /\ IsName(a, 2)
       /\ Obj(a, 2) \in {m.name : m \in ToSet(Obj(a, 1).publics)}, Untouched)
GenEnum(op, a) ==
  CASE op = "enumToInt" -> When(Len(a) = 1 /\ HasKind(a, 1, "enum"), Write(IntT, a[1].val))
    [] op = "intToEnum" ->
         When(Len(a) = 2 /\ IsTypeOfKind(a, 1, "enum") /\ a[2].type = IntT,
              Write(TypeArg(a, 1), a[2].val))
\* A byte of a literal is sign-extended.
SignedByte(n) == SignExtended(IntegerT(ByteBits, TRUE), n)
GenString(op, a) ==
  CASE op = "StringLiteralP" -> When(Len(a) = 1, Flag(IsName(a, 1)))
    [] op = "stringLiteralByteIndex" ->
         When(/\ Len(a) = 2 /\ IsName(a, 1)
              /\ IsStaticCount(a, 2) /\ StaticCount(a, 2) < Len(Obj(a, 1).str),
              Constant(IntT, SignedByte(Obj(a, 1).str[StaticCount(a, 2) + 1])))
    [] op = "stringLiteralBytes" ->
         When(Len(a) = 1 /\ IsName(a, 1),
              Writes([i \in 1..Len(Obj(a, 1).str) |-> Arg(IntT, SignedByte(Obj(a, 1).str[i]))]))
    [] op = "stringLiteralByteSize" ->
         When(Len(a) = 1 /\ IsName(a, 1), Constant(SizeT, Len(Obj(a, 1).str)))
    [] op = "stringTableConstant" ->
         When(Len(a) = 1 /\ IsName(a, 1), Constant(PointerT(SizeT), Place(1, 0)))
GenFlag(a) == When(Len(a) = 1 /\ IsName(a, 1), Flag(FALSE))
-----------------------------------------------------------------------------
IsOrder(a, i) == Obj(a, i) = PrimOpObj("order")
IsRmwOp(a, i) == Obj(a, i) = PrimOpObj("rmw")
\* Whether the pointer at i points to a value of the type of every later argument.
PointsToRest(a, i) ==
  HasKind(a, i, "pointer") /\ \A j \in (i + 1)..Len(a) : a[j].type = a[i].type.pointee
GenAtomic(op, a) ==
  CASE op = "atomicFence" -> When(Len(a) = 1 /\ IsOrder(a, 1), Writes(<<>>))
    [] op = "atomicRMW" ->
         When(Len(a) = 4 /\ IsOrder(a, 1) /\ IsRmwOp(a, 2) /\ PointsToRest(a, 3),
              Write(a[4].type, Word))
    [] op = "atomicLoad" ->
         When(Len(a) = 2 /\ IsOrder(a, 1) /\ HasKind(a, 2, "pointer"), Write(a[2].type.pointee, Word))
    [] op = "atomicStore" -> When(Len(a) = 3 /\ IsOrder(a, 1) /\ PointsToRest(a, 2), Writes(<<>>))
    [] op = "atomicCompareExchange" ->
         When(Len(a) = 4 /\ IsOrder(a, 1) /\ PointsToRest(a, 2), Write(a[3].type, Word))
\* Generated for the body of a catch: elsewhere the exception is asserted.
GenActiveException(a) == When(Len(a) = 0, Write(PointerT(ByteT), Word))
\* A count narrower than a pointer is zero-extended, a signed one too.
GenMemory(a) ==
  When(/\ Len(a) = 3 /\ HasKind(a, 1, "pointer") /\ HasKind(a, 2, "pointer")
       /\ HasKind(a, 3, "integer") /\ a[3].type.bits <= PtrBits,
       Copies(Pattern(a[3].type, a[3].val)))
-----------------------------------------------------------------------------
\* codegenValueForward: the value if the cell is of its type, or its address.
GenForward(a, i, cell) ==
  Arg(IF a[i].type = cell THEN cell ELSE PointerT(a[i].type), IF a[i].type = cell THEN a[i].val ELSE Place(i, 0))
\* As many cells as values forwarded are asserted.
GenForwarded(a, I, cells) ==
  IF Len(I) = Len(cells) THEN Writes([k \in 1..Len(I) |-> GenForward(a, I[k], cells[k])])
  ELSE [out |-> "assert"]

GenValueList(op, a, cells) ==
  LET i == StaticCount(a, 1)
      nth == Successor(i)
      last == IF nth >= Len(a) THEN Len(a) ELSE nth
      kept == IF nth >= Len(a) THEN Len(a) - 1 ELSE i
  IN CASE op = "countValues" -> Constant(IntT, Len(a))
       [] op = "nthValue" ->
            When(Len(a) >= 1 /\ IsStaticCount(a, 1) /\ nth < Len(a),
                 GenForwarded(a, <<nth + 1>>, cells))
       [] op = "withoutNthValue" ->
            IF Len(a) # 0 /\ Len(cells) # Len(a) - 2 THEN [out |-> "assert"]
            ELSE When(Len(a) >= 1 /\ IsStaticCount(a, 1) /\ nth < Len(a),
                      GenForwarded(a, AllBut(a, nth + 1), cells))
       [] op = "takeValues" ->
            When(Len(a) >= 1 /\ IsStaticCount(a, 1),
                 IF Len(cells) # kept THEN [out |-> "assert"]
                 ELSE GenForwarded(a, Span(2, last), cells))
       [] op = "dropValues" ->
            When(Len(a) >= 1 /\ IsStaticCount(a, 1),
                 GenForwarded(a, Span(last + 1, Len(a)), cells))

GenLambdaTest(op, a) ==
  When(Len(a) = 1,
       CASE op = "LambdaSymbolP" -> Flag(Obj(a, 1).objKind = "PROCEDURE" /\ Obj(a, 1).isLambda)
         [] op = "LambdaRecordP" -> Flag(IsTypeOfKind(a, 1, "record") /\ TypeArg(a, 1).lambda # "none")
         [] op = "LambdaMonoP" ->
              IF ~IsTypeOfKind(a, 1, "record") THEN Flag(FALSE)
              ELSE IF TypeArg(a, 1).lambda = "none" THEN Crash ELSE Flag(TypeArg(a, 1).lambda = "mono"))
GenUsuallyEquals(a) ==
  When(/\ Len(a) = 2 /\ IsPrimitive(a[1].type)
       /\ Obj(a, 2).objKind = "VALUE_HOLDER" /\ Obj(a, 2).type = a[1].type,
       Write(a[1].type, a[1].val))
-----------------------------------------------------------------------------
\* codegenPrimOp; cells are the types of the cells allocated for the results.
CodegenPrimOp(op, a, cells) ==
  CASE op = "TypeP" -> GenTypeP(a)
    [] op \in {"OperatorP", "SymbolP"} -> GenSymbolTest(op, a)
    [] op = "StaticMonoP" -> GenMonoP(a)
    [] op = "RecordP" -> GenRecordP(a)
    [] op = "VariantP" -> GenVariantP(a)
    [] op = "EnumP" -> GenEnumP(a)
    [] op \in {"TypeSize", "TypeAlignment"} -> GenSizes(op, a)
    [] op = "StaticCallDefinedP" -> GenCallDefined(a)
    [] op = "bitcopy" -> GenBitcopy(a)
    [] op = "boolNot" -> GenBoolNot(a)
    [] op \in {"integerEqualsP", "integerLesserP"} -> GenIntegerComparison(op, a)
    [] op \in FloatComparisons -> GenFloatComparison(op, a)
    [] op \in NumericBinary -> GenNumeric(op, a)
    [] op = "numericNegate" -> GenNegate(a)
    [] op \in PlainIntegerBinary -> GenInteger(op, a)
    [] op = "integerBitwiseNot" -> GenBitwiseNot(a)
    [] op = "numericConvert" -> GenConvert(a)
    [] op \in CheckedBinary -> GenChecked(op, a)
    [] op = "integerNegateChecked" -> GenNegateChecked(a)
    [] op = "integerConvertChecked" -> GenConvertChecked(a)
    [] op \in {"addressOf", "pointerDereference", "pointerOffset"} -> GenPointer(op, a)
    [] op = "nullPointer" -> GenNullPointer(a)
    [] op = "pointerToInt" -> GenPointerToInt(a)
    [] op = "intToPointer" -> GenIntToPointer(a)
    [] op = "bitcast" -> GenBitcast(a)
    [] op = "makeCodePointer" -> GenMakeCodePointer(a)
    [] op = "makeExternalCodePointer" -> GenMakeExternal(a)
    [] op = "callExternalCodePointer" -> GenCallExternal(a)
    [] op \in {"arrayRef", "arrayElements"} -> GenArray(op, a)
    [] op \in {"tupleRef", "tupleElements"} -> GenTuple(op, a)
    [] op = "recordFieldRef" -> GenFieldRef(a)
    [] op = "recordFieldRefByName" -> GenFieldRefByName(a)
    [] op = "recordFields" -> GenRecordFields(a)
    [] op = "recordVariadicField" -> GenVariadicField(a)
    [] op \in {"TupleElementCount", "UnionMemberCount", "RecordFieldCount", "VariantMemberCount",
               "EnumMemberCount"} -> GenMemberCount(op, a)
    [] op = "VariantMemberIndex" -> GenMemberIndex(a)
    [] op = "RecordWithFieldP" -> GenWithField(a)
    [] op = "RecordFieldName" -> GenFieldName(a)
    [] op = "integers" -> GenIntegers(a)
    [] op = "staticFieldRef" -> GenStaticFieldRef(a)
    [] op \in {"enumToInt", "intToEnum"} -> GenEnum(op, a)
    [] op \in {"StringLiteralP", "stringLiteralByteIndex", "stringLiteralBytes",
               "stringLiteralByteSize", "stringTableConstant"} -> GenString(op, a)
    [] op = "FlagP" -> GenFlag(a)
    [] op \in AtomicOps -> GenAtomic(op, a)
    [] op = "activeException" -> GenActiveException(a)
    [] op \in {"memcpy", "memmove"} -> GenMemory(a)
    [] op \in ValueLists \union {"countValues"} -> GenValueList(op, a, cells)
    [] op \in LambdaTests -> GenLambdaTest(op, a)
    [] op = "usuallyEquals" -> GenUsuallyEquals(a)
    [] op \in Constructors -> Refused
    [] OTHER -> Untouched
=============================================================================
