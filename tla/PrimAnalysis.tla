---------------------------- MODULE PrimAnalysis ----------------------------
(***************************************************************************)
(* analyzePrimOp (compiler/analyzer_op.cpp): the types of what a primitive *)
(* operation returns, from the types of its arguments.  The callers        *)
(* allocate the cells of the results from the answer, before the other     *)
(* passes run.  The primitives are grouped as the cases of the code are;   *)
(* the argument checks are the conjuncts of a When, in the code's order.   *)
(***************************************************************************)
EXTENDS PrimTypes, SequencesExt

\* staticToSizeTOrIntValue follows the static object without testing that
\* there is one.
WithIndex(a, i, answer) ==
  IF Obj(a, i) = Null THEN Crash ELSE When(IsStaticCount(a, i), answer)

Static(obj) == Value(StaticT(obj))
References(ts) == [i \in 1..Len(ts) |-> Reference(ts[i])]
Rep(n, pv) == [i \in 1..n |-> pv]
-----------------------------------------------------------------------------
Predicates == {"TypeP", "OperatorP", "SymbolP", "StaticCallDefinedP", "StaticMonoP",
  "boolNot", "RecordP", "RecordWithFieldP", "VariantP", "EnumP", "StringLiteralP", "FlagP"}
Counts == {"TypeSize", "TypeAlignment", "TupleElementCount", "UnionMemberCount",
  "RecordFieldCount", "VariantMemberIndex", "VariantMemberCount", "EnumMemberCount",
  "stringLiteralByteSize"}
IntCounts == {"enumToInt", "stringLiteralByteIndex", "countValues"}

\* Nothing is asked of the arguments of these, not even how many there are.
AnalyzeUnchecked(op) ==
  Gives(CASE op \in Predicates -> <<Value(BoolT)>>
          [] op \in Counts -> <<Value(SizeT)>>
          [] op \in IntCounts -> <<Value(IntT)>>
          [] op = "stringTableConstant" -> <<Value(PointerT(SizeT))>>
          [] op = "bitcopy" -> <<>>)
Unchecked == Predicates \union Counts \union IntCounts \union {"stringTableConstant", "bitcopy"}

FloatComparisons == {"floatOrderedEqualsP", "floatOrderedLesserP", "floatOrderedLesserEqualsP",
  "floatOrderedGreaterP", "floatOrderedGreaterEqualsP", "floatOrderedNotEqualsP", "floatOrderedP",
  "floatUnorderedEqualsP", "floatUnorderedLesserP", "floatUnorderedLesserEqualsP",
  "floatUnorderedGreaterP", "floatUnorderedGreaterEqualsP", "floatUnorderedNotEqualsP",
  "floatUnorderedP"}
Comparisons == FloatComparisons \union {"integerEqualsP", "integerLesserP"}
NumericBinary == {"numericAdd", "numericSubtract", "numericMultiply", "floatDivide"}
CheckedBinary == {"integerAddChecked", "integerSubtractChecked", "integerMultiplyChecked",
  "integerQuotientChecked", "integerRemainderChecked", "integerShiftLeftChecked"}
PlainIntegerBinary == {"integerQuotient", "integerRemainder", "integerShiftLeft",
  "integerShiftRight", "integerBitwiseAnd", "integerBitwiseOr", "integerBitwiseXor"}
IntegerBinary == CheckedBinary \union PlainIntegerBinary
IntegerUnary == {"integerBitwiseNot", "integerNegateChecked"}

AnalyzeComparison(a) == When(Len(a) = 2, Gives(<<Value(BoolT)>>))
\* The type of the first operand is that of the result; the second is not
\* looked at.
AnalyzeNumeric(op, a) ==
  When(/\ Len(a) = IF op = "numericNegate" THEN 1 ELSE 2
       /\ IsNumeric(a[1].type),
       Gives(<<Value(a[1].type)>>))
AnalyzeInteger(op, a) ==
  When(Len(a) = (IF op \in IntegerUnary THEN 1 ELSE 2) /\ HasKind(a, 1, "integer"),
       Gives(<<Value(a[1].type)>>))
AnalyzeConvert(op, a) ==
  When(/\ Len(a) = 2
       /\ IsType(a, 1)
       /\ IF op = "numericConvert" THEN IsNumeric(TypeArg(a, 1)) ELSE IsTypeOfKind(a, 1, "integer"),
       Gives(<<Value(TypeArg(a, 1))>>))
-----------------------------------------------------------------------------
Pointers == {"addressOf", "pointerDereference", "pointerOffset", "pointerToInt", "intToPointer",
             "nullPointer", "bitcast"}

AnalyzePointer(op, a) ==
  CASE op = "addressOf" -> When(Len(a) = 1, Gives(<<Value(PointerT(a[1].type))>>))
    [] op = "pointerDereference" ->
         When(Len(a) = 1 /\ HasKind(a, 1, "pointer"), Gives(<<Reference(a[1].type.pointee)>>))
    [] op = "pointerOffset" ->
         When(Len(a) = 2 /\ HasKind(a, 1, "pointer"), Gives(<<Value(a[1].type)>>))
    [] op = "pointerToInt" ->
         When(Len(a) = 2 /\ IsTypeOfKind(a, 1, "integer"), Gives(<<Value(TypeArg(a, 1))>>))
    [] op \in {"intToPointer", "nullPointer"} ->
         When(/\ Len(a) = (IF op = "nullPointer" THEN 1 ELSE 2)
              /\ IsType(a, 1) /\ IsPointerLike(TypeArg(a, 1)),
              Gives(<<Value(TypeArg(a, 1))>>))
    [] op = "bitcast" -> When(Len(a) = 2 /\ IsType(a, 1), Gives(<<Reference(TypeArg(a, 1))>>))

\* The entry that the overload lookup finds for a callable and the types that
\* follow it (invokeEntryForCallableArguments).
HasEntry(a, first) ==
  /\ Len(a) >= first - 1
  /\ \/ Obj(a, 1).objKind \in {"TYPE", "PROCEDURE"}
     \/ Obj(a, 1).objKind = "PRIM_OP" /\ Obj(a, 1).use = "constructor"
  /\ \A i \in first..Len(a) : IsType(a, i)
InputTypes(a, first) == [i \in 1..(Len(a) + 1 - first) |-> TypeArg(a, i + first - 1)]
\* analyzeCallable refuses argument types that no overload matches.
Finds(a, first) ==
  /\ Obj(a, 1).objKind = "PROCEDURE"
  /\ Obj(a, 1).entry.args = InputTypes(a, first)
Entry(a) == Obj(a, 1).entry

Callables == {"StaticCallOutputTypes", "makeCodePointer", "GetOverload", "StaticMonoInputTypes"}
StaticTypes(ts) == Gives([i \in 1..Len(ts) |-> Static(TypeObj(ts[i]))])
AnalyzeMonoInputs(a) ==
  When(Len(a) = 1 /\ Obj(a, 1).objKind = "PROCEDURE" /\ Obj(a, 1).mono # <<>>,
       StaticTypes(Obj(a, 1).mono))
AnalyzeOutputTypes(a) == When(HasEntry(a, 2) /\ Finds(a, 2), StaticTypes(Entry(a).rets))
AnalyzeMakeCodePointer(a) ==
  When(HasEntry(a, 2) /\ Finds(a, 2) /\ ~Entry(a).byName,
       IF ~Entry(a).analyzed THEN Pending
       ELSE Gives(<<Value(CodePointerT(InputTypes(a, 2), Entry(a).refs, Entry(a).rets))>>))
\* A new procedure whose only overload is the one found.
AnalyzeGetOverload(a) ==
  When(HasEntry(a, 2) /\ Finds(a, 2),
       Gives(<<Static(ProcedureObj(Entry(a), <<>>, FALSE, FALSE))>>))

AnalyzeMakeExternal(a) ==
  When(HasEntry(a, 4) /\ Finds(a, 4) /\ ~Entry(a).byName,
       IF ~Entry(a).analyzed THEN Pending
       ELSE IF Obj(a, 2) = Null THEN Crash
       ELSE When(Obj(a, 2) = PrimOpObj("callingConv"),
            IF Obj(a, 3) = Null THEN Crash
            ELSE When(/\ Obj(a, 3) = ValueObj(BoolT, 0)
                      /\ Len(Entry(a).rets) <= 1
                      /\ Len(Entry(a).rets) = 1 => ~Entry(a).refs[1],
                      Gives(<<Value(CCodePointerT(InputTypes(a, 4), FALSE, Entry(a).rets))>>))))

AnalyzeCallExternal(a) ==
  When(Len(a) >= 1 /\ HasKind(a, 1, "cCodePointer"),
       Gives([i \in 1..Len(a[1].type.rets) |-> Value(a[1].type.rets[i])]))
-----------------------------------------------------------------------------
Aggregates == {"arrayRef", "arrayElements", "tupleRef", "tupleElements", "recordFields",
               "recordVariadicField", "recordFieldRef", "recordFieldRefByName"}

\* The fields after the variadic one are not shifted.
FieldOutputsUnshifted(t, i) ==
  IF t.var # 0 /\ i = t.var THEN References(SubSeq(t.types, i, i + VarFieldSize(t) - 1))
  ELSE <<Reference(t.types[i])>>
\* The field at position i; the variadic one stands for any number of them.
FieldOutputs(t, i) ==
  IF t.var # 0 /\ i >= t.var
  THEN IF i = t.var THEN References(SubSeq(t.types, i, i + VarFieldSize(t) - 1))
       ELSE <<Reference(t.types[i + VarFieldSize(t) - 1])>>
  ELSE <<Reference(t.types[i])>>

FieldIndex(t, name) == CHOOSE i \in 1..Len(t.names) : t.names[i] = name
HasField(t, name) == \E i \in 1..Len(t.names) : t.names[i] = name

AnalyzeArray(op, a) ==
  CASE op = "arrayRef" ->
         When(Len(a) = 2 /\ HasKind(a, 1, "array"), Gives(<<Reference(a[1].type.elem)>>))
    [] op = "arrayElements" ->
         When(Len(a) = 1 /\ HasKind(a, 1, "array"),
              Gives(Rep(a[1].type.size, Reference(a[1].type.elem))))

AnalyzeTuple(op, a) ==
  CASE op = "tupleRef" ->
         When(Len(a) = 2 /\ HasKind(a, 1, "tuple"),
              WithIndex(a, 2, When(StaticCount(a, 2) < Len(a[1].type.elems),
                                   Gives(<<Reference(a[1].type.elems[StaticCount(a, 2) + 1])>>))))
    [] op = "tupleElements" ->
         When(Len(a) = 1 /\ HasKind(a, 1, "tuple"), Gives(References(a[1].type.elems)))

AnalyzeRecord(op, a) ==
  CASE op = "recordFieldRef" ->
         When(Len(a) = 2 /\ HasKind(a, 1, "record"),
              WithIndex(a, 2, When(StaticCount(a, 2) < Len(a[1].type.names),
                                   Gives(FieldOutputs(a[1].type, StaticCount(a, 2) + 1)))))
    [] op = "recordFieldRefByName" ->
         When(Len(a) = 2 /\ HasKind(a, 1, "record") /\ IsName(a, 2)
                /\ HasField(a[1].type, Obj(a, 2)),
              Gives(FieldOutputs(a[1].type, FieldIndex(a[1].type, Obj(a, 2)))))
    [] op = "recordFields" ->
         When(Len(a) = 1 /\ HasKind(a, 1, "record"), Gives(References(a[1].type.types)))
    [] op = "recordVariadicField" ->
         When(Len(a) = 1 /\ HasKind(a, 1, "record") /\ a[1].type.var # 0,
              Gives(References(SubSeq(a[1].type.types, a[1].type.var,
                                      a[1].type.var + VarFieldSize(a[1].type) - 1))))
-----------------------------------------------------------------------------
StaticResults == {"RecordFieldName", "VariantMembers", "BaseType", "staticIntegers",
  "staticFieldRef", "EnumMemberName", "stringLiteralByteSlice", "stringLiteralConcat",
  "stringLiteralFromBytes", "StaticName", "MainModule", "StaticModule", "ModuleName",
  "ModuleMemberNames", "Flag", "LambdaMonoInputTypes"}

AnalyzeFieldName(a) ==
  When(Len(a) = 2 /\ IsTypeOfKind(a, 1, "record"),
       WithIndex(a, 2, When(StaticCount(a, 2) < Len(TypeArg(a, 1).names),
                            Gives(<<Static(TypeArg(a, 1).names[StaticCount(a, 2) + 1])>>))))
AnalyzeVariantMembers(a) ==
  When(Len(a) = 1 /\ IsTypeOfKind(a, 1, "variant"), StaticTypes(TypeArg(a, 1).members))
AnalyzeEnumMemberName(a) ==
  When(Len(a) = 2 /\ IsTypeOfKind(a, 1, "enum"),
       WithIndex(a, 2, When(StaticCount(a, 2) < TypeArg(a, 1).size,
                            Gives(<<Static(NameObj(<<StaticCount(a, 2)>>))>>))))

\* The test is of `!obj && ...`: what is not static is followed all the same,
\* and a static object of another kind is taken for a type.
AnalyzeBaseType(a) ==
  When(Len(a) = 1,
       IF ~IsType(a, 1) THEN Crash
       ELSE Gives(<<Static(TypeObj(IF TypeArg(a, 1).kind = "newtype" THEN TypeArg(a, 1).base
                                   ELSE TypeArg(a, 1)))>>))

AnalyzeIntegers(op, a) ==
  When(Len(a) = 1 /\ IsStaticCount(a, 1) /\ Obj(a, 1).val >= 0,
       Gives([i \in 1..Obj(a, 1).val |->
                IF op = "integers" THEN Value(Obj(a, 1).type)
                ELSE Static(ValueObj(Obj(a, 1).type, i - 1))]))

AnalyzeStaticFieldRef(a) ==
  When(/\ Len(a) = 2
       /\ Obj(a, 1).objKind = "MODULE" /\ IsName(a, 2)
       /\ \E m \in ToSet(Obj(a, 1).publics) : m.name = Obj(a, 2),
       Gives(<<Static((CHOOSE m \in ToSet(Obj(a, 1).publics) : m.name = Obj(a, 2)).obj)>>))

AnalyzeIntToEnum(a) ==
  When(Len(a) = 2 /\ IsTypeOfKind(a, 1, "enum"), Gives(<<Value(TypeArg(a, 1))>>))
-----------------------------------------------------------------------------
AnalyzeSlice(a) ==
  When(Len(a) = 3 /\ IsName(a, 1),
       WithIndex(a, 2, WithIndex(a, 3,
         When(/\ StaticCount(a, 3) <= Len(Obj(a, 1).str)
              /\ StaticCount(a, 2) <= StaticCount(a, 3),
              Gives(<<Static(NameObj(SubSeq(Obj(a, 1).str, StaticCount(a, 2) + 1,
                                            StaticCount(a, 3))))>>)))))
AnalyzeConcat(a) ==
  When(\A i \in 1..Len(a) : IsName(a, i),
       Gives(<<Static(NameObj(FlattenSeq([i \in 1..Len(a) |-> Obj(a, i).str])))>>))
\* The largest byte, where the code has 255.
AnalyzeFromBytes(a) ==
  IF \E i \in 1..Len(a) : /\ Obj(a, i) = Null
                          /\ \A j \in 1..(i - 1) : IsStaticCount(a, j) /\ StaticCount(a, j) < 2 ^ ByteBits
  THEN Crash
  ELSE When(\A i \in 1..Len(a) : IsStaticCount(a, i) /\ StaticCount(a, i) < 2 ^ ByteBits,
            Gives(<<Static(NameObj([i \in 1..Len(a) |-> StaticCount(a, i)]))>>))
AnalyzeBytes(a) ==
  When(Len(a) = 1 /\ IsName(a, 1), Gives(Rep(Len(Obj(a, 1).str), Value(IntT))))

\* Names and modules of static objects; values and names have no module.
HasModule(obj) == obj.objKind \in {"TYPE", "PRIM_OP", "MODULE", "PROCEDURE"}
AnalyzeNames(op, a) ==
  CASE op = "StaticName" ->
         When(Len(a) = 1 /\ Obj(a, 1) # Null, Gives(<<Static(NameObj(<<0>>))>>))
    [] op = "MainModule" -> When(Len(a) = 0, Gives(<<Static(ModuleObj(<<>>))>>))
    [] op = "StaticModule" ->
         When(Len(a) = 1 /\ HasModule(Obj(a, 1)),
              Gives(<<Static(IF Obj(a, 1).objKind = "MODULE" THEN Obj(a, 1) ELSE ModuleObj(<<>>))>>))
    [] op = "ModuleName" ->
         When(Len(a) = 1 /\ HasModule(Obj(a, 1)), Gives(<<Static(NameObj(<<0>>))>>))
    [] op = "ModuleMemberNames" ->
         When(Len(a) = 1 /\ Obj(a, 1).objKind = "MODULE",
              Gives([i \in 1..Len(Obj(a, 1).publics) |-> Static(Obj(a, 1).publics[i].name)]))

\* A flag that was not given has the empty value.
AnalyzeFlag(a) == When(Len(a) = 1 /\ IsName(a, 1), Gives(<<Static(NameObj(<<>>))>>))
-----------------------------------------------------------------------------
AtomicOps == {"atomicFence", "atomicRMW", "atomicLoad", "atomicStore", "atomicCompareExchange"}
MemoryOps == AtomicOps \union {"memcpy", "memmove"}

AnalyzeAtomic(op, a) ==
  CASE op = "atomicFence" -> When(Len(a) = 1, Gives(<<>>))
    [] op = "atomicRMW" ->
         When(Len(a) = 4 /\ HasKind(a, 3, "pointer"), Gives(<<Value(a[4].type)>>))
    [] op = "atomicLoad" ->
         When(Len(a) = 2 /\ HasKind(a, 2, "pointer"), Gives(<<Value(a[2].type.pointee)>>))
    [] op = "atomicStore" -> When(Len(a) = 3 /\ HasKind(a, 2, "pointer"), Gives(<<>>))
    [] op = "atomicCompareExchange" ->
         When(Len(a) = 4 /\ HasKind(a, 2, "pointer"), Gives(<<Value(a[3].type)>>))
AnalyzeCopy(a) ==
  When(/\ Len(a) = 3
       /\ HasKind(a, 1, "pointer") /\ HasKind(a, 2, "pointer") /\ HasKind(a, 3, "integer"),
       Gives(<<>>))
AnalyzeActiveException(a) == When(Len(a) = 0, Gives(<<Value(PointerT(ByteT))>>))
-----------------------------------------------------------------------------
ValueLists == {"nthValue", "withoutNthValue", "takeValues", "dropValues"}

AnalyzeValueList(op, a) ==
  When(Len(a) >= 1,
       WithIndex(a, 1,
         LET passed == [n \in 1..Len(a) |-> [type |-> a[n].type, isRValue |-> a[n].isRValue]]
             next == Successor(StaticCount(a, 1))
             last == IF next >= Len(a) THEN Len(a) ELSE next
         IN CASE op = "nthValue" -> When(next < Len(a), Gives(<<passed[next + 1]>>))
              [] op = "withoutNthValue" ->
                   When(next < Len(a),
                        Gives(SubSeq(passed, 2, next) \o SubSeq(passed, (IF next = 0 THEN 2 ELSE next + 2), Len(a))))
              [] op = "takeValues" -> Gives(SubSeq(passed, 2, last))
              [] op = "dropValues" -> Gives(SubSeq(passed, last + 1, Len(a)))))
-----------------------------------------------------------------------------
LambdaTests == {"LambdaRecordP", "LambdaSymbolP", "LambdaMonoP"}
AnalyzeLambdaTest(a) == When(Len(a) = 1, Gives(<<Value(BoolT)>>))
\* The lambda of the record is followed without testing that there is one.
AnalyzeLambdaInputs(a) ==
  When(Len(a) = 1 /\ IsTypeOfKind(a, 1, "record"),
       IF TypeArg(a, 1).lambda = "none" THEN Crash
       ELSE When(TypeArg(a, 1).lambda = "mono", Gives(<<Static(TypeObj(IntT))>>)))
AnalyzeUsuallyEquals(a) ==
  When(/\ Len(a) = 2 /\ IsPrimitive(a[1].type)
       /\ Obj(a, 2).objKind = "VALUE_HOLDER" /\ Obj(a, 2).type = a[1].type,
       Gives(<<Value(a[1].type)>>))

Constructors == {"Pointer", "CodePointer", "ExternalCodePointer", "Array", "Vec", "Tuple",
                 "Union", "Static"}
Conversions == {"numericConvert", "integerConvertChecked"}
Primitives ==
  Unchecked \union Comparisons \union NumericBinary \union {"numericNegate"}
    \union IntegerBinary \union IntegerUnary \union Conversions \union Pointers \union Callables
    \union {"makeExternalCodePointer", "callExternalCodePointer", "integers", "intToEnum",
            "stringLiteralBytes", "activeException", "usuallyEquals"}
    \union Aggregates \union StaticResults \union MemoryOps \union ValueLists \union LambdaTests
    \union Constructors
-----------------------------------------------------------------------------
\* analyzePrimOp.
AnalyzePrimOp(op, a) ==
  CASE op \in Unchecked -> AnalyzeUnchecked(op)
    [] op \in Comparisons -> AnalyzeComparison(a)
    [] op \in NumericBinary \union {"numericNegate"} -> AnalyzeNumeric(op, a)
    [] op \in IntegerBinary \union IntegerUnary -> AnalyzeInteger(op, a)
    [] op \in Conversions -> AnalyzeConvert(op, a)
    [] op \in Pointers -> AnalyzePointer(op, a)
    [] op = "StaticCallOutputTypes" -> AnalyzeOutputTypes(a)
    [] op = "StaticMonoInputTypes" -> AnalyzeMonoInputs(a)
    [] op = "makeCodePointer" -> AnalyzeMakeCodePointer(a)
    [] op = "GetOverload" -> AnalyzeGetOverload(a)
    [] op = "makeExternalCodePointer" -> AnalyzeMakeExternal(a)
    [] op = "callExternalCodePointer" -> AnalyzeCallExternal(a)
    [] op \in {"arrayRef", "arrayElements"} -> AnalyzeArray(op, a)
    [] op \in {"tupleRef", "tupleElements"} -> AnalyzeTuple(op, a)
    [] op \in Aggregates \ {"arrayRef", "arrayElements", "tupleRef", "tupleElements"} ->
         AnalyzeRecord(op, a)
    [] op = "RecordFieldName" -> AnalyzeFieldName(a)
    [] op = "VariantMembers" -> AnalyzeVariantMembers(a)
    [] op = "EnumMemberName" -> AnalyzeEnumMemberName(a)
    [] op = "BaseType" -> AnalyzeBaseType(a)
    [] op \in {"staticIntegers", "integers"} -> AnalyzeIntegers(op, a)
    [] op = "staticFieldRef" -> AnalyzeStaticFieldRef(a)
    [] op = "intToEnum" -> AnalyzeIntToEnum(a)
    [] op = "stringLiteralByteSlice" -> AnalyzeSlice(a)
    [] op = "stringLiteralConcat" -> AnalyzeConcat(a)
    [] op = "stringLiteralFromBytes" -> AnalyzeFromBytes(a)
    [] op = "stringLiteralBytes" -> AnalyzeBytes(a)
    [] op \in {"StaticName", "MainModule", "StaticModule", "ModuleName", "ModuleMemberNames"} ->
         AnalyzeNames(op, a)
    [] op = "Flag" -> AnalyzeFlag(a)
    [] op \in AtomicOps -> AnalyzeAtomic(op, a)
    [] op \in {"memcpy", "memmove"} -> AnalyzeCopy(a)
    [] op = "activeException" -> AnalyzeActiveException(a)
    [] op \in ValueLists -> AnalyzeValueList(op, a)
    [] op \in LambdaTests -> AnalyzeLambdaTest(a)
    [] op = "LambdaMonoInputTypes" -> AnalyzeLambdaInputs(a)
    [] op = "usuallyEquals" -> AnalyzeUsuallyEquals(a)
    [] op \in Constructors -> Refused
=============================================================================
