----------------------------- MODULE MCPrimOps -----------------------------
(***************************************************************************)
(* The calls that TLC tries: every primitive on every sequence of at most  *)
(* two arguments out of a sample of all kinds, the numeric primitives on   *)
(* every pair of numbers of one type, and longer calls of the primitives   *)
(* that take more.                                                         *)
(***************************************************************************)
EXTENDS PrimOps, Bitwise, Folds

CONSTANTS MCByteBits, MCPtrBits, MCLongBits, MCMaxBits

S3 == IntegerT(MCByteBits, TRUE)
U3 == IntegerT(MCByteBits, FALSE)
S6 == IntegerT(MCPtrBits, TRUE)
U6 == IntegerT(MCPtrBits, FALSE)
S12 == IntegerT(MCLongBits, TRUE)
U12 == IntegerT(MCLongBits, FALSE)
S24 == IntegerT(MCMaxBits, TRUE)
U24 == IntegerT(MCMaxBits, FALSE)
F6 == FloatT(MCPtrBits)

Numbers ==
  {Arg(S3, n) : n \in MinOf(S3)..MaxOf(S3)} \union {Arg(U3, n) : n \in 0..MaxOf(U3)}
  \union {Arg(S6, n) : n \in {-32, -31, -9, -1, 0, 1, 2, 5, 6, 7, 31}}
  \union {Arg(U6, n) : n \in {0, 1, 2, 5, 6, 7, 31, 32, 63}}
  \union {Arg(S12, n) : n \in {-2048, -33, -1, 0, 1, 11, 12, 32, 2047}}
  \union {Arg(U12, n) : n \in {0, 1, 11, 12, 64, 4095}}
  \union {Arg(S24, n) : n \in {-4096, -1, 0, 1, 11, 12, 4095}}
  \union {Arg(U24, n) : n \in {0, 1, 11, 12, 4096}}
  \union {Arg(F6, n) : n \in {-40, -1, 0, 1, 7, 40, NaN}}
\* The ends of the widest types, with operands that TLC can compute with.
Ends == {<<Arg(S24, MinOf(S24)), Arg(S24, n)>> : n \in {-1, 0, 1}}
  \union {<<Arg(S24, MaxOf(S24)), Arg(S24, n)>> : n \in {-1, 0, 1}}
  \union {<<Arg(U24, MaxOf(U24)), Arg(U24, n)>> : n \in {0, 1, 2}}
SamePairs == {p \in Numbers \X Numbers : p[1].type = p[2].type} \union Ends

Static1(obj) == Arg(StaticT(obj), 0)
TypeValue(t) == Static1(TypeObj(t))

P == NameObj(<<1>>)
Q == NameObj(<<2, 7>>)
\* A procedure of one U3 that returns an S3; one that returns a reference and a
\* value; one taken by name; one whose body is being analysed.
Entry1 == [args |-> <<U3>>, refs |-> <<FALSE>>, rets |-> <<S3>>, byName |-> FALSE, analyzed |-> TRUE]
Entry2 == [args |-> <<U3>>, refs |-> <<TRUE, FALSE>>, rets |-> <<S3, S3>>, byName |-> FALSE, analyzed |-> TRUE]
Proc(entry, mono, isOperator, isLambda) == Static1(ProcedureObj(entry, mono, isOperator, isLambda))
Plain1 == Proc(Entry1, <<U3>>, FALSE, FALSE)
TwoResults == Proc(Entry2, <<>>, TRUE, FALSE)
ByName == Proc([Entry1 EXCEPT !.byName = TRUE], <<>>, FALSE, TRUE)
Unfinished == Proc([Entry1 EXCEPT !.analyzed = FALSE, !.refs = <<>>, !.rets = <<>>], <<>>, FALSE, FALSE)

Rec == RecordT(<<P, Q>>, <<S3, U3>>, 0, "none")
\* The second of three fields stands for two: p, q_1, q_2, r.
VarRec == RecordT(<<P, Q, NameObj(<<3>>)>>, <<S3, U3, F6, U6>>, 2, "none")
MonoLambda == RecordT(<<P>>, <<S3>>, 0, "mono")
PolyLambda == RecordT(<<P>>, <<S3>>, 0, "poly")
Tup == TupleT(<<S3, U6>>)
Arr == ArrayT(U6, 2)
Var == VariantT(<<S3, U3, S3>>)

Types0 == {S3, U3, S6, S12, U12, S24, F6, BoolT, Rec, VarRec, MonoLambda, PolyLambda, Tup, Arr, Var, EnumT(2),
          UnionT(<<S3, U3>>), NewT(S3), PointerT(U6), CCodePointerT(<<U3>>, FALSE, <<S3>>)}
Statics == {TypeValue(t) : t \in Types0}
  \union {Static1(ValueObj(S6, n)) : n \in {-1, 0, 1, 2}}
  \union {Static1(ValueObj(U6, n)) : n \in {0, 1}}
  \union {Static1(ValueObj(BoolT, 0)), Static1(P), Static1(Q),
          Static1(ModuleObj(<<[name |-> P, obj |-> TypeObj(S3)]>>)),
          Static1(PrimOpObj("operation")), Static1(PrimOpObj("constructor")),
          Static1(PrimOpObj("order")), Plain1, TwoResults, ByName, Unfinished}
Values ==
  {Arg(S3, -4), Arg(U3, 7), Arg(S6, 1), Arg(U6, 63), Arg(F6, NaN), Arg(BoolT, 0), Arg(BoolT, 1),
   Arg(PointerT(U6), 40), Arg(PointerT(U6), 0), Arg(CCodePointerT(<<U3>>, FALSE, <<S3>>), 20),
   Arg(CCodePointerT(<<U3>>, TRUE, <<>>), 20),
   Arg(Arr, 0), Arg(Tup, 0), Arg(Rec, 0), Arg(VarRec, 0), Arg(EnumT(2), 1), Arg(Var, 0),
   [Arg(S3, 3) EXCEPT !.isRValue = TRUE]}
Sample == Statics \union Values

Order == Static1(PrimOpObj("order"))
Rmw == Static1(PrimOpObj("rmw"))
CallingConv == Static1(PrimOpObj("callingConv"))
Pointer == Arg(PointerT(U6), 40)
False1 == Static1(ValueObj(BoolT, 0))
Some == {Arg(S3, -4), [Arg(U6, 63) EXCEPT !.isRValue = TRUE], TypeValue(S3)}
\* A second argument matters to fewer primitives.
Second == {a \in Statics : Obj(<<a>>, 1).objKind \in {"VALUE_HOLDER", "IDENTIFIER"}}
  \union {TypeValue(t) : t \in {S3, U3, Rec}} \union {Plain1, Order, Pointer}
  \union {Arg(S3, -4), Arg(U3, 7), Arg(S6, 1), Arg(U6, 63), Arg(S12, 32), Arg(F6, NaN), Arg(BoolT, 1)}

LongLists(o) ==
  CASE o \in ValueLists \union {"countValues"} ->
         {<<Static1(ValueObj(S6, n)), x, y>> : n \in -1..2, x \in Some, y \in Some}
    [] o = "stringLiteralByteSlice" ->
         {<<Static1(Q), Static1(ValueObj(S6, m)), Static1(ValueObj(U6, n))>> : m \in -1..2, n \in 0..3}
    [] o \in {"memcpy", "memmove"} -> {<<Pointer, p, n>> : p \in {Pointer, Arg(U3, 7)}, n \in Numbers}
    [] o = "atomicRMW" ->
         {<<Order, b, p, x>> : b \in {Order, Rmw}, p \in {Pointer, Arg(U3, 7)}, x \in {Arg(S3, -4), Arg(U6, 63)}}
    [] o = "atomicStore" -> {<<b, Pointer, x>> : b \in {Order, Rmw}, x \in {Arg(S3, -4), Arg(U6, 63)}}
    [] o = "atomicCompareExchange" ->
         {<<Order, Pointer, x, y>> : x \in {Arg(S3, -4), Arg(U6, 63)}, y \in {Arg(S3, -4), Arg(U6, 63)}}
    [] o = "makeExternalCodePointer" ->
         {<<f, c, v>> \o rest : f \in {Plain1, TwoResults, ByName, Unfinished},
                               c \in {CallingConv, Order, Arg(U3, 7)},
                               v \in {False1, TypeValue(S3)}, rest \in {<<>>, <<TypeValue(U3)>>}}
    \* Rec is as large as a pointer and less aligned.
    [] o = "bitcast" -> {TypeValue(t) : t \in Types0} \X {Arg(Rec, 0), Arg(Tup, 0), Arg(Arr, 0)}
    [] o = "callExternalCodePointer" ->
         {<<f, x, y>> : f \in {Arg(CCodePointerT(<<U3>>, v, <<S3>>), 20) : v \in BOOLEAN},
                        x \in {Arg(U3, 7), Arg(S3, -4)}, y \in Some}
    [] OTHER -> {}

\* Sizes without padding.
RECURSIVE MCSizeOf(_)
MCSizeOf(t) ==
  LET Total(ts) == FoldSeq(+, 0, [i \in 1..Len(ts) |-> MCSizeOf(ts[i])]) IN
  CASE t.kind = "integer" -> t.bits \div ByteBits
    [] t.kind \in {"float", "pointer", "codePointer", "cCodePointer", "enum"} -> PtrBits \div ByteBits
    [] t.kind = "newtype" -> MCSizeOf(t.base)
    [] t.kind = "array" -> t.size * MCSizeOf(t.elem)
    [] t.kind = "tuple" -> Total(t.elems)
    [] t.kind = "record" -> Total(t.types)
    [] OTHER -> 1
\* The alignment of the widest part, at most that of a pointer.
MCAlignOf(t) ==
  LET widest == IF t.kind = "newtype" THEN t.base
                ELSE IF t.kind = "array" THEN t.elem ELSE t
      parts == CASE widest.kind = "tuple" -> widest.elems
                 [] widest.kind = "record" -> widest.types
                 [] OTHER -> <<widest>>
      align(p) == IF MCSizeOf(p) > PtrBits \div ByteBits THEN PtrBits \div ByteBits ELSE MCSizeOf(p)
  IN  FoldSeq(LAMBDA p, m : IF align(p) > m THEN align(p) ELSE m, 1, parts)
MCBitAnd(x, y) == x & y
MCBitOr(x, y) == x | y
MCBitXor(x, y) == x ^^ y

MCArguments ==
  Sample \union Numbers \union Some \union {Order, Rmw, CallingConv, Pointer, False1}
    \union {Static1(ValueObj(U6, n)) : n \in 2..3}
    \union {p[1] : p \in Ends} \union {p[2] : p \in Ends}
    \union {Arg(CCodePointerT(<<U3>>, v, <<S3>>), 20) : v \in BOOLEAN}
MCTypes == Types0 \union {x.type : x \in MCArguments}
MCObjects == ({Obj(<<x>>, 1) : x \in MCArguments} \ {Null}) \union {NameObj(<<3>>)}

MCArgLists(o) ==
  {<<>>} \union {<<x>> : x \in Sample} \union LongLists(o) \union
    CASE o \in Comparisons \union NumericBinary \union IntegerBinary -> SamePairs \union (Values \X Values)
      [] o \in Conversions -> Statics \X Numbers
      [] o \in IntegerUnary \union {"numericNegate"} -> {<<x>> : x \in Numbers \union {p[1] : p \in Ends}}
      [] o \in Constructors -> {}
      [] OTHER -> Sample \X Second
=============================================================================
