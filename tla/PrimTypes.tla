----------------------------- MODULE PrimTypes -----------------------------
(***************************************************************************)
(* The types, static objects and values that the primitive operations of   *)
(* the language work on, and the tests which the three passes of the       *)
(* compiler make of their arguments (compiler/ceramic.hpp, types.cpp and   *)
(* the helpers at the head of analyzer_op.cpp, evaluator_op.cpp and        *)
(* codegen_op.cpp).                                                        *)
(*                                                                         *)
(* An argument is a record of its type and its value.  A value is a number:*)
(* the integer itself, the address of a pointer, the number of an enum     *)
(* member, 0 or 1 for a Bool.  What a primitive returns by reference is    *)
(* the address of the object: Place(i, j) is part j of argument i, part 0  *)
(* the whole of it.  A byte has ByteBits bits, Int and SizeT have PtrBits  *)
(* (as on a 32-bit target), and MaxBits stands for the 128 bits of the     *)
(* widest integer type.                                                    *)
(***************************************************************************)
EXTENDS Integers, Sequences

CONSTANTS Widths,                      \* the widths of the integer types
          ByteBits, PtrBits, MaxBits,
          Types, Objects               \* the types and static objects of a program

\* Every integer type but the widest has one of twice its width.
ASSUME WidthAssumption ==
  /\ Widths \subseteq Nat \ {0}
  /\ {ByteBits, PtrBits, MaxBits} \subseteq Widths
  /\ ByteBits < PtrBits /\ PtrBits < MaxBits
  /\ \A b \in Widths : b <= MaxBits /\ (b # MaxBits => 2 * b \in Widths)
-----------------------------------------------------------------------------
\* Types (struct Type and its descendants).
BoolT == [kind |-> "bool"]
IntegerT(bits, signed) == [kind |-> "integer", bits |-> bits, signed |-> signed]
FloatT(bits) == [kind |-> "float", bits |-> bits]
PointerT(t) == [kind |-> "pointer", pointee |-> t]
CodePointerT(args, refs, rets) ==
  [kind |-> "codePointer", args |-> args, refs |-> refs, rets |-> rets]
\* rets is empty for a function that returns nothing.
CCodePointerT(args, hasVarArgs, rets) ==
  [kind |-> "cCodePointer", args |-> args, hasVarArgs |-> hasVarArgs, rets |-> rets]
ArrayT(t, n) == [kind |-> "array", elem |-> t, size |-> n]
TupleT(ts) == [kind |-> "tuple", elems |-> ts]
UnionT(ts) == [kind |-> "union", members |-> ts]
\* var is the position of the variadic field, 0 if there is none; lambda says
\* whether the record is that of a lambda, and of which sort.
RecordT(names, types, var, lambda) ==
  [kind |-> "record", names |-> names, types |-> types, var |-> var, lambda |-> lambda]
VariantT(ts) == [kind |-> "variant", members |-> ts]
EnumT(n) == [kind |-> "enum", size |-> n]
NewT(t) == [kind |-> "newtype", base |-> t]
StaticT(obj) == [kind |-> "static", obj |-> obj]

IntT == IntegerT(PtrBits, TRUE)
SizeT == IntegerT(PtrBits, FALSE)
ByteT == IntegerT(ByteBits, FALSE)

VarFieldSize(t) == Len(t.types) - Len(t.names) + 1

IsPrimitive(t) ==
  t.kind \in {"bool", "integer", "float", "pointer", "codePointer",
              "cCodePointer", "static", "enum", "newtype"}
IsPointerLike(t) == t.kind \in {"pointer", "codePointer", "cCodePointer"}
IsNumeric(t) == t.kind \in {"integer", "float"}

\* Static objects: what a value of a static type stands for.
Null == [objKind |-> "null"]
TypeObj(t) == [objKind |-> "TYPE", type |-> t]
ValueObj(t, n) == [objKind |-> "VALUE_HOLDER", type |-> t, val |-> n]
NameObj(str) == [objKind |-> "IDENTIFIER", str |-> str]
ModuleObj(publics) == [objKind |-> "MODULE", publics |-> publics]
\* entry is what the overload lookup finds for it, mono its only argument
\* types if it is monomorphic.
ProcedureObj(entry, mono, isOperator, isLambda) ==
  [objKind |-> "PROCEDURE", entry |-> entry, mono |-> mono, isOperator |-> isOperator,
   isLambda |-> isLambda]
\* use is what a primitive may stand for: a "constructor" that has overloads, an
\* atomic "order", an atomic operation ("rmw"), a "callingConv", or "operation".
PrimOpObj(use) == [objKind |-> "PRIM_OP", use |-> use]
ObjOf(t) == IF t.kind = "static" THEN t.obj ELSE Null
-----------------------------------------------------------------------------
\* Arguments.
Arg(t, n) == [type |-> t, val |-> n, isRValue |-> FALSE]
Obj(a, i) == ObjOf(a[i].type)
HasKind(a, i, kind) == a[i].type.kind = kind
IsType(a, i) == Obj(a, i).objKind = "TYPE"
TypeArg(a, i) == Obj(a, i).type
IsTypeOfKind(a, i, kind) == IsType(a, i) /\ TypeArg(a, i).kind = kind
IsName(a, i) == Obj(a, i).objKind = "IDENTIFIER"
IsStaticCount(a, i) ==
  Obj(a, i).objKind = "VALUE_HOLDER" /\ Obj(a, i).type \in {IntT, SizeT}

\* A static Int becomes a size_t: a negative one is a very large index.
MaxSize == 2 ^ PtrBits
StaticCount(a, i) == Obj(a, i).val % MaxSize
\* Adding one to an index of type size_t wraps round.
Successor(i) == (i + 1) % MaxSize

\* The address of part j of argument i.
Place(i, j) == 10 * i + j

\* The outputs: their types, and whether each is a value or a reference.
Value(t) == [type |-> t, isRValue |-> TRUE]
Reference(t) == [type |-> t, isRValue |-> FALSE]
\* The cell the callers allocate for an output.
CellType(pv) == IF pv.isRValue THEN pv.type ELSE PointerT(pv.type)

\* What a pass makes of a call.
Refused == [out |-> "error"]
Crash == [out |-> "crash"]           \* a null pointer is followed
Pending == [out |-> "pending"]       \* the types are not known yet
Undefined == [out |-> "undefined"]   \* undefined behaviour of the program
Overflow == [out |-> "overflow"]
Gives(outs) == [out |-> "ok", outs |-> outs]
When(ok, answer) == IF ok THEN answer ELSE Refused
-----------------------------------------------------------------------------
\* What the constructors of types and static objects are given.  The members
\* of a type can be counted with a size_t, and only the variadic field of a
\* record stands for other than one of its types.
WellFormedType(t) ==
  /\ t.kind = "integer" => t.bits \in Widths /\ t.signed \in BOOLEAN /\ t = IntegerT(t.bits, t.signed)
  /\ t.kind = "pointer" => t.pointee \in Types /\ t = PointerT(t.pointee)
  /\ t.kind = "cCodePointer" => t.rets \in Seq(Types)
  /\ t.kind = "array" => t.elem \in Types /\ t.size \in Nat
  /\ t.kind = "tuple" => t.elems \in Seq(Types)
  /\ t.kind \in {"union", "variant"} => t.members \in Seq(Types) /\ Len(t.members) < MaxSize
  /\ t.kind = "record" =>
       /\ t.names \in Seq(Objects) /\ t.types \in Seq(Types) /\ t.var \in 0..Len(t.names)
       /\ VarFieldSize(t) \in Nat /\ (t.var = 0 => VarFieldSize(t) = 1)
  /\ t.kind = "newtype" => t.base \in Types
  /\ t.kind = "static" => t.obj \in Objects
WellFormedObject(obj) ==
  /\ obj.objKind = "TYPE" => obj.type \in Types
  /\ obj.objKind = "VALUE_HOLDER" => obj.type \in Types /\ obj.val \in Int
  /\ obj.objKind = "IDENTIFIER" => obj.str \in Seq(Nat)
  /\ obj.objKind = "MODULE" => obj.publics \in Seq([name : Objects, obj : Objects])
  /\ obj.objKind = "PROCEDURE" =>
       obj.mono \in Seq(Types) /\ obj.entry.refs \in Seq(BOOLEAN) /\ obj.entry.rets \in Seq(Types)
ASSUME TypeAssumption ==
  /\ \A t \in Types : WellFormedType(t)
  /\ \A obj \in Objects : WellFormedObject(obj)
-----------------------------------------------------------------------------
\* Integers of a type.
MinOf(t) == IF t.signed THEN -(2 ^ (t.bits - 1)) ELSE 0
MaxOf(t) == IF t.signed THEN 2 ^ (t.bits - 1) - 1 ELSE 2 ^ t.bits - 1
Fits(t, n) == MinOf(t) <= n /\ n <= MaxOf(t)
Wrap(t, n) ==
  LET m == n % 2 ^ t.bits IN IF m > MaxOf(t) THEN m - 2 ^ t.bits ELSE m
\* Division rounds towards zero.
Quot(a, b) ==
  LET Abs(n) == IF n < 0 THEN -n ELSE n
      q == Abs(a) \div Abs(b)
  IN  IF (a < 0) = (b < 0) THEN q ELSE -q
Rem(a, b) == a - b * Quot(a, b)

\* The values of the arguments are in the range of their types.
IsArgument(x) ==
  /\ x.type \in Types /\ x.val \in Int /\ x.isRValue \in BOOLEAN
  /\ x.type.kind = "integer" => Fits(x.type, x.val)
  /\ IsPointerLike(x.type) => x.val \in 0..(MaxSize - 1)
=============================================================================
