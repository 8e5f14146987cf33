------------------------------ MODULE PrimOps ------------------------------
(***************************************************************************)
(* A call of a primitive operation on its way through the compiler.        *)
(*                                                                         *)
(* The analyzer gives the types of the results; the caller allocates a     *)
(* cell for each from that answer, and the call is then evaluated at       *)
(* compile time, where a static value is wanted, or code is generated for  *)
(* it, or both, in either order.  The three passes check the arguments and *)
(* work out the results on their own, each with a switch of its own over   *)
(* all primitives: what can go wrong is that they disagree.                *)
(***************************************************************************)
EXTENDS PrimGeneration

CONSTANTS Ops,           \* the primitives considered
          Arguments,     \* the arguments there are
          ArgLists(_)    \* the lists of arguments that each is called with

ASSUME CallAssumption ==
  /\ Ops \subseteq Primitives
  /\ \A x \in Arguments : IsArgument(x)
  /\ \A o \in Ops : ArgLists(o) \subseteq Seq(Arguments)

VARIABLES op, args,     \* the call
          analysis,     \* what the analyzer answers, NotDone before
          cells,        \* the types of the cells of the results
          evaluated,    \* what the evaluator answers
          generated     \* what the code does when it runs
vars == <<op, args, analysis, cells, evaluated, generated>>

NotDone == [out |-> "none"]

Init ==
  /\ op \in Ops /\ args \in ArgLists(op)
  /\ analysis = NotDone /\ evaluated = NotDone /\ generated = NotDone
  /\ cells = <<>>

\* analyzePrimOp, and the cells allocated from its answer.
CellsOf(answer) ==
  IF answer.out # "ok" THEN <<>> ELSE [i \in 1..Len(answer.outs) |-> CellType(answer.outs[i])]
Analyze ==
  /\ analysis = NotDone
  /\ analysis' = AnalyzePrimOp(op, args)
  /\ cells' = CellsOf(analysis')
  /\ UNCHANGED <<op, args, evaluated, generated>>

\* evalPrimOp.
Evaluate ==
  /\ analysis.out = "ok" /\ evaluated = NotDone
  /\ evaluated' = EvalPrimOp(op, args, cells)
  /\ UNCHANGED <<op, args, analysis, cells, generated>>

\* codegenPrimOp, and a run of the code.
Generate ==
  /\ analysis.out = "ok" /\ generated = NotDone
  /\ generated' = CodegenPrimOp(op, args, cells)
  /\ UNCHANGED <<op, args, analysis, cells, evaluated>>

Next == Analyze \/ Evaluate \/ Generate
Spec == Init /\ [][Next]_vars
-----------------------------------------------------------------------------
\* Whether an answer passes the assertions on the cells: one value for each
\* of them and of its type.  A pass that writes nothing does so only for
\* results that are all static objects.
FitsCells(answer) ==
  /\ answer.out # "assert"
  /\ answer.out = "ok" => [i \in 1..Len(answer.writes) |-> answer.writes[i].type] = cells
  /\ answer.out = "static" => \A i \in 1..Len(cells) : cells[i].kind = "static"

\* A static Int of -1 is the largest size_t; adding one to it wraps round.
WrapsIndex == op \in ValueLists /\ Len(args) >= 1 /\ IsStaticCount(args, 1) /\ Successor(StaticCount(args, 1)) = 0

\* The assertions of the generator and the evaluator hold of the cells that the
\* analyzer's answer had allocated, for every call (codegen_op.cpp and
\* evaluator_op.cpp assert the number and the types of their outputs in every
\* case).  Left out is the evaluator's recordVariadicField, which asserts two
\* different numbers of results (evaluator_op.cpp:2068, 2070).
AssertionsHold ==
  /\ ~WrapsIndex => FitsCells(generated)
  /\ ~WrapsIndex /\ op # "recordVariadicField" => FitsCells(evaluated)

\* Where the two are known to differ: calls refused at compile time only or
\* at run time only, and results that the program is not entitled to.
HasInteger(i, P(_)) == Len(args) >= i /\ HasKind(args, i, "integer") /\ P(args[i].type)
KnownToDiffer ==
  \/ op \in OnlyAtRunTime \union {"recordVariadicField"}
  \* The checked conversion is not checked by the evaluator.
  \/ op = "integerConvertChecked"
  \* The library has no checks for the widest type and no unsigned negation.
  \/ op \in CheckedBinary /\ HasInteger(1, LAMBDA t : t.bits = MaxBits)
  \/ op = "integerNegateChecked" /\ HasInteger(1, LAMBDA t : ~t.signed)
  \* Nor for the products of the second widest type on a narrower machine.
  \/ op = "integerMultiplyChecked" /\ HasInteger(1, MultipliesUnchecked)
  \* Only the generator wants the count of a copy to fit a pointer, and it takes
  \* a narrow negative one for a positive one.
  \/ op \in {"memcpy", "memmove"} /\ HasInteger(3, LAMBDA t : t.bits > PtrBits)
  \/ op \in {"memcpy", "memmove"} /\ HasInteger(3, LAMBDA t : t.bits < PtrBits) /\ args[3].val < 0

\* A call that is both evaluated and generated gives the same results, or is
\* refused, or reports overflow, both times: a static expression has the value
\* that the same expression has at run time (evalPrimOp and codegenPrimOp).
CompileTimeEqualsRunTime ==
  (evaluated # NotDone /\ generated # NotDone /\ ~KnownToDiffer) =>
    \/ evaluated = generated
    \/ Undefined \in {evaluated, generated}

\* What the exact result of a checked operation would be.
Exact(o, t, x, y) ==
  CASE o = "integerAddChecked" -> x + y
    [] o = "integerSubtractChecked" -> x - y
    [] o = "integerMultiplyChecked" -> x * y
    [] o = "integerQuotientChecked" -> IF y = 0 THEN MaxOf(t) + 1 ELSE Quot(x, y)
    [] o = "integerRemainderChecked" -> IF y = 0 THEN MaxOf(t) + 1 ELSE Rem(x, y)
    [] o = "integerShiftLeftChecked" ->
         IF y \notin 0..t.bits THEN MaxOf(t) + 1 ELSE x * 2 ^ y
    [] o = "integerNegateChecked" -> -x
    [] o = "integerConvertChecked" -> y

\* An answer to a checked operation that is right of the type t of its result.
Right(o, t, x, y, answer) ==
  /\ answer.out = "ok" => answer.writes[1].val = Exact(o, t, x, y)
  \* Shifting by the width is refused even where nothing is lost.
  /\ answer.out = "overflow" =>
       ~Fits(t, Exact(o, t, x, y)) \/ (o = "integerShiftLeftChecked" /\ y >= t.bits)
ResultType == analysis.outs[1].type
IsChecked ==
  op \in CheckedBinary \union {"integerNegateChecked", "integerConvertChecked"} /\ analysis.out = "ok"

\* A checked operation whose type is narrower than the widest gives the exact
\* result or reports overflow: at run time, but for a product of the second
\* widest type where pointers are narrower, and at compile time, but for the
\* two that the evaluator does not check (overflow.crm, evaluator_op.cpp).
CheckedIsExact ==
  IsChecked /\ ResultType.bits < MaxBits =>
    LET IsRight(answer) == Right(op, ResultType, args[1].val, args[Len(args)].val, answer) IN
    /\ ~(op = "integerMultiplyChecked" /\ MultipliesUnchecked(ResultType)) => IsRight(generated)
    /\ (op # "integerConvertChecked" /\ ~(op = "integerNegateChecked" /\ ~ResultType.signed)) =>
         IsRight(evaluated)
=============================================================================
