------------------------------ MODULE Patterns ------------------------------
(***************************************************************************)
(* Patterns of overloads, bindings and instances: src/compiler/patterns.cpp *)
(* with constructType (analyzer.cpp), its inverse.                         *)
(*                                                                         *)
(* A pattern is a tree whose leaves are objects or cells.  The cells of    *)
(* pattern variables and of the parameters of aliases are mutable and are  *)
(* shared by every pattern that names them, so unification threads the     *)
(* sequence `cells`; a cell holds Unbound or another pattern.  A cell made *)
(* around an object never changes, and is the pattern Bound(object).       *)
(***************************************************************************)
EXTENDS Integers, Sequences, SequencesExt

-----------------------------------------------------------------------------
(* Objects: types with their parameters, values of tuples, and everything  *)
(* without structure.  A code pointer keeps which results are references.  *)

NoHead == "(tuple)"
Plain(name) == [kind |-> "plain", head |-> name, params |-> <<>>]
Type(head, params) == [kind |-> "type", head |-> head, params |-> params]
TupleValue(elements) == [kind |-> "tuple", head |-> NoHead, params |-> elements]
CodePointer(args, returns, returnIsRef) ==
  [kind |-> "codepointer", head |-> "CodePointer", params |-> args,
   returns |-> returns, returnIsRef |-> returnIsRef]

ByRef(t) == Type("ByRef", <<t>>)

\* Mutant: the reference is forgotten.
ParamsByValue(o) ==
  IF o.kind # "codepointer" THEN o.params
  ELSE <<TupleValue(o.params), TupleValue(o.returns)>>

(* What stands between the brackets when the object is written as a type.  *)
Params(o) ==
  IF o.kind # "codepointer" THEN o.params
  ELSE <<TupleValue(o.params),
         TupleValue([i \in DOMAIN o.returns |->
           IF o.returnIsRef[i] THEN ByRef(o.returns[i]) ELSE o.returns[i]])>>

UnwrapByRef(t) == IF t.head = "ByRef" THEN t.params[1] ELSE t

(* Errors of arity are left out.                                           *)
ConstructType(head, params) ==
  IF head # "CodePointer" THEN Type(head, params)
  ELSE LET returns == params[2].params
       IN  CodePointer(params[1].params,
                       [i \in DOMAIN returns |-> UnwrapByRef(returns[i])],
                       [i \in DOMAIN returns |-> returns[i].head = "ByRef"])

ComputeStruct(head, params) ==
  IF head = NoHead THEN TupleValue(params) ELSE ConstructType(head, params)

-----------------------------------------------------------------------------
(* Patterns.                                                               *)

Unbound == [op |-> "unbound"]
Bound(o) == [op |-> "bound", obj |-> o]
Cell(id) == [op |-> "cell", id |-> id]
Struct(head, params) == [op |-> "struct", head |-> head, params |-> params]

(* Multi-patterns: a list with an optional tail, and the cell of a         *)
(* variadic variable.                                                      *)
NoTail == [op |-> "notail"]
List(items, tail) == [op |-> "list", items |-> items, tail |-> tail]

RECURSIVE ObjectToPattern(_)
ObjectToPattern(o) ==
  IF o.kind = "plain" THEN Bound(o)
  ELSE Struct(o.head,
              List([i \in DOMAIN Params(o) |-> ObjectToPattern(Params(o)[i])],
                   NoTail))

ValuesToPattern(values) ==
  List([i \in DOMAIN values |-> ObjectToPattern(values[i])], NoTail)

-----------------------------------------------------------------------------
(* derefDeep: the object a pattern stands for, once every cell is bound.   *)

NotBound == [bound |-> FALSE, values |-> <<>>]
Values(vs) == [bound |-> TRUE, values |-> vs]

Flat(parts) == FlattenSeq([i \in DOMAIN parts |-> parts[i].values])

\* Mutant: an unbound tail counts as empty.
JoinedWithoutTail(parts, tail) ==
  IF \A i \in DOMAIN parts : parts[i].bound
  THEN Values(Flat(parts) \o tail.values) ELSE NotBound

Joined(parts, tail) ==
  IF tail.bound /\ \A i \in DOMAIN parts : parts[i].bound
  THEN Values(Flat(parts) \o tail.values) ELSE NotBound

RECURSIVE DerefDeep(_, _)
DerefDeep(p, cells) ==
  CASE p.op = "unbound" -> NotBound
    [] p.op = "notail" -> Values(<<>>)
    [] p.op = "bound" -> Values(<<p.obj>>)
    [] p.op = "cell" -> DerefDeep(cells[p.id], cells)
    [] p.op = "struct" ->
         LET params == DerefDeep(p.params, cells)
         IN  IF params.bound THEN Values(<<ComputeStruct(p.head, params.values)>>)
             ELSE NotBound
    [] p.op = "list" ->
         Joined([i \in DOMAIN p.items |-> DerefDeep(p.items[i], cells)],
                DerefDeep(p.tail, cells))

-----------------------------------------------------------------------------
(* unify.  Cells that were bound stay bound when it fails.                 *)

Is(cells) == [ok |-> TRUE, cells |-> cells]
IsNot(cells) == [ok |-> FALSE, cells |-> cells]
Test(b, cells) == [ok |-> b, cells |-> cells]
Assigned(cells, cell, p) == Is([cells EXCEPT ![cell.id] = p])
Free(p, cells) == p.op = "cell" /\ cells[p.id] = Unbound
Contents(cell, cells) == cells[cell.id]
SubList(l, i) == List(SubSeq(l.items, i, Len(l.items)), l.tail)

RECURSIVE Unify(_, _, _), UnifyObjPattern(_, _, _), UnifyMulti(_, _, _),
          UnifyItems(_, _, _), UnifyEmpty(_, _)

UnifyObjPattern(o, p, cells) ==
  CASE p.op = "bound" -> Test(p.obj = o, cells)
    [] p.op = "cell" -> IF Free(p, cells) THEN Assigned(cells, p, Bound(o))
                        ELSE UnifyObjPattern(o, Contents(p, cells), cells)
    [] p.op = "struct" ->
         LET q == ObjectToPattern(o)
         IN  IF q.op = "struct" /\ q.head = p.head
             THEN UnifyMulti(q.params, p.params, cells) ELSE IsNot(cells)

Unify(p, q, cells) ==
  CASE p.op = "bound" -> UnifyObjPattern(p.obj, q, cells)
    [] p.op = "cell" -> IF Free(p, cells) THEN Assigned(cells, p, q)
                        ELSE Unify(Contents(p, cells), q, cells)
    [] p.op = "struct" /\ q.op = "bound" -> UnifyObjPattern(q.obj, p, cells)
    [] p.op = "struct" /\ q.op = "cell" ->
         IF Free(q, cells) THEN Assigned(cells, q, p)
         ELSE Unify(p, Contents(q, cells), cells)
    [] p.op = "struct" /\ q.op = "struct" ->
         IF p.head = q.head THEN UnifyMulti(p.params, q.params, cells)
         ELSE IsNot(cells)

UnifyMulti(p, q, cells) ==
  CASE p.op = "cell" -> IF Free(p, cells) THEN Assigned(cells, p, q)
                        ELSE UnifyMulti(Contents(p, cells), q, cells)
    [] p.op = "list" /\ q.op = "cell" ->
         IF Free(q, cells) THEN Assigned(cells, q, p)
         ELSE UnifyMulti(p, Contents(q, cells), cells)
    [] p.op = "list" /\ q.op = "list" -> UnifyItems(p, q, cells)

\* Mutant: what follows the shorter list is not looked at.
UnifyPrefix(p, q, cells) ==
  IF p.items # <<>> /\ q.items # <<>>
  THEN LET r == Unify(p.items[1], q.items[1], cells)
       IN  IF r.ok THEN UnifyItems(SubList(p, 2), SubList(q, 2), r.cells) ELSE r
  ELSE Is(cells)

(* Item by item; what is left of one list goes to the tail of the other.   *)
UnifyItems(p, q, cells) ==
  IF p.items # <<>> /\ q.items # <<>>
  THEN LET r == Unify(p.items[1], q.items[1], cells)
       IN  IF r.ok THEN UnifyItems(SubList(p, 2), SubList(q, 2), r.cells) ELSE r
  ELSE IF p.items # <<>>
       THEN IF q.tail = NoTail THEN IsNot(cells) ELSE UnifyMulti(p, q.tail, cells)
  ELSE IF p.tail # NoTail THEN UnifyMulti(q, p.tail, cells)
  ELSE UnifyEmpty(q, cells)

UnifyEmpty(p, cells) ==
  CASE p.op = "notail" -> Is(cells)
    [] p.op = "cell" -> IF Free(p, cells)
                        THEN Assigned(cells, p, List(<<>>, NoTail))
                        ELSE UnifyEmpty(Contents(p, cells), cells)
    [] p.op = "list" -> IF p.items # <<>> THEN IsNot(cells)
                        ELSE UnifyEmpty(p.tail, cells)
=============================================================================
