------------------------- MODULE PatternExpressions -------------------------
(***************************************************************************)
(* From the expression in an overload, a binding or an instance to its     *)
(* pattern: evaluateOnePattern, evaluateMultiPattern, evaluateAliasPattern *)
(* (src/compiler/patterns.cpp); and the static value of the same           *)
(* expression once its names are known (evaluateExprStatic and             *)
(* analyzeAliasIndexing), which is how a matched variable is used          *)
(* afterwards.                                                             *)
(*                                                                         *)
(* An environment has locals and globals; a name stands for                *)
(*   "cell", "multicell"  the cell of a pattern variable                   *)
(*   "object", "values"   an object, or several                            *)
(*   "decl"               a primitive type constructor, a record or a      *)
(*                        variant, with the number of its parameters       *)
(*   "alias"              parameters, a variadic one, and its expression   *)
(***************************************************************************)
EXTENDS Patterns

NameRef(n) == [op |-> "name", name |-> n]
Indexing(n, args) == [op |-> "index", name |-> n, args |-> args]
Tuple(args) == [op |-> "tuple", args |-> args]
Unpack(e) == [op |-> "unpack", of |-> e]
Paren(args) == [op |-> "paren", args |-> args]
Statics(os) == [op |-> "statics", objs |-> os]

Entry(env, n) == IF n \in DOMAIN env.locals THEN env.locals[n] ELSE env.globals[n]
Nameless == ""
HasParams(alias) == alias.params # <<>> \/ alias.rest # Nameless
DeclObject(n, decl) == IF decl.arity = 0 THEN Type(n, <<>>) ELSE Plain(n)

-----------------------------------------------------------------------------
(* Static values.                                                          *)

(* An alias is its expression, with the parameters standing for values.    *)
AliasEnv(alias, args, env) ==
  LET n == Len(alias.params)
      names == ToSet(alias.params) \cup (IF alias.rest = Nameless THEN {}
                                         ELSE {alias.rest})
  IN  [globals |-> env.globals,
       locals |-> [x \in names |->
         IF x = alias.rest
         THEN [is |-> "values", values |-> SubSeq(args, n + 1, Len(args))]
         ELSE [is |-> "object",
               obj |-> args[CHOOSE i \in 1 .. n : alias.params[i] = x]]]]
ArityFits(alias, args) ==
  \/ Len(args) = Len(alias.params)
  \/ Len(args) > Len(alias.params) /\ alias.rest # Nameless

Undefined == Plain("(undefined)")

RECURSIVE EvaluateStatic(_, _), IndexedStatic(_, _, _, _)
EvaluateStatic(e, env) ==
  LET Args == FlattenSeq([i \in DOMAIN e.args |-> EvaluateStatic(e.args[i], env)])
      Named == Entry(env, e.name)
  IN  CASE e.op = "name" ->
            (CASE Named.is = "object" -> <<Named.obj>>
               [] Named.is = "values" -> Named.values
               [] Named.is = "decl" -> <<DeclObject(e.name, Named)>>
               [] Named.is = "alias" ->
                    IF HasParams(Named) THEN <<Plain(e.name)>>
                    ELSE EvaluateStatic(Named.expr, AliasEnv(Named, <<>>, env)))
        [] e.op = "index" -> IndexedStatic(e.name, Named, Args, env)
        [] e.op = "tuple" -> <<TupleValue(Args)>>
        [] e.op = "unpack" -> EvaluateStatic(e.of, env)
        [] e.op = "paren" -> Args
        [] e.op = "statics" -> e.objs

IndexedStatic(name, x, args, env) ==
  IF x.is = "alias"
  THEN IF ArityFits(x, args)
       THEN EvaluateStatic(x.expr, AliasEnv(x, args, env)) ELSE <<Undefined>>
  ELSE IF /\ Len(args) = x.arity \/ (Len(args) > x.arity /\ x.variadic)
          /\ name = "CodePointer" => \A i \in DOMAIN args : args[i].kind = "tuple"
       THEN <<ConstructType(name, args)>> ELSE <<Undefined>>

-----------------------------------------------------------------------------
(* Patterns.  A failed evaluation has raised an error.                     *)

Evaluated(p, cells) == [pattern |-> p, cells |-> cells, error |-> FALSE]
Raised == [pattern |-> Unbound, cells |-> <<>>, error |-> TRUE]

(* appendPattern: a list may grow until its tail is a cell.                *)
RECURSIVE AppendPattern(_, _, _)
AppendPattern(list, p, cells) ==
  LET closed == list.tail # NoTail
  IN  CASE p.op = "notail" -> [ok |-> TRUE, list |-> list]
        [] p.op = "cell" ->
             IF closed THEN [ok |-> FALSE, list |-> list]
             ELSE IF ~Free(p, cells)
             THEN AppendPattern(list, Contents(p, cells), cells)
             ELSE [ok |-> TRUE, list |-> List(list.items, p)]
        [] p.op = "list" ->
             IF closed /\ p.items # <<>> THEN [ok |-> FALSE, list |-> list]
             ELSE AppendPattern(List(list.items \o p.items, list.tail), p.tail,
                                cells)

(* The cells of the parameters of an alias, new at every use.              *)
AliasCells(alias, env, next) ==
  LET names == alias.params \o (IF alias.rest = Nameless THEN <<>>
                                ELSE <<alias.rest>>)
      At(x) == CHOOSE i \in DOMAIN names : names[i] = x
  IN  [args |-> List([i \in DOMAIN alias.params |-> Cell(next + i)],
                     IF alias.rest = Nameless THEN NoTail
                     ELSE Cell(next + Len(names))),
       count |-> Len(names),
       env |-> [globals |-> env.globals,
                locals |-> [x \in ToSet(names) |->
                  [is |-> IF x = alias.rest THEN "multicell" ELSE "cell",
                   id |-> next + At(x)]]]]

RECURSIVE EvaluateOnePattern(_, _, _), EvaluateAliasPattern(_, _, _, _),
          EvaluateMultiPattern(_, _, _)

NamedToPattern(n, env, cells) ==
  LET x == Entry(env, n)
  IN  CASE x.is = "cell" -> Evaluated(Cell(x.id), cells)
        [] x.is = "multicell" -> Raised
        [] x.is = "alias" /\ ~HasParams(x) ->
             EvaluateOnePattern(x.expr, AliasEnv(x, <<>>, env), cells)
        [] OTHER -> Evaluated(Bound(EvaluateStatic(NameRef(n), env)[1]), cells)

(* The pattern of an expression whose parameters have been evaluated.      *)
Applied(e, params, env) ==
  IF params.error THEN Raised
  ELSE IF e.op = "tuple" THEN Evaluated(Struct(NoHead, params.pattern), params.cells)
  ELSE IF Entry(env, e.name).is = "alias"
  THEN EvaluateAliasPattern(Entry(env, e.name), params.pattern, env, params.cells)
  ELSE Evaluated(Struct(e.name, params.pattern), params.cells)

EvaluateOnePattern(e, env, cells) ==
  CASE e.op = "name" -> NamedToPattern(e.name, env, cells)
    [] e.op \in {"index", "tuple"} ->
         Applied(e, EvaluateMultiPattern(e.args, env, cells), env)
    [] e.op = "statics" -> Evaluated(Bound(e.objs[1]), cells)

(* The expression is evaluated first, then the parameters are unified.     *)
Unified(pattern, r) == IF r.ok THEN Evaluated(pattern, r.cells) ELSE Raised
WithParams(out, args, params) ==
  IF out.error THEN Raised
  ELSE Unified(out.pattern, UnifyMulti(args, params, out.cells))
EvaluateAliasPattern(alias, params, env, cells) ==
  LET own == AliasCells(alias, env, Len(cells))
  IN  WithParams(EvaluateOnePattern(alias.expr, own.env,
                   cells \o [i \in 1 .. own.count |-> Unbound]),
                 own.args, params)

(* The values of an unpacked expression: the code indexes them with the    *)
(* position of the expression in the list, for each of them.               *)
UnpackedItems(values, position) ==
  [j \in DOMAIN values |->
     Bound(IF position <= Len(values) THEN values[position] ELSE Undefined)]

(* What one expression of a list adds to it.                               *)
AsList(one) == [one EXCEPT !.pattern = List(<<@>>, NoTail)]
UnpackedPattern(e, i, env, cells) ==
  LET x == IF e.op = "name" THEN Entry(env, e.name) ELSE [is |-> "expression"]
  IN  CASE x.is = "multicell" -> Evaluated(Cell(x.id), cells)
        [] x.is = "cell" -> Raised
        [] OTHER -> Evaluated(List(UnpackedItems(EvaluateStatic(e, env), i), NoTail),
                              cells)
ItemPattern(e, i, env, cells) ==
  CASE e.op = "unpack" -> UnpackedPattern(e.of, i, env, cells)
    [] e.op = "paren" -> EvaluateMultiPattern(e.args, env, cells)
    [] OTHER -> AsList(EvaluateOnePattern(e, env, cells))

Grown(r, cells) == IF r.ok THEN Evaluated(r.list, cells) ELSE Raised
WithItem(list, part) ==
  IF part.error THEN Raised
  ELSE Grown(AppendPattern(list, part.pattern, part.cells), part.cells)
AddItem(before, e, i, env) ==
  IF before.error THEN Raised
  ELSE WithItem(before.pattern, ItemPattern(e, i, env, before.cells))

EvaluateMultiPattern(exprs, env, cells) ==
  FoldLeftDomain(LAMBDA before, i : AddItem(before, exprs[i], i, env),
                 Evaluated(List(<<>>, NoTail), cells), exprs)
=============================================================================
