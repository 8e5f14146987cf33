--------------------------- MODULE PatternMatching ---------------------------
(***************************************************************************)
(* One overload, registered by the loader (initOverload, loader.cpp) and   *)
(* matched with calls (matchInvoke, matchinvoke.cpp); the same formal      *)
(* arguments in a local binding (analyzeBinding, analyzer.cpp); and the    *)
(* instances of a variant (initVariantInstance, loader.cpp, and            *)
(* initializeVariantType, types.cpp).                                      *)
(*                                                                         *)
(* The cells of an overload are made once and shared by all its matches: a *)
(* match that leaves something in them changes the result of a later one,  *)
(* or of one that its own predicate starts.                                *)
(***************************************************************************)
EXTENDS PatternExpressions, FiniteSets

CONSTANT Programs

VARIABLES program,     \* the declarations
          list,        \* the list of overloads that has the overload
          state,       \* patternsInitializedState: 0, -1 (begun), 1
          cells,       \* its own cells, then those of aliases in its patterns
          patterns,    \* callablePattern and argPatterns
          stack,       \* matches under way: a predicate may start another
          last,        \* the result of the last match
          instances,   \* v->instances
          types        \* the variant types initialized

vars == <<program, list, state, cells, patterns, stack, last, instances, types>>
matching == <<state, cells, patterns, stack, last>>
variant == <<instances, types>>

Untyped == [op |-> "untyped"]
NoPredicate == [callable |-> Untyped]
Nowhere == [in |-> "nowhere"]
Refused == [in |-> "refused"]
PatternOverloads == [in |-> "patterns"]
ListOf(o) == [in |-> "object", obj |-> o]

-----------------------------------------------------------------------------
(* Helpers shared by overloads, bindings and instances.                    *)

(* initializePatternEnv: variable i has cell i.                            *)
PatternEnv(pvars) ==
  [globals |-> program.globals,
   locals |-> [n \in {pvars[i].name : i \in DOMAIN pvars} |->
     LET i == CHOOSE i \in DOMAIN pvars : pvars[i].name = n
     IN  [is |-> IF pvars[i].multi THEN "multicell" ELSE "cell", id |-> i]]]
\* (A concatenation, because TLC updates tuples better than functions.)
FreshCells(pvars) == <<>> \o [i \in DOMAIN pvars |-> Unbound]
OwnPattern(e, pvars) == EvaluateOnePattern(e, PatternEnv(pvars), FreshCells(pvars))

FormalPattern(formal, env, cs) ==
  CASE formal.type = Untyped -> Evaluated(Unbound, cs)
    [] formal.type # Untyped /\ formal.variadic ->
         EvaluateMultiPattern(<<Unpack(formal.type)>>, env, cs)
    [] formal.type # Untyped /\ ~formal.variadic ->
         EvaluateOnePattern(formal.type, env, cs)

HasVarArg(formals) == \E i \in DOMAIN formals : formals[i].variadic
ArityMatches(formals, args) ==
  IF HasVarArg(formals) THEN Len(args) >= Len(formals) - 1
  ELSE Len(args) = Len(formals)

(* The arguments of formal i.  The code counts with an index that is -1    *)
(* (wrapped) behind a variadic argument that takes none.                   *)
ArgumentsOf(formals, i, args) ==
  LET extra == Len(args) - Len(formals)
      behind == \E v \in 1 .. i - 1 : formals[v].variadic
  IN  IF formals[i].variadic THEN SubSeq(args, i, i + extra)
      ELSE IF behind THEN <<args[i + extra]>> ELSE <<args[i]>>

UnifyFormal(formal, pattern, args, cs) ==
  CASE formal.type = Untyped -> Is(cs)
    [] formal.type # Untyped /\ formal.variadic ->
         UnifyMulti(pattern, ValuesToPattern(args), cs)
    [] formal.type # Untyped /\ ~formal.variadic ->
         UnifyObjPattern(args[1], pattern, cs)

AllBound(pvars, cs) == \A i \in DOMAIN pvars : DerefDeep(cs[i], cs).bound
Bindings(pvars, cs) == [i \in DOMAIN pvars |-> DerefDeep(cs[i], cs).values]
StaticEnv(pvars, bindings) ==
  [globals |-> program.globals,
   locals |-> [n \in {pvars[i].name : i \in DOMAIN pvars} |->
     [is |-> "values",
      values |-> bindings[CHOOSE i \in DOMAIN pvars : pvars[i].name = n]]]]
StaticValues(exprs, env) ==
  FlattenSeq([i \in DOMAIN exprs |-> EvaluateStatic(exprs[i], env)])

-----------------------------------------------------------------------------
(* Registration of the overload.                                           *)

Overloadable(o) == o.kind \in {"plain", "type", "codepointer"}

ListFor(object) ==
  IF ~object.bound THEN PatternOverloads
  ELSE IF ~Overloadable(object.values[1]) THEN Refused
  ELSE ListOf(object.values[1])
ListOfTarget(target) ==
  IF target.error THEN Refused ELSE ListFor(DerefDeep(target.pattern, target.cells))

Register ==
  /\ list = Nowhere
  /\ list' = ListOfTarget(OwnPattern(program.target, program.vars))
  /\ UNCHANGED <<program, matching, variant>>

Consulted(callable) == list \in {PatternOverloads, ListOf(callable)}

-----------------------------------------------------------------------------
(* Matching.                                                               *)

Own == DOMAIN program.vars
ResetPatterns(cs) == <<>> \o [i \in DOMAIN cs |-> IF i \in Own THEN Unbound ELSE cs[i]]

Frame(call) == [call |-> call, doing |-> "initialize", formal |-> 1,
                bindings |-> <<>>]
Top == stack[Len(stack)]
Doing(what) == stack # <<>> /\ Top.doing = what
GoTo(what) == stack' = [stack EXCEPT ![Len(stack)].doing = what]
Result(call, r, bindings) == [call |-> call, result |-> r, bindings |-> bindings]
InBinding == Plain("(binding)")
NoResult == Result([callable |-> InBinding, args |-> <<>>], "none", <<>>)
Fail == /\ stack' = <<>>
        /\ last' = Result(stack[1].call, "error", <<>>)

(* A nested match answers the predicate of the one below it.               *)
Return(answer) ==
  LET below == Front(stack)
  IN  IF below = <<>>
      THEN /\ stack' = <<>>
           /\ last' = Result(Top.call, answer, Top.bindings)
      ELSE /\ stack' = [below EXCEPT ![Len(below)].doing =
                          IF (answer = "matched") = program.predicate.wanted
                          THEN "succeed" ELSE "refuse"]
           /\ UNCHANGED last

StartMatch(call) ==
  /\ stack = <<>> /\ Consulted(call.callable)
  /\ stack' = <<Frame(call)>>
  /\ last' = NoResult
  /\ UNCHANGED <<program, list, state, cells, patterns, variant>>

(* Before the first match the patterns are evaluated, the callable's first. *)
Failed(before) == [before EXCEPT !.error = TRUE]

\* Mutant: arguments without a type get no pattern.
AddTyped(before, formal, one) ==
  IF one.error THEN Failed(before)
  ELSE IF formal.type = Untyped THEN before
  ELSE [before EXCEPT !.args = Append(@, one.pattern), !.cells = one.cells]

AddFormal(before, formal, one) ==
  IF one.error THEN Failed(before)
  ELSE [before EXCEPT !.args = Append(@, one.pattern), !.cells = one.cells]
FormalPatterns(before, formals, env) ==
  FoldLeft(LAMBDA done, formal :
             IF done.error THEN done
             ELSE AddFormal(done, formal, FormalPattern(formal, env, done.cells)),
           before, formals)
OverloadPatterns(target) ==
  FormalPatterns([callable |-> target.pattern, args |-> <<>>,
                  cells |-> target.cells, error |-> target.error],
                 program.formals, PatternEnv(program.vars))

InitializePatterns ==
  /\ Doing("initialize") /\ state = 0
  /\ \E all \in {OverloadPatterns(OwnPattern(program.target, program.vars))} :
       IF all.error
       THEN state' = -1 /\ Fail /\ UNCHANGED <<cells, patterns>>
       ELSE /\ state' = 1
            /\ cells' = all.cells
            /\ patterns' = [callable |-> all.callable, args |-> all.args]
            /\ GoTo("callable")
            /\ UNCHANGED last
  /\ UNCHANGED <<program, list, variant>>

PatternsReady ==
  /\ Doing("initialize") /\ state = 1
  /\ GoTo("callable")
  /\ UNCHANGED <<program, list, state, cells, patterns, last, variant>>

UnholyRecursion ==
  /\ Doing("initialize") /\ state = -1
  /\ Fail
  /\ UNCHANGED <<program, list, state, cells, patterns, variant>>

NoMatch(cs) == Return("not matched") /\ cells' = ResetPatterns(cs)

MatchCallable ==
  /\ Doing("callable")
  /\ LET r == UnifyObjPattern(Top.call.callable, patterns.callable, cells)
     IN  IF r.ok /\ ArityMatches(program.formals, Top.call.args)
         THEN cells' = r.cells /\ GoTo("arguments") /\ UNCHANGED last
         ELSE NoMatch(r.cells)
  /\ UNCHANGED <<program, list, state, patterns, variant>>

MatchArgument ==
  /\ Doing("arguments") /\ Top.formal <= Len(program.formals)
  /\ LET i == Top.formal
         r == UnifyFormal(program.formals[i], patterns.args[i],
                          ArgumentsOf(program.formals, i, Top.call.args), cells)
     IN  IF r.ok THEN /\ cells' = r.cells
                      /\ stack' = [stack EXCEPT ![Len(stack)].formal = i + 1]
                      /\ UNCHANGED last
         ELSE NoMatch(r.cells)
  /\ UNCHANGED <<program, list, state, patterns, variant>>

\* Mutant: the cells are reset when the match is over.
BindWithoutReset ==
  /\ Doing("arguments") /\ Top.formal > Len(program.formals)
  /\ AllBound(program.vars, cells)
  /\ stack' = [stack EXCEPT ![Len(stack)].bindings = Bindings(program.vars, cells),
                            ![Len(stack)].doing = "predicate"]
  /\ UNCHANGED <<program, list, state, cells, patterns, last, variant>>

(* The cells are read and reset before the predicate is evaluated.         *)
BindVariables ==
  /\ Doing("arguments") /\ Top.formal > Len(program.formals)
  /\ IF AllBound(program.vars, cells)
     THEN /\ stack' = [stack EXCEPT ![Len(stack)].bindings =
                                      Bindings(program.vars, cells),
                                    ![Len(stack)].doing = "predicate"]
          /\ UNCHANGED last
     ELSE Fail
  /\ cells' = ResetPatterns(cells)
  /\ UNCHANGED <<program, list, state, patterns, variant>>

(* The predicates modelled ask whether the overload matches other          *)
(* arguments, or that it does not.                                         *)
EvaluatePredicate ==
  /\ Doing("predicate")
  /\ IF program.predicate = NoPredicate THEN GoTo("succeed")
     ELSE LET env == StaticEnv(program.vars, Top.bindings)
          IN  stack' = Append(stack,
                Frame([callable |-> EvaluateStatic(program.predicate.callable, env)[1],
                       args |-> StaticValues(program.predicate.args, env)]))
  /\ UNCHANGED <<program, list, state, cells, patterns, last, variant>>

Succeed == /\ Doing("succeed") /\ Return("matched")
           /\ UNCHANGED <<program, list, state, cells, patterns, variant>>
Refuse == /\ Doing("refuse") /\ Return("not matched")
          /\ UNCHANGED <<program, list, state, cells, patterns, variant>>

-----------------------------------------------------------------------------
(* A local binding with the same variables and formal arguments: its       *)
(* patterns are evaluated while they are matched, on cells of its own.     *)
BindFormal(formal, p, args) ==
  IF p.error THEN IsNot(p.cells) ELSE UnifyFormal(formal, p.pattern, args, p.cells)
BindFormals(formals, args, env, fresh) ==
  FoldLeftDomain(LAMBDA r, i :
    IF ~r.ok THEN r
    ELSE BindFormal(formals[i], FormalPattern(formals[i], env, r.cells),
                    ArgumentsOf(formals, i, args)),
    Is(fresh), formals)

BindingResult(args, r) ==
  LET bound == r.ok /\ AllBound(program.vars, r.cells)
  IN  Result([callable |-> InBinding, args |-> args],
             IF bound THEN "matched" ELSE "error",
             IF bound THEN Bindings(program.vars, r.cells) ELSE <<>>)

AnalyzeBinding(args) ==
  /\ stack = <<>> /\ list # Nowhere
  /\ last' = IF ArityMatches(program.formals, args)
             THEN BindingResult(args,
                    BindFormals(program.formals, args, PatternEnv(program.vars),
                                FreshCells(program.vars)))
             ELSE BindingResult(args, IsNot(<<>>))
  /\ UNCHANGED <<program, list, state, cells, patterns, stack, variant>>

-----------------------------------------------------------------------------
(* Variants.  Instances are declared in the order of the program; one      *)
(* that does not fit ends the compilation.                                 *)

Declared == Len(instances)
AcceptsObject(o) == /\ o.kind = "type" /\ o.head = program.variant.name
                    /\ program.variant.open
Accepts(decl, target) ==
  /\ ~target.error
  /\ LET object == DerefDeep(target.pattern, target.cells)
     IN  IF object.bound THEN AcceptsObject(object.values[1])
         ELSE target.pattern.op = "struct"
              /\ target.pattern.head = program.variant.name

InitVariantInstance ==
  /\ Declared < Len(program.instances)
  /\ LET decl == program.instances[Declared + 1]
     IN  /\ Accepts(decl, OwnPattern(decl.target, decl.vars))
         /\ instances' = Append(instances, decl)
  /\ UNCHANGED <<program, list, matching, types>>

MembersOf(decl, cs) ==
  StaticValues(decl.members, StaticEnv(decl.vars, Bindings(decl.vars, cs)))
Unification(t, target) == UnifyObjPattern(t, target.pattern, target.cells)

\* Mutant: an instance that does not match is not skipped.
MembersAnyway(decl, r) == IF AllBound(decl.vars, r.cells) THEN MembersOf(decl, r.cells)
                          ELSE <<>>

(* The members an instance adds to a type whose patterns it matches, all   *)
(* its variables bound.  (A match that leaves one unbound is an error in   *)
(* the code; the instances considered bind all of theirs.)                 *)
MembersIfMatched(decl, r) ==
  IF r.ok /\ AllBound(decl.vars, r.cells) THEN MembersOf(decl, r.cells) ELSE <<>>
InstanceMembers(decl, t) ==
  MembersIfMatched(decl, Unification(t, OwnPattern(decl.target, decl.vars)))

VariantEnv(t) ==
  AliasEnv(program.variant, t.params, [globals |-> program.globals])

InitializeVariantType(t) ==
  /\ t \notin DOMAIN types
  /\ \E members \in {StaticValues(program.variant.defaults, VariantEnv(t))
                     \o FlattenSeq([i \in DOMAIN instances |->
                                     InstanceMembers(instances[i], t)])} :
       /\ members # <<>>
       /\ types' = [u \in DOMAIN types \cup {t} |->
            IF u = t THEN [declared |-> Declared, members |-> members] ELSE types[u]]
  /\ UNCHANGED <<program, list, matching, instances>>

-----------------------------------------------------------------------------
Init ==
  /\ program \in Programs
  /\ list = Nowhere
  /\ state = 0
  /\ cells = <<>>
  /\ patterns = [callable |-> Unbound, args |-> <<>>]
  /\ stack = <<>>
  /\ last = NoResult
  /\ instances = <<>>
  /\ types = <<>>

Next ==
  \/ Register
  \/ \E call \in program.calls : StartMatch(call) \/ AnalyzeBinding(call.args)
  \/ InitializePatterns \/ PatternsReady \/ UnholyRecursion
  \/ MatchCallable \/ MatchArgument \/ BindVariables \/ EvaluatePredicate
  \/ Succeed \/ Refuse
  \/ InitVariantInstance
  \/ \E t \in program.types : InitializeVariantType(t)

Spec == Init /\ [][Next]_vars

-----------------------------------------------------------------------------
(* What a pattern means: some values of its variables make the expressions *)
(* evaluate to the callable and to the types of the arguments.             *)

RECURSIVE SubObjects(_)
SubObjects(o) == {o} \cup UNION {SubObjects(p) : p \in ToSet(Params(o))}
Segments(s) == {SubSeq(s, i, j) : i \in 1 .. Len(s) + 1, j \in 0 .. Len(s)}
Others == {Plain("other"), Plain("another")}

ValuesFor(pvar, objects) ==
  LET parts == UNION {SubObjects(o) : o \in ToSet(objects)}
  IN  {<<o>> : o \in parts \cup Others}
      \cup IF pvar.multi
           THEN Segments(objects) \cup UNION {Segments(Params(o)) : o \in parts}
           ELSE {}
Assignments(pvars, objects) ==
  LET upTo[k \in 0 .. Len(pvars)] ==
        IF k = 0 THEN {<<>>}
        ELSE {Append(b, c) : b \in upTo[k - 1], c \in ValuesFor(pvars[k], objects)}
  IN  upTo[Len(pvars)]

ArgumentsFit(formals, args, env) ==
  /\ ArityMatches(formals, args)
  /\ \A i \in DOMAIN formals :
       formals[i].type # Untyped =>
         EvaluateStatic(formals[i].type, env) = ArgumentsOf(formals, i, args)
Solutions(call) ==
  {b \in Assignments(program.vars, <<call.callable>> \o call.args) :
     LET env == StaticEnv(program.vars, b)
     IN  /\ call.callable # InBinding =>
              EvaluateStatic(program.target, env) = <<call.callable>>
         /\ ArgumentsFit(program.formals, call.args, env)}

RECURSIVE Expected(_)
Expected(call) ==
  LET found == Solutions(call)
      b == CHOOSE b \in found : TRUE
      env == StaticEnv(program.vars, b)
      asked == Expected([callable |-> EvaluateStatic(program.predicate.callable, env)[1],
                         args |-> StaticValues(program.predicate.args, env)]).result
      holds == program.predicate = NoPredicate
               \/ (asked = "matched") = program.predicate.wanted
  IN  IF found = {} THEN Result(call, "not matched", <<>>)
      ELSE IF Cardinality(found) > 1 THEN Result(call, "error", <<>>)
      ELSE Result(call, IF holds THEN "matched" ELSE "not matched", b)

-----------------------------------------------------------------------------
(* Types: patterns, cells and frames stand in the relations that the       *)
(* assertions and the indexing of matchinvoke.cpp rely on.                 *)
TypeOK ==
  /\ state \in {-1, 0, 1}
  /\ state # 1 => cells = <<>>
  /\ state = 1 => /\ Len(patterns.args) = Len(program.formals)
                  /\ Own \subseteq DOMAIN cells
  /\ \A i \in DOMAIN stack :
       /\ stack[i].formal \in 1 .. Len(program.formals) + 1
       /\ stack[i].doing \in {"initialize", "callable", "arguments", "predicate",
                              "succeed", "refuse"}
       /\ i < Len(stack) => stack[i].doing = "predicate"
  /\ Declared <= Len(program.instances)

(* A call matches if, and only if, there are values of the pattern         *)
(* variables for which the overload's target is the callable and its       *)
(* arguments' types are the types of the call, whatever was matched before *)
(* or inside the predicate; the variables then have these values.  An      *)
(* overload that leaves a variable undetermined is an error.  A binding    *)
(* takes its values in the same way, and is an error if there are none.    *)
(* (matchInvoke, unify, analyzeBinding.)                                   *)
MatchesAsWritten ==
  (stack = <<>> /\ last # NoResult) =>
    LET expected == Expected(last.call)
        found == Solutions(last.call)
    IN  IF last.call.callable = InBinding
        THEN IF Cardinality(found) = 1
             THEN last.result = "matched" /\ found = {last.bindings}
             ELSE last.result = "error"
        ELSE IF state = -1 THEN last.result = "error" /\ found = {}
        ELSE /\ last.result = expected.result
             /\ last.result = "matched" => last.bindings = expected.bindings

(* The list that has the overload is one that is consulted for every       *)
(* callable the overload matches (initOverload and callableOverloads).     *)
RegisteredWhereFound ==
  (list # Nowhere /\ stack = <<>> /\ last = NoResult) =>
    \A call \in program.calls : Solutions(call) # {} => Consulted(call.callable)

(* The members of a variant type are those of its declaration, then those  *)
(* of each instance declared before the type was initialised whose target  *)
(* is this type for some values of the instance's variables, in the order  *)
(* of the declarations (initializeVariantType).  Later ones are ignored.   *)
MembersFollowInstances ==
  \A t \in DOMAIN types :
    LET Added(decl) ==
          LET found == {b \in Assignments(decl.vars, <<t>>) :
                          EvaluateStatic(decl.target, StaticEnv(decl.vars, b)) = <<t>>}
          IN  IF Cardinality(found) # 1 THEN <<>>
              ELSE StaticValues(decl.members,
                                StaticEnv(decl.vars, CHOOSE b \in found : TRUE))
    IN  types[t].members =
          StaticValues(program.variant.defaults, VariantEnv(t))
          \o FlattenSeq([i \in 1 .. types[t].declared |->
                           Added(program.instances[i])])
=============================================================================
