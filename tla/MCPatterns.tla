----------------------------- MODULE MCPatterns -----------------------------
(***************************************************************************)
(* Overloads, bindings and instances for the checking of PatternMatching.  *)
(***************************************************************************)
EXTENDS PatternMatching

Decl(n, variadic) == [is |-> "decl", arity |-> n, variadic |-> variadic]
Object(o) == [is |-> "object", obj |-> o]
Alias(params, rest, expr) ==
  [is |-> "alias", params |-> params, rest |-> rest, expr |-> expr]

N(n) == NameRef(n)
Ptr(e) == Indexing("Pointer", <<e>>)
Pair(a, b) == Indexing("Pair", <<a, b>>)
Code(args, returns) == Indexing("CodePointer", <<Tuple(args), Tuple(returns)>>)
Rest == Unpack(N("R"))

Globals == [
  f |-> Object(Plain("f")),
  Int |-> Object(Type("Int", <<>>)), Float |-> Object(Type("Float", <<>>)),
  Pointer |-> Decl(1, FALSE), Pair |-> Decl(2, FALSE), CodePointer |-> Decl(2, FALSE),
  Tuple |-> Decl(0, TRUE), V |-> Decl(1, FALSE),
  Num |-> Alias(<<>>, Nameless, N("Int")),
  Ref |-> Alias(<<"A">>, Nameless, Ptr(N("A"))),
  Same |-> Alias(<<"A">>, Nameless, Pair(N("A"), N("A"))),
  Swap |-> Alias(<<"A", "B">>, Nameless, Pair(N("B"), N("A"))),
  First |-> Alias(<<"A", "B">>, Nameless, N("A")),
  Fn |-> Alias(<<"A">>, "B", Code(<<N("A")>>, <<Unpack(N("B"))>>)),
  All |-> Alias(<<>>, "A", Indexing("Tuple", <<Unpack(N("A"))>>))]

VarT == [name |-> "T", multi |-> FALSE]
VarU == [name |-> "U", multi |-> FALSE]
VarR == [name |-> "R", multi |-> TRUE]
Of(e) == [type |-> e, variadic |-> FALSE]
Each(e) == [type |-> e, variadic |-> TRUE]

(* Variables used in an expression.                                        *)
RECURSIVE Uses(_, _)
Uses(e, n) ==
  CASE e.op = "name" -> e.name = n
    [] e.op = "unpack" -> Uses(e.of, n)
    [] e.op = "untyped" -> FALSE
    [] OTHER -> \E a \in ToSet(e.args) : Uses(a, n)

Variant(open) == [name |-> "V", open |-> open, params |-> <<"A">>, rest |-> Nameless,
                  defaults |-> IF open THEN <<>> ELSE <<N("A"), N("Int")>>]
Overload(target, formals, predicate, calls) ==
  [globals |-> Globals, target |-> target, formals |-> formals,
   predicate |-> predicate, calls |-> calls,
   vars |-> SelectSeq(<<VarT, VarU, VarR>>, LAMBDA v :
              Uses(target, v.name) \/ \E f \in ToSet(formals) : Uses(f.type, v.name)),
   instances |-> <<>>, types |-> {}, variant |-> Variant(TRUE)]

-----------------------------------------------------------------------------
int == Type("Int", <<>>)
float == Type("Float", <<>>)
ptr(t) == Type("Pointer", <<t>>)
pair(t, u) == Type("Pair", <<t, u>>)
Objects == {int, float, ptr(int), ptr(ptr(int)), pair(int, int), pair(int, float),
            pair(ptr(int), int), Type("Tuple", <<>>), Type("Tuple", <<int>>),
            Type("Tuple", <<int, float>>), CodePointer(<<int>>, <<int>>, <<FALSE>>),
            CodePointer(<<int>>, <<int>>, <<TRUE>>),
            CodePointer(<<>>, <<float, int>>, <<FALSE, TRUE>>)}

Fixed == {N("Int"), N("Num"), N("T"), N("U"), Ptr(N("Float")), Ptr(N("T")), Ptr(Ptr(N("T"))),
          Pair(N("T"), N("T")), Pair(N("T"), N("U")), Pair(Ptr(N("T")), N("T")),
          Indexing("Ref", <<N("T")>>), Indexing("Ref", <<Ptr(N("T"))>>),
          Indexing("Same", <<N("T")>>), Indexing("Same", <<N("Int")>>),
          Indexing("Same", <<N("Int"), N("T")>>),
          Indexing("Swap", <<N("T"), N("U")>>), Indexing("Swap", <<N("Int"), N("T")>>),
          Indexing("First", <<N("T"), N("U")>>), Indexing("First", <<N("T"), N("Int")>>)}
Variadic == {Indexing("Tuple", <<Rest>>), Indexing("Tuple", <<N("T"), Rest>>),
             Indexing("Tuple", <<Paren(<<N("Int"), Rest>>)>>),
             Code(<<Rest>>, <<N("T")>>), Code(<<N("T")>>, <<Rest>>),
             Indexing("Fn", <<N("T"), Rest>>), Indexing("Fn", <<N("Int"), N("T")>>),
             Indexing("All", <<Rest>>), Indexing("All", <<N("Int"), N("T")>>),
             Indexing("All", <<Unpack(N("Num")), Rest>>)}

Calls(callables, args) == [callable : callables, args : args]
One == {<<o>> : o \in Objects}
Few == {<<>>} \cup {<<o>> : o \in {int, ptr(int)}}
       \cup {<<o, p>> : o \in {int, ptr(int)}, p \in {int, pair(int, int), pair(ptr(int), int)}}
       \cup {<<int, float, int>>, <<int, int, int>>}

Single == {Overload(N("f"), <<Of(e)>>, NoPredicate, Calls({Plain("f")}, One \cup {<<>>})) :
             e \in Fixed \cup Variadic}
Several ==
  {Overload(N("f"), formals, NoPredicate, Calls({Plain("f")}, Few)) : formals \in
     {<<Of(a), Of(b)>> : a \in {N("T"), Ptr(N("T")), Untyped}, b \in Fixed}
     \cup {<<Of(a), Each(b)>> : a \in {N("T"), Untyped}, b \in {N("R"), Untyped}}
     \cup {<<Each(b), Of(a)>> : a \in {N("T"), Untyped}, b \in {N("R"), Untyped}}
     \cup {<<Each(N("R")), Of(Indexing("Tuple", <<Rest>>))>>}}
Targets ==
  {Overload(target, formals, NoPredicate,
            Calls(Objects \cup {Plain("f"), Plain("Pair")}, {<<>>, <<int>>, <<ptr(int)>>})) :
     target \in Fixed \cup Variadic \cup {N("Pair")}, formals \in {<<>>, <<Of(N("T"))>>}}
Recursive ==
  {Overload(N("f"), <<Of(e)>>, [callable |-> N("f"), args |-> args, wanted |-> wanted],
            Calls({Plain("f")}, {<<o>> : o \in {int, ptr(int), ptr(ptr(int)), pair(int, float),
                                                pair(ptr(int), int)}})) :
     e \in {Ptr(N("T")), Indexing("Ref", <<N("T")>>), Pair(N("T"), N("U"))},
     args \in {<<N("T")>>, <<>>}, wanted \in BOOLEAN}

Instance(pvars, target, members) ==
  [vars |-> pvars, target |-> Indexing("V", <<target>>), members |-> members]
InstanceDecls ==
  {Instance(<<>>, N("Int"), <<N("Float")>>),
   Instance(<<VarT>>, N("T"), <<N("T")>>),
   Instance(<<VarT>>, Ptr(N("T")), <<N("T"), Pair(N("T"), N("T"))>>),
   Instance(<<VarT, VarR>>, Indexing("Tuple", <<N("T"), Rest>>), <<N("T"), Rest>>),
   Instance(<<VarT>>, Indexing("Same", <<N("T")>>), <<N("T")>>)}
Variants ==
  {[globals |-> Globals, target |-> N("f"), formals |-> <<>>, predicate |-> NoPredicate,
    calls |-> {}, vars |-> <<>>, instances |-> decls, variant |-> Variant(open),
    types |-> {Type("V", <<t>>) : t \in {int, ptr(int), pair(int, int),
                                        Type("Tuple", <<int, float, int>>)}}] :
     decls \in {s \in [1 .. 2 -> InstanceDecls] : s[1] # s[2]}, open \in BOOLEAN}

(* Closed variants are extended only through targets without variables,    *)
(* for which the code checks it.                                           *)
MCPrograms ==
  Single \cup Several \cup Targets \cup Recursive
  \cup {p \in Variants : p.variant.open \/ p.instances[1].vars = <<>>}
=============================================================================
