-------------------------- MODULE MCInvokeTables --------------------------
(* Instances of InvokeTables for TLC: callables f and g, overloads o1, o2 and o3 of
   f, an interface fi of f and a universal overload u. *)
EXTENDS InvokeTables, TLC

CONSTANTS f, g, o1, o2, o3, u, fi

TwoFlags == {<<p, q>> : p, q \in BOOLEAN}

(* Calls of f with two arguments: o1 and o2 of many tempnesses and u, which
   forwards both arguments; overloads may come between calls. *)
TempnessPrograms ==
    {[callable  |-> [s \in Sets |-> f],
      interface |-> [s \in Sets |-> Nothing],
      target    |-> [o \in {o1, o2, u} |-> IF o = u THEN Nothing ELSE f],
      refused   |-> {},
      bodiless  |-> IF t1 = <<"rvalue", "rvalue">> THEN {o1} ELSE {},
      accepts   |-> [o \in Overloads |-> Sets],
      tempness  |-> [o \in Overloads |-> IF o = o1 THEN t1 ELSE IF o = o2 THEN t2
                                        ELSE <<"forward", "forward">>],
      default   |-> [o \in Overloads |-> FALSE],
      predicate |-> [o \in Overloads |-> Nothing],
      calls     |-> {"fInt"} \X Flags,
      final     |-> FALSE,
      late      |-> TRUE] :
        t1 \in {<<"dontcare", "lvalue">>, <<"lvalue", "forward">>, <<"forward", "dontcare">>, <<"rvalue", "rvalue">>},
        t2 \in {<<"dontcare", "lvalue">>, <<"forward", "rvalue">>, <<"rvalue", "forward">>}}

(* Sets f(Int), f(Float) and g(Int).  o1 and o2 overload f, u is universal, and
   each may have a predicate that looks up one of the calls (o1's and u's not
   f(Int), o2's only f(Float)); f may have the interface fi, which does not accept
   Float, and then only o1 has a predicate. *)
Asks == {Nothing} \cup {<<s, <<TRUE, TRUE>>>> : s \in {"fFloat", "g"}}

PredicatePrograms ==
    {[callable  |-> [s \in Sets |-> IF s = "g" THEN g ELSE f],
      interface |-> [s \in Sets |-> IF s = "g" \/ ~faced THEN Nothing ELSE fi],
      target    |-> [o \in {o1, o2, u} |-> IF o = u THEN Nothing ELSE f],
      refused   |-> {},
      bodiless  |-> none,
      accepts   |-> [o \in Overloads |-> IF o = u THEN Sets
                                        ELSE IF o = o1 THEN {"fInt", "fFloat"} ELSE {"fInt"}],
      tempness  |-> [o \in Overloads |-> IF o = o1 THEN <<"dontcare", "rvalue">>
                                        ELSE <<"dontcare", "dontcare">>],
      default   |-> [o \in Overloads |-> FALSE],
      predicate |-> [o \in Overloads |-> IF o = u THEN p ELSE IF o = o1 THEN p1
                                        ELSE IF o = o2 THEN p2 ELSE Nothing],
      calls     |-> Sets \X {<<TRUE, TRUE>>, <<TRUE, FALSE>>},
      final     |-> FALSE,
      late      |-> FALSE] :
        faced \in BOOLEAN, p \in Asks, p1 \in Asks, p2 \in Asks, none \in {{}, {o2}, {u}}}

SomePredicatePrograms ==
    {p \in PredicatePrograms :
        /\ p.bodiless # {} => p.interface["fInt"] = Nothing /\ p.predicate[o2] = Nothing
        /\ p.predicate[o2] # <<"g", <<TRUE, TRUE>>>>
        /\ p.interface["fInt"] = fi => {p.predicate[u], p.predicate[o2]} = {Nothing}}

(* Three overloads of f with -final-overloads; o1 may be a `default` overload. *)
FinalPrograms ==
    {[callable  |-> [s \in Sets |-> f],
      interface |-> [s \in Sets |-> Nothing],
      target    |-> [o \in {o1, o2, o3, u} |-> f],
      refused   |-> {u},
      bodiless  |-> IF d THEN {o3} ELSE {},
      accepts   |-> [o \in Overloads |-> Sets],
      tempness  |-> [o \in Overloads |-> <<"dontcare", IF o \in {o1, o2, o3} THEN t[o] ELSE "dontcare">>],
      default   |-> [o \in Overloads |-> o = o1 /\ d],
      predicate |-> [o \in Overloads |-> Nothing],
      calls     |-> {"fInt"} \X Flags,
      final     |-> TRUE,
      late      |-> FALSE] :
        t \in [{o1, o2, o3} -> {"dontcare", "lvalue"}], d \in BOOLEAN}

AllPrograms == TempnessPrograms \cup SomePredicatePrograms \cup FinalPrograms
=============================================================================
