---------------------------- MODULE MCAnalyzer ----------------------------
(* Instances of Analyzer for TLC: entries f, g and h. *)
EXTENDS Analyzer

CONSTANTS f, g, h, Number, Text

Plain(x)    == [kind |-> "plain", parts |-> <<x>>]
While(x)    == [kind |-> "while", parts |-> <<x>>]
If(x, y)    == [kind |-> "if", parts |-> <<x, y>>]
Return(x)   == <<"return", x>>
Bind(x)     == <<"bind", x>>
Throw       == <<"throw", Nothing>>
Skip        == <<"skip", Nothing>>

(* Bodies that call x, y, or none. *)
Leaves == {<<Plain(Return(Number))>>, <<Plain(Throw)>>}

Shapes(x, y) ==
    {<<Plain(Return(x))>>,
     <<Plain(Bind(x))>>,
     <<If(Return(x), Skip), Plain(Return(Number))>>,
     <<If(Return(Text), Return(x))>>,
     <<If(Return(x), Throw)>>,
     <<If(Bind(x), Throw), Plain(Return(y))>>,
     <<Plain(Bind(x)), Plain(Return(y))>>,
     <<While(Return(x)), Plain(Return(y))>>,
     <<If(Throw, Skip), Plain(Bind(x))>>}

Bodies == Leaves \cup UNION {Shapes(x, y) : x \in {f, g, h}, y \in {g, Number}}

SomeBodies == Leaves \cup {<<If(Return(f), Skip), Plain(Return(Number))>>, <<If(Return(f), Throw)>>,
    <<If(Return(Text), Return(f))>>, <<Plain(Bind(f)), Plain(Return(h))>>, <<While(Return(h)), Plain(Return(f))>>}

FewBodies == {<<Plain(Return(Number))>>, <<If(Return(f), Throw)>>, <<Plain(Bind(f)), Plain(Return(g))>>}

Program(code, declared, interface, alias, repl) ==
    [code |-> code, declared |-> declared, interface |-> interface, alias |-> alias, repl |-> repl]

None == [e \in Entries |-> Nothing]

Code(a, b, c) == [e \in Entries |-> IF e = f THEN a ELSE IF e = g THEN b ELSE c]

(* A compilation without declarations: f of any shape. *)
Plainly == {Program(Code(a, b, c), None, None, {}, FALSE) : a \in Bodies, b \in SomeBodies, c \in FewBodies}

(* h has declared return types, or g must conform to an interface. *)
Declaring ==
    {Program(Code(a, b, c), [None EXCEPT ![h] = d], [None EXCEPT ![g] = i], {}, FALSE) :
        a \in Bodies, b \in {<<Plain(Return(h))>>, <<If(Return(f), Throw)>>, <<Plain(Bind(f)), Plain(Return(h))>>},
        c \in {<<Plain(Return(f))>>}, d \in {Number, "void"}, i \in {Number, Nothing}}

(* h is an alias; aliases do not expand themselves. *)
Aliasing ==
    {Program(Code(a, b, c), None, None, {h}, FALSE) :
        a \in Bodies, b \in {<<Plain(Return(h))>>, <<If(Return(h), Return(Number))>>},
        c \in {<<Plain(Return(g))>>, <<If(Return(f), Throw)>>, <<If(Return(f), Skip)>>}}

(* The REPL: errors leave the flags as they are. *)
Interrupted ==
    {Program(Code(a, b, c), None, None, {}, TRUE) :
        a \in Bodies, b \in {<<If(Return(Text), Return(f))>>, <<Plain(Bind(f)), Plain(Return(Number))>>},
        c \in {<<Plain(Return(g))>>}}

AllPrograms == Plainly \cup Declaring \cup Aliasing \cup Interrupted
=============================================================================
