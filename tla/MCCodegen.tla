----------------------------- MODULE MCCodegen ------------------------------
(***************************************************************************)
(* Procedures for Codegen: three nested scopes of every kind, a variable   *)
(* or a guard in each, and a conditional jump out of the innermost.        *)
(***************************************************************************)
EXTENDS GeneratedCode, Codegen


Node(kind, names, temps, body) ==
    [kind |-> kind, names |-> names, temps |-> temps, raises |-> "maybe", body |-> body]

BlockOf(ss) == Node("block", <<>>, <<>>, ss)
Effect      == Node("expr", <<>>, <<"t">>, <<>>)
Pure        == Node("expr", <<>>, <<>>, <<>>)

Quiet(s) == [s EXCEPT !.raises = "never"]

(* The value of a variable in a guard comes from a call that cannot fail.  *)
GuardBody(n) == BlockOf(<<Quiet(Node("var", <<"g" \o n>>, <<"t">>, <<>>)), Pure>>)

Declaration(kind, n) ==
    CASE kind = "var"   -> Node("var", <<"a" \o n>>, <<"t">>, <<>>)
      [] kind = "vars"  -> Node("var", <<"a" \o n, "b" \o n>>, <<"t">>, <<>>)
      [] OTHER          -> Node(kind, <<kind \o n>>, <<>>, <<GuardBody(n)>>)

Wrapped(kind, n, s) ==
    CASE kind \in {"while", "whiletrue"} -> Node(kind, <<"c" \o n>>, <<>>, <<s>>)
      [] kind = "if"        -> Node("if", <<"c" \o n>>, <<"t">>, <<s, BlockOf(<<Pure>>)>>)
      [] kind = "try"       -> Node("try", <<"try" \o n>>, <<>>, <<s, BlockOf(<<Pure>>)>>)
      [] kind = "catch"     -> Node("try", <<"try" \o n>>, <<>>, <<BlockOf(<<Pure>>), s>>)
      [] kind = "staticfor" -> BlockOf(<<Node("staticfor", <<>>, <<"x" \o n, "y" \o n>>, <<s>>)>>)
      [] kind = "inline"    -> Node("inline", <<>>, <<"x" \o n>>, <<s>>)

JumpOf(kind) ==
    CASE kind \in {"return", "throw"} -> Node(kind, <<>>, <<"t">>, <<>>)
      [] kind \in {"break", "continue"} -> Node(kind, <<>>, <<>>, <<>>)
      [] OTHER -> Node("goto", <<kind>>, <<>>, <<>>)

Nested(d2, d3, w1, w2, jump) ==
    BlockOf(<<Node("label", <<"again">>, <<>>, <<>>),
              Declaration("var", "1"),
              Wrapped(w1, "1",
                BlockOf(<<Declaration(d2, "2"),
                          Wrapped(w2, "2",
                            BlockOf(<<Declaration(d3, "3"),
                                      Node("if", <<>>, <<>>, <<JumpOf(jump)>>),
                                      Pure>>)),
                          Pure>>)),
              Node("label", <<"out">>, <<>>, <<>>),
              Effect>>)

Wraps == {"while", "whiletrue", "if", "try", "catch", "staticfor", "inline"}

Shapes == [d2 : {"vars", "finally"}, d3 : {"var", "onerror"},
           w1 : Wraps, w2 : Wraps,
           jump : {"return", "break", "continue", "throw", "again", "out"},
           exceptions : BOOLEAN]

Compiled(body, exceptions) ==
    LET g == CodeBody(body, exceptions)
    IN  [error |-> g.error, procedure |-> [code |-> g.code, exceptionsEnabled |-> exceptions]]

(* A break or continue without a loop and the like are compile errors.     *)
MCProcedures ==
    LET body(p) == Nested(p.d2, p.d3, p.w1, p.w2, p.jump)
        outcomes == {Compiled(body(p), p.exceptions) : p \in Shapes}
    IN  {c.procedure : c \in {o \in outcomes : ~o.error}}

(* A try statement inside a finally statement.                             *)
TryInFinally ==
    BlockOf(<<Node("finally", <<"finally2">>, <<>>,
                   <<BlockOf(<<Wrapped("try", "1", BlockOf(<<Pure>>))>>)>>),
              Pure>>)

TryInFinallyProcedures ==
    LET compiled == Compiled(TryInFinally, TRUE)
    IN  {compiled.procedure}

MCEntries == ({"local"} \X {"a1", "a2", "b2", "a3", "c1", "c2", "g1", "g2", "g3"})
        \cup ({"temp"} \X {"t", "x1", "y1", "x2", "y2"})
        \cup ({"finally", "onerror"} \X {"finally2", "onerror2", "finally3", "onerror3"})
=============================================================================
