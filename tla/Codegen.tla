------------------------------ MODULE Codegen -------------------------------
(***************************************************************************)
(* The statements of a procedure body turned into basic blocks, as the     *)
(* compiler does it (compiler/codegen.cpp): the value stack that records   *)
(* what has to be destroyed, the jump targets that remember how deep it    *)
(* was, and the code each way out of a scope gets.                         *)
(*                                                                         *)
(* A statement is [kind, names, temps, raises, body]: the names it         *)
(* declares or jumps to, the temporaries its expression creates, whether   *)
(* the procedures it calls raise ("never", "maybe"), and the statements it *)
(* contains.  Expressions are reduced to calls; a context g is the part of *)
(* CodegenContext that decides the control flow.                           *)
(*                                                                         *)
(* env stands for the Env of a statement.  It holds what the enclosing     *)
(* blocks have declared so far and the catch clause around the statement,  *)
(* is computed from the nesting alone, and is attached to the generated    *)
(* calls so that a run can be compared with the text of the program.       *)
(***************************************************************************)
EXTENDS Naturals, Sequences, SequencesExt, FiniteSets, TLC

(* ValueStackEntry; LOCAL_VALUE is split into variables and temporaries.   *)
Entry(type, name, statement, env) ==
    [type |-> type, name |-> name, statement |-> statement, env |-> env]

Local(v) == Entry("local", v, <<>>, <<>>)
Temp(t)  == Entry("temp", t, <<>>, <<>>)

(* What is left of an entry when the code runs.                            *)
Name(e) == <<e.type, e.name>>

JumpTarget(block, marker) == [block |-> block, stackMarker |-> marker, useCount |-> 0]

Declared(env, entries) == [env EXCEPT !.scope = @ \o entries]

Locals(names) == [i \in DOMAIN names |-> Name(Local(names[i]))]

NoLanding == 0

-----------------------------------------------------------------------------
(* The instruction builder.                                                *)

Emit(g, instruction) == [g EXCEPT !.code[g.at] = Append(@, instruction)]

NewBlock(g) == [g EXCEPT !.code = Append(@, <<>>)]

SetInsertPoint(g, block) == [g EXCEPT !.at = block]

Br(g, block) == Emit(g, [op |-> "br", to |-> block])

Failed(g) == [g EXCEPT !.error = TRUE, !.terminated = TRUE]

-----------------------------------------------------------------------------
(* The value stack.                                                        *)

MarkStack(g) == Len(g.valueStack)

PushStack(e, g) == [g EXCEPT !.valueStack = Append(@, e)]

PopStack(marker, g) == [g EXCEPT !.valueStack = SubSeq(@, 1, marker)]

RECURSIVE Statement(_, _, _)
RECURSIVE BlockStatements(_, _, _, _)

(* The body of a guard, with the calls in it unchecked.                    *)
Unchecked(statement, env, g) ==
    [Statement(statement, env, [g EXCEPT !.checkExceptions = FALSE])
        EXCEPT !.checkExceptions = g.checkExceptions, !.terminated = g.terminated]

(* Mutant: an onerror statement runs on every way out.                     *)
StackEntryDestroyAlways(e, g, exception) ==
    LET cleaned == Emit(g, [op |-> "clean", entry |-> Name(e)])
    IN  IF e.type \in {"finally", "onerror"}
        THEN Unchecked(e.statement[1], e.env, cleaned)
        ELSE cleaned

StackEntryDestroy(e, g, exception) ==
    IF e.type = "onerror" /\ ~exception
    THEN Emit(g, [op |-> "disarm", entry |-> Name(e)])
    ELSE LET cleaned == Emit(g, [op |-> "clean", entry |-> Name(e)])
         IN  IF e.type \in {"finally", "onerror"}
             THEN Unchecked(e.statement[1], e.env, cleaned)
             ELSE cleaned

(* cgDestroyStack generates the cleanup and leaves the stack as it is: the *)
(* statements after a jump may still be reached some other way.            *)
DestroyStack(marker, g, exception) ==
    IF marker > MarkStack(g) THEN Failed(g)
    ELSE FoldRight(LAMBDA e, h : StackEntryDestroy(e, h, exception),
                   SubSeq(g.valueStack, marker + 1, MarkStack(g)), g)

RECURSIVE DestroyAndPopStack(_, _, _)
DestroyAndPopStack(marker, g, exception) ==
    IF marker >= MarkStack(g) THEN g
    ELSE DestroyAndPopStack(marker,
            StackEntryDestroy(Last(g.valueStack), PopStack(MarkStack(g) - 1, g), exception),
            exception)

-----------------------------------------------------------------------------
(* Calls.                                                                  *)

CallInstruction(makes, raises, landing, normal, env) ==
    [op |-> "call", makes |-> makes, raises |-> raises, landing |-> landing,
     normal |-> normal, scope |-> env.scope, handler |-> env.handler]

(* Mutants: a landing block that cleans nothing up; one for the outermost  *)
(* exception target.                                                       *)
LandingPadNoCleanup(landing, g) ==
    Br(SetInsertPoint(g, landing), Last(g.exceptionTargets).block)

LandingPadOutermost(landing, g) ==
    LET jt == Head(g.exceptionTargets)
    IN  Br(DestroyStack(jt.stackMarker, SetInsertPoint(g, landing), TRUE), jt.block)

(* A call that raised: everything above the marker of the innermost try is *)
(* cleaned up on the way to its clauses.                                   *)
LandingPad(landing, g) ==
    LET jt == Last(g.exceptionTargets)
    IN  Br(DestroyStack(jt.stackMarker, SetInsertPoint(g, landing), TRUE), jt.block)

LowlevelCall(makes, raises, env, g) ==
    IF ~g.exceptionsEnabled \/ ~g.checkExceptions
    THEN Emit(g, CallInstruction(makes, raises, NoLanding, NoLanding, env))
    ELSE LET landing == Len(g.code) + 1
             normal  == Len(g.code) + 2
             called  == Emit(NewBlock(NewBlock(g)),
                             CallInstruction(makes, raises, landing, normal, env))
         IN  SetInsertPoint(LandingPad(landing, called), normal)

(* codegenMultiAsRef on arguments that are temporaries: each is on the     *)
(* value stack from the moment its call has returned.                      *)
AsRef(s, env, g) ==
    FoldLeft(LAMBDA h, t : PushStack(Temp(t), LowlevelCall(<<Name(Temp(t))>>, s.raises, env, h)),
             g, s.temps)

(* An expression evaluated for its effect or into a place that is there    *)
(* already, and its temporaries destroyed (codegenExprInto and the others).*)
Expression(s, raises, env, g) ==
    DestroyAndPopStack(MarkStack(g),
        LowlevelCall(<<>>, raises, env, AsRef(s, env, g)), FALSE)

(* codegenMultiInto: the values already built are destroyed if a later     *)
(* expression fails, and belong to the caller once all of them are built.  *)
(* A value counts as alive when the temporaries it was built from are gone.*)
MultiInto(s, env, g) ==
    PopStack(MarkStack(g),
        FoldLeft(LAMBDA h, i :
                    LET e     == Local(s.names[i])
                        built == Locals(SubSeq(s.names, 1, i - 1))
                    IN  PushStack(e, Emit(Expression(s, s.raises, Declared(env, built), h),
                                          [op |-> "arm", entry |-> Name(e)])),
                 g, [i \in DOMAIN s.names |-> i]))

(* Mutant: the entries of a finished scope stay on the value stack.        *)
EndScopeKeepsStack(marker, terminated, g) ==
    IF terminated THEN g ELSE DestroyStack(marker, g, FALSE)

-----------------------------------------------------------------------------
(* Scopes, bindings and labels.                                            *)

EndScope(marker, terminated, g) ==
    PopStack(marker, IF terminated THEN g ELSE DestroyStack(marker, g, FALSE))

(* codegenBinding of a var.                                                *)
Binding(s, env, g) ==
    FoldLeft(LAMBDA h, v : PushStack(Local(v), h), MultiInto(s, env, g), s.names)

(* The labels up to the next binding: a jump cannot skip an initialization *)
(* because the label behind it is not there yet.                           *)
CollectLabels(statements, startIndex, g) ==
    LET later    == SubSeq(statements, startIndex, Len(statements))
        bindings == {i \in DOMAIN later : later[i].kind = "var"}
        visible  == {i \in DOMAIN later : \A j \in bindings : i < j}
        labels   == SelectSeq(SubSeq(later, 1, Cardinality(visible)),
                              LAMBDA s : s.kind = "label")
    IN  FoldLeft(LAMBDA h, s :
                    IF s.names[1] \in DOMAIN h.labels THEN Failed(h)
                    ELSE [NewBlock(h) EXCEPT !.labels =
                            @ @@ (s.names[1] :> JumpTarget(Len(h.code) + 1, MarkStack(h)))],
                 g, labels)

(* Mutant: a jump that leaves its scopes as they are.                      *)
JumpNoCleanup(jt, g) == [Br(g, jt.block) EXCEPT !.terminated = TRUE]

(* break, continue, goto and the last step of return.                      *)
Jump(jt, g) ==
    [Br(DestroyStack(jt.stackMarker, g, FALSE), jt.block) EXCEPT !.terminated = TRUE]

BlockStatements(statements, i, env, g) ==
    IF i > Len(statements) \/ g.error THEN g
    ELSE LET s     == statements[i]
             guard == IF s.kind \in {"finally", "onerror"} THEN <<<<s.kind, s.names[1]>>>> ELSE <<>>
         IN  CASE s.kind = "label" ->
                    LET jt     == g.labels[s.names[1]]
                        joined == IF g.terminated THEN g ELSE Br(g, jt.block)
                    IN  BlockStatements(statements, i + 1, env,
                            [SetInsertPoint(joined, jt.block) EXCEPT !.terminated = FALSE])
               [] s.kind # "label" /\ g.terminated ->
                    BlockStatements(statements, i + 1, env, g)
               [] s.kind = "var" /\ ~g.terminated ->
                    BlockStatements(statements, i + 1, Declared(env, Locals(s.names)),
                        CollectLabels(statements, i + 1, Binding(s, env, g)))
               [] OTHER ->
                    BlockStatements(statements, i + 1, Declared(env, guard),
                                    Statement(s, env, g))

Block(s, env, g) ==
    LET body == BlockStatements(s.body, 1, env,
                    [CollectLabels(s.body, 1, g) EXCEPT !.terminated = FALSE])
    IN  EndScope(MarkStack(g), body.terminated, body)

-----------------------------------------------------------------------------
(* codegenStatement, one operator per kind of statement.                   *)

Return(s, env, g) ==
    Jump(Last(g.returnTargets), Expression(s, s.raises, env, g))

(* Mutant: a break that does not count as a use of the end of its loop.    *)
BreakUncounted(g) == IF g.breaks = <<>> THEN Failed(g) ELSE Jump(Last(g.breaks), g)

Goto(s, g) ==
    IF s.names[1] \notin DOMAIN g.labels THEN Failed(g) ELSE Jump(g.labels[s.names[1]], g)

Break(g) ==
    IF g.breaks = <<>> THEN Failed(g)
    ELSE [Jump(Last(g.breaks), g) EXCEPT !.breaks[Len(g.breaks)].useCount = @ + 1]

Continue(g) ==
    IF g.continues = <<>> THEN Failed(g) ELSE Jump(Last(g.continues), g)

Throw(s, env, g) ==
    [Emit(Expression(s, "always", env, g), [op |-> "unreachable"]) EXCEPT !.terminated = TRUE]

(* The nth statement inside s, if it is there, generated in a block of its *)
(* own that continues in mergeBlock when its end is reached.               *)
Branch(s, n, block, mergeBlock, env, g) ==
    LET at   == [SetInsertPoint(g, block) EXCEPT !.terminated = FALSE]
        body == IF n > Len(s.body) THEN at ELSE Statement(s.body[n], env, at)
    IN  IF body.terminated THEN body ELSE Br(body, mergeBlock)

(* The names of an if or a while are the variables its condition declares. *)
If(s, env, g) ==
    LET env2   == Declared(env, Locals(s.names))
        bound  == Binding([s EXCEPT !.temps = <<>>], env, g)
        cond   == NewBlock(NewBlock(NewBlock(Expression(s, s.raises, env2, bound))))
        merge  == Len(cond.code)
        split  == Emit(cond, [op |-> "condbr", to |-> {merge - 2, merge - 1}])
        then   == Branch(s, 1, merge - 2, merge, env2, split)
        else   == Branch(s, 2, merge - 1, merge, env2, then)
        terminated  == then.terminated /\ else.terminated
        joined == IF terminated THEN else ELSE SetInsertPoint(else, merge)
    IN  [EndScope(MarkStack(g), terminated, joined) EXCEPT !.terminated = terminated]

While(s, env, g) ==
    LET env2      == Declared(env, Locals(s.names))
        begun     == NewBlock(NewBlock(NewBlock(NewBlock(g))))
        begin     == Len(g.code) + 1
        bodyBlock == begin + 1
        continue  == begin + 2
        end       == begin + 3
        forever   == s.kind = "whiletrue"
        bound     == Binding([s EXCEPT !.temps = <<>>], env, SetInsertPoint(Br(begun, begin), begin))
        cond      == Emit(Expression(s, IF forever THEN "never" ELSE s.raises, env2, bound),
                          [op |-> "condbr",
                           to |-> IF forever THEN {bodyBlock} ELSE {bodyBlock, end}])
        inside    == [cond EXCEPT !.breaks    = Append(@, JumpTarget(end, MarkStack(cond))),
                                  !.continues = Append(@, JumpTarget(continue, MarkStack(cond)))]
        body      == Branch(s, 1, bodyBlock, continue, env2, inside)
        again     == Br(DestroyStack(MarkStack(g), SetInsertPoint(body, continue), FALSE), begin)
        after     == SetInsertPoint([again EXCEPT !.breaks = Front(@), !.continues = Front(@)],
                                    end)
        terminated     == forever /\ Last(again.breaks).useCount = 0
    IN  [EndScope(MarkStack(g), terminated,
                  IF terminated THEN Emit(after, [op |-> "unreachable"]) ELSE after)
            EXCEPT !.terminated = terminated]

(* The catch clauses arrive as one statement that reads the exception and  *)
(* tests it (desugarCatchBlocks); names[1] is the name of the try.         *)
Try(s, env, g) ==
    IF ~g.exceptionsEnabled THEN Statement(s.body[1], env, g)
    ELSE LET begun   == NewBlock(NewBlock(g))
             begin   == Len(g.code) + 1
             end     == begin + 1
             inside  == [begun EXCEPT !.exceptionTargets =
                            Append(@, JumpTarget(begin, MarkStack(g)))]
             tried   == Branch(s, 1, g.at, end,
                               [env EXCEPT !.handler = s.names[1]], inside)
             outside == SetInsertPoint([tried EXCEPT !.exceptionTargets = Front(@)], begin)
             caught  == Branch(s, 2, begin, end, env,
                               Emit(outside, [op |-> "catch", handler |-> s.names[1]]))
             terminated   == tried.terminated /\ caught.terminated
         IN  [(IF terminated THEN caught ELSE SetInsertPoint(caught, end)) EXCEPT !.terminated = terminated]

(* ..for instantiates its body once per value and leaves the values on the *)
(* stack for the enclosing block.                                          *)
StaticFor(s, env, g) ==
    FoldLeft(LAMBDA h, t : IF h.terminated THEN h ELSE Statement(s.body[1], env, h),
             [AsRef(s, env, g) EXCEPT !.terminated = FALSE], s.temps)

(* An expression statement that calls a procedure compiled in line: it has *)
(* a return target of its own and the exception target of its caller.      *)
Inline(s, env, g) ==
    LET args     == NewBlock(AsRef(s, env, g))
        return   == Len(args.code)
        inside   == [args EXCEPT !.returnTargets = Append(@, JumpTarget(return, MarkStack(args)))]
        body     == Statement(s.body[1], env, inside)
        returned == IF body.terminated THEN body
                    ELSE Br(DestroyStack(MarkStack(args), body, FALSE), return)
        after    == [PopStack(MarkStack(args), SetInsertPoint(returned, return))
                        EXCEPT !.returnTargets = Front(@), !.terminated = FALSE]
    IN  DestroyAndPopStack(MarkStack(g), after, FALSE)

Guard(s, env, g) ==
    [PushStack(Entry(s.kind, s.names[1], s.body, env),
               Emit(g, [op |-> "arm", entry |-> <<s.kind, s.names[1]>>]))
        EXCEPT !.terminated = FALSE]

Statement(s, env, g) ==
    CASE s.kind = "block"                  -> Block(s, env, g)
      [] s.kind = "expr"                   ->
            [Expression(s, s.raises, env, g) EXCEPT !.terminated = FALSE]
      [] s.kind = "return"                 -> Return(s, env, g)
      [] s.kind = "goto"                   -> Goto(s, g)
      [] s.kind = "break"                  -> Break(g)
      [] s.kind = "continue"               -> Continue(g)
      [] s.kind = "throw"                  -> Throw(s, env, g)
      [] s.kind = "if"                     -> If(s, env, g)
      [] s.kind \in {"while", "whiletrue"} -> While(s, env, g)
      [] s.kind = "try"                    -> Try(s, env, g)
      [] s.kind = "staticfor"              -> StaticFor(s, env, g)
      [] s.kind = "inline"                 -> Inline(s, env, g)
      [] s.kind \in {"finally", "onerror"} -> Guard(s, env, g)

(* codegenCodeBody: block 1 is the entry, 2 the return, 3 the exception.   *)
CodeBody(body, exceptionsEnabled) ==
    LET start == [code |-> <<<<>>, <<[op |-> "return"]>>, <<[op |-> "unwind"]>>>>, at |-> 1,
                  valueStack |-> <<>>, breaks |-> <<>>, continues |-> <<>>,
                  returnTargets |-> <<JumpTarget(2, 0)>>,
                  exceptionTargets |-> <<JumpTarget(3, 0)>>,
                  labels |-> [n \in {} |-> 0], checkExceptions |-> TRUE,
                  exceptionsEnabled |-> exceptionsEnabled,
                  terminated |-> FALSE, error |-> FALSE]
        g     == Statement(body, [scope |-> <<>>, handler |-> "caller"], start)
    IN  IF g.terminated THEN g ELSE Br(DestroyStack(0, g, FALSE), 2)
=============================================================================
