---------------------------- MODULE GeneratedCode ---------------------------
(***************************************************************************)
(* The code of one procedure being executed: the basic blocks that         *)
(* codegen.cpp built for it, every call free to return or to raise, every  *)
(* condition free to go either way.  live is what has been constructed or  *)
(* armed and not cleaned up yet; the program has no such variable, its     *)
(* destructors are called because the code says so.                        *)
(***************************************************************************)
EXTENDS Naturals, Sequences, SequencesExt

CONSTANTS
    Procedures,     \* compiled procedures: [code, exceptionsEnabled]
    Entries,        \* what a procedure may construct or arm
    Corrupt         \* what live shows after a destructor ran on the wrong thing

ASSUME CorruptAssumption == Corrupt \notin Entries

VARIABLES
    procedure, \* the one that runs
    pc,       \* [block, index] of the next instruction
    live,     \* what is alive, oldest first
    raised,   \* an exception is on its way
    handler,  \* the try whose clauses the text of the program says it goes to
    lost,     \* the tries that an exception was raised in and never left
    ended     \* "running", "returned", "raised" or "aborted"

vars == <<procedure, pc, live, raised, handler, lost, ended>>

Instructions(b) == procedure.code[b]

Running(op) == /\ ended = "running"
               /\ pc.index <= Len(Instructions(pc.block))
               /\ Instructions(pc.block)[pc.index].op = op

Instruction == Instructions(pc.block)[pc.index]

At(block) == [block |-> block, index |-> 1]

Following == [pc EXCEPT !.index = @ + 1]

Released(e) == IF live # <<>> /\ Last(live) = e THEN Front(live) ELSE Append(live, Corrupt)

-----------------------------------------------------------------------------
Init ==
    /\ procedure \in Procedures
    /\ pc = At(1)
    /\ live = <<>>
    /\ raised = FALSE
    /\ handler = "caller"
    /\ lost = {}
    /\ ended = "running"

(* The callee constructs its result before it returns.                     *)
CallReturns ==
    /\ Running("call")
    /\ Instruction.raises # "always"
    /\ live' = live \o Instruction.makes
    /\ pc' = IF Instruction.landing = 0 THEN Following ELSE At(Instruction.normal)
    /\ UNCHANGED <<procedure, raised, handler, lost, ended>>

CallRaises ==
    /\ Running("call")
    /\ Instruction.raises # "never"
    /\ Instruction.landing # 0
    /\ pc' = At(Instruction.landing)
    /\ raised' = TRUE
    /\ handler' = Instruction.handler
    /\ UNCHANGED <<procedure, live, lost, ended>>

(* Without a landing block the result of the call is not looked at.        *)
CallRaisesUnchecked ==
    /\ Running("call")
    /\ Instruction.raises # "never"
    /\ Instruction.landing = 0
    /\ procedure.exceptionsEnabled
    /\ pc' = Following
    /\ lost' = lost \cup {Instruction.handler}
    /\ UNCHANGED <<procedure, live, raised, handler, ended>>

(* throwValue in a build without exceptions.                               *)
ThrowAborts ==
    /\ Running("call")
    /\ Instruction.raises = "always"
    /\ ~procedure.exceptionsEnabled
    /\ ended' = "aborted"
    /\ UNCHANGED <<procedure, pc, live, raised, handler, lost>>

Arm == /\ Running("arm")
       /\ live' = Append(live, Instruction.entry)
       /\ pc' = Following
       /\ UNCHANGED <<procedure, raised, handler, lost, ended>>

(* A destructor is called, or the body of a guard begins.                  *)
Clean == /\ Running("clean")
         /\ live' = Released(Instruction.entry)
         /\ pc' = Following
         /\ UNCHANGED <<procedure, raised, handler, lost, ended>>

(* An onerror statement is passed by: no code, the scope has ended well.   *)
Disarm == /\ Running("disarm")
          /\ live' = Released(Instruction.entry)
          /\ pc' = Following
          /\ UNCHANGED <<procedure, raised, handler, lost, ended>>

TakeBranch == /\ Running("br")
          /\ pc' = At(Instruction.to)
          /\ UNCHANGED <<procedure, live, raised, handler, lost, ended>>

TakeCondBranch == /\ Running("condbr")
              /\ \E b \in Instruction.to : pc' = At(b)
              /\ UNCHANGED <<procedure, live, raised, handler, lost, ended>>

EnterCatch == /\ Running("catch")
         /\ raised' = FALSE
         /\ pc' = Following
         /\ UNCHANGED <<procedure, live, handler, lost, ended>>

ReturnNormally == /\ Running("return")
          /\ ended' = "returned"
          /\ UNCHANGED <<procedure, pc, live, raised, handler, lost>>

ReturnException == /\ Running("unwind")
          /\ ended' = "raised"
          /\ UNCHANGED <<procedure, pc, live, raised, handler, lost>>

Stopped == ended # "running" /\ UNCHANGED vars

Next == \/ CallReturns \/ CallRaises \/ CallRaisesUnchecked \/ ThrowAborts
        \/ Arm \/ Clean \/ Disarm \/ TakeBranch \/ TakeCondBranch \/ EnterCatch
        \/ ReturnNormally \/ ReturnException \/ Stopped

Spec == Init /\ [][Next]_vars

-----------------------------------------------------------------------------
(* Every variable has its type: in particular no destructor has run on     *)
(* something other than the youngest living thing.                         *)
TypeOK ==
    /\ pc.block \in DOMAIN procedure.code
    /\ pc.index \in 1..(Len(Instructions(pc.block)) + 1)
    /\ live \in Seq(Entries)
    /\ raised \in BOOLEAN
    /\ ended \in {"running", "returned", "raised", "aborted"}

(* The generated code keeps the promise of ScopeCleanup: whatever was      *)
(* constructed is destroyed exactly once, last in first out, on every way  *)
(* out of the procedure (cgDestroyStack and the stack markers).            *)
Promise == INSTANCE ScopeCleanup WITH done <- ended \in {"returned", "raised"}

ImplementsScopeCleanup == Promise!Spec

(* When a call is made, the variables and guards that are alive are those  *)
(* the enclosing blocks have declared so far: nothing is destroyed early   *)
(* by a jump, and nothing lives past the end of its block.                 *)
LiveMatchesScope ==
    Running("call") => SelectSeq(live, LAMBDA e : e[1] # "temp") = Instruction.scope

(* An onerror body runs only while an exception unwinds its block and is   *)
(* passed by only when none does (codegenStackEntryDestroy).               *)
GuardsKeepTheirPromise ==
    /\ Running("disarm") => ~raised
    /\ Running("clean") /\ Instruction.entry[1] = "onerror" => raised

(* An exception arrives at the clauses of the innermost try around the     *)
(* call, an exception raised in a catch clause at those of the next one    *)
(* out, and one without a try at the caller (exceptionTargets).            *)
CaughtByInnermost ==
    /\ Running("catch") => raised /\ handler = Instruction.handler
    /\ Running("unwind") => raised /\ handler = "caller"
    /\ Running("return") => ~raised

(* An exception leaves the procedure on the path that its guards and try   *)
(* statements prescribe.                                                   *)
ExceptionsTakeTheirPath == GuardsKeepTheirPromise /\ CaughtByInnermost

(* The end of a block the generator believed unreachable is never reached, *)
(* and no block ends without a jump: terminated means terminated.          *)
NeverFallsThrough ==
    ended = "running" => /\ pc.index <= Len(Instructions(pc.block))
                         /\ ~Running("unreachable")

(* Control and the things alive agree with the text: the call made is one  *)
(* that the blocks around it lead to, with what they have declared.        *)
ControlFollowsScopes == LiveMatchesScope /\ NeverFallsThrough

(* An exception raised inside a try block is tested against its clauses.   *)
TryCatchesEverything == lost \subseteq {"caller"}
=============================================================================
