----------------------------- MODULE Analyzer -----------------------------
(***************************************************************************)
(* Inference of return types through recursive calls: analyzeCallable,     *)
(* analyzeCodeBody, analyzeCallByName, analyzeStatement and the callers    *)
(* safeAnalyzeCallable and analyzeGVarInstance of compiler/analyzer.cpp.   *)
(*                                                                         *)
(* An invoke entry's return type is that of the return statements of its   *)
(* body.  A call of an entry whose body is being analyzed has no type yet  *)
(* (a null result): the statement is given up, marked recursive, and the   *)
(* other statements may still supply the type.  An entry left without a    *)
(* type is analyzed again at its next call.  `stack` holds the bodies      *)
(* under analysis, each being the body of an entry or the expansion of an  *)
(* alias (a call-by-name procedure) in the body below it.                  *)
(***************************************************************************)
EXTENDS Naturals, Sequences, SequencesExt, FiniteSets

CONSTANTS
    Entries,        \* invoke entries, global variable instances included
    Types,          \* return types of literals
    Programs,       \* what the entries' code is, see ProgramType
    MaxRequests,    \* bound on the entries asked for from outside
    Null, Nothing   \* no type yet; none

Returns == Types \cup {"void"}

Expressions == Types \cup Entries

(* A statement has one part, or two if it is an `if` or `try`; a part returns or
   binds the value of an expression, terminates, or does nothing of interest. *)
Parts == ({"return", "bind"} \X Expressions) \cup {<<"throw", Nothing>>, <<"skip", Nothing>>}

IsStatement(s) ==
    \/ s.kind \in {"plain", "while"} /\ s.parts \in [1 .. 1 -> Parts]
    \/ s.kind = "if" /\ s.parts \in [1 .. 2 -> Parts]

(* code     : Entries -> its body, a non-empty sequence of statements
   declared : Entries -> its declared return type, or Nothing
   interface: Entries -> the return type its callable's interface declares, or Nothing
   alias    : the call-by-name entries
   repl     : errors return to the REPL instead of ending the compiler *)
ProgramType(p) ==
    /\ DOMAIN p.code = Entries
    /\ \A e \in Entries : /\ p.code[e] \in Seq(Range(p.code[e]))
                          /\ p.code[e] # <<>>
                          /\ \A s \in Range(p.code[e]) : IsStatement(s)
    /\ p.declared \in [Entries -> Returns \cup {Nothing}]
    /\ p.interface \in [Entries -> Returns \cup {Nothing}]
    /\ p.alias \subseteq Entries
    /\ p.repl \in BOOLEAN

ASSUME AnalyzerAssumption ==
    /\ \A p \in Programs : ProgramType(p)
    /\ Returns \cap Entries = {}
    /\ {Null, Nothing} \cap (Returns \cup Entries) = {}
    /\ Null # Nothing
    /\ MaxRequests \in Nat

(* The entries of one compilation, and the types of its literals. *)
ASSUME FiniteAssumption == IsFiniteSet(Entries) /\ IsFiniteSet(Types)

VARIABLES
    program,
    analyzed,       \* InvokeEntry::analyzed
    analyzing,      \* InvokeEntry::analyzing
    returnType,     \* InvokeEntry::returnTypes, Nothing before it is known
    stack,          \* bodies under analysis, innermost last
    asked,          \* the entry last asked for from outside
    requests,       \* how many were
    error           \* the last error: "none", "recursion", "mismatch" or "interface"

vars == <<program, analyzed, analyzing, returnType, stack, asked, requests, error>>

Results == {"FALLTHROUGH", "RECURSIVE", "TERMINATED"}

ASSUME ResultsAssumption == Nothing \notin Results

(* A body under analysis: its entry, the statement and part it has come to, the
   result of the part before, the value of the expression in hand once it has one,
   and the AnalysisContext: the return type so far and hasRecursivePropagation. *)
Frames ==
    [entry : Entries, at : Nat \ {0}, part : {1, 2}, first : Results,
     value : Returns \cup {Null, Nothing}, result : Results \cup {Nothing},
     type : Returns \cup {Nothing}, recursive : BOOLEAN]

Body(e) ==
    [entry |-> e, at |-> 1, part |-> 1, first |-> "FALLTHROUGH", value |-> Nothing,
     result |-> Nothing, type |-> Nothing, recursive |-> FALSE]

TypeOK ==
    /\ analyzed \in [Entries -> BOOLEAN]
    /\ analyzing \in [Entries -> BOOLEAN]
    /\ returnType \in [Entries -> Returns \cup {Nothing}]
    /\ \A e \in Entries : analyzed[e] => returnType[e] # Nothing
    /\ stack \in Seq(Frames)
    /\ asked \in Entries \cup {Nothing}
    /\ requests \in 0 .. MaxRequests
    /\ error \in {"none", "recursion", "mismatch", "interface"}

Init ==
    /\ program \in Programs
    /\ analyzed = [e \in Entries |-> FALSE]
    /\ analyzing = [e \in Entries |-> FALSE]
    /\ returnType = [e \in Entries |-> Nothing]
    /\ stack = <<>>
    /\ asked = Nothing
    /\ requests = 0
    /\ error = "none"

Top == Last(stack)

Replace(frame) == Append(Front(stack), frame)

Alias(e) == e \in program.alias

Statement == program.code[Top.entry][Top.at]

Part == Statement.parts[Top.part]

(* error(): the compiler ends; in the REPL everything under analysis is dropped,
   and the flags of the entries stay as they are. *)
Raise(kind) ==
    /\ error' = kind
    /\ stack' = IF program.repl THEN <<>> ELSE stack
    /\ UNCHANGED <<program, analyzed, analyzing, returnType, asked, requests>>

Running == stack # <<>> /\ (error = "none" \/ program.repl)

(***************************************************************************)
(* analyzeCallable.                                                        *)
(***************************************************************************)
\* Mutant: the body of an entry is analyzed again while it is being analyzed.
KnownIfAnalyzed(e) == ~Alias(e) /\ analyzed[e]
(* The entry is returned as it is: analyzed, or being analyzed. *)
Known(e) == ~Alias(e) /\ (analyzed[e] \/ analyzing[e])

(* analyzeCodeBody of an entry with declared return types. *)
Declared(e) == ~Known(e) /\ program.declared[e] # Nothing

\* Mutant: an entry with declared return types is not marked.
MarkDeclaredTypeOnly(e) ==
    returnType' = [returnType EXCEPT ![e] = program.declared[e]] /\ UNCHANGED analyzed
MarkDeclared(e) ==
    /\ returnType' = [returnType EXCEPT ![e] = program.declared[e]]
    /\ analyzed' = [analyzed EXCEPT ![e] = TRUE]

(* The start of a body. *)
Begin(e, below) ==
    /\ analyzing' = [analyzing EXCEPT ![e] = ~Alias(e)]
    /\ stack' = Append(below, Body(e))

(* safeAnalyzeCallable, asked for an entry by code generation or evaluation. *)
Request(e) ==
    /\ stack = <<>>
    /\ error = "none" \/ program.repl
    /\ requests < MaxRequests
    /\ ~Alias(e)
    /\ IF ~Known(e) /\ ~Declared(e)
         THEN Begin(e, <<>>) /\ error' = "none" /\ UNCHANGED <<analyzed, returnType>>
         ELSE /\ IF Declared(e) THEN MarkDeclared(e) ELSE UNCHANGED <<analyzed, returnType>>
              /\ error' = IF analyzed'[e] THEN "none" ELSE "recursion"
              /\ UNCHANGED <<analyzing, stack>>
    /\ asked' = e
    /\ requests' = requests + 1
    /\ UNCHANGED program

(***************************************************************************)
(* Expressions.                                                            *)
(***************************************************************************)
Calls(part) == part[1] \in {"return", "bind"} /\ part[2] \in Entries

\* Mutant: an entry without a type is taken to return nothing.
VoidIfUnknown(e) == IF analyzed'[e] THEN returnType'[e] ELSE "void"
ResultOf(e) == IF analyzed'[e] THEN returnType'[e] ELSE Null

(* analyzeCallExpr: the call of an entry that need not be analyzed. *)
CallKnown ==
    /\ Running
    /\ Top.result = Nothing
    /\ Calls(Part) /\ Top.value = Nothing
    /\ LET e == Part[2]
       IN  /\ Known(e) \/ Declared(e)
           /\ IF Declared(e) /\ ~Alias(e) THEN MarkDeclared(e) ELSE UNCHANGED <<analyzed, returnType>>
           /\ stack' = Replace([Top EXCEPT !.value = IF Declared(e) /\ Alias(e) THEN program.declared[e]
                                                     ELSE ResultOf(e)])
    /\ UNCHANGED <<program, analyzing, asked, requests, error>>

(* The call of an entry that is analyzed first, or of an alias, which is expanded. *)
CallUnknown ==
    /\ Running
    /\ Top.result = Nothing
    /\ Calls(Part) /\ Top.value = Nothing
    /\ ~Known(Part[2]) /\ ~Declared(Part[2])
    /\ Begin(Part[2], stack)
    /\ UNCHANGED <<program, analyzed, returnType, asked, requests, error>>

(***************************************************************************)
(* analyzeStatement.                                                       *)
(***************************************************************************)
\* Mutant: a branch given up hides that the other falls through.
CombineRecursive(a, b) ==
    IF "RECURSIVE" \in {a, b} THEN "RECURSIVE" ELSE IF "FALLTHROUGH" \in {a, b} THEN "FALLTHROUGH" ELSE "TERMINATED"
(* combineStatementAnalysis *)
Combine(a, b) ==
    IF "FALLTHROUGH" \in {a, b} THEN "FALLTHROUGH"
    ELSE IF a = b THEN a ELSE "TERMINATED"

\* Mutant: a loop is analyzed until its body no longer falls through.
NextInLoop(frame) == IF program.code[frame.entry][frame.at].kind = "while" THEN frame.at ELSE frame.at + 1
NextStatement(frame) == frame.at + 1

(* The part in hand has the given result: on to the second part of an `if`, or to
   the next statement of the block, or out of the block. *)
Advance(frame, result) ==
    IF Statement.kind = "if" /\ frame.part = 1
    THEN [frame EXCEPT !.part = 2, !.first = result, !.value = Nothing]
    ELSE LET whole == IF Statement.kind = "if" THEN Combine(frame.first, result)
                      ELSE IF Statement.kind = "while" THEN "FALLTHROUGH" ELSE result
         IN  IF whole # "FALLTHROUGH" \/ frame.at = Len(program.code[frame.entry])
             THEN [frame EXCEPT !.result = whole]
             ELSE [frame EXCEPT !.at = NextStatement(frame), !.part = 1, !.value = Nothing]

Value == IF Calls(Part) THEN Top.value ELSE Part[2]

Evaluated == Running /\ Top.result = Nothing /\ Value # Nothing

(* A part without an expression. *)
PassPart ==
    /\ Running
    /\ Top.result = Nothing
    /\ Part[1] \in {"throw", "skip"}
    /\ stack' = Replace(Advance(Top, IF Part[1] = "throw" THEN "TERMINATED" ELSE "FALLTHROUGH"))
    /\ UNCHANGED <<program, analyzed, analyzing, returnType, asked, requests, error>>

(* The value has no type yet: the statement is given up. *)
GiveUp ==
    /\ Evaluated
    /\ Value = Null
    /\ stack' = Replace(Advance([Top EXCEPT !.recursive = TRUE], "RECURSIVE"))
    /\ UNCHANGED <<program, analyzed, analyzing, returnType, asked, requests, error>>

BindValue ==
    /\ Evaluated
    /\ Part[1] = "bind"
    /\ Value # Null
    /\ stack' = Replace(Advance(Top, "FALLTHROUGH"))
    /\ UNCHANGED <<program, analyzed, analyzing, returnType, asked, requests, error>>

ReturnValue ==
    /\ Evaluated
    /\ Part[1] = "return"
    /\ Value # Null
    /\ Top.type \in {Nothing, Value}
    /\ stack' = Replace(Advance([Top EXCEPT !.type = Value], "TERMINATED"))
    /\ UNCHANGED <<program, analyzed, analyzing, returnType, asked, requests, error>>

ReturnMismatch ==
    /\ Evaluated
    /\ Part[1] = "return"
    /\ Value # Null
    /\ Top.type \notin {Nothing, Value}
    /\ Raise("mismatch")

(***************************************************************************)
(* The end of analyzeCodeBody and analyzeCallByName.                       *)
(***************************************************************************)
\* Mutant: a body given up everywhere is taken to return nothing.
NeverUntyped(frame) == FALSE
Untyped(frame) == frame.result = "RECURSIVE" /\ frame.type = Nothing

(* analysisError: only statements given up kept the body from returning a type. *)
BaseCaseMissing(frame) == frame.result = "TERMINATED" /\ frame.type = Nothing /\ frame.recursive

\* Mutant: a body without a return statement leaves the return types unset.
InferredAsIs(frame) == frame.type
Inferred(frame) == IF frame.type = Nothing THEN "void" ELSE frame.type

(* The value reaches the statement that made the call; if there is none,
   safeAnalyzeCallable looks at it. *)
Deliver(value) ==
    IF Len(stack) = 1
    THEN stack' = <<>> /\ error' = IF value = Null THEN "recursion" ELSE error
    ELSE /\ stack' = Append(Front(Front(stack)), [Last(Front(stack)) EXCEPT !.value = value])
         /\ UNCHANGED error

ClearAnalyzing(e) == [analyzing EXCEPT ![e] = FALSE]

Finished == Running /\ Top.result # Nothing

LeaveUntyped ==
    /\ Finished
    /\ Untyped(Top)
    /\ UNCHANGED <<analyzed, returnType>>
    /\ analyzing' = ClearAnalyzing(Top.entry)
    /\ Deliver(Null)
    /\ UNCHANGED <<program, asked, requests>>

NoBaseCase ==
    /\ Finished
    /\ BaseCaseMissing(Top)
    /\ Raise("recursion")

Conforms(e, type) == Alias(e) \/ program.interface[e] \in {Nothing, type}

(* unifyInterfaceReturns *)
WrongInterface ==
    /\ Finished
    /\ ~Untyped(Top) /\ ~BaseCaseMissing(Top)
    /\ ~Conforms(Top.entry, Inferred(Top))
    /\ Raise("interface")

FinishEntry ==
    /\ Finished
    /\ ~Untyped(Top) /\ ~BaseCaseMissing(Top)
    /\ Conforms(Top.entry, Inferred(Top))
    /\ IF Alias(Top.entry) THEN UNCHANGED <<analyzed, returnType>>
       ELSE /\ returnType' = [returnType EXCEPT ![Top.entry] = Inferred(Top)]
            /\ analyzed' = [analyzed EXCEPT ![Top.entry] = TRUE]
    /\ analyzing' = ClearAnalyzing(Top.entry)
    /\ Deliver(Inferred(Top))
    /\ UNCHANGED <<program, asked, requests>>

Step ==
    \/ CallKnown \/ CallUnknown \/ PassPart \/ GiveUp \/ BindValue \/ ReturnValue \/ ReturnMismatch
    \/ LeaveUntyped \/ NoBaseCase \/ WrongInterface \/ FinishEntry

Next == Step \/ \E e \in Entries : Request(e)

(* The compiler is sequential and goes on with what it is analyzing. *)
Spec == Init /\ [][Next]_vars /\ WF_vars(Step)

(***************************************************************************)
(* Properties.                                                             *)
(***************************************************************************)
(* The parts of the first statements of a body, up to one that is not passed. *)
PartsReached(body, passed) ==
    UNION {Range(body[i].parts) : i \in {i \in DOMAIN body : \A j \in 1 .. i - 1 : body[j] \in passed}}

(* What control can come to, whatever calls do. *)
ReachableParts(body) ==
    PartsReached(body, {s \in Range(body) :
        s.kind = "while" \/ \E part \in Range(s.parts) : part[1] \in {"bind", "skip"}})

(* What is known of returns: `below` has pairs <<e, t>> of an entry and a type that
   it can return.  A value that is evaluated; the statements that can be passed, and
   the parts that can be come to. *)
Returning(x, below) == x \in Types \/ \E t \in Returns : <<x, t>> \in below

Falls(part, below) == part[1] = "skip" \/ (part[1] = "bind" /\ Returning(part[2], below))

Passed(body, below) ==
    {s \in Range(body) : s.kind = "while" \/ \E part \in Range(s.parts) : Falls(part, below)}

Reached(body, below) == PartsReached(body, Passed(body, below))

(* A return statement is reached that gives the type, or the end of the body. *)
CanReturn(body, t, below) ==
    \/ \E part \in Reached(body, below) :
          part[1] = "return" /\ (part[2] = t \/ <<part[2], t>> \in below)
    \/ t = "void" /\ Range(body) \subseteq Passed(body, below)

(* A body without return statements may throw: it is taken to return nothing. *)
OnlyThrows(body, below) ==
    /\ <<"throw", Nothing>> \in Reached(body, below)
    /\ \A part \in ReachableParts(body) : part[1] # "return"

WithOneMoreCall(p, below) ==
    {q \in {<<e, t>> : e \in Entries, t \in Returns} :
        IF p.declared[q[1]] # Nothing THEN q[2] = p.declared[q[1]]
        ELSE \/ CanReturn(p.code[q[1]], q[2], below)
             \/ q[2] = "void" /\ OnlyThrows(p.code[q[1]], below)}

(* The pairs <<e, t>> such that entry e of program p can return type t when calls
   nest less than n deep. *)
TypesWithin(p, n) ==
    LET within[k \in Nat] == IF k = 0 THEN {} ELSE WithOneMoreCall(p, within[k - 1])
    IN  within[n]

PossibleTypes(p) == TypesWithin(p, Cardinality(Entries \X Returns))

CalledBy(p, e) ==
    {x \in Entries : \E s \in Range(p.code[e]) : \E part \in Range(s.parts) : Calls(part) /\ part[2] = x}

(* The pairs <<x, y>> such that x calls y, directly or not: y is in every set that
   has what x calls and what its members call. *)
CallPaths(p) ==
    {q \in Entries \X Entries :
        \A C \in SUBSET Entries :
            CalledBy(p, q[1]) \subseteq C /\ (\A e \in C : CalledBy(p, e) \subseteq C) => q[2] \in C}

(* analyzeCodeBody: whatever statements were given up because of recursion, and in
   whatever order entries were asked for, the type inferred for an entry comes from
   a base case: some chain of return statements ends in a value of that type. *)
TypeFromBaseCase ==
    \A e \in Entries : analyzed[e] => <<e, returnType[e]>> \in PossibleTypes(program)

(* Two return statements are told to disagree only if some entry really can return
   two types: a call that has no type yet is never taken for one of another type. *)
MismatchIsReal ==
    error = "mismatch" =>
        \E q, r \in PossibleTypes(program) : q[1] = r[1] /\ q[2] # r[2]

(* A body is never under analysis twice at once, and outside the REPL the analyzing
   flags are those of the bodies under analysis. *)
EachBodyOnce ==
    /\ \A i, j \in 1 .. Len(stack) : stack[i].entry = stack[j].entry /\ ~Alias(stack[i].entry) => i = j
    /\ \A i \in 1 .. Len(stack) : ~Alias(stack[i].entry) => analyzing[stack[i].entry]
    /\ ~program.repl => \A e \in Entries : analyzing[e] => \E i \in 1 .. Len(stack) : stack[i].entry = e

(* Outside the REPL, "type propagation failed due to recursion" is reported only
   if the entry asked for does call, directly or not, an entry that calls itself. *)
RecursionErrorIsRecursion ==
    error = "recursion" /\ ~program.repl =>
        \E e \in Entries : /\ <<e, e>> \in CallPaths(program)
                           /\ e = asked \/ <<asked, e>> \in CallPaths(program)

(* The two errors that inference itself raises are told of programs that have them,
   whatever was given up on the way. *)
ErrorsAreReal == MismatchIsReal /\ RecursionErrorIsRecursion

(* An entry with a base case of its own, a return statement or an end that is reached
   without a call, is not left without a type, whatever other statements are given
   up.  (That its body may throw is no base case: a statement given up after the throw
   leaves the entry without a type.) *)
OwnBaseCaseSuffices ==
    [][\A e \in Entries :
          analyzing[e] /\ ~analyzing'[e] /\ ~analyzed'[e] =>
              \A t \in Returns : ~CanReturn(program.code[e], t, {})]_vars

(* An analysis comes to an end although entries left without a type are analyzed
   again at every call. *)
AnalysisEnds == stack # <<>> ~> stack = <<>> \/ error # "none"

=============================================================================
