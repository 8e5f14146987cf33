------------------------ MODULE InvokeTablesProofs ------------------------
(* Theorems about InvokeTables, for every program, callable and set of flags:
   the memo tables of the invoke sets are consistent, the flags that refuse
   predicate loops are those of the active lookups, however lookups nest, and what
   the tables answer is what matching the overloads afresh would find. *)
EXTENDS InvokeTables, DataLemmas

Frames == [set : Sets, flags : Flags, doing : {"interface", "entries", "final"},
           i : Nat, index : Nat, answer : {"none", "defined", "undefined"}]

(***************************************************************************)
(* The inductive invariant.                                                *)
(***************************************************************************)
(* The declarations and the lists overloads are registered in. *)
Declarations ==
    /\ program \in Programs
    /\ live \in [Callables \cup {Nothing} -> Seq(Overloads)]

(* The tables of each set: what was tried is a prefix of the copied list, at most
   that much matched, and both maps hold entries of overloads that matched. *)
TablesOK ==
    /\ created \subseteq Sets
    /\ overloads \in [Sets -> Seq(Overloads)]
    /\ matches \in [Sets -> Seq(Overloads)]
    /\ next \in [Sets -> Nat]
    /\ DOMAIN byFlags = Sets /\ DOMAIN byKey = Sets
    /\ \A s \in Sets :
          /\ next[s] <= Len(overloads[s])
          /\ Len(matches[s]) <= next[s]
          /\ \A k \in 1 .. Len(matches[s]) :
                \E j \in 1 .. Len(overloads[s]) : overloads[s][j] = matches[s][k]
          /\ DOMAIN byFlags[s] = Flags
          /\ \A r \in Flags : byFlags[s][r] = Nothing \/ byFlags[s][r].overload \in ToSet(matches[s])
          /\ \A e \in byKey[s] : e.overload \in ToSet(matches[s])
          /\ s \notin created => next[s] = 0 /\ matches[s] = <<>>

(* The active calls: each goes on behind what was tried in its set, which no
   other call is working on; and the flags that say so. *)
CallsOK ==
    /\ stack \in Seq(Frames)
    /\ evaluating \subseteq created
    /\ FlagsMatchStack
    /\ \A k \in 1 .. Len(stack) :
          stack[k].doing = "entries" => next[stack[k].set] <= stack[k].index

Inv ==
    /\ Declarations /\ TablesOK /\ CallsOK
    /\ outcome \in {"none", "defined", "undefined", "loop"}

LEMMA InvTypeOK == Inv => TypeOK
  <1> SUFFICES ASSUME Inv PROVE TypeOK
    OBVIOUS
  <1>1. ASSUME NEW s \in Sets
        PROVE  /\ overloads[s] \in Seq(Overloads)
               /\ next[s] \in 0 .. Len(overloads[s])
               /\ Len(matches[s]) <= next[s]
               /\ ToSet(matches[s]) \subseteq ToSet(overloads[s])
               /\ \A r \in Flags : byFlags[s][r] = Nothing \/ byFlags[s][r].overload \in ToSet(matches[s])
    <2>1. /\ overloads[s] \in Seq(Overloads) /\ matches[s] \in Seq(Overloads) /\ next[s] \in Nat
          /\ next[s] <= Len(overloads[s]) /\ Len(matches[s]) <= next[s]
          /\ \A k \in 1 .. Len(matches[s]) :
                \E j \in 1 .. Len(overloads[s]) : overloads[s][j] = matches[s][k]
          /\ \A r \in Flags : byFlags[s][r] = Nothing \/ byFlags[s][r].overload \in ToSet(matches[s])
      BY <1>1 DEF Inv, TablesOK
    <2>2. DOMAIN matches[s] = 1 .. Len(matches[s]) /\ DOMAIN overloads[s] = 1 .. Len(overloads[s])
      BY <2>1
    <2>3. ToSet(matches[s]) \subseteq ToSet(overloads[s])
      BY <2>1, <2>2 DEF ToSet
    <2>4. next[s] \in 0 .. Len(overloads[s])
      BY <2>1
    <2> QED
      BY <2>1, <2>3, <2>4
  <1> QED
    BY <1>1 DEF Inv, TablesOK, CallsOK, TypeOK, Frames

LEMMA InitInv == Init => Inv
  <1> SUFFICES ASSUME Init PROVE Inv
    OBVIOUS
  <1>1. Declarations
    BY DEF Init, Declarations
  <1>2. TablesOK
    BY DEF Init, TablesOK, ToSet
  <1>3. CallsOK
    BY DEF Init, CallsOK, FlagsMatchStack, Frames
  <1> QED
    BY <1>1, <1>2, <1>3 DEF Init, Inv

(***************************************************************************)
(* What the operations on the stack of calls preserve.                     *)
(***************************************************************************)
(* The top of the stack, when there is one. *)
LEMMA TopFacts ==
    ASSUME CallsOK, stack # <<>>
    PROVE  /\ Top \in Frames
           /\ Top = stack[Len(stack)]
           /\ Top.set \in evaluating
           /\ Front(stack) \in Seq(Frames)
           /\ Len(stack) \in Nat \ {0}
           /\ Len(Front(stack)) = Len(stack) - 1
           /\ \A k \in 1 .. Len(stack) - 1 : Front(stack)[k] = stack[k]
  <1>1. stack \in Seq(Frames)
    BY DEF CallsOK
  <1>2. /\ Top \in Frames
        /\ Top = stack[Len(stack)]
        /\ Front(stack) \in Seq(Frames)
        /\ Len(stack) \in Nat \ {0}
        /\ Len(Front(stack)) = Len(stack) - 1
        /\ \A k \in 1 .. Len(stack) - 1 : Front(stack)[k] = stack[k]
    BY <1>1, TopAndBelow DEF Top
  <1>3. Top.set \in evaluating
    BY <1>2 DEF CallsOK, FlagsMatchStack
  <1> QED
    BY <1>2, <1>3

(* SetTop: the innermost call goes on, in the same set. *)
LEMMA SetTopOK ==
    ASSUME CallsOK, stack # <<>>, NEW f \in Frames, SetTop(f), f.set = Top.set,
           UNCHANGED <<created, evaluating>>,
           \A s \in Sets \ {Top.set} : next'[s] = next[s],
           f.doing = "entries" => next'[f.set] <= f.index
    PROVE  CallsOK'
  <1>1. stack \in Seq(Frames)
    BY DEF CallsOK
  <1>2. /\ stack' \in Seq(Frames)
        /\ Len(stack') = Len(stack)
        /\ stack'[Len(stack)] = f
        /\ \A k \in 1 .. Len(stack) - 1 : stack'[k] = stack[k]
    BY <1>1, TopReplaced DEF SetTop
  <1>3. Len(stack) \in Nat \ {0} /\ Top = stack[Len(stack)]
    BY TopFacts
  <1>4. \A k \in 1 .. Len(stack) : stack'[k].set = stack[k].set
    BY <1>2, <1>3
  <1>5. FlagsMatchStack'
    BY <1>2, <1>4 DEF CallsOK, FlagsMatchStack
  <1>6. ASSUME NEW k \in 1 .. Len(stack'), stack'[k].doing = "entries"
        PROVE  next'[stack'[k].set] <= stack'[k].index
    <2>1. CASE k = Len(stack)
      BY <1>2, <1>6, <2>1
    <2>2. CASE k # Len(stack)
      <3>1. k \in 1 .. Len(stack) - 1 /\ stack'[k] = stack[k]
        BY <1>2, <1>3, <2>2
      <3>2. stack[k] \in Frames /\ stack[k].set # Top.set
        BY <1>1, <1>3, <3>1, <2>2 DEF CallsOK, FlagsMatchStack
      <3>3. stack[k].set \in Sets
        BY <3>2 DEF Frames
      <3> QED
        BY <1>6, <3>1, <3>2, <3>3 DEF CallsOK
    <2> QED
      BY <2>1, <2>2
  <1> QED
    BY <1>2, <1>5, <1>6 DEF CallsOK

(* What CallsOK says, of any stack of calls and set of flags. *)
Consistent(calls, flags) ==
    /\ calls \in Seq(Frames)
    /\ flags = {calls[k].set : k \in 1 .. Len(calls)}
    /\ \A j, k \in 1 .. Len(calls) : calls[j].set = calls[k].set => j = k
    /\ \A k \in 1 .. Len(calls) : calls[k].doing = "entries" => next[calls[k].set] <= calls[k].index

(* Below the top, the calls are those of the other flags. *)
LEMMA BelowConsistent ==
    ASSUME CallsOK, stack # <<>>
    PROVE  Consistent(Front(stack), evaluating \ {Top.set})
  <1>1. /\ Top = stack[Len(stack)]
        /\ Front(stack) \in Seq(Frames)
        /\ Len(stack) \in Nat \ {0}
        /\ Len(Front(stack)) = Len(stack) - 1
        /\ \A k \in 1 .. Len(stack) - 1 : Front(stack)[k] = stack[k]
    BY TopFacts
  <1> DEFINE below == Front(stack)
  <1>2. \A k \in 1 .. Len(below) : k \in 1 .. Len(stack) /\ below[k] = stack[k] /\ k # Len(stack)
    BY <1>1
  <1>3. /\ evaluating = {stack[k].set : k \in 1 .. Len(stack)}
        /\ \A j, k \in 1 .. Len(stack) : stack[j].set = stack[k].set => j = k
        /\ \A k \in 1 .. Len(stack) : stack[k].doing = "entries" => next[stack[k].set] <= stack[k].index
    BY DEF CallsOK, FlagsMatchStack
  <1>4. evaluating \ {Top.set} = {below[k].set : k \in 1 .. Len(below)}
    <2>1. ASSUME NEW x \in evaluating \ {Top.set}
          PROVE  \E k \in 1 .. Len(below) : below[k].set = x
      <3>1. PICK k \in 1 .. Len(stack) : stack[k].set = x
        BY <1>3
      <3>2. k \in 1 .. Len(below)
        BY <1>1, <2>1, <3>1
      <3> QED
        BY <1>2, <3>1, <3>2
    <2>2. ASSUME NEW k \in 1 .. Len(below)
          PROVE  below[k].set \in evaluating \ {Top.set}
      <3>1. /\ k \in 1 .. Len(stack) /\ below[k] = stack[k] /\ k # Len(stack)
            /\ Len(stack) \in 1 .. Len(stack)
        BY <1>1, <1>2
      <3>2. stack[k].set # stack[Len(stack)].set /\ stack[k].set \in evaluating
        BY <1>3, <3>1
      <3> QED
        BY <1>1, <3>1, <3>2
    <2> QED
      BY <2>1, <2>2
  <1>5. \A j, k \in 1 .. Len(below) : below[j].set = below[k].set => j = k
    BY <1>2, <1>3
  <1>6. \A k \in 1 .. Len(below) : below[k].doing = "entries" => next[below[k].set] <= below[k].index
    BY <1>2, <1>3
  <1> QED
    BY <1>1, <1>4, <1>5, <1>6 DEF Consistent

(* Deliver: a result reaches the call below, or whoever asked. *)
LEMMA DeliverOK ==
    ASSUME NEW calls \in Seq(Frames), NEW s, NEW r, NEW result \in {"defined", "undefined"},
           NEW flags, flags = evaluating \ {s}, Consistent(calls, flags), Deliver(calls, s, r, result),
           evaluating \subseteq created, created \subseteq created', next' = next,
           outcome \in {"none", "defined", "undefined", "loop"}
    PROVE  CallsOK' /\ outcome' \in {"none", "defined", "undefined", "loop"}
  <1>1. evaluating' = flags /\ evaluating' \subseteq created'
    BY DEF Deliver
  <1>2. /\ calls \in Seq(Frames)
        /\ flags = {calls[k].set : k \in 1 .. Len(calls)}
        /\ \A j, k \in 1 .. Len(calls) : calls[j].set = calls[k].set => j = k
        /\ \A k \in 1 .. Len(calls) : calls[k].doing = "entries" => next[calls[k].set] <= calls[k].index
    BY DEF Consistent
  <1>3. CASE calls = <<>>
    <2>1. stack' = <<>> /\ outcome' = result
      BY <1>3 DEF Deliver
    <2>2. stack' \in Seq(Frames)
      BY <2>1
    <2>3. Len(stack') = 0 /\ Len(calls) = 0
      BY <1>3, <2>1
    <2>4. evaluating' = {}
      BY <1>1, <1>2, <2>3
    <2>5. FlagsMatchStack'
      BY <2>3, <2>4 DEF FlagsMatchStack
    <2> QED
      BY <1>1, <2>1, <2>2, <2>3, <2>5 DEF CallsOK
  <1>4. CASE calls # <<>>
    <2> DEFINE top == [Last(calls) EXCEPT !.answer = result]
    <2>1. stack' = Append(Front(calls), top) /\ outcome' = outcome
      BY <1>4 DEF Deliver
    <2>2. Len(calls) \in Nat \ {0} /\ Last(calls) = calls[Len(calls)] /\ Last(calls) \in Frames
      BY <1>2, <1>4, TopAndBelow
    <2>3. /\ top \in Frames /\ top.set = Last(calls).set
          /\ top.doing = Last(calls).doing /\ top.index = Last(calls).index
      BY <2>2 DEF Frames
    <2> HIDE DEF top
    <2>0. calls \in Seq(Frames) /\ calls # <<>> /\ top \in Frames
      BY <1>4, <2>3
    <2>4. /\ stack' \in Seq(Frames)
          /\ Len(stack') = Len(calls)
          /\ stack'[Len(calls)] = top
          /\ \A k \in 1 .. Len(calls) - 1 : stack'[k] = calls[k]
      BY <2>0, <2>1, TopReplaced
    <2>5. \A k \in 1 .. Len(calls) : /\ stack'[k].set = calls[k].set
                                     /\ stack'[k].doing = calls[k].doing
                                     /\ stack'[k].index = calls[k].index
      BY <2>2, <2>3, <2>4
    <2>6. FlagsMatchStack'
      BY <1>1, <1>2, <2>4, <2>5 DEF FlagsMatchStack
    <2>7. \A k \in 1 .. Len(stack') : stack'[k].doing = "entries" => next'[stack'[k].set] <= stack'[k].index
      BY <1>2, <2>4, <2>5
    <2> QED
      BY <1>1, <2>1, <2>4, <2>6, <2>7 DEF CallsOK
  <1> QED
    BY <1>3, <1>4

(* Return: the innermost call is over. *)
LEMMA ReturnOK ==
    ASSUME Inv, stack # <<>>, NEW result \in {"defined", "undefined"}, Return(result),
           UNCHANGED <<created, next>>
    PROVE  CallsOK' /\ outcome' \in {"none", "defined", "undefined", "loop"}
  <1>1. Front(stack) \in Seq(Frames) /\ Consistent(Front(stack), evaluating \ {Top.set})
    BY BelowConsistent DEF Inv, Consistent
  <1>2. Deliver(Front(stack), Top.set, Top.flags, result)
    BY DEF Return
  <1>3. /\ evaluating \subseteq created /\ created \subseteq created' /\ next' = next
        /\ outcome \in {"none", "defined", "undefined", "loop"}
    BY DEF Inv, CallsOK
  <1> QED
    BY <1>1, <1>2, <1>3, DeliverOK

(***************************************************************************)
(* What the operations on the tables preserve.                             *)
(***************************************************************************)
LEMMA TablesUnchanged ==
    TablesOK /\ UNCHANGED tables => TablesOK'
  BY DEF TablesOK, tables

LEMMA DeclarationsUnchanged ==
    Declarations /\ UNCHANGED <<program, live>> => Declarations'
  BY DEF Declarations, Callables

(* lookupInvokeSet copies the lists of a set that has tried nothing yet. *)
LEMMA FindSetOK ==
    ASSUME Declarations, TablesOK, NEW s \in Sets, FindSet(s),
           UNCHANGED <<matches, next, byFlags, byKey>>
    PROVE  TablesOK' /\ s \in created' /\ created \subseteq created'
  <1>1. CopyOverloads(s) \in Seq(Overloads)
    <2>1. program.callable[s] \in Callables
      BY DEF Callables
    <2>2. live[program.callable[s]] \in Seq(Overloads) /\ live[Nothing] \in Seq(Overloads)
      BY <2>1 DEF Declarations
    <2> QED
      BY <2>2 DEF CopyOverloads
  <1>2. created' = created \cup {s}
    BY DEF FindSet
  <1>3. CASE s \in created
    <2>1. overloads' = overloads
      BY <1>3 DEF FindSet
    <2> QED
      BY <1>2, <2>1 DEF TablesOK
  <1>4. CASE s \notin created
    <2>1. overloads' = [overloads EXCEPT ![s] = CopyOverloads(s)]
      BY <1>4 DEF FindSet
    <2>2. /\ overloads' \in [Sets -> Seq(Overloads)]
          /\ \A t \in Sets \ {s} : overloads'[t] = overloads[t]
      BY <1>1, <2>1 DEF TablesOK
    <2>3. /\ next[s] = 0 /\ matches[s] = <<>> /\ Len(matches[s]) = 0
          /\ overloads'[s] \in Seq(Overloads) /\ Len(overloads'[s]) \in Nat
      BY <1>4, <2>2 DEF TablesOK
    <2>4. ASSUME NEW t \in Sets
          PROVE  /\ next'[t] <= Len(overloads'[t])
                 /\ Len(matches'[t]) <= next'[t]
                 /\ \A k \in 1 .. Len(matches'[t]) :
                       \E j \in 1 .. Len(overloads'[t]) : overloads'[t][j] = matches'[t][k]
                 /\ DOMAIN byFlags'[t] = Flags
                 /\ \A r \in Flags : byFlags'[t][r] = Nothing \/ byFlags'[t][r].overload \in ToSet(matches'[t])
                 /\ \A e \in byKey'[t] : e.overload \in ToSet(matches'[t])
                 /\ t \notin created' => next'[t] = 0 /\ matches'[t] = <<>>
      <3>1. CASE t = s
        BY <1>2, <2>3, <3>1 DEF TablesOK
      <3>2. CASE t # s
        BY <1>2, <2>2, <3>2 DEF TablesOK
      <3> QED
        BY <3>1, <3>2
    <2> QED
      BY <1>2, <2>2, <2>4 DEF TablesOK
  <1> QED
    BY <1>2, <1>3, <1>4

(* The entry of lookupInvokeEntry: a busy set ends all calls, a known entry is
   returned, and otherwise the set joins those that are being worked on. *)
LEMMA EnterOK ==
    ASSUME Inv, NEW s \in Sets, NEW r \in Flags, Enter(s, r)
    PROVE  Inv'
  <1>1. /\ FindSet(s)
        /\ UNCHANGED <<program, live>>
        /\ UNCHANGED <<matches, next, byFlags, byKey>>
    BY DEF Enter
  <1>2. Declarations' /\ TablesOK' /\ s \in created' /\ created \subseteq created'
    BY <1>1, FindSetOK, DeclarationsUnchanged DEF Inv
  <1>3. /\ stack \in Seq(Frames) /\ evaluating \subseteq created /\ FlagsMatchStack
        /\ \A k \in 1 .. Len(stack) : stack[k].doing = "entries" => next[stack[k].set] <= stack[k].index
        /\ outcome \in {"none", "defined", "undefined", "loop"}
    BY DEF Inv, CallsOK
  <1>4. CASE Busy(s)
    <2>1. stack' = <<>> /\ evaluating' = {} /\ outcome' = "loop"
      BY <1>4 DEF Enter
    <2>2. stack' \in Seq(Frames) /\ Len(stack') = 0
      BY <2>1
    <2> QED
      BY <1>2, <2>1, <2>2 DEF Inv, CallsOK, FlagsMatchStack
  <1>5. CASE ~Busy(s) /\ byFlags[s][r] # Nothing
    <2>1. PICK result \in {"defined", "undefined"} : Deliver(stack, s, r, result)
      BY <1>5 DEF Enter, Verdict
    <2>2. Consistent(stack, evaluating) /\ evaluating = evaluating \ {s}
      BY <1>3, <1>5 DEF Consistent, FlagsMatchStack, Busy
    <2>3. CallsOK' /\ outcome' \in {"none", "defined", "undefined", "loop"}
      BY <1>1, <1>2, <1>3, <2>1, <2>2, DeliverOK
    <2> QED
      BY <1>2, <2>3 DEF Inv
  <1>6. CASE ~Busy(s) /\ byFlags[s][r] = Nothing
    <2>1. stack' = Append(stack, Call(s, r)) /\ evaluating' = evaluating \cup {s} /\ outcome' = outcome
      BY <1>6 DEF Enter
    <2>2. Call(s, r) \in Frames /\ Call(s, r).set = s /\ Call(s, r).doing = "interface"
      BY DEF Call, Frames
    <2>3. /\ stack' \in Seq(Frames) /\ Len(stack') = Len(stack) + 1
          /\ stack'[Len(stack) + 1] = Call(s, r)
          /\ \A k \in 1 .. Len(stack) : stack'[k] = stack[k]
      BY <1>3, <2>1, <2>2, Pushed
    <2>4. Len(stack) \in Nat
      BY <1>3
    <2>5. \A k \in 1 .. Len(stack) : stack[k].set # s
      BY <1>3, <1>6 DEF FlagsMatchStack, Busy
    <2>6. evaluating' = {stack'[k].set : k \in 1 .. Len(stack')}
      BY <1>3, <2>1, <2>2, <2>3, <2>4 DEF FlagsMatchStack
    <2>7. \A j, k \in 1 .. Len(stack') : stack'[j].set = stack'[k].set => j = k
      BY <1>3, <2>2, <2>3, <2>4, <2>5 DEF FlagsMatchStack
    <2>8. \A k \in 1 .. Len(stack') : stack'[k].doing = "entries" => next'[stack'[k].set] <= stack'[k].index
      BY <1>1, <1>3, <2>2, <2>3, <2>4
    <2>9. CallsOK'
      BY <1>2, <1>3, <2>1, <2>3, <2>6, <2>7, <2>8 DEF CallsOK, FlagsMatchStack
    <2> QED
      BY <1>2, <1>3, <2>1, <2>9 DEF Inv
  <1> QED
    BY <1>4, <1>5, <1>6

(* The overload that the innermost call is matching is one of the program's. *)
LEMMA CandidateIsOverload ==
    ASSUME Inv, stack # <<>>, Candidate # Nothing
    PROVE  /\ Candidate \in Overloads
           /\ Top.doing = "entries" => /\ Top.index < Len(overloads[Top.set])
                                       /\ Candidate = overloads[Top.set][Top.index + 1]
  <1>1. Top \in Frames
    BY TopFacts DEF Inv
  <1>2. /\ Top.set \in Sets /\ Top.index \in Nat
        /\ Top.doing \in {"interface", "entries", "final"}
    BY <1>1 DEF Frames
  <1>3. CASE Top.doing = "interface"
    <2>1. program.interface \in [Sets -> Overloads \cup {Nothing}]
      BY InvokeAssumption DEF Inv, Declarations, ProgramType
    <2> QED
      BY <1>2, <1>3, <2>1 DEF Candidate
  <1>4. CASE Top.doing = "entries"
    <2>1. overloads[Top.set] \in Seq(Overloads)
      BY <1>2 DEF Inv, TablesOK
    <2>2. Top.index < Len(overloads[Top.set]) /\ Candidate = overloads[Top.set][Top.index + 1]
      BY <1>4 DEF Candidate
    <2>3. Top.index + 1 \in 1 .. Len(overloads[Top.set])
      BY <1>2, <2>1, <2>2
    <2> QED
      BY <2>1, <2>2, <2>3
  <1>5. CASE Top.doing = "final"
    <2>1. live[program.callable[Top.set]] \in Seq(Overloads)
      BY <1>2 DEF Inv, Declarations, Callables
    <2>2. /\ Top.index < Len(live[program.callable[Top.set]])
          /\ Candidate = live[program.callable[Top.set]][Top.index + 1]
      BY <1>5 DEF Candidate
    <2>3. Top.index + 1 \in 1 .. Len(live[program.callable[Top.set]])
      BY <1>2, <2>1, <2>2
    <2> QED
      BY <1>5, <2>1, <2>2, <2>3
  <1> QED
    BY <1>2, <1>3, <1>4, <1>5

(* An action that moves the innermost call on and leaves the tables alone. *)
LEMMA GoesOn ==
    ASSUME Inv, stack # <<>>, NEW f \in Frames, SetTop(f), f.set = Top.set,
           f.doing = "entries" => next[f.set] <= f.index,
           UNCHANGED <<program, live, tables, evaluating, outcome>>
    PROVE  Inv'
  <1>1. /\ UNCHANGED <<created, evaluating>> /\ next' = next
        /\ UNCHANGED tables /\ UNCHANGED <<program, live>>
    BY DEF tables
  <1>2. CallsOK'
    BY <1>1, SetTopOK DEF Inv
  <1> QED
    BY <1>1, <1>2, TablesUnchanged, DeclarationsUnchanged DEF Inv

(* An action that ends the innermost call and leaves the tables alone. *)
LEMMA ComesBack ==
    ASSUME Inv, stack # <<>>, NEW result \in {"defined", "undefined"}, Return(result),
           UNCHANGED <<program, live, tables>>
    PROVE  Inv'
  <1>1. /\ UNCHANGED <<created, next>> /\ UNCHANGED tables /\ UNCHANGED <<program, live>>
    BY DEF tables
  <1> QED
    BY <1>1, ReturnOK, TablesUnchanged, DeclarationsUnchanged DEF Inv

(* getMatch: the overload joins the matches, and all before it were tried. *)
LEMMA RememberMatchOK == Inv /\ RememberMatch => Inv'
  <1> SUFFICES ASSUME Inv, RememberMatch PROVE Inv'
    OBVIOUS
  <1> DEFINE s == Top.set
             f == [Top EXCEPT !.index = next'[Top.set], !.answer = "none"]
  <1>1. /\ stack # <<>> /\ Top.doing = "entries" /\ Candidate # Nothing
        /\ matches' = [matches EXCEPT ![s] = Append(@, Candidate)]
        /\ next' = [next EXCEPT ![s] = Top.index + 1]
        /\ SetTop(f)
        /\ UNCHANGED <<program, live>> /\ UNCHANGED <<created, evaluating>>
        /\ UNCHANGED <<overloads, byFlags, byKey, outcome>>
    BY DEF RememberMatch, NextAfterMatch
  <1>2. /\ Top \in Frames /\ s \in evaluating /\ Top = stack[Len(stack)] /\ Len(stack) \in Nat \ {0}
    BY <1>1, TopFacts DEF Inv
  <1>3. s \in Sets /\ Top.index \in Nat /\ s \in created
    BY <1>2 DEF Frames, Inv, CallsOK
  <1>4. next[s] <= Top.index
    BY <1>1, <1>2 DEF Inv, CallsOK
  <1>5. /\ Candidate \in Overloads /\ Top.index < Len(overloads[s])
        /\ Candidate = overloads[s][Top.index + 1]
    BY <1>1, CandidateIsOverload
  <1>6. /\ overloads[s] \in Seq(Overloads) /\ matches[s] \in Seq(Overloads) /\ next[s] \in Nat
        /\ Len(matches[s]) <= next[s]
        /\ \A k \in 1 .. Len(matches[s]) : \E j \in 1 .. Len(overloads[s]) : overloads[s][j] = matches[s][k]
    BY <1>3 DEF Inv, TablesOK
  <1>7. next'[s] = Top.index + 1 /\ next' \in [Sets -> Nat] /\ \A t \in Sets \ {s} : next'[t] = next[t]
    BY <1>1, <1>3 DEF Inv, TablesOK
  <1>8. /\ matches'[s] = Append(matches[s], Candidate)
        /\ matches' \in [Sets -> Seq(Overloads)]
        /\ \A t \in Sets \ {s} : matches'[t] = matches[t]
    BY <1>1, <1>3, <1>5, <1>6 DEF Inv, TablesOK
  <1>9. /\ matches'[s] \in Seq(Overloads)
        /\ Len(matches'[s]) = Len(matches[s]) + 1
        /\ matches'[s][Len(matches[s]) + 1] = Candidate
        /\ \A k \in 1 .. Len(matches[s]) : matches'[s][k] = matches[s][k]
        /\ Len(matches[s]) \in Nat
    BY <1>5, <1>6, <1>8, Pushed
  <1>10. ToSet(matches[s]) \subseteq ToSet(matches'[s])
    <2>1. DOMAIN matches[s] = 1 .. Len(matches[s]) /\ DOMAIN matches'[s] = 1 .. Len(matches'[s])
      BY <1>6, <1>9
    <2> QED
      BY <1>9, <2>1 DEF ToSet
  <1>11. \A k \in 1 .. Len(matches'[s]) : \E j \in 1 .. Len(overloads[s]) : overloads[s][j] = matches'[s][k]
    <2> TAKE k \in 1 .. Len(matches'[s])
    <2>1. CASE k \in 1 .. Len(matches[s])
      BY <1>6, <1>9, <2>1
    <2>2. CASE k = Len(matches[s]) + 1
      <3>1. Top.index + 1 \in 1 .. Len(overloads[s])
        BY <1>3, <1>5, <1>6
      <3> QED
        BY <1>5, <1>9, <2>2, <3>1
    <2> QED
      BY <1>9, <2>1, <2>2
  <1> HIDE DEF s
  <1>12. TablesOK'
    <2>1. ASSUME NEW t \in Sets
          PROVE  /\ next'[t] <= Len(overloads'[t])
                 /\ Len(matches'[t]) <= next'[t]
                 /\ \A k \in 1 .. Len(matches'[t]) :
                       \E j \in 1 .. Len(overloads'[t]) : overloads'[t][j] = matches'[t][k]
                 /\ DOMAIN byFlags'[t] = Flags
                 /\ \A r \in Flags : byFlags'[t][r] = Nothing \/ byFlags'[t][r].overload \in ToSet(matches'[t])
                 /\ \A e \in byKey'[t] : e.overload \in ToSet(matches'[t])
                 /\ t \notin created' => next'[t] = 0 /\ matches'[t] = <<>>
      <3>1. CASE t = s
        <4>1. next'[s] <= Len(overloads[s]) /\ Len(matches'[s]) <= next'[s]
          BY <1>3, <1>4, <1>5, <1>6, <1>7, <1>9
        <4>2. /\ DOMAIN byFlags[s] = Flags
              /\ \A r \in Flags : byFlags[s][r] = Nothing \/ byFlags[s][r].overload \in ToSet(matches'[s])
              /\ \A e \in byKey[s] : e.overload \in ToSet(matches'[s])
          BY <1>3, <1>10 DEF Inv, TablesOK
        <4> QED
          BY <1>1, <1>3, <1>11, <3>1, <4>1, <4>2
      <3>2. CASE t # s
        BY <1>1, <1>7, <1>8, <3>2 DEF Inv, TablesOK
      <3> QED
        BY <3>1, <3>2
    <2> QED
      BY <1>1, <1>7, <1>8, <2>1 DEF Inv, TablesOK
  <1>13. f \in Frames /\ f.set = Top.set /\ (f.doing = "entries" => next'[f.set] <= f.index)
    <2>1. next'[Top.set] \in Nat /\ next'[Top.set] = Top.index + 1
      BY <1>3, <1>7 DEF s
    <2> DEFINE n == next'[Top.set]
    <2>2. f = [Top EXCEPT !.index = n, !.answer = "none"] /\ n \in Nat
      BY <2>1
    <2> HIDE DEF f, n
    <2>3. f \in Frames /\ f.set = Top.set /\ f.index = n
      BY <1>2, <2>2 DEF Frames
    <2>4. next'[f.set] = n
      BY <2>3 DEF n
    <2> QED
      BY <2>2, <2>3, <2>4
  <1>14. CallsOK'
    <2>1. \A t \in Sets \ {Top.set} : next'[t] = next[t]
      BY <1>7 DEF s
    <2> HIDE DEF f
    <2> QED
      BY <1>1, <1>13, <2>1, SetTopOK DEF Inv
  <1> QED
    BY <1>1, <1>12, <1>14, DeclarationsUnchanged DEF Inv

(* The entry chosen is one of an overload that matched. *)
LEMMA ChooseMatchOK == Inv /\ ChooseMatch => Inv'
  <1> SUFFICES ASSUME Inv, ChooseMatch PROVE Inv'
    OBVIOUS
  <1> DEFINE s == Top.set
             r == Top.flags
             key == TempnessKey(Match, r)
             known == Known(s, key)
             entry == IF known # {} THEN CHOOSE e \in known : TRUE
                      ELSE [overload |-> Match, key |-> key, forwarded |-> ForwardedRValues(Match, r)]
             f == [Top EXCEPT !.doing = "final", !.index = next[Top.set]]
  <1>1. /\ stack # <<>> /\ Top.doing = "entries" /\ Top.i < Len(matches[s])
        /\ byKey' = [byKey EXCEPT ![s] = @ \cup {entry}]
        /\ byFlags' = [byFlags EXCEPT ![s][r] = entry]
        /\ UNCHANGED <<program, live>> /\ UNCHANGED <<created, overloads, matches, next>>
    BY DEF ChooseMatch
  <1>2. /\ \/ SetTop(f) /\ UNCHANGED <<evaluating, outcome, answers>>
           \/ \E result \in {"defined", "undefined"} : Return(result)
    BY DEF ChooseMatch, Verdict
  <1>3. Top \in Frames
    BY <1>1, TopFacts DEF Inv
  <1>4. s \in Sets /\ r \in Flags /\ Top.i \in Nat
    BY <1>3 DEF Frames
  <1>5. entry.overload \in ToSet(matches[s])
    <2>1. CASE known # {}
      <3>1. entry \in known
        BY <2>1
      <3>2. entry \in byKey[s]
        BY <3>1 DEF Known
      <3> HIDE DEF entry
      <3> QED
        BY <1>4, <3>2 DEF Inv, TablesOK
    <2>2. CASE known = {}
      <3>1. entry.overload = matches[s][Top.i + 1]
        BY <2>2 DEF Match
      <3>2. matches[s] \in Seq(Overloads)
        BY <1>4 DEF Inv, TablesOK
      <3>3. Top.i + 1 \in DOMAIN matches[s]
        BY <1>1, <1>4, <3>2
      <3> QED
        BY <3>1, <3>3 DEF ToSet
    <2> QED
      BY <2>1, <2>2
  <1> HIDE DEF entry
  <1>6. TablesOK'
    <2>1. /\ DOMAIN byKey' = Sets /\ DOMAIN byFlags' = Sets
          /\ \A t \in Sets : DOMAIN byFlags'[t] = Flags
      BY <1>1, <1>4 DEF Inv, TablesOK
    <2>2. ASSUME NEW t \in Sets
          PROVE  \A e \in byKey'[t] : e.overload \in ToSet(matches[t])
      BY <1>1, <1>4, <1>5 DEF Inv, TablesOK
    <2>3. ASSUME NEW t \in Sets, NEW q \in Flags
          PROVE  byFlags'[t][q] = Nothing \/ byFlags'[t][q].overload \in ToSet(matches[t])
      <3>1. CASE t = s /\ q = r
        <4>1. byFlags'[t][q] = entry
          BY <1>1, <1>4, <3>1 DEF Inv, TablesOK
        <4> QED
          BY <1>5, <3>1, <4>1
      <3>2. CASE ~(t = s /\ q = r)
        <4>1. byFlags'[t][q] = byFlags[t][q]
          BY <1>1, <1>4, <3>2 DEF Inv, TablesOK
        <4> QED
          BY <4>1 DEF Inv, TablesOK
      <3> QED
        BY <3>1, <3>2
    <2> QED
      BY <1>1, <2>1, <2>2, <2>3 DEF Inv, TablesOK
  <1>7. CallsOK' /\ outcome' \in {"none", "defined", "undefined", "loop"}
    <2>1. CASE SetTop(f) /\ UNCHANGED <<evaluating, outcome, answers>>
      <3>1. f \in Frames /\ f.set = Top.set /\ f.doing # "entries"
        <4>1. next[s] \in Nat
          BY <1>4 DEF Inv, TablesOK
        <4> QED
          BY <1>3, <4>1 DEF Frames
      <3> HIDE DEF f
      <3> QED
        BY <1>1, <2>1, <3>1, SetTopOK DEF Inv
    <2>2. CASE \E result \in {"defined", "undefined"} : Return(result)
      BY <1>1, <2>2, ReturnOK
    <2> QED
      BY <1>2, <2>1, <2>2
  <1> QED
    BY <1>1, <1>6, <1>7, DeclarationsUnchanged DEF Inv

(* Every action preserves the invariant. *)
LEMMA NextInv == Inv /\ [Next]_vars => Inv'
  <1> SUFFICES ASSUME Inv, [Next]_vars PROVE Inv'
    OBVIOUS
  <1>t. ASSUME stack # <<>>
        PROVE  /\ Top \in Frames
               /\ Top.set \in Sets
               /\ next[Top.set] \in Nat
               /\ Top.doing = "entries" => next[Top.set] <= Top.index
    <2>1. Top \in Frames /\ Top = stack[Len(stack)] /\ Len(stack) \in Nat \ {0}
      BY <1>t, TopFacts DEF Inv
    <2>2. Top.set \in Sets
      BY <2>1 DEF Frames
    <2>3. next[Top.set] \in Nat
      BY <2>2 DEF Inv, TablesOK
    <2>4. Len(stack) \in 1 .. Len(stack)
      BY <2>1
    <2>5. Top.doing = "entries" => next[Top.set] <= Top.index
      BY <2>1, <2>4 DEF Inv, CallsOK
    <2> QED
      BY <2>1, <2>2, <2>3, <2>5
  <1>1. CASE Lookup
    <2>1. PICK call \in program.calls : Enter(call[1], call[2])
      BY <1>1 DEF Lookup
    <2>2. program.calls \subseteq Sets \X Flags
      BY InvokeAssumption DEF Inv, Declarations, ProgramType
    <2>3. call[1] \in Sets /\ call[2] \in Flags
      BY <2>2
    <2> QED
      BY <2>1, <2>3, EnterOK
  <1>2. CASE EvaluatePredicate
    <2>1. stack # <<>> /\ Candidate # Nothing /\ NeedsPredicate(Candidate)
      BY <1>2 DEF EvaluatePredicate
    <2>2. Candidate \in Overloads /\ program.predicate[Candidate] # Nothing
      BY <2>1, CandidateIsOverload DEF NeedsPredicate
    <2>3. program.predicate \in [Overloads -> (Sets \X Flags) \cup {Nothing}]
      BY InvokeAssumption DEF Inv, Declarations, ProgramType
    <2>4. program.predicate[Candidate] \in Sets \X Flags
      BY <2>2, <2>3
    <2>5. program.predicate[Candidate][1] \in Sets /\ program.predicate[Candidate][2] \in Flags
      BY <2>4
    <2>6. Enter(program.predicate[Candidate][1], program.predicate[Candidate][2])
      BY <1>2 DEF EvaluatePredicate
    <2> QED
      BY <2>5, <2>6, EnterOK
  <1>3. CASE PassInterface
    <2> DEFINE f == [Top EXCEPT !.doing = "entries", !.answer = "none", !.index = next[Top.set]]
    <2>1. /\ stack # <<>> /\ SetTop(f)
          /\ UNCHANGED <<program, live, tables, evaluating, outcome>>
      BY <1>3 DEF PassInterface
    <2>2. Top \in Frames /\ next[Top.set] \in Nat
      BY <2>1, <1>t
    <2>3. f \in Frames /\ f.set = Top.set /\ next[f.set] <= f.index
      <3> DEFINE n == next[Top.set]
      <3>1. n \in Nat /\ f = [Top EXCEPT !.doing = "entries", !.answer = "none", !.index = n]
        BY <2>2
      <3> HIDE DEF f, n
      <3>2. f \in Frames /\ f.set = Top.set /\ f.index = n
        BY <2>2, <3>1 DEF Frames
      <3>3. n = next[f.set] /\ n <= n
        BY <3>1, <3>2 DEF n
      <3> QED
        BY <3>2, <3>3
    <2> HIDE DEF f
    <2> QED
      BY <2>1, <2>3, GoesOn
  <1>4. CASE FailInterface
    BY <1>4, ComesBack DEF FailInterface
  <1>5. CASE SkipOverload
    <2> DEFINE f == [Top EXCEPT !.index = @ + 1, !.answer = "none"]
    <2>1. /\ stack # <<>> /\ SetTop(f)
          /\ UNCHANGED <<program, live, tables, evaluating, outcome>>
      BY <1>5 DEF SkipOverload
    <2>2. /\ Top \in Frames /\ next[Top.set] \in Nat
          /\ Top.doing = "entries" => next[Top.set] <= Top.index
      BY <2>1, <1>t
    <2>3. /\ f \in Frames /\ f.set = Top.set
          /\ f.doing = Top.doing /\ f.index = Top.index + 1 /\ Top.index \in Nat
      <3> DEFINE n == Top.index + 1
      <3>1. Top.index \in Nat /\ n \in Nat
        BY <2>2 DEF Frames
      <3>2. f = [Top EXCEPT !.index = n, !.answer = "none"]
        OBVIOUS
      <3> HIDE DEF f, n
      <3>3. f \in Frames /\ f.set = Top.set /\ f.doing = Top.doing /\ f.index = n
        BY <2>2, <3>1, <3>2 DEF Frames
      <3> QED
        BY <3>1, <3>3 DEF n
    <2>4. f.doing = "entries" => next[f.set] <= f.index
      BY <2>2, <2>3
    <2> HIDE DEF f
    <2> QED
      BY <2>1, <2>3, <2>4, GoesOn
  <1>6. CASE RememberMatch
    BY <1>6, RememberMatchOK
  <1>7. CASE NoMatch
    BY <1>7, ComesBack DEF NoMatch
  <1>8. CASE WrongTempness
    <2> DEFINE f == [Top EXCEPT !.i = NextEntry(@)]
    <2>1. /\ stack # <<>> /\ SetTop(f)
          /\ UNCHANGED <<program, live, tables, evaluating, outcome>>
      BY <1>8 DEF WrongTempness
    <2>2. /\ Top \in Frames
          /\ Top.doing = "entries" => next[Top.set] <= Top.index
      BY <2>1, <1>t
    <2>3. /\ f \in Frames /\ f.set = Top.set
          /\ f.doing = Top.doing /\ f.index = Top.index
      BY <2>2 DEF Frames, NextEntry
    <2>4. f.doing = "entries" => next[f.set] <= f.index
      BY <2>2, <2>3
    <2> HIDE DEF f
    <2> QED
      BY <2>1, <2>3, <2>4, GoesOn
  <1>9. CASE ChooseMatch
    BY <1>9, ChooseMatchOK
  <1>10. CASE OtherTempness
    <2> DEFINE f == [Top EXCEPT !.index = @ + 2, !.answer = "none"]
    <2>1. /\ stack # <<>> /\ SetTop(f) /\ Top.doing = "final"
          /\ UNCHANGED <<program, live, tables, evaluating, outcome>>
      BY <1>10 DEF OtherTempness
    <2>2. Top \in Frames
      BY <2>1, <1>t
    <2>3. f \in Frames /\ f.set = Top.set /\ f.doing = "final"
      <3> DEFINE n == Top.index + 2
      <3>1. Top.index \in Nat /\ n \in Nat
        BY <2>2 DEF Frames
      <3>2. f = [Top EXCEPT !.index = n, !.answer = "none"]
        OBVIOUS
      <3> HIDE DEF f, n
      <3> QED
        BY <2>1, <2>2, <3>1, <3>2 DEF Frames
    <2> HIDE DEF f
    <2> QED
      BY <2>1, <2>3, GoesOn
  <1>11. CASE SecondMatch
    <2>1. PICK result \in {"defined", "undefined"} : Return(result)
      BY <1>11 DEF SecondMatch, Verdict
    <2> QED
      BY <1>11, <2>1, ComesBack DEF SecondMatch
  <1>12. CASE OnlyMatch
    <2>1. PICK result \in {"defined", "undefined"} : Return(result)
      BY <1>12 DEF OnlyMatch, Verdict
    <2> QED
      BY <1>12, <2>1, ComesBack DEF OnlyMatch
  <1>13. CASE \E o \in Overloads : Register(o)
    <2>1. PICK o \in Overloads : Register(o)
      BY <1>13
    <2>2. /\ live' = [live EXCEPT ![program.target[o]] = Cons(o, @)]
          /\ UNCHANGED <<program, tables, evaluating, stack, outcome>>
      BY <2>1 DEF Register
    <2>3. Declarations'
      <3>1. /\ program' = program /\ program \in Programs
            /\ live \in [Callables \cup {Nothing} -> Seq(Overloads)]
        BY <2>2 DEF Inv, Declarations
      <3>2. Callables' = Callables
        BY <3>1 DEF Callables
      <3>3. ASSUME NEW c \in Callables \cup {Nothing}
            PROVE  Cons(o, live[c]) \in Seq(Overloads)
        BY <3>1 DEF Cons
      <3>4. live' \in [Callables \cup {Nothing} -> Seq(Overloads)]
        BY <2>2, <3>1, <3>3
      <3> QED
        BY <3>1, <3>2, <3>4 DEF Declarations
    <2>4. UNCHANGED tables /\ UNCHANGED <<created, next, evaluating, stack, outcome>>
      BY <2>2 DEF tables
    <2>5. CallsOK'
      BY <2>4 DEF Inv, CallsOK, FlagsMatchStack
    <2> QED
      BY <2>3, <2>4, <2>5, TablesUnchanged DEF Inv
  <1>14. CASE UNCHANGED vars
    <2>1. /\ UNCHANGED <<program, live>> /\ UNCHANGED tables
          /\ UNCHANGED <<created, next, evaluating, stack, outcome>>
      BY <1>14 DEF vars, tables
    <2>2. CallsOK'
      BY <2>1 DEF Inv, CallsOK, FlagsMatchStack
    <2> QED
      BY <2>1, <2>2, TablesUnchanged, DeclarationsUnchanged DEF Inv
  <1> QED
    BY <1>1, <1>2, <1>3, <1>4, <1>5, <1>6, <1>7, <1>8, <1>9, <1>10, <1>11, <1>12,
       <1>13, <1>14 DEF Next, Step

THEOREM SpecInv == Spec => []Inv
  BY InitInv, NextInv, PTL DEF Spec

(* The memo tables of every invoke set are consistent: what was tried is part of
   the list it copied, what matched is part of what was tried, and the entries it
   answers from are those of overloads that matched. (InvokeSet, getMatch.) *)
THEOREM InvokeTypeOK == Spec => []TypeOK
  BY SpecInv, InvTypeOK, PTL

(* The flags that refuse a predicate loop are set for the active lookups and for
   no others, each set being looked up once at a time.
   (FinallyClearEvaluatingPredicate in lookupInvokeEntry.) *)
THEOREM InvokeFlagsMatchStack == Spec => []FlagsMatchStack
  <1>1. Inv => FlagsMatchStack
    BY DEF Inv, CallsOK
  <1> QED
    BY <1>1, SpecInv, PTL

(***************************************************************************)
(* The memo tables, without -final-overloads, for every program, callable  *)
(* and set of flags: what they answer is what matching the overloads afresh *)
(* would find.                                                             *)
(*                                                                         *)
(* Most operators here are given the declarations p, the answers a of the  *)
(* lookups made so far, and the tables of one set: its overloads (list),   *)
(* the matches found in it (found) and the number of overloads tried (n).  *)
(***************************************************************************)

(***************************************************************************)
(* The inductive invariant.                                                *)
(***************************************************************************)
Holds(p, a, o) ==
    p.predicate[o] = Nothing \/ a[p.predicate[o][1]][p.predicate[o][2]] = "defined"

Refuted(p, a, o) ==
    p.predicate[o] # Nothing /\ a[p.predicate[o][1]][p.predicate[o][2]] = "undefined"

(* Overload o matches the types of set s, or does not, for good. *)
Accepted(p, a, o, s) == s \in p.accepts[o] /\ Holds(p, a, o)
Rejected(p, a, o, s) == s \notin p.accepts[o] \/ Refuted(p, a, o)

Suits(p, o, r) == \A i \in DOMAIN r : TempnessMatches(r[i], p.tempness[o][i])

(* The matches are those of the overloads tried, in the order of the list. *)
Tried(p, a, list, found, n, s) ==
    /\ \A k \in 1 .. Len(found) : \E i \in 1 .. n :
          /\ list[i] = found[k]
          /\ Accepted(p, a, found[k], s)
          /\ \A j \in 1 .. i - 1 : Rejected(p, a, list[j], s) \/ \E h \in 1 .. k - 1 : found[h] = list[j]
    /\ \A i \in 1 .. n : Rejected(p, a, list[i], s) \/ \E k \in 1 .. Len(found) : found[k] = list[i]

(* Entry e is one of the first match whose tempness suits r, made for r. *)
FirstFor(p, found, r, o) ==
    \E k \in 1 .. Len(found) :
        found[k] = o /\ Suits(p, o, r) /\ \A j \in 1 .. k - 1 : ~Suits(p, found[j], r)

Forwarded(p, o, r) == [i \in DOMAIN r |-> p.tempness[o][i] = "forward" /\ r[i]]

EntryFor(p, found, r, e) ==
    FirstFor(p, found, r, e.overload) /\ e.forwarded = Forwarded(p, e.overload, r)

Key(p, o, r) == [i \in DOMAIN r |-> TempnessKeyItem(p.tempness[o][i], r[i])]

(* The interface of the callable, if there is one, matches; or nothing does. *)
Faced(p, a, s) == p.interface[s] = Nothing \/ Accepted(p, a, p.interface[s], s)

Refused(p, a, list, s, r) ==
    \/ p.interface[s] # Nothing /\ Rejected(p, a, p.interface[s], s)
    \/ \A i \in 1 .. Len(list) :
          s \in p.accepts[list[i]] /\ Suits(p, list[i], r) => Refuted(p, a, list[i])

(* What call f is matching, and the lookup (s, r) that this waits for. *)
CandidateOf(p, list, found, f) ==
    IF f.doing = "interface" THEN p.interface[f.set]
    ELSE IF f.i >= Len(found) /\ f.index < Len(list) THEN list[f.index + 1]
    ELSE Nothing

AsksFor(p, list, found, f, s, r) ==
    /\ CandidateOf(p, list, found, f) # Nothing
    /\ f.set \in p.accepts[CandidateOf(p, list, found, f)]
    /\ p.predicate[CandidateOf(p, list, found, f)] = <<s, r>>

(* No match before the one that call f has come to suits it, no overload between
   those tried before and the one it has come to matches, and its answer is that of
   the predicate it is evaluating. *)
Sound(p, a, list, found, n, f) ==
    /\ f.doing \in {"interface", "entries"}
    /\ f.doing = "interface" => f.i = 0
    /\ f.doing = "entries" =>
          /\ Faced(p, a, f.set)
          /\ f.i <= Len(found)
          /\ \A j \in 1 .. f.i : ~Suits(p, found[j], f.flags)
          /\ f.index <= Len(list)
          /\ \A j \in n + 1 .. f.index : Rejected(p, a, list[j], f.set)
    /\ f.answer # "none" =>
          \E s \in Sets, r \in Flags : AsksFor(p, list, found, f, s, r) /\ a[s][r] = f.answer

(* The entries of set s, by flags and by key, are those of first matches. *)
EntriesIn(p, a, found, entries, shared, s) ==
    /\ \A r \in Flags : entries[r] # Nothing => EntryFor(p, found, r, entries[r]) /\ Faced(p, a, s)
    /\ \A e \in shared : \E r \in Flags :
          e.key = Key(p, e.overload, r) /\ EntryFor(p, found, r, e)

(* The lookup (s, r) has an answer in the matches of its set, with a body or without. *)
Served(p, a, found, s, r) ==
    Faced(p, a, s) /\ \E o \in Overloads \ p.bodiless : FirstFor(p, found, r, o)

Bodiless(p, a, found, s, r) ==
    Faced(p, a, s) /\ \E o \in p.bodiless : FirstFor(p, found, r, o)

Answers == [Sets -> [Flags -> {"none", "defined", "undefined"}]]

(* In the state: the tables of a set, the answer to a lookup, an active call, and
   the lookup that it waits for. *)
SetOK(s) ==
    /\ Tried(program, answers, overloads[s], matches[s], next[s], s)
    /\ EntriesIn(program, answers, matches[s], byFlags[s], byKey[s], s)

AnswerOK(s, r) ==
    /\ answers[s][r] = "defined" => Served(program, answers, matches[s], s, r)
    /\ answers[s][r] = "undefined" =>
          /\ s \in created
          /\ \/ Refused(program, answers, overloads[s], s, r)
             \/ Bodiless(program, answers, matches[s], s, r)

CallOK(f) == Sound(program, answers, overloads[f.set], matches[f.set], next[f.set], f)

Waits(f, s, r) == AsksFor(program, overloads[f.set], matches[f.set], f, s, r)

CallsSound ==
    /\ \A k \in 1 .. Len(stack) : CallOK(stack[k])
    /\ \A k \in 1 .. Len(stack) - 1 : Waits(stack[k], stack[k + 1].set, stack[k + 1].flags)

Memo ==
    /\ ~program.final
    /\ \A s \in Sets : SetOK(s)
    /\ answers \in Answers
    /\ \A s \in Sets, r \in Flags : AnswerOK(s, r)
    /\ CallsSound

(***************************************************************************)
(* What is known for good.                                                 *)
(***************************************************************************)
(* Lookups are answered once. *)
Extends(a, b) == \A s \in Sets, r \in Flags : a[s][r] # "none" => b[s][r] = a[s][r]

LEMMA VerdictsKept ==
    ASSUME NEW p, ProgramType(p), NEW a, NEW b, Extends(a, b), NEW o \in Overloads, NEW s
    PROVE  /\ Accepted(p, a, o, s) => Accepted(p, b, o, s)
           /\ Rejected(p, a, o, s) => Rejected(p, b, o, s)
           /\ Refuted(p, a, o) => Refuted(p, b, o)
  <1>1. p.predicate[o] \in (Sets \X Flags) \cup {Nothing}
    BY DEF ProgramType
  <1>2. CASE p.predicate[o] = Nothing
    BY <1>2 DEF Accepted, Rejected, Holds, Refuted
  <1>3. CASE p.predicate[o] # Nothing
    <2> DEFINE t == p.predicate[o][1]
               q == p.predicate[o][2]
    <2>1. t \in Sets /\ q \in Flags
      BY <1>1, <1>3
    <2>2. a[t][q] # "none" => b[t][q] = a[t][q]
      BY <2>1 DEF Extends
    <2> QED
      BY <1>3, <2>2 DEF Accepted, Rejected, Holds, Refuted
  <1> QED
    BY <1>2, <1>3

LEMMA Exclusive ==
    ASSUME NEW p, NEW a, NEW o, NEW s
    PROVE  ~(Accepted(p, a, o, s) /\ Rejected(p, a, o, s)) /\ ~(Holds(p, a, o) /\ Refuted(p, a, o))
  BY DEF Accepted, Rejected, Holds, Refuted

LEMMA TriedKept ==
    ASSUME NEW p, ProgramType(p), NEW a, NEW b, Extends(a, b), NEW s,
           NEW list \in Seq(Overloads), NEW found \in Seq(Overloads), NEW n \in 0 .. Len(list),
           Tried(p, a, list, found, n, s)
    PROVE  Tried(p, b, list, found, n, s)
  <1>1. \A k \in 1 .. Len(found) : found[k] \in Overloads
    OBVIOUS
  <1>2. \A i \in 1 .. n : list[i] \in Overloads
    OBVIOUS
  <1>3. ASSUME NEW k \in 1 .. Len(found)
        PROVE  \E i \in 1 .. n :
                  /\ list[i] = found[k]
                  /\ Accepted(p, b, found[k], s)
                  /\ \A j \in 1 .. i - 1 : Rejected(p, b, list[j], s) \/ \E h \in 1 .. k - 1 : found[h] = list[j]
    <2>1. PICK i \in 1 .. n :
             /\ list[i] = found[k]
             /\ Accepted(p, a, found[k], s)
             /\ \A j \in 1 .. i - 1 : Rejected(p, a, list[j], s) \/ \E h \in 1 .. k - 1 : found[h] = list[j]
      BY DEF Tried
    <2>2. Accepted(p, b, found[k], s)
      BY <1>1, <2>1, VerdictsKept
    <2>3. ASSUME NEW j \in 1 .. i - 1
          PROVE  Rejected(p, b, list[j], s) \/ \E h \in 1 .. k - 1 : found[h] = list[j]
      <3>1. j \in 1 .. n
        OBVIOUS
      <3>2. list[j] \in Overloads
        BY <1>2, <3>1
      <3> QED
        BY <2>1, <3>2, VerdictsKept
    <2> QED
      BY <2>1, <2>2, <2>3
  <1>4. ASSUME NEW i \in 1 .. n
        PROVE  Rejected(p, b, list[i], s) \/ \E k \in 1 .. Len(found) : found[k] = list[i]
    <2>1. Rejected(p, a, list[i], s) \/ \E k \in 1 .. Len(found) : found[k] = list[i]
      BY DEF Tried
    <2> QED
      BY <1>2, <2>1, VerdictsKept
  <1> QED
    BY <1>3, <1>4 DEF Tried

LEMMA FacedKept ==
    ASSUME NEW p, ProgramType(p), NEW a, NEW b, Extends(a, b), NEW s \in Sets, Faced(p, a, s)
    PROVE  Faced(p, b, s)
  <1>1. p.interface[s] \in Overloads \cup {Nothing}
    BY DEF ProgramType
  <1> QED
    BY <1>1, VerdictsKept DEF Faced

LEMMA RefusedKept ==
    ASSUME NEW p, ProgramType(p), NEW a, NEW b, Extends(a, b), NEW s \in Sets, NEW r,
           NEW list \in Seq(Overloads), Refused(p, a, list, s, r)
    PROVE  Refused(p, b, list, s, r)
  <1>1. p.interface[s] \in Overloads \cup {Nothing}
    BY DEF ProgramType
  <1>2. CASE p.interface[s] # Nothing /\ Rejected(p, a, p.interface[s], s)
    BY <1>1, <1>2, VerdictsKept DEF Refused
  <1>3. CASE \A i \in 1 .. Len(list) :
                s \in p.accepts[list[i]] /\ Suits(p, list[i], r) => Refuted(p, a, list[i])
    <2>1. \A i \in 1 .. Len(list) : list[i] \in Overloads
      OBVIOUS
    <2>2. \A i \in 1 .. Len(list) :
             s \in p.accepts[list[i]] /\ Suits(p, list[i], r) => Refuted(p, b, list[i])
      BY <1>3, <2>1, VerdictsKept
    <2> QED
      BY <2>2 DEF Refused
  <1> QED
    BY <1>2, <1>3 DEF Refused

LEMMA SoundKept ==
    ASSUME NEW p, ProgramType(p), NEW a, NEW b, Extends(a, b), NEW f \in Frames,
           NEW list \in Seq(Overloads), NEW found, NEW n \in Nat,
           Sound(p, a, list, found, n, f)
    PROVE  Sound(p, b, list, found, n, f)
  <1>1. f.set \in Sets /\ f.index \in Nat /\ f.answer \in {"none", "defined", "undefined"}
    BY DEF Frames
  <1>2. f.doing = "entries" => Faced(p, b, f.set)
    BY <1>1, FacedKept DEF Sound
  <1>3. ASSUME f.doing = "entries", NEW j \in n + 1 .. f.index
        PROVE  Rejected(p, b, list[j], f.set)
    <2>1. Rejected(p, a, list[j], f.set) /\ f.index <= Len(list)
      BY <1>3 DEF Sound
    <2>2. list[j] \in Overloads
      BY <1>1, <2>1
    <2> QED
      BY <2>1, <2>2, VerdictsKept
  <1>4. ASSUME f.answer # "none"
        PROVE  \E s \in Sets, r \in Flags : AsksFor(p, list, found, f, s, r) /\ b[s][r] = f.answer
    <2>1. PICK s \in Sets, r \in Flags : AsksFor(p, list, found, f, s, r) /\ a[s][r] = f.answer
      BY <1>4 DEF Sound
    <2>2. b[s][r] = f.answer
      BY <1>4, <2>1 DEF Extends
    <2> QED
      BY <2>1, <2>2
  <1> QED
    BY <1>2, <1>3, <1>4 DEF Sound

(***************************************************************************)
(* The entry of a call is that of the first match.                         *)
(***************************************************************************)
(* The first match among those found is the first in the list of the set. *)
LEMMA FirstInList ==
    ASSUME NEW p, NEW a, NEW s, NEW r, NEW list, NEW found, NEW n \in Nat, NEW o,
           Tried(p, a, list, found, n, s), FirstFor(p, found, r, o), Len(found) \in Nat
    PROVE  \E i \in 1 .. n :
              /\ list[i] = o
              /\ Accepted(p, a, o, s) /\ Suits(p, o, r)
              /\ \A j \in 1 .. i - 1 :
                    s \in p.accepts[list[j]] /\ Suits(p, list[j], r) => Refuted(p, a, list[j])
  <1>1. PICK k \in 1 .. Len(found) :
           found[k] = o /\ Suits(p, o, r) /\ \A j \in 1 .. k - 1 : ~Suits(p, found[j], r)
    BY DEF FirstFor
  <1>2. PICK i \in 1 .. n :
           /\ list[i] = found[k]
           /\ Accepted(p, a, found[k], s)
           /\ \A j \in 1 .. i - 1 : Rejected(p, a, list[j], s) \/ \E h \in 1 .. k - 1 : found[h] = list[j]
    BY DEF Tried
  <1>3. ASSUME NEW j \in 1 .. i - 1, s \in p.accepts[list[j]], Suits(p, list[j], r)
        PROVE  Refuted(p, a, list[j])
    BY <1>1, <1>2, <1>3 DEF Rejected
  <1> QED
    BY <1>1, <1>2, <1>3

(* An entry shared by its key is that of the same overload: an overload whose key
   for r is that of another one for q suits q as well. *)
LEMMA KeysTellTempness ==
    ASSUME NEW p, NEW x, NEW y, NEW r \in Flags, NEW q \in Flags,
           Suits(p, x, r), Suits(p, y, q), Key(p, x, r) = Key(p, y, q)
    PROVE  Suits(p, x, q)
  <1>1. DOMAIN r = DOMAIN q
    <2>1. DOMAIN Key(p, x, r) = DOMAIN r /\ DOMAIN Key(p, y, q) = DOMAIN q
      BY DEF Key
    <2> QED
      BY <2>1
  <1>2. ASSUME NEW i \in DOMAIN q
        PROVE  TempnessMatches(q[i], p.tempness[x][i])
    <2>1. /\ TempnessMatches(r[i], p.tempness[x][i])
          /\ TempnessMatches(q[i], p.tempness[y][i])
      BY <1>1, <1>2 DEF Suits
    <2>2. TempnessKeyItem(p.tempness[x][i], r[i]) = TempnessKeyItem(p.tempness[y][i], q[i])
      <3>1. /\ Key(p, x, r)[i] = TempnessKeyItem(p.tempness[x][i], r[i])
            /\ Key(p, y, q)[i] = TempnessKeyItem(p.tempness[y][i], q[i])
        BY <1>1, <1>2 DEF Key
      <3> QED
        BY <3>1
    <2>3. r[i] \in BOOLEAN /\ q[i] \in BOOLEAN
      BY <1>1, <1>2, InvokeAssumption
    <2> QED
      BY <2>1, <2>2, <2>3 DEF TempnessMatches, TempnessKeyItem
  <1> QED
    BY <1>2 DEF Suits

LEMMA SharedEntry ==
    ASSUME NEW p, NEW found, Len(found) \in Nat, NEW r \in Flags, NEW q \in Flags, NEW o, NEW e,
           FirstFor(p, found, r, o), EntryFor(p, found, q, e),
           e.key = Key(p, e.overload, q), e.key = Key(p, o, r)
    PROVE  EntryFor(p, found, r, e) /\ e.overload = o
  <1>1. PICK k \in 1 .. Len(found) :
           found[k] = o /\ Suits(p, o, r) /\ \A j \in 1 .. k - 1 : ~Suits(p, found[j], r)
    BY DEF FirstFor
  <1>2. PICK h \in 1 .. Len(found) :
           /\ found[h] = e.overload /\ Suits(p, e.overload, q)
           /\ \A j \in 1 .. h - 1 : ~Suits(p, found[j], q)
    BY DEF EntryFor, FirstFor
  <1>3. Suits(p, e.overload, r) /\ Suits(p, o, q)
    BY <1>1, <1>2, KeysTellTempness
  <1>4. h = k
    <2>1. ~(h < k)
      BY <1>1, <1>2, <1>3
    <2>2. ~(k < h)
      BY <1>1, <1>2, <1>3
    <2> QED
      BY <2>1, <2>2
  <1>5. e.overload = o
    BY <1>1, <1>2, <1>4
  <1>6. Key(p, o, q) = Key(p, o, r)
    BY <1>5
  <1>7. Forwarded(p, o, q) = Forwarded(p, o, r)
    <2>1. DOMAIN r = DOMAIN q
      <3>1. DOMAIN Key(p, o, r) = DOMAIN r /\ DOMAIN Key(p, o, q) = DOMAIN q
        BY DEF Key
      <3> QED
        BY <1>6, <3>1
    <2>2. ASSUME NEW i \in DOMAIN r, p.tempness[o][i] = "forward"
          PROVE  q[i] = r[i]
      <3>1. /\ Key(p, o, r)[i] = TempnessKeyItem("forward", r[i])
            /\ Key(p, o, q)[i] = TempnessKeyItem("forward", q[i])
        BY <2>1, <2>2 DEF Key
      <3>2. r[i] \in BOOLEAN /\ q[i] \in BOOLEAN
        BY <2>1, <2>2, InvokeAssumption
      <3> QED
        BY <1>6, <3>1, <3>2 DEF TempnessKeyItem
    <2> QED
      BY <2>1, <2>2 DEF Forwarded
  <1>8. e.forwarded = Forwarded(p, o, r)
    BY <1>5, <1>7 DEF EntryFor
  <1> QED
    BY <1>5, <1>8 DEF EntryFor

(* A call that has a first match, and whose interface matches, is not refused. *)
LEMMA NotRefused ==
    ASSUME NEW p, NEW a, NEW s, NEW r, NEW list \in Seq(Overloads), NEW found \in Seq(Overloads),
           NEW n \in 0 .. Len(list), NEW o,
           Tried(p, a, list, found, n, s), FirstFor(p, found, r, o), Faced(p, a, s)
    PROVE  ~Refused(p, a, list, s, r)
  <1>0. n \in Nat /\ Len(found) \in Nat
    OBVIOUS
  <1>1. PICK i \in 1 .. n :
           /\ list[i] = o
           /\ Accepted(p, a, o, s) /\ Suits(p, o, r)
           /\ \A j \in 1 .. i - 1 :
                 s \in p.accepts[list[j]] /\ Suits(p, list[j], r) => Refuted(p, a, list[j])
    BY <1>0, FirstInList
  <1>2. i \in 1 .. Len(list)
    OBVIOUS
  <1>3. s \in p.accepts[o] /\ Holds(p, a, o)
    BY <1>1 DEF Accepted
  <1>4. ~Refuted(p, a, o)
    BY <1>3, Exclusive
  <1>5. ~(p.interface[s] # Nothing /\ Rejected(p, a, p.interface[s], s))
    BY Exclusive DEF Faced
  <1> QED
    BY <1>1, <1>2, <1>3, <1>4, <1>5 DEF Refused

(***************************************************************************)
(* What answers and matches that are added leave true.                     *)
(***************************************************************************)
LEMMA EntriesKept ==
    ASSUME NEW p, ProgramType(p), NEW a, NEW b, Extends(a, b), NEW s \in Sets,
           NEW found, NEW entries, NEW shared, EntriesIn(p, a, found, entries, shared, s)
    PROVE  EntriesIn(p, b, found, entries, shared, s)
  BY FacedKept DEF EntriesIn

LEMMA ServedKept ==
    ASSUME NEW p, ProgramType(p), NEW a, NEW b, Extends(a, b), NEW s \in Sets,
           NEW found, NEW r, Served(p, a, found, s, r)
    PROVE  Served(p, b, found, s, r)
  BY FacedKept DEF Served

LEMMA BodilessKept ==
    ASSUME NEW p, ProgramType(p), NEW a, NEW b, Extends(a, b), NEW s \in Sets,
           NEW found, NEW r, Bodiless(p, a, found, s, r)
    PROVE  Bodiless(p, b, found, s, r)
  BY FacedKept DEF Bodiless

(* The first match is one overload. *)
LEMMA FirstUnique ==
    ASSUME NEW p, NEW found \in Seq(Overloads), NEW r, NEW o, NEW q,
           FirstFor(p, found, r, o), FirstFor(p, found, r, q)
    PROVE  o = q
  <1>1. PICK k \in 1 .. Len(found) :
           found[k] = o /\ Suits(p, o, r) /\ \A j \in 1 .. k - 1 : ~Suits(p, found[j], r)
    BY DEF FirstFor
  <1>2. PICK h \in 1 .. Len(found) :
           found[h] = q /\ Suits(p, q, r) /\ \A j \in 1 .. h - 1 : ~Suits(p, found[j], r)
    BY DEF FirstFor
  <1>3. k \in Nat /\ h \in Nat /\ k >= 1 /\ h >= 1
    OBVIOUS
  <1>4. ~(k < h) /\ ~(h < k)
    <2>1. k < h => k \in 1 .. h - 1
      BY <1>3
    <2>2. h < k => h \in 1 .. k - 1
      BY <1>3
    <2> QED
      BY <1>1, <1>2, <2>1, <2>2
  <1> QED
    BY <1>1, <1>2, <1>3, <1>4

LEMMA NotBoth ==
    ASSUME NEW p, NEW a, NEW found \in Seq(Overloads), NEW s, NEW r,
           Served(p, a, found, s, r), Bodiless(p, a, found, s, r)
    PROVE  FALSE
  <1>1. PICK o \in Overloads \ p.bodiless : FirstFor(p, found, r, o)
    BY DEF Served
  <1>2. PICK q \in p.bodiless : FirstFor(p, found, r, q)
    BY DEF Bodiless
  <1>3. o = q
    BY <1>1, <1>2, FirstUnique
  <1> QED
    BY <1>1, <1>2, <1>3

(* One more match: the first one is the first still. *)
LEMMA FirstStill ==
    ASSUME NEW p, NEW found \in Seq(Overloads), NEW c \in Overloads, NEW r, NEW o,
           FirstFor(p, found, r, o)
    PROVE  FirstFor(p, Append(found, c), r, o)
  <1>1. PICK k \in 1 .. Len(found) :
           found[k] = o /\ Suits(p, o, r) /\ \A j \in 1 .. k - 1 : ~Suits(p, found[j], r)
    BY DEF FirstFor
  <1> DEFINE more == Append(found, c)
  <1>2. Len(more) = Len(found) + 1 /\ \A j \in 1 .. Len(found) : more[j] = found[j]
    BY Pushed
  <1> HIDE DEF more
  <1>3. k \in 1 .. Len(more) /\ more[k] = o
    BY <1>1, <1>2
  <1>4. \A j \in 1 .. k - 1 : ~Suits(p, more[j], r)
    BY <1>1, <1>2
  <1>5. FirstFor(p, more, r, o)
    BY <1>1, <1>3, <1>4 DEF FirstFor
  <1> QED
    BY <1>5 DEF more

LEMMA EntriesStill ==
    ASSUME NEW p, NEW a, NEW s, NEW found \in Seq(Overloads), NEW c \in Overloads,
           NEW entries, NEW shared, EntriesIn(p, a, found, entries, shared, s)
    PROVE  EntriesIn(p, a, Append(found, c), entries, shared, s)
  <1>1. \A r, e : EntryFor(p, found, r, e) => EntryFor(p, Append(found, c), r, e)
    BY FirstStill DEF EntryFor
  <1> QED
    BY <1>1 DEF EntriesIn

(* One more match, of the next overload that was not rejected. *)
LEMMA TriedMore ==
    ASSUME NEW p, NEW a, NEW s, NEW list \in Seq(Overloads), NEW found \in Seq(Overloads),
           NEW n \in Nat, NEW m \in Nat, n <= m, m < Len(list),
           Tried(p, a, list, found, n, s), Accepted(p, a, list[m + 1], s),
           \A j \in n + 1 .. m : Rejected(p, a, list[j], s)
    PROVE  Tried(p, a, list, Append(found, list[m + 1]), m + 1, s)
  <1> DEFINE c == list[m + 1]
             more == Append(found, c)
  <1>1. c \in Overloads
    OBVIOUS
  <1>2. /\ Len(found) \in Nat /\ Len(more) = Len(found) + 1 /\ more[Len(found) + 1] = c
        /\ \A j \in 1 .. Len(found) : more[j] = found[j]
    BY <1>1, Pushed
  <1>3. Accepted(p, a, c, s) /\ list[m + 1] = c
    OBVIOUS
  <1> HIDE DEF more, c
  <1>4. ASSUME NEW i \in 1 .. m
        PROVE  Rejected(p, a, list[i], s) \/ \E k \in 1 .. Len(found) : found[k] = list[i]
    <2>1. CASE i <= n
      BY <2>1 DEF Tried
    <2>2. CASE n < i
      BY <2>2
    <2> QED
      BY <2>1, <2>2
  <1>5. ASSUME NEW k \in 1 .. Len(found)
        PROVE  \E i \in 1 .. m + 1 :
                  /\ list[i] = more[k]
                  /\ Accepted(p, a, more[k], s)
                  /\ \A j \in 1 .. i - 1 : Rejected(p, a, list[j], s) \/ \E h \in 1 .. k - 1 : more[h] = list[j]
    <2>1. PICK i \in 1 .. n :
             /\ list[i] = found[k]
             /\ Accepted(p, a, found[k], s)
             /\ \A j \in 1 .. i - 1 : Rejected(p, a, list[j], s) \/ \E h \in 1 .. k - 1 : found[h] = list[j]
      BY DEF Tried
    <2>2. i \in 1 .. m + 1 /\ more[k] = found[k]
      BY <1>2
    <2>3. \A h \in 1 .. k - 1 : more[h] = found[h]
      BY <1>2
    <2>4. \A j \in 1 .. i - 1 : Rejected(p, a, list[j], s) \/ \E h \in 1 .. k - 1 : more[h] = list[j]
      BY <2>1, <2>3
    <2> QED
      BY <2>1, <2>2, <2>4
  <1>6. \E i \in 1 .. m + 1 :
           /\ list[i] = more[Len(found) + 1]
           /\ Accepted(p, a, more[Len(found) + 1], s)
           /\ \A j \in 1 .. i - 1 :
                 Rejected(p, a, list[j], s) \/ \E h \in 1 .. Len(found) + 1 - 1 : more[h] = list[j]
    <2>1. ASSUME NEW j \in 1 .. m + 1 - 1
          PROVE  Rejected(p, a, list[j], s) \/ \E h \in 1 .. Len(found) + 1 - 1 : more[h] = list[j]
      BY <1>2, <1>4
    <2> QED
      BY <1>2, <1>3, <2>1
  <1>7. \A k \in 1 .. Len(more) : \E i \in 1 .. m + 1 :
           /\ list[i] = more[k]
           /\ Accepted(p, a, more[k], s)
           /\ \A j \in 1 .. i - 1 : Rejected(p, a, list[j], s) \/ \E h \in 1 .. k - 1 : more[h] = list[j]
    <2>1. \A k \in 1 .. Len(more) : k \in 1 .. Len(found) \/ k = Len(found) + 1
      BY <1>2
    <2> QED
      BY <1>5, <1>6, <2>1
  <1>8. ASSUME NEW i \in 1 .. m + 1
        PROVE  Rejected(p, a, list[i], s) \/ \E k \in 1 .. Len(more) : more[k] = list[i]
    <2>1. CASE i = m + 1
      <3>1. more[Len(found) + 1] = list[i] /\ Len(found) + 1 \in 1 .. Len(more)
        BY <1>2, <1>3, <2>1
      <3> QED
        BY <3>1
    <2>2. CASE i \in 1 .. m
      BY <1>2, <1>4, <2>2
    <2> QED
      BY <2>1, <2>2
  <1>9. Tried(p, a, list, more, m + 1, s)
    BY <1>7, <1>8 DEF Tried
  <1> QED
    BY <1>9 DEF more, c

(***************************************************************************)
(* What a step leaves true of what it does not touch.                      *)
(***************************************************************************)
SameSet(s) ==
    /\ overloads'[s] = overloads[s] /\ matches'[s] = matches[s] /\ next'[s] = next[s]
    /\ byFlags'[s] = byFlags[s] /\ byKey'[s] = byKey[s]

CallOKAfter(f) == Sound(program', answers', overloads'[f.set], matches'[f.set], next'[f.set], f)
WaitsAfter(f, s, r) == AsksFor(program', overloads'[f.set], matches'[f.set], f, s, r)

LEMMA ProgramIsTyped == Inv => ProgramType(program)
  BY InvokeAssumption DEF Inv, Declarations

LEMMA TablesTyped ==
    ASSUME Inv, NEW s \in Sets
    PROVE  /\ overloads[s] \in Seq(Overloads) /\ matches[s] \in Seq(Overloads)
           /\ next[s] \in 0 .. Len(overloads[s]) /\ next[s] \in Nat
  <1>1. overloads[s] \in Seq(Overloads) /\ next[s] \in Nat /\ next[s] <= Len(overloads[s])
    BY DEF Inv, TablesOK
  <1>2. matches[s] \in Seq(Overloads)
    BY DEF Inv, TablesOK
  <1> QED
    BY <1>1, <1>2

LEMMA SetStill ==
    ASSUME Inv, program' = program, Extends(answers, answers'), NEW s \in Sets, SameSet(s), SetOK(s)
    PROVE  SetOK(s)'
  <1>1. Tried(program, answers', overloads[s], matches[s], next[s], s)
    <2>1. Tried(program, answers, overloads[s], matches[s], next[s], s)
      BY DEF SetOK
    <2> QED
      BY <2>1, ProgramIsTyped, TablesTyped, TriedKept
  <1>2. EntriesIn(program, answers', matches[s], byFlags[s], byKey[s], s)
    <2>1. EntriesIn(program, answers, matches[s], byFlags[s], byKey[s], s)
      BY DEF SetOK
    <2> QED
      BY <2>1, ProgramIsTyped, EntriesKept
  <1> QED
    BY <1>1, <1>2 DEF SetOK, SameSet

LEMMA CallStill ==
    ASSUME Inv, program' = program, Extends(answers, answers'), NEW f \in Frames, SameSet(f.set), CallOK(f)
    PROVE  CallOKAfter(f)
  <1>1. f.set \in Sets
    BY DEF Frames
  <1>2. Sound(program, answers, overloads[f.set], matches[f.set], next[f.set], f)
    BY DEF CallOK
  <1>3. Sound(program, answers', overloads[f.set], matches[f.set], next[f.set], f)
    BY <1>1, <1>2, ProgramIsTyped, TablesTyped, SoundKept
  <1> QED
    BY <1>3 DEF CallOKAfter, SameSet

LEMMA WaitsStill ==
    ASSUME program' = program, NEW f, NEW s, NEW r, SameSet(f.set), Waits(f, s, r)
    PROVE  WaitsAfter(f, s, r)
  BY DEF Waits, WaitsAfter, SameSet

(* A set whose answers stand: its overloads are the same and its matches as well,
   or one more. *)
LEMMA AnswerStill ==
    ASSUME Inv, program' = program, Extends(answers, answers'), created \subseteq created',
           NEW s \in Sets, NEW r \in Flags, AnswerOK(s, r), answers'[s][r] = answers[s][r],
           s \in created => overloads'[s] = overloads[s],
           matches'[s] = matches[s] \/ \E c \in Overloads : matches'[s] = Append(matches[s], c)
    PROVE  AnswerOK(s, r)'
  <1>1. ASSUME answers[s][r] = "defined"
        PROVE  Served(program', answers', matches'[s], s, r)
    <2>1. Served(program, answers, matches[s], s, r)
      BY <1>1 DEF AnswerOK
    <2>2. Served(program, answers', matches[s], s, r)
      BY <2>1, ProgramIsTyped, ServedKept
    <2>3. ASSUME NEW c \in Overloads
          PROVE  Served(program, answers', Append(matches[s], c), s, r)
      BY <2>2, TablesTyped, FirstStill DEF Served
    <2> QED
      BY <2>2, <2>3
  <1>2. ASSUME answers[s][r] = "undefined"
        PROVE  /\ s \in created'
               /\ \/ Refused(program', answers', overloads'[s], s, r)
                  \/ Bodiless(program', answers', matches'[s], s, r)
    <2>1. s \in created /\ s \in created'
      BY <1>2 DEF AnswerOK
    <2>2. CASE Refused(program, answers, overloads[s], s, r)
      <3>1. Refused(program, answers', overloads[s], s, r)
        BY <2>2, ProgramIsTyped, TablesTyped, RefusedKept
      <3> QED
        BY <2>1, <3>1
    <2>3. CASE Bodiless(program, answers, matches[s], s, r)
      <3>1. Bodiless(program, answers', matches[s], s, r)
        BY <2>3, ProgramIsTyped, BodilessKept
      <3>2. program.bodiless \subseteq Overloads
        BY ProgramIsTyped DEF ProgramType
      <3>3. ASSUME NEW c \in Overloads
            PROVE  Bodiless(program, answers', Append(matches[s], c), s, r)
        BY <3>1, TablesTyped, FirstStill DEF Bodiless
      <3> QED
        BY <2>1, <3>1, <3>3
    <2> QED
      BY <1>2, <2>2, <2>3 DEF AnswerOK
  <1> QED
    BY <1>1, <1>2 DEF AnswerOK

(***************************************************************************)
(* The active calls.                                                       *)
(***************************************************************************)
LEMMA TopIsSound ==
    ASSUME Inv, Memo, stack # <<>>
    PROVE  /\ Top \in Frames /\ Top.set \in Sets /\ Top.flags \in Flags
           /\ Top.i \in Nat /\ Top.index \in Nat /\ Top.answer \in {"none", "defined", "undefined"}
           /\ Top.set \in created
           /\ CallOK(Top)
           /\ Top.doing \in {"interface", "entries"}
           /\ Candidate = CandidateOf(program, overloads[Top.set], matches[Top.set], Top)
  <1>1. Top \in Frames /\ Top = stack[Len(stack)] /\ Top.set \in evaluating /\ Len(stack) \in Nat \ {0}
    BY TopFacts DEF Inv
  <1>2. Top.set \in created
    BY <1>1 DEF Inv, CallsOK
  <1>3. CallOK(Top)
    BY <1>1 DEF Memo, CallsSound
  <1>4. Top.doing \in {"interface", "entries"}
    BY <1>3 DEF CallOK, Sound
  <1>5. Candidate = CandidateOf(program, overloads[Top.set], matches[Top.set], Top)
    BY <1>4 DEF Candidate, CandidateOf
  <1> QED
    BY <1>1, <1>2, <1>3, <1>4, <1>5 DEF Frames

(* The innermost call goes on. *)
LEMMA GoesOnSound ==
    ASSUME Inv, Memo, stack # <<>>, NEW f \in Frames, SetTop(f), f.set = Top.set, f.flags = Top.flags,
           UNCHANGED <<program, answers>>, \A s \in Sets \ {Top.set} : SameSet(s), CallOKAfter(f)
    PROVE  CallsSound'
  <1>1. /\ stack \in Seq(Frames)
        /\ \A j, k \in 1 .. Len(stack) : stack[j].set = stack[k].set => j = k
    BY DEF Inv, CallsOK, FlagsMatchStack
  <1>2. /\ Len(stack') = Len(stack)
        /\ stack'[Len(stack)] = f
        /\ \A k \in 1 .. Len(stack) - 1 : stack'[k] = stack[k]
    BY <1>1, TopReplaced DEF SetTop
  <1>3. Len(stack) \in Nat \ {0} /\ Top = stack[Len(stack)]
    BY TopFacts DEF Inv
  <1>4. Extends(answers, answers')
    BY DEF Extends
  <1>5. ASSUME NEW k \in 1 .. Len(stack) - 1
        PROVE  /\ k \in 1 .. Len(stack) /\ stack[k] \in Frames
               /\ SameSet(stack[k].set) /\ stack'[k] = stack[k]
    <2>1. k \in 1 .. Len(stack) /\ k # Len(stack) /\ Len(stack) \in 1 .. Len(stack)
      BY <1>3
    <2>2. stack[k] \in Frames /\ stack[k].set # Top.set
      BY <1>1, <1>3, <2>1
    <2>3. stack[k].set \in Sets
      BY <2>2 DEF Frames
    <2> QED
      BY <1>2, <2>1, <2>2, <2>3
  <1>6. ASSUME NEW k \in 1 .. Len(stack)
        PROVE  CallOKAfter(stack'[k])
    <2>1. CASE k = Len(stack)
      BY <1>2, <2>1
    <2>2. CASE k # Len(stack)
      <3>1. k \in 1 .. Len(stack) - 1
        BY <2>2
      <3>2. CallOK(stack[k])
        BY DEF Memo, CallsSound
      <3>3. CallOKAfter(stack[k])
        BY <1>4, <1>5, <3>1, <3>2, CallStill
      <3> QED
        BY <1>5, <3>1, <3>3
    <2> QED
      BY <2>1, <2>2
  <1>7. ASSUME NEW k \in 1 .. Len(stack) - 1
        PROVE  WaitsAfter(stack'[k], stack'[k + 1].set, stack'[k + 1].flags)
    <2>1. Waits(stack[k], stack[k + 1].set, stack[k + 1].flags)
      BY DEF Memo, CallsSound
    <2>2. stack'[k + 1].set = stack[k + 1].set /\ stack'[k + 1].flags = stack[k + 1].flags
      BY <1>2, <1>3
    <2>3. WaitsAfter(stack[k], stack[k + 1].set, stack[k + 1].flags)
      BY <1>5, <2>1, WaitsStill
    <2> QED
      BY <1>5, <2>2, <2>3
  <1> QED
    BY <1>2, <1>6, <1>7 DEF CallsSound, CallOK, Waits, CallOKAfter, WaitsAfter

(* A call takes the answer that it waits for. *)
LEMMA AnswerTaken ==
    ASSUME NEW p, NEW a, NEW list, NEW found, NEW n, NEW f \in Frames, NEW g \in Frames,
           NEW s \in Sets, NEW r \in Flags, Sound(p, a, list, found, n, f), AsksFor(p, list, found, f, s, r),
           g.set = f.set, g.flags = f.flags, g.doing = f.doing, g.i = f.i, g.index = f.index,
           g.answer = a[s][r]
    PROVE  Sound(p, a, list, found, n, g)
  <1>1. AsksFor(p, list, found, g, s, r)
    BY DEF AsksFor, CandidateOf
  <1> QED
    BY <1>1 DEF Sound

LEMMA AnswersAfter ==
    ASSUME answers \in Answers, NEW s \in Sets, NEW r \in Flags,
           NEW result \in {"defined", "undefined"}, answers[s][r] \in {"none", result},
           answers' = IF answers[s][r] = "none" THEN [answers EXCEPT ![s][r] = result] ELSE answers
    PROVE  /\ answers' \in Answers /\ Extends(answers, answers')
           /\ answers'[s][r] = result
           /\ \A t \in Sets, q \in Flags : t # s \/ q # r => answers'[t][q] = answers[t][q]
  <1>1. CASE answers[s][r] = "none"
    <2>1. answers' = [answers EXCEPT ![s][r] = result]
      BY <1>1
    <2>2. /\ answers' \in Answers /\ answers'[s][r] = result
          /\ \A t \in Sets, q \in Flags : t # s \/ q # r => answers'[t][q] = answers[t][q]
      BY <2>1 DEF Answers
    <2>3. Extends(answers, answers')
      BY <1>1, <2>2 DEF Extends
    <2> QED
      BY <2>2, <2>3
  <1>2. CASE answers[s][r] # "none"
    <2>1. answers' = answers /\ answers[s][r] = result
      BY <1>2
    <2> QED
      BY <2>1 DEF Extends
  <1> QED
    BY <1>1, <1>2

(* A result is delivered to the calls below: the innermost of them takes it. *)
LEMMA DeliverSound ==
    ASSUME Inv, answers \in Answers, program' = program,
           NEW calls \in Seq(Frames), NEW s \in Sets, NEW r \in Flags,
           NEW result \in {"defined", "undefined"}, Deliver(calls, s, r, result),
           answers[s][r] \in {"none", result},
           \A k \in 1 .. Len(calls) : CallOK(calls[k]) /\ SameSet(calls[k].set),
           \A k \in 1 .. Len(calls) - 1 : Waits(calls[k], calls[k + 1].set, calls[k + 1].flags),
           calls # <<>> => Waits(calls[Len(calls)], s, r)
    PROVE  CallsSound'
  <1>1. Extends(answers, answers') /\ answers'[s][r] = result
    BY AnswersAfter DEF Deliver
  <1>2. CASE calls = <<>>
    <2>1. stack' = <<>>
      BY <1>2 DEF Deliver
    <2>2. Len(stack') = 0
      BY <2>1
    <2> QED
      BY <2>2 DEF CallsSound
  <1>3. CASE calls # <<>>
    <2> DEFINE f == calls[Len(calls)]
               g == [f EXCEPT !.answer = result]
    <2>1. Len(calls) \in Nat \ {0} /\ Last(calls) = f /\ f \in Frames
      BY <1>3, TopAndBelow
    <2>2. stack' = Append(Front(calls), g)
      BY <1>3, <2>1 DEF Deliver
    <2>3. /\ g \in Frames /\ g.set = f.set /\ g.flags = f.flags /\ g.doing = f.doing
          /\ g.i = f.i /\ g.index = f.index /\ g.answer = result
      BY <2>1 DEF Frames
    <2> HIDE DEF g
    <2>4. /\ Len(stack') = Len(calls)
          /\ stack'[Len(calls)] = g
          /\ \A k \in 1 .. Len(calls) - 1 : stack'[k] = calls[k]
      BY <1>3, <2>2, <2>3, TopReplaced
    <2>5. \A k \in 1 .. Len(calls) : stack'[k].set = calls[k].set /\ stack'[k].flags = calls[k].flags
      BY <2>1, <2>3, <2>4
    <2>6. ASSUME NEW k \in 1 .. Len(calls)
          PROVE  calls[k] \in Frames /\ SameSet(calls[k].set) /\ CallOKAfter(calls[k])
      BY <1>1, CallStill
    <2>7. CallOKAfter(g)
      <3>1. Len(calls) \in 1 .. Len(calls)
        BY <2>1
      <3>2. WaitsAfter(f, s, r) /\ CallOKAfter(f)
        BY <1>3, <2>6, <3>1, WaitsStill
      <3> QED
        BY <1>1, <2>1, <2>3, <3>2, AnswerTaken DEF WaitsAfter, CallOKAfter
    <2>8. ASSUME NEW k \in 1 .. Len(calls)
          PROVE  CallOKAfter(stack'[k])
      <3>1. CASE k = Len(calls)
        BY <2>4, <2>7, <3>1
      <3>2. CASE k # Len(calls)
        <4>1. k \in 1 .. Len(calls) - 1
          BY <2>1, <3>2
        <4> QED
          BY <2>4, <2>6, <4>1
      <3> QED
        BY <3>1, <3>2
    <2>9. ASSUME NEW k \in 1 .. Len(calls) - 1
          PROVE  WaitsAfter(stack'[k], stack'[k + 1].set, stack'[k + 1].flags)
      <3>1. k \in 1 .. Len(calls) /\ k + 1 \in 1 .. Len(calls)
        BY <2>1
      <3>2. WaitsAfter(calls[k], calls[k + 1].set, calls[k + 1].flags)
        BY <2>6, <3>1, WaitsStill
      <3> QED
        BY <2>4, <2>5, <3>1, <3>2
    <2> QED
      BY <2>4, <2>8, <2>9 DEF CallsSound, CallOK, Waits, CallOKAfter, WaitsAfter
  <1> QED
    BY <1>2, <1>3

(* The tables of a set after the step, with the answers before it. *)
TablesAfter(s) ==
    /\ Tried(program, answers, overloads'[s], matches'[s], next'[s], s)
    /\ EntriesIn(program, answers, matches'[s], byFlags'[s], byKey'[s], s)

LEMMA DeliverMemo ==
    ASSUME Inv, Inv', Memo, program' = program, matches' = matches, created \subseteq created',
           \A t \in created : overloads'[t] = overloads[t],
           \A t \in Sets : TablesAfter(t),
           NEW calls \in Seq(Frames), NEW s \in Sets, NEW r \in Flags,
           NEW result \in {"defined", "undefined"}, Deliver(calls, s, r, result),
           \A k \in 1 .. Len(calls) : CallOK(calls[k]) /\ SameSet(calls[k].set),
           \A k \in 1 .. Len(calls) - 1 : Waits(calls[k], calls[k + 1].set, calls[k + 1].flags),
           calls # <<>> => Waits(calls[Len(calls)], s, r),
           result = "defined" => Served(program, answers, matches[s], s, r),
           result = "undefined" =>
               /\ s \in created
               /\ \/ Refused(program, answers, overloads[s], s, r)
                  \/ Bodiless(program, answers, matches[s], s, r)
    PROVE  Memo'
  <1>1. answers \in Answers /\ SetOK(s) /\ AnswerOK(s, r) /\ ~program.final
    BY DEF Memo
  <1>2. answers[s][r] \in {"none", result}
    <2>1. ~(/\ Served(program, answers, matches[s], s, r)
            /\ Refused(program, answers, overloads[s], s, r))
      BY <1>1, TablesTyped, NotRefused DEF Served, SetOK
    <2>2. answers[s][r] \in {"none", "defined", "undefined"}
      BY <1>1 DEF Answers
    <2>3. ~(/\ Served(program, answers, matches[s], s, r)
            /\ Bodiless(program, answers, matches[s], s, r))
      BY TablesTyped, NotBoth
    <2> QED
      BY <1>1, <2>1, <2>2, <2>3 DEF AnswerOK
  <1>3. /\ answers' \in Answers /\ Extends(answers, answers')
        /\ answers'[s][r] = result
        /\ \A t \in Sets, q \in Flags : t # s \/ q # r => answers'[t][q] = answers[t][q]
    <2>1. answers \in Answers
      BY <1>1
    <2>2. answers' = IF answers[s][r] = "none" THEN [answers EXCEPT ![s][r] = result] ELSE answers
      BY DEF Deliver
    <2> QED
      BY <1>2, <2>1, <2>2, AnswersAfter
  <1>4. CallsSound'
    BY <1>1, <1>2, DeliverSound
  <1>5. ASSUME NEW t \in Sets
        PROVE  SetOK(t)'
    <2>1. /\ overloads'[t] \in Seq(Overloads) /\ matches'[t] \in Seq(Overloads)
          /\ next'[t] \in 0 .. Len(overloads'[t])
      <3>1. overloads'[t] \in Seq(Overloads) /\ next'[t] \in Nat /\ next'[t] <= Len(overloads'[t])
        BY DEF Inv, TablesOK
      <3>2. matches'[t] \in Seq(Overloads)
        BY DEF Inv, TablesOK
      <3> QED
        BY <3>1, <3>2
    <2>2. Tried(program, answers', overloads'[t], matches'[t], next'[t], t)
      BY <1>3, <2>1, ProgramIsTyped, TriedKept DEF TablesAfter
    <2>3. EntriesIn(program, answers', matches'[t], byFlags'[t], byKey'[t], t)
      BY <1>3, ProgramIsTyped, EntriesKept DEF TablesAfter
    <2> QED
      BY <2>2, <2>3 DEF SetOK
  <1>6. ASSUME NEW t \in Sets, NEW q \in Flags
        PROVE  AnswerOK(t, q)'
    <2>1. CASE t # s \/ q # r
      <3>1. AnswerOK(t, q) /\ answers'[t][q] = answers[t][q]
        BY <1>3, <2>1 DEF Memo
      <3> QED
        BY <1>3, <3>1, AnswerStill
    <2>2. CASE t = s /\ q = r
      <3>1. result = "defined" => Served(program, answers', matches[s], s, r)
        BY <1>3, ProgramIsTyped, ServedKept
      <3>2. s \in created /\ Refused(program, answers, overloads[s], s, r) =>
               s \in created' /\ Refused(program, answers', overloads'[s], s, r)
        BY <1>3, ProgramIsTyped, TablesTyped, RefusedKept
      <3>3. Bodiless(program, answers, matches[s], s, r) =>
               Bodiless(program, answers', matches'[s], s, r)
        BY <1>3, ProgramIsTyped, BodilessKept
      <3> QED
        BY <1>3, <2>2, <3>1, <3>2, <3>3 DEF AnswerOK
    <2> QED
      BY <2>1, <2>2
  <1> QED
    BY <1>1, <1>3, <1>4, <1>5, <1>6 DEF Memo

(* What whoever asks makes of the entry of the first match. *)
LEMMA VerdictServed ==
    ASSUME Inv, NEW s \in Sets, NEW r, NEW e,
           FirstFor(program, matches[s], r, e.overload), Faced(program, answers, s)
    PROVE  /\ Verdict(e) \in {"defined", "undefined"}
           /\ Verdict(e) = "defined" => Served(program, answers, matches[s], s, r)
           /\ Verdict(e) = "undefined" => Bodiless(program, answers, matches[s], s, r)
  <1> DEFINE o == e.overload
  <1>1. matches[s] \in Seq(Overloads)
    BY TablesTyped
  <1>2. FirstFor(program, matches[s], r, o)
    OBVIOUS
  <1>3. Verdict(e) = IF o \in program.bodiless THEN "undefined" ELSE "defined"
    BY DEF Verdict
  <1> HIDE DEF o
  <1>4. o \in Overloads
    BY <1>1, <1>2 DEF FirstFor
  <1>5. o \notin program.bodiless => Served(program, answers, matches[s], s, r)
    BY <1>2, <1>4 DEF Served
  <1>6. o \in program.bodiless => Bodiless(program, answers, matches[s], s, r)
    BY <1>2 DEF Bodiless
  <1> QED
    BY <1>3, <1>5, <1>6

(***************************************************************************)
(* The steps.                                                              *)
(***************************************************************************)
LEMMA InitMemo ==
    ASSUME Init, ~program.final PROVE Memo
  <1>1. /\ stack = <<>> /\ answers = [s \in Sets |-> [r \in Flags |-> "none"]]
        /\ overloads = [s \in Sets |-> <<>>] /\ matches = [s \in Sets |-> <<>>]
        /\ next = [s \in Sets |-> 0] /\ byKey = [s \in Sets |-> {}]
        /\ byFlags = [s \in Sets |-> [r \in Flags |-> Nothing]]
    BY DEF Init
  <1>2. Len(stack) = 0
    BY <1>1
  <1>3. answers \in Answers
    BY <1>1 DEF Answers
  <1>4. ASSUME NEW s \in Sets
        PROVE  SetOK(s)
    <2>1. /\ matches[s] = <<>> /\ Len(matches[s]) = 0 /\ next[s] = 0 /\ byKey[s] = {}
          /\ \A r \in Flags : byFlags[s][r] = Nothing
      BY <1>1
    <2> QED
      BY <2>1 DEF SetOK, Tried, EntriesIn
  <1>5. \A s \in Sets, r \in Flags : AnswerOK(s, r)
    BY <1>1 DEF AnswerOK
  <1> QED
    BY <1>2, <1>3, <1>4, <1>5 DEF Memo, CallsSound

(* The verdict of the innermost call on the overload it is matching is for good. *)
LEMMA VerdictIsTrue ==
    ASSUME Inv, Memo, stack # <<>>, Candidate # Nothing
    PROVE  /\ Succeeds(Candidate) => Accepted(program, answers, Candidate, Top.set)
           /\ Fails(Candidate) => Rejected(program, answers, Candidate, Top.set)
  <1>1. /\ Top.answer \in {"none", "defined", "undefined"} /\ CallOK(Top)
        /\ Candidate = CandidateOf(program, overloads[Top.set], matches[Top.set], Top)
    BY TopIsSound
  <1>2. ASSUME Top.answer # "none"
        PROVE  \E s \in Sets, r \in Flags :
                  program.predicate[Candidate] = <<s, r>> /\ answers[s][r] = Top.answer
    BY <1>1, <1>2 DEF CallOK, Sound, AsksFor
  <1>3. ASSUME Succeeds(Candidate)
        PROVE  Accepted(program, answers, Candidate, Top.set)
    BY <1>2, <1>3 DEF Succeeds, Accepts, Accepted, Holds
  <1>4. ASSUME Fails(Candidate)
        PROVE  Rejected(program, answers, Candidate, Top.set)
    <2>1. CASE Top.set \notin program.accepts[Candidate]
      BY <2>1 DEF Rejected
    <2>2. CASE Top.set \in program.accepts[Candidate]
      <3>1. program.predicate[Candidate] # Nothing /\ Top.answer = "undefined"
        BY <1>1, <1>4, <2>2 DEF Fails, Succeeds, NeedsPredicate, Accepts
      <3> QED
        BY <1>2, <3>1 DEF Rejected, Refuted
    <2> QED
      BY <2>1, <2>2
  <1> QED
    BY <1>3, <1>4

(* The first lookup in a set copies the overloads: nothing was tried, matched or
   answered in it. *)
LEMMA FindSetMemo ==
    ASSUME Inv, Memo, NEW s \in Sets, FindSet(s), UNCHANGED <<matches, next, byFlags, byKey>>
    PROVE  /\ created \subseteq created'
           /\ \A t \in created : overloads'[t] = overloads[t] /\ SameSet(t)
           /\ \A t \in Sets : TablesAfter(t)
  <1>0. overloads \in [Sets -> Seq(Overloads)] /\ created \subseteq Sets
    BY DEF Inv, TablesOK
  <1>1. created' = created \cup {s}
    BY DEF FindSet
  <1>2. \A t \in Sets : t \in created \/ t # s => overloads'[t] = overloads[t]
    BY <1>0 DEF FindSet
  <1>3. \A t \in created : overloads'[t] = overloads[t] /\ SameSet(t)
    BY <1>0, <1>2 DEF SameSet
  <1>4. ASSUME NEW t \in Sets
        PROVE  TablesAfter(t)
    <2>1. CASE t \in created \/ t # s
      BY <1>2, <2>1 DEF TablesAfter, Memo, SetOK
    <2>2. CASE t \notin created /\ t = s
      <3>1. /\ next[t] = 0 /\ matches[t] = <<>> /\ Len(matches[t]) = 0
            /\ \A r \in Flags : byFlags[t][r] = Nothing \/ byFlags[t][r].overload \in ToSet(matches[t])
            /\ \A e \in byKey[t] : e.overload \in ToSet(matches[t])
        BY <2>2 DEF Inv, TablesOK
      <3>2. ToSet(matches[t]) = {}
        BY <3>1 DEF ToSet
      <3> QED
        BY <3>1, <3>2 DEF TablesAfter, Tried, EntriesIn
    <2> QED
      BY <2>1, <2>2
  <1> QED
    BY <1>1, <1>3, <1>4

(* The entry of lookupInvokeEntry. *)
LEMMA EnterMemo ==
    ASSUME Inv, Inv', Memo, NEW s \in Sets, NEW r \in Flags, Enter(s, r),
           stack # <<>> => Waits(Top, s, r)
    PROVE  Memo'
  <1>1. /\ FindSet(s)
        /\ program' = program
        /\ UNCHANGED <<matches, next, byFlags, byKey>>
    BY DEF Enter
  <1>2. /\ created \subseteq created'
        /\ \A t \in created : overloads'[t] = overloads[t] /\ SameSet(t)
        /\ \A t \in Sets : TablesAfter(t)
    BY <1>1, FindSetMemo
  <1>3. /\ ~program.final /\ answers \in Answers
        /\ \A k \in 1 .. Len(stack) : CallOK(stack[k])
        /\ \A k \in 1 .. Len(stack) - 1 : Waits(stack[k], stack[k + 1].set, stack[k + 1].flags)
    BY DEF Memo, CallsSound
  <1>4. /\ stack \in Seq(Frames) /\ Len(stack) \in Nat
        /\ \A k \in 1 .. Len(stack) : stack[k] \in Frames /\ SameSet(stack[k].set)
    <2>1. stack \in Seq(Frames) /\ \A k \in 1 .. Len(stack) : stack[k].set \in created
      BY DEF Inv, CallsOK, FlagsMatchStack
    <2> QED
      BY <1>2, <2>1
  <1>5. stack # <<>> => Waits(stack[Len(stack)], s, r)
    BY TopFacts DEF Inv
  <1>6. ASSUME answers' = answers, CallsSound'
        PROVE  Memo'
    <2>1. Extends(answers, answers')
      BY <1>6 DEF Extends
    <2>2. \A t \in Sets : SetOK(t)'
      BY <1>1, <1>2, <1>6 DEF SetOK, TablesAfter
    <2>3. \A t \in Sets, q \in Flags : AnswerOK(t, q)'
      <3>1. ASSUME NEW t \in Sets, NEW q \in Flags PROVE AnswerOK(t, q)'
        <4>1. AnswerOK(t, q) /\ answers'[t][q] = answers[t][q]
          BY <1>6 DEF Memo
        <4> QED
          BY <1>1, <1>2, <2>1, <4>1, AnswerStill
      <3> QED
        BY <3>1
    <2> QED
      BY <1>1, <1>3, <1>6, <2>2, <2>3 DEF Memo
  <1>7. CASE Busy(s)
    <2>1. stack' = <<>> /\ answers' = answers
      BY <1>7 DEF Enter
    <2>2. Len(stack') = 0
      BY <2>1
    <2>3. CallsSound'
      BY <2>2 DEF CallsSound
    <2> QED
      BY <1>6, <2>1, <2>3
  <1>8. CASE ~Busy(s) /\ byFlags[s][r] # Nothing
    <2>1. Deliver(stack, s, r, Verdict(byFlags[s][r]))
      BY <1>8 DEF Enter
    <2>2. EntryFor(program, matches[s], r, byFlags[s][r]) /\ Faced(program, answers, s)
      BY <1>8 DEF Memo, SetOK, EntriesIn
    <2>3. s \in created
      <3>1. matches[s] # <<>>
        BY <2>2 DEF EntryFor, FirstFor
      <3> QED
        BY <3>1 DEF Inv, TablesOK
    <2>4. PICK result \in {"defined", "undefined"} :
            /\ result = Verdict(byFlags[s][r])
            /\ result = "defined" => Served(program, answers, matches[s], s, r)
            /\ result = "undefined" => Bodiless(program, answers, matches[s], s, r)
      BY <2>2, VerdictServed DEF EntryFor
    <2> QED
      BY <1>1, <1>2, <1>3, <1>4, <1>5, <2>1, <2>3, <2>4, DeliverMemo
  <1>9. CASE ~Busy(s) /\ byFlags[s][r] = Nothing
    <2>1. stack' = Append(stack, Call(s, r)) /\ answers' = answers
      BY <1>9 DEF Enter
    <2>2. /\ Call(s, r) \in Frames /\ Call(s, r).set = s /\ Call(s, r).flags = r
          /\ Call(s, r).doing = "interface" /\ Call(s, r).i = 0 /\ Call(s, r).answer = "none"
      BY DEF Call, Frames
    <2> DEFINE new == Call(s, r)
    <2> HIDE DEF new
    <2>3. /\ Len(stack') = Len(stack) + 1
          /\ stack'[Len(stack) + 1] = new
          /\ \A k \in 1 .. Len(stack) : stack'[k] = stack[k]
      BY <1>4, <2>1, <2>2, Pushed DEF new
    <2>4. Extends(answers, answers')
      BY <2>1 DEF Extends
    <2>5. CallOKAfter(new)
      BY <2>2 DEF new, CallOKAfter, Sound
    <2>6. ASSUME NEW k \in 1 .. Len(stack')
          PROVE  CallOKAfter(stack'[k])
      <3>1. CASE k = Len(stack) + 1
        BY <2>3, <2>5, <3>1
      <3>2. CASE k # Len(stack) + 1
        <4>1. k \in 1 .. Len(stack)
          BY <1>4, <2>3, <3>2
        <4>2. CallOKAfter(stack[k])
          BY <1>1, <1>3, <1>4, <2>4, <4>1, CallStill
        <4> QED
          BY <2>3, <4>1, <4>2
      <3> QED
        BY <3>1, <3>2
    <2>7. ASSUME NEW k \in 1 .. Len(stack') - 1
          PROVE  WaitsAfter(stack'[k], stack'[k + 1].set, stack'[k + 1].flags)
      <3>1. k \in 1 .. Len(stack) /\ stack'[k] = stack[k] /\ SameSet(stack[k].set)
        BY <1>4, <2>3
      <3>2. CASE k = Len(stack)
        <4>1. Len(stack) # 0 /\ stack # <<>>
          BY <3>1, <3>2
        <4>2. WaitsAfter(stack[k], s, r)
          BY <1>1, <1>5, <3>1, <3>2, <4>1, WaitsStill
        <4> QED
          BY <2>2, <2>3, <3>1, <3>2, <4>2 DEF new
      <3>3. CASE k # Len(stack)
        <4>1. k \in 1 .. Len(stack) - 1 /\ k + 1 \in 1 .. Len(stack)
          BY <1>4, <3>1, <3>3
        <4>2. WaitsAfter(stack[k], stack[k + 1].set, stack[k + 1].flags)
          BY <1>1, <1>3, <3>1, <4>1, WaitsStill
        <4> QED
          BY <2>3, <4>1, <4>2
      <3> QED
        BY <3>2, <3>3
    <2>8. CallsSound'
      BY <2>6, <2>7 DEF CallsSound, CallOK, Waits, CallOKAfter, WaitsAfter
    <2> QED
      BY <1>6, <2>1, <2>8
  <1> QED
    BY <1>7, <1>8, <1>9

(* The innermost call goes on and the tables stay as they are. *)
LEMMA GoesOnMemo ==
    ASSUME Inv, Memo, stack # <<>>, NEW f \in Frames, SetTop(f), f.set = Top.set, f.flags = Top.flags,
           UNCHANGED <<program, tables, answers>>, CallOK(f)
    PROVE  Memo'
  <1>1. /\ UNCHANGED <<program, answers>>
        /\ UNCHANGED <<created, overloads, matches, next, byFlags, byKey>>
    BY DEF tables
  <1>2. \A s \in Sets : SameSet(s)
    BY <1>1 DEF SameSet
  <1>3. CallOKAfter(f)
    BY <1>1 DEF CallOK, CallOKAfter
  <1>4. CallsSound'
    BY <1>1, <1>2, <1>3, GoesOnSound
  <1>5. (\A s \in Sets : SetOK(s)') /\ (\A s \in Sets, r \in Flags : AnswerOK(s, r)')
    BY <1>1 DEF Memo, SetOK, AnswerOK
  <1> QED
    BY <1>1, <1>4, <1>5 DEF Memo

(* The innermost call returns. *)
LEMMA ReturnMemo ==
    ASSUME Inv, Inv', Memo, stack # <<>>, NEW result \in {"defined", "undefined"}, Return(result),
           UNCHANGED <<program, created, overloads, matches, next>>,
           \A s \in Sets \ {Top.set} : SameSet(s), TablesAfter(Top.set),
           result = "defined" => Served(program, answers, matches[Top.set], Top.set, Top.flags),
           result = "undefined" =>
               \/ Refused(program, answers, overloads[Top.set], Top.set, Top.flags)
               \/ Bodiless(program, answers, matches[Top.set], Top.set, Top.flags)
    PROVE  Memo'
  <1> DEFINE calls == Front(stack)
  <1>1. /\ calls \in Seq(Frames) /\ Len(stack) \in Nat \ {0} /\ Top = stack[Len(stack)]
        /\ Len(calls) = Len(stack) - 1
        /\ \A k \in 1 .. Len(stack) - 1 : calls[k] = stack[k]
    BY TopFacts DEF Inv
  <1>2. Top.set \in Sets /\ Top.flags \in Flags /\ Top.set \in created
    BY TopIsSound
  <1>3. Deliver(calls, Top.set, Top.flags, result)
    BY DEF Return
  <1>4. calls # <<>> => Len(calls) \in 1 .. Len(stack) - 1
    BY <1>1, TopAndBelow
  <1> HIDE DEF calls
  <1>5. \A k \in 1 .. Len(stack) : /\ stack[k] \in Frames /\ CallOK(stack[k])
                                   /\ k # Len(stack) => stack[k].set # Top.set
    BY <1>1 DEF Inv, CallsOK, FlagsMatchStack, Memo, CallsSound
  <1>6. \A k \in 1 .. Len(calls) : CallOK(calls[k]) /\ SameSet(calls[k].set)
    <2>1. ASSUME NEW k \in 1 .. Len(calls) PROVE CallOK(calls[k]) /\ SameSet(calls[k].set)
      <3>1. k \in 1 .. Len(stack) /\ k # Len(stack) /\ calls[k] = stack[k]
        BY <1>1
      <3>2. calls[k].set \in Sets \ {Top.set}
        BY <1>5, <3>1 DEF Frames
      <3> QED
        BY <1>5, <3>1, <3>2
    <2> QED
      BY <2>1
  <1>7. \A k \in 1 .. Len(stack) - 1 : Waits(stack[k], stack[k + 1].set, stack[k + 1].flags)
    BY DEF Memo, CallsSound
  <1>8. \A k \in 1 .. Len(calls) - 1 : Waits(calls[k], calls[k + 1].set, calls[k + 1].flags)
    <2>1. \A k \in 1 .. Len(calls) - 1 :
             /\ k \in 1 .. Len(stack) - 1 /\ k + 1 \in 1 .. Len(stack) - 1
      BY <1>1
    <2> QED
      BY <1>1, <1>7, <2>1
  <1>9. calls # <<>> => Waits(calls[Len(calls)], Top.set, Top.flags)
    <2>1. ASSUME calls # <<>> PROVE Waits(calls[Len(calls)], Top.set, Top.flags)
      <3>1. Len(calls) \in 1 .. Len(stack) - 1 /\ Len(calls) + 1 = Len(stack)
        BY <1>1, <1>4, <2>1
      <3> QED
        BY <1>1, <1>7, <3>1
    <2> QED
      BY <2>1
  <1>10. \A t \in Sets : TablesAfter(t)
    BY DEF TablesAfter, SameSet, Memo, SetOK
  <1> QED
    BY <1>1, <1>2, <1>3, <1>6, <1>8, <1>9, <1>10, DeliverMemo

LEMMA PassInterfaceMemo == Inv /\ Memo /\ PassInterface => Memo'
  <1> SUFFICES ASSUME Inv, Memo, PassInterface PROVE Memo'
    OBVIOUS
  <1>1. /\ stack # <<>> /\ Top.doing = "interface"
        /\ Candidate # Nothing => Succeeds(Candidate)
        /\ SetTop([Top EXCEPT !.doing = "entries", !.answer = "none", !.index = next[Top.set]])
        /\ UNCHANGED <<program, tables, answers>>
    BY DEF PassInterface
  <1>2. Top \in Frames /\ Top.set \in Sets /\ CallOK(Top)
        /\ Candidate = CandidateOf(program, overloads[Top.set], matches[Top.set], Top)
    BY <1>1, TopIsSound
  <1>3. next[Top.set] \in 0 .. Len(overloads[Top.set]) /\ matches[Top.set] \in Seq(Overloads)
    BY <1>2, TablesTyped
  <1> DEFINE f == [Top EXCEPT !.doing = "entries", !.answer = "none", !.index = next[Top.set]]
  <1>4. /\ f \in Frames /\ f.set = Top.set /\ f.flags = Top.flags /\ f.doing = "entries"
        /\ f.answer = "none" /\ f.index = next[Top.set] /\ f.i = Top.i
    <2> DEFINE n == next[Top.set]
    <2>1. n \in Nat /\ f = [Top EXCEPT !.doing = "entries", !.answer = "none", !.index = n]
      BY <1>2, TablesTyped
    <2> HIDE DEF f, n
    <2>2. /\ f \in Frames /\ f.set = Top.set /\ f.flags = Top.flags /\ f.doing = "entries"
          /\ f.answer = "none" /\ f.index = n /\ f.i = Top.i
      BY <1>2, <2>1 DEF Frames
    <2> QED
      BY <2>2 DEF n
  <1>5. SetTop(f)
    BY <1>1
  <1> HIDE DEF f
  <1>6. Top.i = 0
    BY <1>1, <1>2 DEF CallOK, Sound
  <1>7. Faced(program, answers, Top.set)
    <2>1. Candidate = program.interface[Top.set]
      BY <1>1, <1>2 DEF CandidateOf
    <2> QED
      BY <1>1, <2>1, VerdictIsTrue DEF Faced
  <1>8. CallOK(f)
    BY <1>3, <1>4, <1>6, <1>7 DEF CallOK, Sound
  <1> QED
    BY <1>1, <1>4, <1>5, <1>8, GoesOnMemo

LEMMA SkipOverloadMemo == Inv /\ Memo /\ SkipOverload => Memo'
  <1> SUFFICES ASSUME Inv, Memo, SkipOverload PROVE Memo'
    OBVIOUS
  <1>1. /\ stack # <<>> /\ Top.doing \in {"entries", "final"}
        /\ Candidate # Nothing /\ Fails(Candidate)
        /\ SetTop([Top EXCEPT !.index = @ + 1, !.answer = "none"])
        /\ UNCHANGED <<program, tables, answers>>
    BY DEF SkipOverload
  <1>2. /\ Top \in Frames /\ Top.set \in Sets /\ CallOK(Top) /\ Top.index \in Nat
        /\ Top.doing = "entries"
    BY <1>1, TopIsSound
  <1>3. /\ Top.index < Len(overloads[Top.set])
        /\ Candidate = overloads[Top.set][Top.index + 1]
    BY <1>1, <1>2, CandidateIsOverload
  <1>4. Rejected(program, answers, overloads[Top.set][Top.index + 1], Top.set)
    BY <1>1, <1>3, VerdictIsTrue
  <1>5. Len(overloads[Top.set]) \in Nat /\ next[Top.set] \in Nat
    BY <1>2, TablesTyped
  <1> DEFINE f == [Top EXCEPT !.index = @ + 1, !.answer = "none"]
  <1>6. /\ f \in Frames /\ f.set = Top.set /\ f.flags = Top.flags /\ f.doing = "entries"
        /\ f.answer = "none" /\ f.index = Top.index + 1 /\ f.i = Top.i
    <2> DEFINE n == Top.index + 1
    <2>1. n \in Nat /\ f = [Top EXCEPT !.index = n, !.answer = "none"]
      BY <1>2
    <2> HIDE DEF f, n
    <2>2. /\ f \in Frames /\ f.set = Top.set /\ f.flags = Top.flags /\ f.doing = Top.doing
          /\ f.answer = "none" /\ f.index = n /\ f.i = Top.i
      BY <1>2, <2>1 DEF Frames
    <2> QED
      BY <1>2, <2>2 DEF n
  <1>7. SetTop(f)
    BY <1>1
  <1> HIDE DEF f
  <1>8. \A j \in next[Top.set] + 1 .. Top.index + 1 :
           Rejected(program, answers, overloads[Top.set][j], Top.set)
    BY <1>2, <1>4, <1>5 DEF CallOK, Sound
  <1>9. CallOK(f)
    BY <1>2, <1>3, <1>5, <1>6, <1>8 DEF CallOK, Sound
  <1> QED
    BY <1>1, <1>6, <1>7, <1>9, GoesOnMemo

LEMMA WrongTempnessMemo == Inv /\ Memo /\ WrongTempness => Memo'
  <1> SUFFICES ASSUME Inv, Memo, WrongTempness PROVE Memo'
    OBVIOUS
  <1>1. /\ stack # <<>> /\ Top.doing = "entries" /\ Top.i < Len(matches[Top.set])
        /\ ~MatchTempness(Match, Top.flags)
        /\ SetTop([Top EXCEPT !.i = @ + 1])
        /\ UNCHANGED <<program, tables, answers>>
    BY DEF WrongTempness, NextEntry
  <1>2. /\ Top \in Frames /\ Top.set \in Sets /\ CallOK(Top) /\ Top.i \in Nat
    BY <1>1, TopIsSound
  <1>3. Len(matches[Top.set]) \in Nat
    BY <1>2, TablesTyped
  <1> DEFINE f == [Top EXCEPT !.i = @ + 1]
  <1>4. /\ f \in Frames /\ f.set = Top.set /\ f.flags = Top.flags /\ f.doing = "entries"
        /\ f.answer = Top.answer /\ f.index = Top.index /\ f.i = Top.i + 1
    BY <1>1, <1>2 DEF Frames
  <1>5. SetTop(f)
    BY <1>1
  <1> HIDE DEF f
  <1>6. ~Suits(program, matches[Top.set][Top.i + 1], Top.flags)
    BY <1>1 DEF Match, MatchTempness, Suits
  <1>7. Top.answer = "none"
    <2>1. CandidateOf(program, overloads[Top.set], matches[Top.set], Top) = Nothing
      BY <1>1, <1>2, <1>3 DEF CandidateOf
    <2> QED
      BY <1>2, <2>1 DEF CallOK, Sound, AsksFor
  <1>8. \A j \in 1 .. Top.i + 1 : ~Suits(program, matches[Top.set][j], Top.flags)
    BY <1>1, <1>2, <1>6 DEF CallOK, Sound
  <1>9. CallOK(f)
    BY <1>1, <1>2, <1>3, <1>4, <1>7, <1>8 DEF CallOK, Sound
  <1> QED
    BY <1>1, <1>4, <1>5, <1>9, GoesOnMemo

LEMMA RememberMatchMemo == Inv /\ Memo /\ RememberMatch => Memo'
  <1> SUFFICES ASSUME Inv, Memo, RememberMatch PROVE Memo'
    OBVIOUS
  <1> DEFINE s == Top.set
             c == overloads[s][Top.index + 1]
  <1>1. /\ stack # <<>> /\ Top.doing = "entries" /\ Candidate # Nothing /\ Succeeds(Candidate)
        /\ matches' = [matches EXCEPT ![s] = Append(@, Candidate)]
        /\ next' = [next EXCEPT ![s] = Top.index + 1]
        /\ SetTop([Top EXCEPT !.index = next'[s], !.answer = "none"])
        /\ UNCHANGED <<program, created, overloads, byFlags, byKey, answers>>
    BY DEF RememberMatch, NextAfterMatch
  <1>2. /\ Top \in Frames /\ s \in Sets /\ CallOK(Top) /\ Top.index \in Nat /\ Top.i \in Nat
    BY <1>1, TopIsSound
  <1>3. Candidate = c /\ c \in Overloads /\ Top.index < Len(overloads[s])
    BY <1>1, CandidateIsOverload
  <1>4. Accepted(program, answers, c, s)
    BY <1>1, <1>3, VerdictIsTrue
  <1>5. /\ overloads[s] \in Seq(Overloads) /\ matches[s] \in Seq(Overloads) /\ next[s] \in Nat
    BY <1>2, TablesTyped
  <1>6. /\ matches'[s] = Append(matches[s], c) /\ next'[s] = Top.index + 1
        /\ \A t \in Sets \ {s} : matches'[t] = matches[t] /\ next'[t] = next[t]
    BY <1>1, <1>2, <1>3 DEF Inv, TablesOK
  <1>7. next[s] <= Top.index
    <2>1. Len(stack) \in Nat \ {0} /\ Top = stack[Len(stack)]
      BY <1>1, TopFacts DEF Inv
    <2> QED
      BY <1>1, <2>1 DEF Inv, CallsOK
  <1> DEFINE f == [Top EXCEPT !.index = next'[s], !.answer = "none"]
  <1>8. /\ f \in Frames /\ f.set = s /\ f.flags = Top.flags /\ f.doing = "entries"
        /\ f.answer = "none" /\ f.index = Top.index + 1 /\ f.i = Top.i
    <2> DEFINE n == Top.index + 1
    <2>1. n \in Nat /\ f = [Top EXCEPT !.index = n, !.answer = "none"]
      BY <1>2, <1>6
    <2> HIDE DEF f, n
    <2>2. /\ f \in Frames /\ f.set = Top.set /\ f.flags = Top.flags /\ f.doing = Top.doing
          /\ f.answer = "none" /\ f.index = n /\ f.i = Top.i
      BY <1>2, <2>1 DEF Frames
    <2> QED
      BY <1>1, <1>2, <2>2 DEF n
  <1>9. SetTop(f)
    BY <1>1
  <1>10. /\ Faced(program, answers, s) /\ Top.i <= Len(matches[s])
         /\ \A j \in 1 .. Top.i : ~Suits(program, matches[s][j], Top.flags)
         /\ \A j \in next[s] + 1 .. Top.index : Rejected(program, answers, overloads[s][j], s)
    BY <1>1, <1>2 DEF CallOK, Sound
  <1>11. Tried(program, answers, overloads[s], Append(matches[s], c), Top.index + 1, s)
    <2>1. Tried(program, answers, overloads[s], matches[s], next[s], s)
      BY <1>2 DEF Memo, SetOK
    <2> QED
      BY <1>2, <1>3, <1>4, <1>5, <1>7, <1>10, <2>1, TriedMore
  <1>12. EntriesIn(program, answers, Append(matches[s], c), byFlags[s], byKey[s], s)
    BY <1>2, <1>3, <1>5, EntriesStill DEF Memo, SetOK
  <1>13. /\ Len(Append(matches[s], c)) = Len(matches[s]) + 1 /\ Len(matches[s]) \in Nat
         /\ \A j \in 1 .. Len(matches[s]) : Append(matches[s], c)[j] = matches[s][j]
    BY <1>3, <1>5, Pushed
  <1> HIDE DEF f, c, s
  <1>14. CallOKAfter(f)
    <2>1. Sound(program, answers, overloads[s], Append(matches[s], c), Top.index + 1, f)
      <3>1. Len(overloads[s]) \in Nat /\ Top.i <= Len(matches[s]) + 1 /\ Top.index + 1 <= Len(overloads[s])
        BY <1>2, <1>3, <1>5, <1>10, <1>13
      <3>2. \A j \in 1 .. Top.i : ~Suits(program, Append(matches[s], c)[j], Top.flags)
        BY <1>2, <1>10, <1>13
      <3>3. \A j \in Top.index + 1 + 1 .. Top.index + 1 : FALSE
        BY <1>2
      <3> QED
        BY <1>8, <1>10, <1>13, <3>1, <3>2, <3>3 DEF Sound
    <2> QED
      BY <1>1, <1>6, <1>8, <2>1 DEF CallOKAfter
  <1>15. \A t \in Sets \ {s} : SameSet(t)
    BY <1>1, <1>6 DEF SameSet
  <1>16. CallsSound'
    BY <1>1, <1>8, <1>9, <1>14, <1>15, GoesOnSound DEF s
  <1>17. Extends(answers, answers')
    BY <1>1 DEF Extends
  <1>18. ASSUME NEW t \in Sets PROVE SetOK(t)'
    <2>1. CASE t = s
      BY <1>1, <1>6, <1>11, <1>12, <2>1 DEF SetOK
    <2>2. CASE t # s
      <3>1. SameSet(t) /\ SetOK(t)
        BY <1>15, <2>2 DEF Memo
      <3> QED
        BY <1>1, <1>17, <3>1, SetStill
    <2> QED
      BY <2>1, <2>2
  <1>19. ASSUME NEW t \in Sets, NEW r \in Flags PROVE AnswerOK(t, r)'
    <2>1. matches'[t] = matches[t] \/ \E o \in Overloads : matches'[t] = Append(matches[t], o)
      BY <1>3, <1>6
    <2>2. AnswerOK(t, r)
      BY DEF Memo
    <2>3. overloads'[t] = overloads[t] /\ answers'[t][r] = answers[t][r]
      BY <1>1
    <2> QED
      BY <1>1, <1>17, <2>1, <2>2, <2>3, AnswerStill
  <1>20. ~program'.final /\ answers' \in Answers
    BY <1>1 DEF Memo
  <1> QED
    BY <1>16, <1>18, <1>19, <1>20 DEF Memo

(* The innermost call is refused: the tables stay as they are. *)
LEMMA RefusedMemo ==
    ASSUME Inv, Inv', Memo, stack # <<>>, Return("undefined"), UNCHANGED <<program, tables>>,
           Refused(program, answers, overloads[Top.set], Top.set, Top.flags)
    PROVE  Memo'
  <1>1. UNCHANGED <<program, created, overloads, matches, next, byFlags, byKey>>
    BY DEF tables
  <1>2. \A s \in Sets : SameSet(s)
    BY <1>1 DEF SameSet
  <1>3. Top.set \in Sets
    BY TopIsSound
  <1>4. TablesAfter(Top.set)
    BY <1>1, <1>3 DEF TablesAfter, Memo, SetOK
  <1> QED
    BY <1>1, <1>2, <1>4, ReturnMemo

LEMMA FailInterfaceMemo == Inv /\ Inv' /\ Memo /\ FailInterface => Memo'
  <1> SUFFICES ASSUME Inv, Inv', Memo, FailInterface PROVE Memo'
    OBVIOUS
  <1>1. /\ stack # <<>> /\ Top.doing = "interface" /\ Candidate # Nothing /\ Fails(Candidate)
        /\ Return("undefined") /\ UNCHANGED <<program, tables>>
    BY DEF FailInterface
  <1>2. Candidate = program.interface[Top.set]
    BY <1>1 DEF Candidate
  <1>3. Rejected(program, answers, program.interface[Top.set], Top.set)
    BY <1>1, <1>2, VerdictIsTrue
  <1>4. Refused(program, answers, overloads[Top.set], Top.set, Top.flags)
    BY <1>1, <1>2, <1>3 DEF Refused
  <1> QED
    BY <1>1, <1>4, RefusedMemo

LEMMA NoMatchMemo == Inv /\ Inv' /\ Memo /\ NoMatch => Memo'
  <1> SUFFICES ASSUME Inv, Inv', Memo, NoMatch PROVE Memo'
    OBVIOUS
  <1> DEFINE s == Top.set
             r == Top.flags
             list == overloads[s]
             found == matches[s]
             n == next[s]
  <1>1. /\ stack # <<>> /\ Top.doing = "entries" /\ Top.i >= Len(found) /\ Candidate = Nothing
        /\ Return("undefined") /\ UNCHANGED <<program, tables>>
    BY DEF NoMatch
  <1>2. /\ Top.set \in Sets /\ Top.index \in Nat /\ Top.i \in Nat /\ CallOK(Top)
        /\ Candidate = CandidateOf(program, overloads[Top.set], matches[Top.set], Top)
    BY <1>1, TopIsSound
  <1>3. list \in Seq(Overloads) /\ found \in Seq(Overloads) /\ n \in 0 .. Len(list)
    BY <1>2, TablesTyped
  <1>4. /\ Top.i <= Len(found) /\ Top.index <= Len(list)
        /\ \A j \in 1 .. Top.i : ~Suits(program, found[j], r)
        /\ \A j \in n + 1 .. Top.index : Rejected(program, answers, list[j], s)
    BY <1>1, <1>2 DEF CallOK, Sound
  <1>5. Tried(program, answers, list, found, n, s)
    BY <1>2 DEF Memo, SetOK
  <1>6. Candidate = IF Top.index < Len(list) THEN list[Top.index + 1] ELSE Nothing
    BY <1>1, <1>2 DEF CandidateOf
  <1> HIDE DEF s, r, list, found, n
  <1>7. Top.index = Len(list)
    <2>1. ASSUME Top.index < Len(list) PROVE FALSE
      <3>1. list[Top.index + 1] \in Overloads
        BY <1>2, <1>3, <2>1
      <3> QED
        BY <1>1, <1>6, <2>1, <3>1, InvokeAssumption
    <2> QED
      BY <1>2, <1>3, <1>4, <2>1
  <1>8. ASSUME NEW i \in 1 .. Len(list), s \in program.accepts[list[i]], Suits(program, list[i], r)
        PROVE  Refuted(program, answers, list[i])
    <2>1. ASSUME NEW k \in 1 .. Len(found), found[k] = list[i] PROVE FALSE
      <3>1. k \in 1 .. Top.i
        BY <1>1, <1>2, <1>3 DEF found
      <3> QED
        BY <1>4, <1>8, <2>1, <3>1
    <2>2. Rejected(program, answers, list[i], s)
      <3>1. CASE i \in 1 .. n
        BY <1>5, <2>1, <3>1 DEF Tried
      <3>2. CASE i \notin 1 .. n
        <4>1. i \in n + 1 .. Top.index
          BY <1>3, <1>7, <3>2
        <4> QED
          BY <1>4, <4>1
      <3> QED
        BY <3>1, <3>2
    <2> QED
      BY <1>8, <2>2 DEF Rejected
  <1>9. Refused(program, answers, list, s, r)
    BY <1>8 DEF Refused
  <1> QED
    BY <1>1, <1>9, RefusedMemo DEF list, s, r

(* The entry found by its key, or made, is that of the first match. *)
LEMMA ChooseMatchMemo == Inv /\ Inv' /\ Memo /\ ChooseMatch => Memo'
  <1> SUFFICES ASSUME Inv, Inv', Memo, ChooseMatch PROVE Memo'
    OBVIOUS
  <1> DEFINE s == Top.set
             r == Top.flags
             found == matches[s]
             o == Match
             key == TempnessKey(o, r)
             known == Known(s, key)
             entry == IF known # {} THEN CHOOSE e \in known : TRUE
                      ELSE [overload |-> o, key |-> key, forwarded |-> ForwardedRValues(o, r)]
  <1>1. /\ stack # <<>> /\ Top.doing = "entries" /\ Top.i < Len(found) /\ MatchTempness(o, r)
        /\ byKey' = [byKey EXCEPT ![s] = @ \cup {entry}]
        /\ byFlags' = [byFlags EXCEPT ![s][r] = entry]
        /\ program' = program /\ UNCHANGED <<created, overloads, matches, next>>
    BY DEF ChooseMatch
  <1>2. Return(Verdict(entry))
    BY DEF ChooseMatch, Memo
  <1>3. s \in Sets /\ r \in Flags /\ Top.i \in Nat /\ CallOK(Top)
    BY <1>1, TopIsSound
  <1>4. found \in Seq(Overloads) /\ Len(found) \in Nat
    BY <1>3, TablesTyped
  <1>5. /\ Faced(program, answers, s)
        /\ \A j \in 1 .. Top.i : ~Suits(program, found[j], r)
    BY <1>1, <1>3 DEF CallOK, Sound
  <1>6. o = found[Top.i + 1]
    BY DEF Match
  <1>7. Suits(program, o, r)
    BY <1>1 DEF MatchTempness, Suits
  <1>8. key = Key(program, o, r) /\ ForwardedRValues(o, r) = Forwarded(program, o, r)
    BY DEF TempnessKey, Key, ForwardedRValues, Forwarded
  <1>9. EntriesIn(program, answers, found, byFlags[s], byKey[s], s)
    BY <1>3 DEF Memo, SetOK
  <1>10. known # {} => entry \in byKey[s] /\ entry.key = key
    <2>1. known # {} => entry \in known
      OBVIOUS
    <2> HIDE DEF entry
    <2> QED
      BY <2>1 DEF Known
  <1>11. known = {} => entry.overload = o /\ entry.key = key /\ entry.forwarded = ForwardedRValues(o, r)
    OBVIOUS
  <1> HIDE DEF s, r, found, o, key, known, entry
  <1>12. FirstFor(program, found, r, o) /\ o \in Overloads
    <2> DEFINE k == Top.i + 1
    <2>1. k \in 1 .. Len(found) /\ o = found[k]
      BY <1>1, <1>3, <1>4, <1>6
    <2>2. \A j \in 1 .. k - 1 : ~Suits(program, found[j], r)
      BY <1>3, <1>5
    <2> HIDE DEF k
    <2>3. o \in Overloads
      BY <1>4, <2>1
    <2> QED
      BY <1>7, <2>1, <2>2, <2>3 DEF FirstFor
  <1>13. /\ EntryFor(program, found, r, entry)
         /\ \E q \in Flags : /\ entry.key = Key(program, entry.overload, q)
                             /\ EntryFor(program, found, q, entry)
    <2>1. CASE known # {}
      <3>1. PICK q \in Flags : /\ entry.key = Key(program, entry.overload, q)
                               /\ EntryFor(program, found, q, entry)
        BY <1>9, <1>10, <2>1 DEF EntriesIn
      <3>2. EntryFor(program, found, r, entry) /\ entry.overload = o
        BY <1>3, <1>4, <1>8, <1>10, <1>12, <2>1, <3>1, SharedEntry
      <3> QED
        BY <3>1, <3>2
    <2>2. CASE known = {}
      <3>1. EntryFor(program, found, r, entry)
        BY <1>8, <1>11, <1>12, <2>2 DEF EntryFor
      <3>2. entry.key = Key(program, entry.overload, r)
        BY <1>8, <1>11, <2>2
      <3> QED
        BY <1>3, <3>1, <3>2
    <2> QED
      BY <2>1, <2>2
  <1>14. /\ byKey'[s] = byKey[s] \cup {entry}
         /\ \A q \in Flags : byFlags'[s][q] = IF q = r THEN entry ELSE byFlags[s][q]
         /\ \A t \in Sets \ {s} : byKey'[t] = byKey[t] /\ byFlags'[t] = byFlags[t]
    <2>1. DOMAIN byKey = Sets /\ DOMAIN byFlags = Sets /\ DOMAIN byFlags[s] = Flags
      BY <1>3 DEF Inv, TablesOK
    <2> QED
      BY <1>1, <1>3, <2>1
  <1>15. \A t \in Sets \ {s} : SameSet(t)
    BY <1>1, <1>14 DEF SameSet
  <1>16. TablesAfter(s)
    <2>1. Tried(program, answers, overloads'[s], matches'[s], next'[s], s)
      BY <1>1, <1>3 DEF Memo, SetOK
    <2>2. ASSUME NEW q \in Flags, byFlags'[s][q] # Nothing
          PROVE  EntryFor(program, found, q, byFlags'[s][q]) /\ Faced(program, answers, s)
      BY <1>5, <1>9, <1>13, <1>14, <2>2 DEF EntriesIn
    <2>3. ASSUME NEW e \in byKey'[s]
          PROVE  \E q \in Flags : e.key = Key(program, e.overload, q) /\ EntryFor(program, found, q, e)
      BY <1>9, <1>13, <1>14 DEF EntriesIn
    <2>4. EntriesIn(program, answers, matches'[s], byFlags'[s], byKey'[s], s)
      BY <1>1, <2>2, <2>3 DEF EntriesIn, found
    <2> QED
      BY <2>1, <2>4 DEF TablesAfter
  <1>17. PICK result \in {"defined", "undefined"} :
           /\ result = Verdict(entry)
           /\ result = "defined" => Served(program, answers, found, s, r)
           /\ result = "undefined" => Bodiless(program, answers, found, s, r)
    BY <1>3, <1>5, <1>13, VerdictServed DEF EntryFor, found
  <1> QED
    BY <1>1, <1>2, <1>15, <1>16, <1>17, ReturnMemo DEF s, r, found

(* The innermost call looks up what the predicate of its candidate depends on. *)
LEMMA EvaluatePredicateMemo == Inv /\ Inv' /\ Memo /\ EvaluatePredicate => Memo'
  <1> SUFFICES ASSUME Inv, Inv', Memo, EvaluatePredicate PROVE Memo'
    OBVIOUS
  <1> DEFINE c == Candidate
             s == program.predicate[c][1]
             r == program.predicate[c][2]
  <1>1. stack # <<>> /\ c # Nothing /\ NeedsPredicate(c) /\ Enter(s, r)
    BY DEF EvaluatePredicate
  <1>2. c \in Overloads /\ program.predicate[c] # Nothing /\ Top.set \in program.accepts[c]
    BY <1>1, CandidateIsOverload DEF NeedsPredicate, Accepts
  <1>3. program.predicate[c] \in Sets \X Flags
    BY <1>2, ProgramIsTyped DEF ProgramType
  <1>4. s \in Sets /\ r \in Flags /\ program.predicate[c] = <<s, r>>
    BY <1>3
  <1>5. c = CandidateOf(program, overloads[Top.set], matches[Top.set], Top)
    BY <1>1, TopIsSound
  <1> HIDE DEF c, s, r
  <1>6. Waits(Top, s, r)
    BY <1>1, <1>2, <1>4, <1>5 DEF Waits, AsksFor
  <1> QED
    BY <1>1, <1>4, <1>6, EnterMemo

LEMMA StillMemo ==
    ASSUME Memo, UNCHANGED <<program, tables, answers, stack>>
    PROVE  Memo'
  <1>1. UNCHANGED <<program, created, overloads, matches, next, byFlags, byKey, answers, stack>>
    BY DEF tables
  <1> QED
    BY <1>1 DEF Memo, SetOK, AnswerOK, CallsSound, CallOK, Waits

LEMMA NextMemo == Inv /\ Inv' /\ Memo /\ [Next]_vars => Memo'
  <1> SUFFICES ASSUME Inv, Inv', Memo, [Next]_vars PROVE Memo'
    OBVIOUS
  <1>1. CASE Lookup
    <2>1. stack = <<>> /\ \E call \in program.calls : Enter(call[1], call[2])
      BY <1>1 DEF Lookup
    <2>2. PICK call \in program.calls : Enter(call[1], call[2])
      BY <2>1
    <2>3. call[1] \in Sets /\ call[2] \in Flags
      BY ProgramIsTyped DEF ProgramType
    <2> QED
      BY <2>1, <2>2, <2>3, EnterMemo
  <1>2. CASE EvaluatePredicate
    BY <1>2, EvaluatePredicateMemo
  <1>3. CASE PassInterface
    BY <1>3, PassInterfaceMemo
  <1>4. CASE FailInterface
    BY <1>4, FailInterfaceMemo
  <1>5. CASE SkipOverload
    BY <1>5, SkipOverloadMemo
  <1>6. CASE RememberMatch
    BY <1>6, RememberMatchMemo
  <1>7. CASE NoMatch
    BY <1>7, NoMatchMemo
  <1>8. CASE WrongTempness
    BY <1>8, WrongTempnessMemo
  <1>9. CASE ChooseMatch
    BY <1>9, ChooseMatchMemo
  <1>10. CASE OtherTempness \/ SecondMatch \/ OnlyMatch
    <2>1. stack # <<>> /\ Top.doing = "final"
      BY <1>10 DEF OtherTempness, SecondMatch, OnlyMatch
    <2> QED
      BY <2>1, TopIsSound
  <1>11. CASE \E o \in Overloads : Register(o)
    <2>1. UNCHANGED <<program, tables, answers, stack>>
      BY <1>11 DEF Register
    <2> QED
      BY <2>1, StillMemo
  <1>12. CASE UNCHANGED vars
    <2>1. UNCHANGED <<program, tables, answers, stack>>
      BY <1>12 DEF vars, tables
    <2> QED
      BY <2>1, StillMemo
  <1> QED
    BY <1>1, <1>2, <1>3, <1>4, <1>5, <1>6, <1>7, <1>8, <1>9, <1>10, <1>11, <1>12 DEF Next, Step

LEMMA ProgramStays == [Next]_vars => program' = program
  BY DEF Next, Step, Lookup, Enter, EvaluatePredicate, PassInterface, FailInterface, SkipOverload,
         RememberMatch, NoMatch, WrongTempness, ChooseMatch, OtherTempness, SecondMatch, OnlyMatch,
         Register, vars

WholeInv == Inv /\ (~program.final => Memo)

LEMMA InitWhole == Init => WholeInv
  BY InitInv, InitMemo DEF WholeInv

LEMMA NextWhole == WholeInv /\ [Next]_vars => WholeInv'
  BY NextInv, NextMemo, ProgramStays DEF WholeInv

THEOREM SpecWhole == Spec => []WholeInv
  BY InitWhole, NextWhole, PTL DEF Spec

(***************************************************************************)
(* What follows from it.                                                   *)
(***************************************************************************)
LEMMA FirstFoundIsFirst ==
    ASSUME Inv, Memo, NEW s \in Sets, NEW r, NEW o, FirstFor(program, matches[s], r, o)
    PROVE  IsFirstMatch(o, overloads[s], s, r)
  <1>2. /\ overloads[s] \in Seq(Overloads) /\ Len(matches[s]) \in Nat
        /\ next[s] \in 0 .. Len(overloads[s]) /\ next[s] \in Nat
    BY TablesTyped
  <1>3. PICK i \in 1 .. next[s] :
           /\ overloads[s][i] = o
           /\ Accepted(program, answers, o, s) /\ Suits(program, o, r)
           /\ \A j \in 1 .. i - 1 :
                 s \in program.accepts[overloads[s][j]] /\ Suits(program, overloads[s][j], r) =>
                     Refuted(program, answers, overloads[s][j])
    <2>1. Tried(program, answers, overloads[s], matches[s], next[s], s)
      BY DEF Memo, SetOK
    <2> QED
      BY <1>2, <2>1, FirstInList
  <1>4. i \in 1 .. Len(overloads[s])
    BY <1>2
  <1>5. Fits(o, s, r) /\ PredicateHolds(o)
    BY <1>3 DEF Fits, PredicateHolds, Accepted, Holds, Suits, MatchTempness
  <1>6. \A j \in 1 .. i - 1 : Fits(overloads[s][j], s, r) => PredicateFails(overloads[s][j])
    BY <1>3 DEF Fits, PredicateFails, Refuted, Suits, MatchTempness
  <1> QED
    BY <1>3, <1>4, <1>5, <1>6 DEF IsFirstMatch

LEMMA EntriesAreFirst ==
    ASSUME Inv, Memo PROVE EntryIsFirstMatch
  <1> SUFFICES ASSUME NEW s \in Sets, NEW r \in Flags, byFlags[s][r] # Nothing
               PROVE  /\ IsFirstMatch(byFlags[s][r].overload, overloads[s], s, r)
                      /\ byFlags[s][r].forwarded = ForwardedRValues(byFlags[s][r].overload, r)
    BY DEF EntryIsFirstMatch
  <1> DEFINE o == byFlags[s][r].overload
  <1>1. FirstFor(program, matches[s], r, o) /\ byFlags[s][r].forwarded = Forwarded(program, o, r)
    BY DEF Memo, SetOK, EntriesIn, EntryFor
  <1> HIDE DEF o
  <1>2. IsFirstMatch(o, overloads[s], s, r)
    BY <1>1, FirstFoundIsFirst
  <1> QED
    BY <1>1, <1>2 DEF o, Forwarded, ForwardedRValues

LEMMA RefusedHasNone ==
    ASSUME Inv, Memo PROVE NoneOnlyIfNoMatch
  <1> SUFFICES ASSUME NEW s \in Sets, NEW r \in Flags, answers[s][r] = "undefined"
               PROVE  \/ /\ program.interface[s] # Nothing
                         /\ \/ s \notin program.accepts[program.interface[s]]
                            \/ PredicateFails(program.interface[s])
                      \/ \A i \in 1 .. Len(overloads[s]) :
                            Fits(overloads[s][i], s, r) => PredicateFails(overloads[s][i])
                      \/ \E o \in program.bodiless : IsFirstMatch(o, overloads[s], s, r)
    BY DEF NoneOnlyIfNoMatch
  <1>1. CASE Refused(program, answers, overloads[s], s, r)
    BY <1>1 DEF Refused, Rejected, Refuted, PredicateFails, Fits, Suits, MatchTempness
  <1>2. CASE Bodiless(program, answers, matches[s], s, r)
    BY <1>2, FirstFoundIsFirst DEF Bodiless
  <1> QED
    BY <1>1, <1>2 DEF Memo, AnswerOK

LEMMA RefusedHasNoEntry ==
    ASSUME Inv, Memo PROVE AnswersAgree
  <1> SUFFICES ASSUME NEW s \in Sets, NEW r \in Flags, answers[s][r] = "undefined",
                      byFlags[s][r] # Nothing
               PROVE  Verdict(byFlags[s][r]) = "undefined"
    BY DEF AnswersAgree
  <1> DEFINE o == byFlags[s][r].overload
  <1>2. FirstFor(program, matches[s], r, o) /\ Faced(program, answers, s)
    BY DEF Memo, SetOK, EntriesIn, EntryFor
  <1>3. Tried(program, answers, overloads[s], matches[s], next[s], s)
    BY DEF Memo, SetOK
  <1>4. o \in program.bodiless => Verdict(byFlags[s][r]) = "undefined"
    BY DEF Verdict
  <1> HIDE DEF o
  <1>5. CASE Refused(program, answers, overloads[s], s, r)
    BY <1>2, <1>3, <1>5, TablesTyped, NotRefused
  <1>6. CASE Bodiless(program, answers, matches[s], s, r)
    <2>1. PICK q \in program.bodiless : FirstFor(program, matches[s], r, q)
      BY <1>6 DEF Bodiless
    <2>2. q = o
      BY <1>2, <2>1, TablesTyped, FirstUnique
    <2> QED
      BY <1>4, <2>1, <2>2
  <1> QED
    BY <1>5, <1>6 DEF Memo, AnswerOK

(* Without -final-overloads a call that was refused never has an entry with a body, in
   any program: the overloads registered since, the lookups its predicates made, and
   what other calls memoised make no difference. (lookupInvokeEntry, getMatch.) *)
THEOREM InvokeAnswersAgree == Spec => []AnswersAgree
  <1>1. WholeInv => AnswersAgree
    BY RefusedHasNoEntry DEF WholeInv, AnswersAgree
  <1> QED
    BY <1>1, SpecWhole, PTL

(* Without -final-overloads what the memo tables answer is what matching afresh
   would find, in any program: the first overload whose patterns, predicate and
   tempness match, though entries are shared between calls by their tempness keys
   and matches by all calls of the set; or none, if none does.
   (lookupInvokeEntry, getMatch, tempnessKey.) *)
THEOREM InvokeMemoIsFirstMatch == Spec => [](~program.final => MemoIsFirstMatch)
  <1>1. WholeInv => (~program.final => MemoIsFirstMatch)
    BY EntriesAreFirst, RefusedHasNone DEF WholeInv, MemoIsFirstMatch
  <1> QED
    BY <1>1, SpecWhole, PTL

(***************************************************************************)
(* A lookup comes to an end, with and without -final-overloads.            *)
(***************************************************************************)
(* The overloads a set has at most, and a bound on them for all sets. *)
Room(s) == Len(live[program.callable[s]]) + Len(live[Nothing])

IsBound(b) == \A s \in Sets : Room(s) <= b

Longest == CHOOSE b \in Nat : IsBound(b)

(* What is left of a call: most before its interface has passed; then the overloads
   and the matches to come; then the overloads that may be a second match. A
   predicate that is still to be evaluated counts for one. *)
Rank(f) ==
    (IF f.answer = "none" THEN 1 ELSE 0)
    + 2 * (IF f.doing = "interface" THEN 3 * Longest + 3
           ELSE IF f.doing = "entries" THEN (Longest + 2) + (Longest - f.index) + (Longest - f.i)
           ELSE (Longest + 1) - f.index)

Highest == 6 * Longest + 8

(* What is left of a lookup, as an odometer: there is one, and then the calls on the
   stack, the outermost first. A place no call has yet counts for more than any
   call. *)
LeftAt(k) ==
    IF k = 1 THEN (IF stack = <<>> THEN 0 ELSE 1)
    ELSE IF k - 1 \in 1 .. Len(stack) THEN Rank(stack[k - 1]) ELSE Highest

Left == [k \in Nat |-> LeftAt(k)]

(* As many digits as there can be calls at once, each of another set. *)
Places == Cardinality(Sets) + 1

Effort == Reading(Left, Highest + 1, Places)

(* What keeps the digits in their range: the copied lists are no longer than the
   present ones, and a call goes past the end of its list by one at most, in the
   search for a second match. And the calls below the innermost wait for their
   predicates. *)
CopiesBounded == \A s \in Sets : Len(overloads[s]) <= Room(s)

InRoom(f) ==
    /\ f.i <= Room(f.set)
    /\ f.doing = "entries" => f.index <= Room(f.set)
    /\ f.doing = "final" => f.index <= Room(f.set) + 1

CallsInRoom == \A k \in 1 .. Len(stack) : InRoom(stack[k])

OthersWait == \A k \in 1 .. Len(stack) - 1 : stack[k].answer = "none"

Within == CopiesBounded /\ CallsInRoom /\ OthersWait

LEMMA RoomIsNatural ==
    ASSUME Inv, NEW s \in Sets
    PROVE  /\ Room(s) \in Nat /\ Len(overloads[s]) \in Nat /\ Len(matches[s]) \in Nat
           /\ next[s] \in Nat /\ next[s] <= Len(overloads[s]) /\ Len(matches[s]) <= Len(overloads[s])
           /\ Len(live[program.callable[s]]) \in Nat
           /\ Len(live[program.callable[s]]) <= Room(s)
  <1>1. program.callable[s] \in Callables
    BY DEF Callables
  <1>2. live[program.callable[s]] \in Seq(Overloads) /\ live[Nothing] \in Seq(Overloads)
    BY <1>1 DEF Inv, Declarations
  <1>3. /\ overloads[s] \in Seq(Overloads) /\ matches[s] \in Seq(Overloads)
        /\ next[s] \in Nat /\ next[s] <= Len(overloads[s]) /\ Len(matches[s]) <= next[s]
    BY DEF Inv, TablesOK
  <1>4. /\ Len(live[program.callable[s]]) \in Nat /\ Len(live[Nothing]) \in Nat
        /\ Len(overloads[s]) \in Nat /\ Len(matches[s]) \in Nat
    BY <1>2, <1>3
  <1>5. PICK n \in Nat, m \in Nat, k \in Nat :
            n = Len(overloads[s]) /\ m = Len(matches[s]) /\ k = next[s]
    BY <1>3, <1>4
  <1>6. m <= n
    BY <1>3, <1>5
  <1>7. PICK a \in Nat, b \in Nat : a = Len(live[program.callable[s]]) /\ b = Len(live[Nothing])
    BY <1>4
  <1>8. Room(s) = a + b
    BY <1>7 DEF Room
  <1>9. Room(s) \in Nat /\ a <= Room(s)
    BY <1>8
  <1>10. Len(matches[s]) <= Len(overloads[s])
    BY <1>5, <1>6
  <1> QED
    BY <1>3, <1>4, <1>7, <1>9, <1>10

LEMMA BoundExists ==
    ASSUME IsFiniteSet(Sets), Inv
    PROVE  Longest \in Nat /\ \A s \in Sets : Room(s) <= Longest
  <1> DEFINE f == [s \in Sets |-> Room(s)]
  <1>1. f \in [Sets -> Nat]
    BY RoomIsNatural
  <1>2. PICK b \in Nat : \A s \in Sets : f[s] <= b
    <2> HIDE DEF f
    <2> QED
      BY <1>1, FiniteBound
  <1>3. IsBound(b)
    BY <1>2 DEF IsBound
  <1>4. Longest \in Nat /\ IsBound(Longest)
    BY <1>2, <1>3 DEF Longest
  <1> QED
    BY <1>4 DEF IsBound

(* The ranks of a call in its three parts. *)
LEMMA Ranks ==
    ASSUME IsFiniteSet(Sets), Inv, NEW f \in Frames, InRoom(f)
    PROVE  /\ Rank(f) \in Nat /\ Rank(f) < Highest
           /\ f.doing = "interface" => Rank(f) >= 6 * Longest + 6
           /\ f.doing = "entries" => Rank(f) >= 2 * Longest + 4 /\ Rank(f) <= 6 * Longest + 5
           /\ f.doing = "final" => Rank(f) <= 2 * Longest + 3
  <1>1. /\ f.set \in Sets /\ f.doing \in {"interface", "entries", "final"}
        /\ f.i \in Nat /\ f.index \in Nat
    BY DEF Frames
  <1>2. PICK l \in Nat : l = Longest
    BY BoundExists
  <1>3. PICK r \in Nat : r = Room(f.set)
    BY <1>1, RoomIsNatural
  <1>4. r <= l
    BY <1>1, <1>2, <1>3, BoundExists
  <1>5. /\ f.i <= r
        /\ f.doing = "entries" => f.index <= r
        /\ f.doing = "final" => f.index <= r + 1
    BY <1>3 DEF InRoom
  <1>6. PICK u \in {0, 1} : u = IF f.answer = "none" THEN 1 ELSE 0
    OBVIOUS
  <1>7. Rank(f) = u + 2 * (IF f.doing = "interface" THEN 3 * l + 3
                           ELSE IF f.doing = "entries" THEN (l + 2) + (l - f.index) + (l - f.i)
                           ELSE (l + 1) - f.index)
    BY <1>2, <1>6 DEF Rank
  <1>8. Highest = 6 * l + 8
    BY <1>2 DEF Highest
  <1>9. CASE f.doing = "interface"
    BY <1>2, <1>7, <1>8, <1>9
  <1>10. CASE f.doing = "entries"
    <2>1. PICK x \in Nat : x = l - f.index
      BY <1>1, <1>4, <1>5, <1>10
    <2>2. PICK y \in Nat : y = l - f.i
      BY <1>1, <1>4, <1>5
    <2>3. x <= l /\ y <= l
      BY <1>1, <2>1, <2>2
    <2>4. Rank(f) = u + 2 * ((l + 2) + x + y)
      BY <1>7, <1>10, <2>1, <2>2
    <2>5. Rank(f) \in Nat /\ Rank(f) < 6 * l + 8 /\ Rank(f) >= 2 * l + 4 /\ Rank(f) <= 6 * l + 5
      BY <2>3, <2>4
    <2> QED
      BY <1>2, <1>8, <1>10, <2>5
  <1>11. CASE f.doing = "final"
    <2>1. PICK x \in Nat : x = (l + 1) - f.index
      BY <1>1, <1>4, <1>5, <1>11
    <2>2. x <= l + 1
      BY <1>1, <2>1
    <2>3. Rank(f) = u + 2 * x
      BY <1>7, <1>11, <2>1
    <2>4. Rank(f) \in Nat /\ Rank(f) < 6 * l + 8 /\ Rank(f) <= 2 * l + 3
      BY <2>2, <2>3
    <2> QED
      BY <1>2, <1>8, <1>11, <2>4
  <1> QED
    BY <1>1, <1>9, <1>10, <1>11

(* The digits are natural numbers below the base. *)
LeftOK ==
    /\ Left \in [Nat -> Nat]
    /\ \A k \in Nat : Left[k] < Highest + 1 /\ Left[k] = LeftAt(k)

LEMMA LeftDigits == IsFiniteSet(Sets) /\ Inv /\ CallsInRoom => LeftOK
  <1> SUFFICES ASSUME IsFiniteSet(Sets), Inv, CallsInRoom PROVE LeftOK
    OBVIOUS
  <1>1. Longest \in Nat
    BY BoundExists
  <1>2. Highest \in Nat /\ 2 < Highest
    BY <1>1 DEF Highest
  <1>3. stack \in Seq(Frames)
    BY DEF Inv, CallsOK
  <1>4. ASSUME NEW k \in 1 .. Len(stack) PROVE Rank(stack[k]) \in Nat /\ Rank(stack[k]) < Highest
    <2>1. stack[k] \in Frames /\ InRoom(stack[k])
      BY <1>3 DEF CallsInRoom
    <2> QED
      BY <2>1, Ranks
  <1>5. ASSUME NEW k \in Nat PROVE LeftAt(k) \in Nat /\ LeftAt(k) < Highest + 1
    <2>1. CASE k = 1
      BY <1>2, <2>1 DEF LeftAt
    <2>2. CASE k # 1 /\ k - 1 \in 1 .. Len(stack)
      <3>1. LeftAt(k) = Rank(stack[k - 1])
        BY <2>2 DEF LeftAt
      <3> QED
        BY <1>2, <1>4, <2>2, <3>1
    <2>3. CASE k # 1 /\ k - 1 \notin 1 .. Len(stack)
      BY <1>2, <2>3 DEF LeftAt
    <2> QED
      BY <2>1, <2>2, <2>3
  <1>6. Left = [k \in Nat |-> LeftAt(k)]
    BY DEF Left
  <1> QED
    BY <1>5, <1>6 DEF LeftOK

LEMMA LeftDigitsNext ==
    ASSUME IsFiniteSet(Sets) PROVE Inv' /\ CallsInRoom' => LeftOK'
  <1>1. Inv /\ CallsInRoom => LeftOK
    BY LeftDigits
  <1> QED
    BY <1>1, PTL

EnoughPlaces == Places \in Nat /\ Len(stack) \in Nat /\ Len(stack) + 1 <= Places

LEMMA PlacesEnough ==
    ASSUME IsFiniteSet(Sets), Inv PROVE EnoughPlaces
  <1> DEFINE key == [k \in 1 .. Len(stack) |-> stack[k].set]
  <1>1. stack \in Seq(Frames) /\ \A j, k \in 1 .. Len(stack) : stack[j].set = stack[k].set => j = k
    BY DEF Inv, CallsOK, FlagsMatchStack
  <1>2. Len(stack) \in Nat /\ \A k \in 1 .. Len(stack) : stack[k].set \in Sets
    <2>1. Len(stack) \in Nat /\ \A k \in 1 .. Len(stack) : stack[k] \in Frames
      BY <1>1
    <2> QED
      BY <2>1 DEF Frames
  <1>3. key \in [1 .. Len(stack) -> Sets] /\ \A j, k \in 1 .. Len(stack) : key[j] = key[k] => j = k
    BY <1>1, <1>2
  <1> HIDE DEF key
  <1>4. Len(stack) <= Cardinality(Sets) /\ Cardinality(Sets) \in Nat
    BY <1>2, <1>3, StackBounded
  <1> QED
    BY <1>2, <1>4 DEF Places, EnoughPlaces

LEMMA PlacesEnoughNext ==
    ASSUME IsFiniteSet(Sets) PROVE Inv' => EnoughPlaces'
  <1>1. Inv => EnoughPlaces
    BY PlacesEnough
  <1> QED
    BY <1>1, PTL

(* A digit falls and those before it stand still. *)
LEMMA EffortFalls ==
    ASSUME IsFiniteSet(Sets), Inv, Inv', Within, Within', UNCHANGED <<program, live>>,
           NEW i \in 1 .. Places, Places \in Nat,
           LeftAt(i)' < LeftAt(i), \A k \in 1 .. i - 1 : LeftAt(k)' = LeftAt(k)
    PROVE  Effort' < Effort
  <1>1. PICK b : b = Highest + 1
    OBVIOUS
  <1>2. Longest' = Longest
    BY DEF Longest, IsBound, Room
  <1>3. b \in Nat /\ Highest' + 1 = b
    BY <1>1, <1>2, BoundExists DEF Highest
  <1>4. PICK n \in Nat : n = Places
    OBVIOUS
  <1>5. Places' = n
    BY <1>4 DEF Places
  <1>6. PICK c : c = Left
    OBVIOUS
  <1>7. PICK d : d = Left'
    OBVIOUS
  <1>8. c \in [Nat -> Nat] /\ \A k \in Nat : c[k] = LeftAt(k)
    BY <1>6, LeftDigits DEF LeftOK, Within
  <1>9. d \in [Nat -> Nat] /\ \A k \in Nat : d[k] < b /\ d[k] = LeftAt(k)'
    BY <1>3, <1>7, LeftDigitsNext DEF LeftOK, Within
  <1>10. i \in 1 .. n /\ d[i] < c[i]
    BY <1>4, <1>8, <1>9
  <1>11. \A k \in 1 .. i - 1 : d[k] = c[k]
    BY <1>8, <1>9
  <1>12. \A k \in 1 .. n : d[k] < b
    BY <1>9
  <1>13. Reading(d, b, n) < Reading(c, b, n)
    BY <1>3, <1>8, <1>9, <1>10, <1>11, <1>12, ReadingFalls
  <1> QED
    BY <1>1, <1>3, <1>4, <1>5, <1>6, <1>7, <1>13 DEF Effort

(***************************************************************************)
(* What a step does to the stack.                                          *)
(***************************************************************************)
(* The innermost call gets on, or ends, with all calls or with an answer to the
   one that waits for it, or it begins another; the rest of the stack stays. *)
GetsOn ==
    \E f \in Frames : /\ f.set = Top.set /\ InRoom(f) /\ Rank(f) < Rank(Top)
                      /\ Len(stack') = Len(stack)
                      /\ \A k \in 1 .. Len(stack) - 1 : stack'[k] = stack[k]
                      /\ stack'[Len(stack)] = f

AllEnd == stack' = <<>>

Answered(n) ==
    /\ n \in 1 .. Len(stack) /\ Len(stack') = n
    /\ \A k \in 1 .. n - 1 : stack'[k] = stack[k]
    /\ stack[n].answer = "none"
    /\ \E result \in {"defined", "undefined"} : stack'[n] = [stack[n] EXCEPT !.answer = result]

Nests ==
    /\ Top.answer = "none"
    /\ Len(stack') = Len(stack) + 1
    /\ \A k \in 1 .. Len(stack) : stack'[k] = stack[k]
    /\ stack'[Len(stack) + 1].doing = "interface" /\ stack'[Len(stack) + 1].i = 0

Goes ==
    /\ stack # <<>> /\ UNCHANGED <<program, live>>
    /\ AllEnd \/ GetsOn \/ Nests \/ \E n \in Nat : Answered(n)

LEMMA StillInRoom ==
    ASSUME UNCHANGED <<program, live>>, \A k \in 1 .. Len(stack') : InRoom(stack'[k])
    PROVE  CallsInRoom'
  BY DEF CallsInRoom, InRoom, Room

LEMMA GetsOnWithin ==
    ASSUME Inv, Within, stack # <<>>, UNCHANGED <<program, live>>, GetsOn
    PROVE  CallsInRoom' /\ OthersWait'
  <1>1. Len(stack) \in Nat \ {0}
    BY TopFacts DEF Inv
  <1>2. PICK f \in Frames : /\ InRoom(f) /\ Len(stack') = Len(stack)
                            /\ \A k \in 1 .. Len(stack) - 1 : stack'[k] = stack[k]
                            /\ stack'[Len(stack)] = f
    BY DEF GetsOn
  <1>4. ASSUME NEW k \in 1 .. Len(stack') PROVE InRoom(stack'[k])
    <2>1. k = Len(stack) \/ k \in 1 .. Len(stack) - 1
      BY <1>1, <1>2
    <2>2. k \in 1 .. Len(stack)
      BY <1>2
    <2> QED
      BY <1>2, <2>1, <2>2 DEF Within, CallsInRoom
  <1>5. OthersWait'
    BY <1>1, <1>2 DEF Within, OthersWait
  <1> QED
    BY <1>4, <1>5, StillInRoom

LEMMA AnsweredWithin ==
    ASSUME Inv, Within, stack # <<>>, UNCHANGED <<program, live>>, NEW n \in Nat, Answered(n)
    PROVE  CallsInRoom' /\ OthersWait'
  <1>1. stack \in Seq(Frames) /\ Len(stack) \in Nat
    BY DEF Inv, CallsOK
  <1>2. PICK result : stack'[n] = [stack[n] EXCEPT !.answer = result]
    BY DEF Answered
  <1>3. /\ n \in 1 .. Len(stack) /\ Len(stack') = n
        /\ \A k \in 1 .. n - 1 : stack'[k] = stack[k]
    BY DEF Answered
  <1>4. ASSUME NEW k \in 1 .. Len(stack') PROVE InRoom(stack'[k])
    <2>1. k \in 1 .. Len(stack) /\ (k = n \/ k \in 1 .. n - 1)
      BY <1>1, <1>3
    <2>2. stack[k] \in Frames /\ InRoom(stack[k])
      BY <1>1, <2>1 DEF Within, CallsInRoom
    <2>3. PICK g : g = stack'[k]
      OBVIOUS
    <2>4. g.i = stack[k].i /\ g.doing = stack[k].doing /\ g.index = stack[k].index /\ g.set = stack[k].set
      BY <1>2, <1>3, <2>1, <2>2, <2>3 DEF Frames
    <2>5. InRoom(g)
      BY <2>2, <2>4 DEF InRoom
    <2> QED
      BY <2>3, <2>5
  <1>5. OthersWait'
    <2>1. ASSUME NEW k \in 1 .. Len(stack') - 1 PROVE stack'[k].answer = "none"
      <3>1. k \in 1 .. n - 1 /\ k \in 1 .. Len(stack) - 1
        BY <1>1, <1>3
      <3> QED
        BY <1>3, <3>1 DEF Within, OthersWait
    <2> QED
      BY <2>1 DEF OthersWait
  <1> QED
    BY <1>4, <1>5, StillInRoom

LEMMA NestsWithin ==
    ASSUME Inv, Inv', Within, stack # <<>>, UNCHANGED <<program, live>>, Nests
    PROVE  CallsInRoom' /\ OthersWait'
  <1>1. /\ stack \in Seq(Frames) /\ Len(stack) \in Nat \ {0} /\ Top = stack[Len(stack)]
    BY TopFacts DEF Inv, CallsOK
  <1>2. stack' \in Seq(Frames)
    BY DEF Inv, CallsOK
  <1>3. /\ Len(stack') = Len(stack) + 1
        /\ \A k \in 1 .. Len(stack) : stack'[k] = stack[k]
        /\ stack'[Len(stack) + 1].doing = "interface" /\ stack'[Len(stack) + 1].i = 0
        /\ Top.answer = "none"
    BY DEF Nests
  <1>4. ASSUME NEW k \in 1 .. Len(stack') PROVE InRoom(stack'[k])
    <2>1. PICK g : g = stack'[k]
      OBVIOUS
    <2>2. InRoom(g)
      <3>1. CASE k = Len(stack) + 1
        <4>1. g \in Frames
          BY <1>2, <2>1
        <4>2. g.set \in Sets
          BY <4>1 DEF Frames
        <4>3. Room(g.set) \in Nat
          BY <4>2, RoomIsNatural
        <4> QED
          BY <1>3, <2>1, <3>1, <4>3 DEF InRoom
      <3>2. CASE k # Len(stack) + 1
        <4>1. k \in 1 .. Len(stack)
          BY <1>1, <1>3, <3>2
        <4> QED
          BY <1>3, <2>1, <4>1 DEF Within, CallsInRoom
      <3> QED
        BY <3>1, <3>2
    <2> QED
      BY <2>1, <2>2
  <1>5. OthersWait'
    <2>1. ASSUME NEW k \in 1 .. Len(stack') - 1 PROVE stack'[k].answer = "none"
      <3>1. k \in 1 .. Len(stack) /\ (k = Len(stack) \/ k \in 1 .. Len(stack) - 1)
        BY <1>1, <1>3
      <3> QED
        BY <1>1, <1>3, <3>1 DEF Within, OthersWait
    <2> QED
      BY <2>1 DEF OthersWait
  <1> QED
    BY <1>4, <1>5, StillInRoom

LEMMA GoesWithin ==
    ASSUME Inv, Inv', Within, Goes
    PROVE  CallsInRoom' /\ OthersWait'
  <1>1. CASE AllEnd
    <2>1. Len(stack') = 0
      BY <1>1 DEF AllEnd
    <2> QED
      BY <2>1 DEF CallsInRoom, OthersWait
  <1> QED
    BY <1>1, GetsOnWithin, AnsweredWithin, NestsWithin DEF Goes

(* The step lowers the effort. *)
LEMMA RankStays == UNCHANGED <<program, live>> => \A f : Rank(f)' = Rank(f)
  <1> SUFFICES ASSUME UNCHANGED <<program, live>>, NEW f PROVE Rank(f)' = Rank(f)
    OBVIOUS
  <1>1. Longest' = Longest
    BY DEF Longest, IsBound, Room
  <1> QED
    BY <1>1 DEF Rank

LEMMA CallFalls ==
    ASSUME IsFiniteSet(Sets), Inv, Inv', Within, Within', UNCHANGED <<program, live>>,
           stack # <<>>, stack' # <<>>,
           NEW n \in Nat \ {0}, n <= Len(stack'),
           \A k \in 1 .. n - 1 : k \in 1 .. Len(stack) /\ stack'[k] = stack[k],
           LeftAt(n + 1)' < LeftAt(n + 1)
    PROVE  Effort' < Effort
  <1>1. Places' \in Nat /\ Len(stack') \in Nat /\ Len(stack') + 1 <= Places'
    BY PlacesEnoughNext DEF EnoughPlaces
  <1>2. Places' = Places
    BY DEF Places
  <1>3. n + 1 \in 1 .. Places
    BY <1>1, <1>2
  <1>4. ASSUME NEW k \in 1 .. (n + 1) - 1 PROVE LeftAt(k)' = LeftAt(k)
    <2>1. CASE k = 1
      BY <2>1 DEF LeftAt
    <2>2. CASE k # 1
      <3>1. k - 1 \in 1 .. n - 1 /\ k - 1 \in 1 .. Len(stack')
        BY <1>1, <2>2
      <3>2. k - 1 \in 1 .. Len(stack) /\ stack'[k - 1] = stack[k - 1]
        BY <3>1
      <3>3. LeftAt(k) = Rank(stack[k - 1])
        BY <2>2, <3>2 DEF LeftAt
      <3>4. LeftAt(k)' = Rank(stack'[k - 1])
        <4>1. LeftAt(k)' = Rank(stack[k - 1])'
          BY <2>2, <3>1 DEF LeftAt
        <4> QED
          BY <4>1, RankStays
      <3> QED
        BY <3>2, <3>3, <3>4
    <2> QED
      BY <2>1, <2>2
  <1> QED
    BY <1>1, <1>2, <1>3, <1>4, EffortFalls

(* The rank of a call that got its answer. *)
LEMMA AnswerLowersRank ==
    ASSUME IsFiniteSet(Sets), Inv, NEW f \in Frames, InRoom(f), f.answer = "none",
           NEW result \in {"defined", "undefined"}
    PROVE  Rank([f EXCEPT !.answer = result]) < Rank(f)
  <1>1. PICK g : g = [f EXCEPT !.answer = result]
    OBVIOUS
  <1>2. /\ g.set = f.set /\ g.doing = f.doing /\ g.i = f.i /\ g.index = f.index
        /\ g.answer = result /\ g \in Frames
    BY <1>1 DEF Frames
  <1>3. InRoom(g)
    BY <1>2 DEF InRoom
  <1>4. Rank(f) \in Nat /\ Rank(g) \in Nat
    BY <1>2, <1>3, Ranks
  <1>5. Rank(f) = 1 + Rank(g)
    <2>1. PICK x : x = IF f.doing = "interface" THEN 3 * Longest + 3
                       ELSE IF f.doing = "entries" THEN (Longest + 2) + (Longest - f.index) + (Longest - f.i)
                       ELSE (Longest + 1) - f.index
      OBVIOUS
    <2>2. Rank(f) = 1 + 2 * x /\ Rank(g) = 0 + 2 * x
      BY <1>2, <2>1 DEF Rank
    <2>3. x \in Int
      <3>1. Longest \in Nat /\ f.index \in Nat /\ f.i \in Nat
        BY BoundExists DEF Frames
      <3> QED
        BY <2>1, <3>1
    <2> QED
      BY <2>2, <2>3
  <1> QED
    BY <1>1, <1>4, <1>5

LEMMA GoesLowersEffort ==
    ASSUME IsFiniteSet(Sets), Inv, Inv', Within, Within', Goes
    PROVE  Effort' < Effort
  <1>1. /\ stack \in Seq(Frames) /\ Len(stack) \in Nat \ {0} /\ Top = stack[Len(stack)]
        /\ Top \in Frames /\ stack # <<>> /\ UNCHANGED <<program, live>>
    BY TopFacts DEF Goes, Inv, CallsOK
  <1>2. stack' \in Seq(Frames)
    BY DEF Inv, CallsOK
  <1>3. \A k \in 1 .. Len(stack) : stack[k] \in Frames /\ InRoom(stack[k])
    BY <1>1 DEF Within, CallsInRoom
  <1>4. CASE AllEnd
    <2>1. LeftAt(1) = 1 /\ LeftAt(1)' = 0
      BY <1>1, <1>4 DEF LeftAt, AllEnd
    <2>2. Places \in Nat /\ 1 \in 1 .. Places
      BY <1>1, PlacesEnough DEF EnoughPlaces
    <2>3. LeftAt(1)' < LeftAt(1) /\ \A k \in 1 .. 1 - 1 : LeftAt(k)' = LeftAt(k)
      BY <2>1
    <2> QED
      BY <1>1, <2>2, <2>3, EffortFalls
  <1>5. CASE GetsOn
    <2>1. PICK f \in Frames : /\ Rank(f) < Rank(Top) /\ Len(stack') = Len(stack)
                              /\ \A k \in 1 .. Len(stack) - 1 : stack'[k] = stack[k]
                              /\ stack'[Len(stack)] = f
      BY <1>5 DEF GetsOn
    <2>2. PICK n \in Nat \ {0} : n = Len(stack)
      BY <1>1
    <2>3. n + 1 # 1 /\ (n + 1) - 1 = n /\ n \in 1 .. Len(stack) /\ n \in 1 .. Len(stack')
      BY <2>1, <2>2
    <2>4. LeftAt(n + 1) = Rank(Top)
      BY <1>1, <2>2, <2>3 DEF LeftAt
    <2>5. LeftAt(n + 1)' = Rank(f)
      <3>1. LeftAt(n + 1)' = Rank(f)'
        BY <2>1, <2>2, <2>3 DEF LeftAt
      <3> QED
        BY <1>1, <3>1, RankStays
    <2>6. stack' # <<>> /\ n <= Len(stack')
      BY <1>2, <2>1, <2>2
    <2>7. \A k \in 1 .. n - 1 : k \in 1 .. Len(stack) /\ stack'[k] = stack[k]
      BY <2>1, <2>2
    <2> QED
      BY <1>1, <2>1, <2>4, <2>5, <2>6, <2>7, CallFalls
  <1>6. ASSUME NEW n \in Nat, Answered(n) PROVE Effort' < Effort
    <2>1. PICK result \in {"defined", "undefined"} : stack'[n] = [stack[n] EXCEPT !.answer = result]
      BY <1>6 DEF Answered
    <2>2. /\ n \in 1 .. Len(stack) /\ Len(stack') = n /\ stack[n].answer = "none"
          /\ \A k \in 1 .. n - 1 : stack'[k] = stack[k]
      BY <1>6 DEF Answered
    <2>3. n \in Nat \ {0} /\ n + 1 # 1 /\ (n + 1) - 1 = n /\ n \in 1 .. Len(stack')
      BY <1>1, <2>2
    <2>4. Rank(stack'[n]) < Rank(stack[n])
      BY <1>3, <2>1, <2>2, AnswerLowersRank
    <2>5. LeftAt(n + 1) = Rank(stack[n])
      BY <2>2, <2>3 DEF LeftAt
    <2>6. LeftAt(n + 1)' = Rank(stack'[n])
      <3>1. PICK f : f = stack'[n]
        OBVIOUS
      <3>2. LeftAt(n + 1)' = Rank(f)'
        BY <2>3, <3>1 DEF LeftAt
      <3> QED
        BY <1>1, <3>1, <3>2, RankStays
    <2>7. stack' # <<>> /\ n <= Len(stack')
      BY <1>2, <2>2, <2>3
    <2>8. \A k \in 1 .. n - 1 : k \in 1 .. Len(stack) /\ stack'[k] = stack[k]
      BY <1>1, <2>2
    <2> QED
      BY <1>1, <2>3, <2>4, <2>5, <2>6, <2>7, <2>8, CallFalls
  <1>7. CASE Nests
    <2>1. /\ Len(stack') = Len(stack) + 1
          /\ \A k \in 1 .. Len(stack) : stack'[k] = stack[k]
      BY <1>7 DEF Nests
    <2>2. PICK n \in Nat \ {0} : n = Len(stack) + 1
      BY <1>1
    <2>3. /\ n + 1 # 1 /\ (n + 1) - 1 = n /\ n \notin 1 .. Len(stack) /\ n \in 1 .. Len(stack')
          /\ n - 1 = Len(stack)
      BY <1>1, <2>1, <2>2
    <2>4. LeftAt(n + 1) = Highest
      BY <2>3 DEF LeftAt
    <2>5. PICK f : f = stack'[n]
      OBVIOUS
    <2>6. f \in Frames /\ InRoom(f)
      <3>1. f \in Frames
        BY <1>2, <2>3, <2>5
      <3>2. InRoom(f)'
        BY <2>3, <2>5 DEF Within, CallsInRoom
      <3> QED
        BY <1>1, <3>1, <3>2 DEF InRoom, Room
    <2>7. Rank(f) < Highest
      BY <2>6, Ranks
    <2>8. LeftAt(n + 1)' = Rank(f)
      <3>1. LeftAt(n + 1)' = Rank(f)'
        BY <2>3, <2>5 DEF LeftAt
      <3> QED
        BY <1>1, <3>1, RankStays
    <2>9. stack' # <<>> /\ n <= Len(stack')
      BY <1>2, <2>1, <2>2
    <2>10. \A k \in 1 .. n - 1 : k \in 1 .. Len(stack) /\ stack'[k] = stack[k]
      BY <2>1, <2>3
    <2> QED
      BY <1>1, <2>4, <2>7, <2>8, <2>9, <2>10, CallFalls
  <1> QED
    BY <1>4, <1>5, <1>6, <1>7 DEF Goes

(***************************************************************************)
(* Each action is one of these.                                            *)
(***************************************************************************)
LEMMA SetTopGetsOn ==
    ASSUME Inv, stack # <<>>, NEW f \in Frames, SetTop(f), f.set = Top.set, InRoom(f),
           Rank(f) < Rank(Top)
    PROVE  GetsOn
  <1>1. stack \in Seq(Frames)
    BY DEF Inv, CallsOK
  <1>2. /\ Len(stack') = Len(stack) /\ stack'[Len(stack)] = f
        /\ \A k \in 1 .. Len(stack) - 1 : stack'[k] = stack[k]
    BY <1>1, TopReplaced DEF SetTop
  <1> QED
    BY <1>2 DEF GetsOn

(* The calls that wait are the stack, or the stack without its top. *)
LEMMA DeliverEndsOrAnswers ==
    ASSUME NEW calls \in Seq(Frames), calls = stack \/ Len(calls) < Len(stack),
           stack \in Seq(Frames), NEW s, NEW r, NEW result \in {"defined", "undefined"},
           \A k \in 1 .. Len(calls) : /\ k \in 1 .. Len(stack) /\ calls[k] = stack[k]
                                      /\ stack[k].answer = "none",
           Deliver(calls, s, r, result)
    PROVE  AllEnd \/ \E n \in Nat : Answered(n)
  <1>1. CASE calls = <<>>
    BY <1>1 DEF Deliver, AllEnd
  <1>2. CASE calls # <<>>
    <2> DEFINE top == [Last(calls) EXCEPT !.answer = result]
    <2>1. stack' = Append(Front(calls), top)
      BY <1>2 DEF Deliver
    <2>2. Len(calls) \in Nat \ {0} /\ Last(calls) = calls[Len(calls)] /\ Last(calls) \in Frames
      BY <1>2, TopAndBelow
    <2>3. top \in Frames
      BY <2>2 DEF Frames
    <2>4. PICK n \in Nat : n = Len(calls)
      BY <2>2
    <2>5. n \in 1 .. Len(calls) /\ \A k \in 1 .. n - 1 : k \in 1 .. Len(calls)
      BY <2>2, <2>4
    <2>6. n \in 1 .. Len(stack) /\ calls[n] = stack[n] /\ stack[n].answer = "none"
      BY <2>5
    <2>7. top = [stack[n] EXCEPT !.answer = result]
      BY <2>2, <2>4, <2>6
    <2> HIDE DEF top
    <2>8. Len(stack') = n /\ stack'[n] = top /\ \A k \in 1 .. n - 1 : stack'[k] = calls[k]
      <3>1. calls \in Seq(Frames) /\ calls # <<>> /\ top \in Frames
        BY <1>2, <2>3
      <3> QED
        BY <2>1, <2>4, <3>1, TopReplaced
    <2>9. \A k \in 1 .. n - 1 : stack'[k] = stack[k]
      BY <2>5, <2>8
    <2> QED
      BY <2>6, <2>7, <2>8, <2>9 DEF Answered
  <1> QED
    BY <1>1, <1>2

LEMMA ReturnEndsOrAnswers ==
    ASSUME Inv, Within, stack # <<>>, NEW result \in {"defined", "undefined"}, Return(result)
    PROVE  AllEnd \/ \E n \in Nat : Answered(n)
  <1>1. /\ stack \in Seq(Frames) /\ Front(stack) \in Seq(Frames) /\ Len(stack) \in Nat \ {0}
        /\ Len(Front(stack)) = Len(stack) - 1
        /\ \A k \in 1 .. Len(stack) - 1 : Front(stack)[k] = stack[k]
    BY TopFacts DEF Inv, CallsOK
  <1>2. Len(Front(stack)) < Len(stack)
    BY <1>1
  <1>3. \A k \in 1 .. Len(Front(stack)) : /\ k \in 1 .. Len(stack) /\ Front(stack)[k] = stack[k]
                                          /\ stack[k].answer = "none"
    BY <1>1 DEF Within, OthersWait
  <1>4. Deliver(Front(stack), Top.set, Top.flags, result)
    BY DEF Return
  <1> QED
    BY <1>1, <1>2, <1>3, <1>4, DeliverEndsOrAnswers

LEMMA EvaluatePredicateGoes ==
    ASSUME Inv, Within, EvaluatePredicate
    PROVE  Goes
  <1>1. /\ stack # <<>> /\ Top.answer = "none"
        /\ Enter(program.predicate[Candidate][1], program.predicate[Candidate][2])
    BY DEF EvaluatePredicate, NeedsPredicate
  <1>2. PICK s, r : Enter(s, r)
    BY <1>1
  <1>3. /\ stack \in Seq(Frames) /\ Len(stack) \in Nat \ {0} /\ Top = stack[Len(stack)]
    BY <1>1, TopFacts DEF Inv, CallsOK
  <1>4. \A k \in 1 .. Len(stack) : stack[k].answer = "none"
    <2>1. \A k \in 1 .. Len(stack) : k = Len(stack) \/ k \in 1 .. Len(stack) - 1
      BY <1>3
    <2> QED
      BY <1>1, <1>3, <2>1 DEF Within, OthersWait
  <1>5. CASE Busy(s)
    BY <1>1, <1>2, <1>5 DEF Enter, Goes, AllEnd
  <1>6. CASE ~Busy(s) /\ byFlags[s][r] # Nothing
    <2>1. PICK result \in {"defined", "undefined"} :
            Deliver(stack, s, r, result) /\ UNCHANGED <<program, live>>
      BY <1>2, <1>6 DEF Enter, Verdict
    <2>2. AllEnd \/ \E n \in Nat : Answered(n)
      BY <1>3, <1>4, <2>1, DeliverEndsOrAnswers
    <2> QED
      BY <1>1, <2>1, <2>2 DEF Goes
  <1>7. CASE ~Busy(s) /\ byFlags[s][r] = Nothing
    <2>1. stack' = Append(stack, Call(s, r)) /\ UNCHANGED <<program, live>>
      BY <1>2, <1>7 DEF Enter
    <2>2. PICK c : c = Call(s, r)
      OBVIOUS
    <2>3. c.doing = "interface" /\ c.i = 0
      BY <2>2 DEF Call
    <2>4. /\ Len(stack') = Len(stack) + 1 /\ stack'[Len(stack) + 1] = c
          /\ \A k \in 1 .. Len(stack) : stack'[k] = stack[k]
      BY <1>3, <2>1, <2>2
    <2>5. Nests
      BY <1>1, <2>3, <2>4 DEF Nests
    <2> QED
      BY <1>1, <2>1, <2>5 DEF Goes
  <1> QED
    BY <1>5, <1>6, <1>7

(* The innermost call. *)
LEMMA TopNumbers ==
    ASSUME IsFiniteSet(Sets), Inv, Within, stack # <<>>
    PROVE  /\ Top \in Frames /\ Top.set \in Sets /\ Top.i \in Nat /\ Top.index \in Nat
           /\ Top.doing \in {"interface", "entries", "final"}
           /\ InRoom(Top)
           /\ Len(overloads[Top.set]) <= Room(Top.set)
  <1>1. /\ Top \in Frames /\ Len(stack) \in 1 .. Len(stack) /\ Top = stack[Len(stack)]
    BY TopFacts DEF Inv
  <1> QED
    BY <1>1 DEF Frames, Within, CallsInRoom, CopiesBounded

(* An overload or a match is passed. *)
LEMMA PassingLowersRank ==
    ASSUME IsFiniteSet(Sets), Inv, NEW f \in Frames, InRoom(f), NEW g \in Frames, InRoom(g),
           f.doing \in {"entries", "final"}, g.doing = f.doing,
           \/ g.index > f.index /\ g.i = f.i
           \/ g.index = f.index /\ g.i = f.i + 1 /\ g.answer = f.answer /\ f.doing = "entries"
    PROVE  Rank(g) < Rank(f)
  <1>1. /\ f.i \in Nat /\ f.index \in Nat /\ g.i \in Nat /\ g.index \in Nat
    BY DEF Frames
  <1>2. PICK l \in Nat : l = Longest
    BY BoundExists
  <1>3. PICK u \in {0, 1} : u = IF f.answer = "none" THEN 1 ELSE 0
    OBVIOUS
  <1>4. PICK v \in {0, 1} : v = IF g.answer = "none" THEN 1 ELSE 0
    OBVIOUS
  <1>5. CASE f.doing = "entries"
    <2>1. /\ Rank(f) = u + 2 * ((l + 2) + (l - f.index) + (l - f.i))
          /\ Rank(g) = v + 2 * ((l + 2) + (l - g.index) + (l - g.i))
      BY <1>2, <1>3, <1>4, <1>5 DEF Rank
    <2>2. CASE g.index > f.index /\ g.i = f.i
      BY <1>1, <2>1, <2>2
    <2>3. CASE g.index = f.index /\ g.i = f.i + 1 /\ g.answer = f.answer
      <3>1. v = u
        BY <1>3, <1>4, <2>3
      <3> QED
        BY <1>1, <2>1, <2>3, <3>1
    <2> QED
      BY <1>5, <2>2, <2>3
  <1>6. CASE f.doing = "final"
    <2>1. /\ Rank(f) = u + 2 * ((l + 1) - f.index)
          /\ Rank(g) = v + 2 * ((l + 1) - g.index)
      BY <1>2, <1>3, <1>4, <1>6 DEF Rank
    <2> QED
      BY <1>1, <1>6, <2>1
  <1> QED
    BY <1>5, <1>6

LEMMA PassInterfaceGetsOn ==
    ASSUME IsFiniteSet(Sets), Inv, Within, PassInterface
    PROVE  GetsOn
  <1>1. stack # <<>> /\ Top.doing = "interface"
        /\ SetTop([Top EXCEPT !.doing = "entries", !.answer = "none", !.index = next[Top.set]])
    BY DEF PassInterface
  <1>2. /\ Top \in Frames /\ Top.set \in Sets /\ InRoom(Top)
        /\ Len(overloads[Top.set]) <= Room(Top.set)
    BY <1>1, TopNumbers
  <1>3. PICK n : n = next[Top.set]
    OBVIOUS
  <1>4. n \in Nat /\ n <= Room(Top.set)
    BY <1>2, <1>3, RoomIsNatural
  <1>5. PICK f : f = [Top EXCEPT !.doing = "entries", !.answer = "none", !.index = n]
    OBVIOUS
  <1>6. /\ f \in Frames /\ f.set = Top.set /\ f.doing = "entries" /\ f.i = Top.i /\ f.index = n
    BY <1>2, <1>4, <1>5 DEF Frames
  <1>7. InRoom(f)
    BY <1>2, <1>4, <1>6 DEF InRoom
  <1>8. Rank(f) < Rank(Top)
    <2>1. Rank(f) \in Nat /\ Rank(f) <= 6 * Longest + 5
      BY <1>6, <1>7, Ranks
    <2>2. Rank(Top) \in Nat /\ Rank(Top) >= 6 * Longest + 6
      BY <1>1, <1>2, Ranks
    <2>3. Longest \in Nat
      BY BoundExists
    <2> QED
      BY <2>1, <2>2, <2>3
  <1> QED
    BY <1>1, <1>3, <1>5, <1>6, <1>7, <1>8, SetTopGetsOn

(* An overload is passed over, or remembered as a match. *)
LEMMA OverloadPassed ==
    ASSUME IsFiniteSet(Sets), Inv, Within, stack # <<>>, Top.doing \in {"entries", "final"},
           Candidate # Nothing, SetTop([Top EXCEPT !.index = Top.index + 1, !.answer = "none"])
    PROVE  GetsOn
  <1>1. /\ Top \in Frames /\ Top.set \in Sets /\ InRoom(Top) /\ Top.index \in Nat
        /\ Len(overloads[Top.set]) <= Room(Top.set)
    BY TopNumbers
  <1>2. PICK n \in Nat : n = Top.index + 1
    BY <1>1
  <1>3. n <= Room(Top.set)
    <2>1. /\ Room(Top.set) \in Nat /\ Len(overloads[Top.set]) \in Nat
          /\ Len(live[program.callable[Top.set]]) \in Nat
          /\ Len(live[program.callable[Top.set]]) <= Room(Top.set)
      BY <1>1, RoomIsNatural
    <2>2. \/ Top.index < Len(overloads[Top.set])
          \/ Top.index < Len(live[program.callable[Top.set]])
      BY DEF Candidate
    <2> QED
      BY <1>1, <1>2, <2>1, <2>2
  <1>4. PICK f : f = [Top EXCEPT !.index = n, !.answer = "none"]
    OBVIOUS
  <1>5. /\ f \in Frames /\ f.set = Top.set /\ f.doing = Top.doing /\ f.i = Top.i /\ f.index = n
    BY <1>1, <1>4 DEF Frames
  <1>6. InRoom(f)
    <2>1. Room(Top.set) \in Nat
      BY <1>1, RoomIsNatural
    <2> QED
      BY <1>1, <1>2, <1>3, <1>5, <2>1 DEF InRoom
  <1>7. f.index > Top.index
    BY <1>1, <1>2, <1>5
  <1>8. Rank(f) < Rank(Top)
    BY <1>1, <1>5, <1>6, <1>7, PassingLowersRank
  <1> QED
    BY <1>2, <1>4, <1>5, <1>6, <1>8, SetTopGetsOn

LEMMA WrongTempnessGetsOn ==
    ASSUME IsFiniteSet(Sets), Inv, Within, WrongTempness
    PROVE  GetsOn
  <1>1. /\ stack # <<>> /\ Top.doing = "entries" /\ Top.i < Len(matches[Top.set])
        /\ SetTop([Top EXCEPT !.i = Top.i + 1])
    BY DEF WrongTempness, NextEntry
  <1>2. /\ Top \in Frames /\ Top.set \in Sets /\ InRoom(Top) /\ Top.i \in Nat
        /\ Len(overloads[Top.set]) <= Room(Top.set)
    BY <1>1, TopNumbers
  <1>3. PICK n \in Nat : n = Top.i + 1
    BY <1>2
  <1>4. n <= Room(Top.set)
    <2>1. /\ Room(Top.set) \in Nat /\ Len(overloads[Top.set]) \in Nat /\ Len(matches[Top.set]) \in Nat
          /\ Len(matches[Top.set]) <= Len(overloads[Top.set])
      BY <1>2, RoomIsNatural
    <2> QED
      BY <1>1, <1>2, <1>3, <2>1
  <1>5. PICK f : f = [Top EXCEPT !.i = n]
    OBVIOUS
  <1>6. /\ f \in Frames /\ f.set = Top.set /\ f.doing = Top.doing /\ f.i = n
        /\ f.index = Top.index /\ f.answer = Top.answer
    BY <1>2, <1>5 DEF Frames
  <1>7. InRoom(f)
    BY <1>1, <1>2, <1>4, <1>6 DEF InRoom
  <1>8. Rank(f) < Rank(Top)
    BY <1>1, <1>2, <1>3, <1>6, <1>7, PassingLowersRank
  <1> QED
    BY <1>1, <1>3, <1>5, <1>6, <1>7, <1>8, SetTopGetsOn

LEMMA SecondSearchGetsOn ==
    ASSUME IsFiniteSet(Sets), Inv, Within, stack # <<>>, Top.doing = "entries",
           SetTop([Top EXCEPT !.doing = "final", !.index = next[Top.set]])
    PROVE  GetsOn
  <1>1. /\ Top \in Frames /\ Top.set \in Sets /\ InRoom(Top)
        /\ Len(overloads[Top.set]) <= Room(Top.set)
    BY TopNumbers
  <1>2. PICK n : n = next[Top.set]
    OBVIOUS
  <1>3. n \in Nat /\ n <= Room(Top.set) /\ Room(Top.set) \in Nat
    BY <1>1, <1>2, RoomIsNatural
  <1>4. PICK f : f = [Top EXCEPT !.doing = "final", !.index = n]
    OBVIOUS
  <1>5. /\ f \in Frames /\ f.set = Top.set /\ f.doing = "final" /\ f.i = Top.i /\ f.index = n
    BY <1>1, <1>3, <1>4 DEF Frames
  <1>6. InRoom(f)
    BY <1>1, <1>3, <1>5 DEF InRoom
  <1>7. Rank(f) < Rank(Top)
    <2>1. Rank(f) \in Nat /\ Rank(f) <= 2 * Longest + 3
      BY <1>5, <1>6, Ranks
    <2>2. Rank(Top) \in Nat /\ Rank(Top) >= 2 * Longest + 4
      BY <1>1, Ranks
    <2>3. Longest \in Nat
      BY BoundExists
    <2> QED
      BY <2>1, <2>2, <2>3
  <1> QED
    BY <1>2, <1>4, <1>5, <1>6, <1>7, SetTopGetsOn

LEMMA OtherTempnessGetsOn ==
    ASSUME IsFiniteSet(Sets), Inv, Within, OtherTempness
    PROVE  GetsOn
  <1>1. /\ stack # <<>> /\ Top.doing = "final" /\ Candidate # Nothing
        /\ SetTop([Top EXCEPT !.index = Top.index + 2, !.answer = "none"])
    BY DEF OtherTempness
  <1>2. /\ Top \in Frames /\ Top.set \in Sets /\ InRoom(Top) /\ Top.index \in Nat
    BY <1>1, TopNumbers
  <1>3. PICK n \in Nat : n = Top.index + 2
    BY <1>2
  <1>4. n <= Room(Top.set) + 1
    <2>1. /\ Room(Top.set) \in Nat
          /\ Len(live[program.callable[Top.set]]) \in Nat
          /\ Len(live[program.callable[Top.set]]) <= Room(Top.set)
      BY <1>2, RoomIsNatural
    <2>2. Top.index < Len(live[program.callable[Top.set]])
      BY <1>1 DEF Candidate
    <2> QED
      BY <1>2, <1>3, <2>1, <2>2
  <1>5. PICK f : f = [Top EXCEPT !.index = n, !.answer = "none"]
    OBVIOUS
  <1>6. /\ f \in Frames /\ f.set = Top.set /\ f.doing = Top.doing /\ f.i = Top.i /\ f.index = n
    BY <1>2, <1>5 DEF Frames
  <1>7. InRoom(f)
    BY <1>1, <1>2, <1>4, <1>6 DEF InRoom
  <1>8. f.index > Top.index
    BY <1>2, <1>3, <1>6
  <1>9. Rank(f) < Rank(Top)
    BY <1>1, <1>2, <1>6, <1>7, <1>8, PassingLowersRank
  <1> QED
    BY <1>1, <1>3, <1>5, <1>6, <1>7, <1>9, SetTopGetsOn

LEMMA StepGoes ==
    ASSUME IsFiniteSet(Sets), Inv, Within, Step
    PROVE  Goes
  <1>1. CASE EvaluatePredicate
    BY <1>1, EvaluatePredicateGoes
  <1>2. CASE PassInterface
    BY <1>2, PassInterfaceGetsOn DEF PassInterface, Goes
  <1>3. CASE SkipOverload
    BY <1>3, OverloadPassed DEF SkipOverload, Goes
  <1>4. CASE RememberMatch
    <2>1. next'[Top.set] = Top.index + 1
      <3>1. /\ next' = [next EXCEPT ![Top.set] = Top.index + 1] /\ stack # <<>>
        BY <1>4 DEF RememberMatch, NextAfterMatch
      <3>2. Top.set \in Sets /\ next \in [Sets -> Nat]
        BY <3>1, TopNumbers DEF Inv, TablesOK
      <3> QED
        BY <3>1, <3>2
    <2>2. /\ stack # <<>> /\ Top.doing = "entries" /\ Candidate # Nothing
          /\ SetTop([Top EXCEPT !.index = Top.index + 1, !.answer = "none"])
          /\ UNCHANGED <<program, live>>
      BY <1>4, <2>1 DEF RememberMatch
    <2> QED
      BY <2>2, OverloadPassed DEF Goes
  <1>5. CASE WrongTempness
    BY <1>5, WrongTempnessGetsOn DEF WrongTempness, Goes
  <1>6. CASE ChooseMatch
    <2>1. /\ stack # <<>> /\ Top.doing = "entries" /\ UNCHANGED <<program, live>>
          /\ \/ SetTop([Top EXCEPT !.doing = "final", !.index = next[Top.set]])
             \/ \E result \in {"defined", "undefined"} : Return(result)
      BY <1>6 DEF ChooseMatch, Verdict
    <2> QED
      BY <2>1, SecondSearchGetsOn, ReturnEndsOrAnswers DEF Goes
  <1>7. CASE OtherTempness
    BY <1>7, OtherTempnessGetsOn DEF OtherTempness, Goes
  <1>8. CASE FailInterface \/ NoMatch \/ SecondMatch \/ OnlyMatch
    <2>1. /\ stack # <<>> /\ UNCHANGED <<program, live>>
          /\ \E result \in {"defined", "undefined"} : Return(result)
      BY <1>8 DEF FailInterface, NoMatch, SecondMatch, OnlyMatch, Verdict
    <2> QED
      BY <2>1, ReturnEndsOrAnswers DEF Goes
  <1> QED
    BY <1>1, <1>2, <1>3, <1>4, <1>5, <1>6, <1>7, <1>8 DEF Step

(* lookupInvokeSet copies the lists whole. *)
LEMMA EnterCopies ==
    ASSUME Inv, CopiesBounded, NEW s \in Sets, NEW r, Enter(s, r)
    PROVE  CopiesBounded'
  <1>1. /\ UNCHANGED <<program, live>>
        /\ overloads' = overloads \/ overloads' = [overloads EXCEPT ![s] = CopyOverloads(s)]
    BY DEF Enter, FindSet
  <1>2. Len(CopyOverloads(s)) = Room(s)
    <2>1. program.callable[s] \in Callables
      BY DEF Callables
    <2>2. live[program.callable[s]] \in Seq(Overloads) /\ live[Nothing] \in Seq(Overloads)
      BY <2>1 DEF Inv, Declarations
    <2> QED
      BY <2>2 DEF CopyOverloads, Room
  <1>3. ASSUME NEW t \in Sets PROVE Len(overloads'[t]) <= Room(t)
    <2>1. overloads'[t] = overloads[t] \/ (t = s /\ overloads'[t] = CopyOverloads(s))
      BY <1>1 DEF Inv, TablesOK
    <2>2. Room(s) \in Nat
      BY RoomIsNatural
    <2> QED
      BY <1>2, <2>1, <2>2 DEF CopiesBounded
  <1> QED
    BY <1>1, <1>3 DEF CopiesBounded, Room

LEMMA StepCopies ==
    ASSUME Inv, CopiesBounded, Step
    PROVE  CopiesBounded'
  <1>1. CASE EvaluatePredicate
    <2>1. stack # <<>> /\ Candidate # Nothing /\ NeedsPredicate(Candidate)
      BY <1>1 DEF EvaluatePredicate
    <2>2. Candidate \in Overloads /\ program.predicate[Candidate] # Nothing
      BY <2>1, CandidateIsOverload DEF NeedsPredicate
    <2>3. program.predicate \in [Overloads -> (Sets \X Flags) \cup {Nothing}]
      BY InvokeAssumption DEF Inv, Declarations, ProgramType
    <2>4. program.predicate[Candidate] \in Sets \X Flags
      BY <2>2, <2>3
    <2> QED
      BY <1>1, <2>4, EnterCopies DEF EvaluatePredicate
  <1>2. CASE ~EvaluatePredicate
    <2>1. UNCHANGED <<program, live, overloads>>
      BY <1>2 DEF Step, PassInterface, FailInterface, SkipOverload, RememberMatch, NoMatch,
                  WrongTempness, ChooseMatch, OtherTempness, SecondMatch, OnlyMatch, tables
    <2> QED
      BY <2>1 DEF CopiesBounded, Room
  <1> QED
    BY <1>1, <1>2

(* Registration, between lookups, makes the lists longer. *)
LEMMA RegisterWithin ==
    ASSUME Inv, Inv', Within, NEW o \in Overloads, Register(o)
    PROVE  Within'
  <1>1. /\ stack' = <<>> /\ program' = program /\ overloads' = overloads
        /\ live' = [live EXCEPT ![program.target[o]] = Cons(o, @)]
    BY DEF Register, tables
  <1>2. live \in [Callables \cup {Nothing} -> Seq(Overloads)]
    BY DEF Inv, Declarations
  <1>3. ASSUME NEW c \in Callables \cup {Nothing} PROVE Len(live[c]) \in Nat /\ Len(live'[c]) \in Nat /\ Len(live[c]) <= Len(live'[c])
    <2>1. PICK l \in Seq(Overloads) : l = live[c]
      BY <1>2
    <2>2. Len(l) \in Nat /\ Len(Cons(o, l)) = Len(l) + 1
      BY DEF Cons
    <2>3. live'[c] = l \/ live'[c] = Cons(o, l)
      BY <1>1, <1>2, <2>1
    <2> QED
      BY <2>1, <2>2, <2>3
  <1>4. ASSUME NEW s \in Sets
        PROVE  Len(overloads[s]) <= Len(live'[program.callable[s]]) + Len(live'[Nothing])
    <2>1. program.callable[s] \in Callables
      BY DEF Callables
    <2>2. PICK a \in Nat, b \in Nat, c \in Nat, d \in Nat :
            /\ a = Len(live[program.callable[s]]) /\ b = Len(live'[program.callable[s]])
            /\ c = Len(live[Nothing]) /\ d = Len(live'[Nothing]) /\ a <= b /\ c <= d
      BY <1>3, <2>1
    <2>3. PICK n \in Nat : n = Len(overloads[s])
      BY RoomIsNatural
    <2>4. n <= a + c
      BY <2>2, <2>3 DEF Within, CopiesBounded, Room
    <2>5. n <= b + d
      <3>1. a <= b /\ c <= d
        BY <2>2
      <3> QED
        BY <2>4, <3>1
    <2> QED
      BY <2>2, <2>3, <2>5
  <1>5. CopiesBounded'
    BY <1>1, <1>4 DEF CopiesBounded, Room
  <1>6. Len(stack') = 0
    BY <1>1
  <1> QED
    BY <1>5, <1>6 DEF Within, CallsInRoom, OthersWait

(* A lookup from outside begins the first call. *)
LEMMA LookupWithin ==
    ASSUME Inv, Inv', Within, Lookup
    PROVE  Within'
  <1>1. stack = <<>>
    BY DEF Lookup
  <1>2. PICK call \in program.calls : Enter(call[1], call[2])
    BY DEF Lookup
  <1>3. program.calls \subseteq Sets \X Flags
    BY InvokeAssumption DEF Inv, Declarations, ProgramType
  <1>4. PICK s \in Sets, r \in Flags : Enter(s, r)
    BY <1>2, <1>3
  <1>5. CopiesBounded'
    BY <1>4, EnterCopies DEF Within
  <1>6. stack' = <<>> \/ stack' = Append(stack, Call(s, r))
    BY <1>1, <1>4 DEF Enter, Deliver
  <1>7. CASE stack' = <<>>
    <2>1. Len(stack') = 0
      BY <1>7
    <2> QED
      BY <1>5, <2>1 DEF Within, CallsInRoom, OthersWait
  <1>8. CASE stack' = Append(stack, Call(s, r))
    <2>1. PICK c : c = Call(s, r)
      OBVIOUS
    <2>2. Len(stack') = 1 /\ stack'[1] = c
      BY <1>1, <1>8, <2>1
    <2>3. c.doing = "interface" /\ c.i = 0 /\ c.set = s
      BY <2>1 DEF Call
    <2>4. InRoom(c)
      <3>1. Room(s) \in Nat
        BY RoomIsNatural
      <3> QED
        BY <2>3, <3>1 DEF InRoom
    <2>5. \A k \in 1 .. Len(stack') : InRoom(stack'[k])
      <3>1. \A k \in 1 .. 1 : k = 1
        OBVIOUS
      <3> QED
        BY <2>2, <2>4, <3>1
    <2>6. UNCHANGED <<program, live>>
      BY <1>4 DEF Enter
    <2>7. CallsInRoom'
      BY <2>5, <2>6, StillInRoom
    <2>8. OthersWait'
      BY <2>2 DEF OthersWait
    <2> QED
      BY <1>5, <2>7, <2>8 DEF Within
  <1> QED
    BY <1>6, <1>7, <1>8

LEMMA NextWithin ==
    ASSUME IsFiniteSet(Sets), Inv, Inv', Within, [Next]_vars
    PROVE  Within'
  <1>1. CASE Step
    BY <1>1, StepGoes, GoesWithin, StepCopies DEF Within
  <1>2. CASE Lookup
    BY <1>2, LookupWithin
  <1>3. CASE \E o \in Overloads : Register(o)
    BY <1>3, RegisterWithin
  <1>4. CASE UNCHANGED vars
    BY <1>4 DEF vars, Within, CopiesBounded, CallsInRoom, OthersWait, InRoom, Room
  <1> QED
    BY <1>1, <1>2, <1>3, <1>4 DEF Next

LEMMA InitWithin == Init => Within
  <1> SUFFICES ASSUME Init PROVE Within
    OBVIOUS
  <1>1. Inv
    BY InitInv
  <1>2. ASSUME NEW s \in Sets PROVE Len(overloads[s]) <= Room(s)
    <2>1. overloads[s] = <<>>
      BY DEF Init
    <2>2. Len(overloads[s]) = 0 /\ Room(s) \in Nat
      BY <1>1, <2>1, RoomIsNatural
    <2> QED
      BY <2>2
  <1>3. Len(stack) = 0
    BY DEF Init
  <1> QED
    BY <1>2, <1>3 DEF Within, CopiesBounded, CallsInRoom, OthersWait

LEMMA EffortIsNatural ==
    ASSUME IsFiniteSet(Sets), Inv, Within
    PROVE  Effort \in Nat
  <1>1. Places \in Nat /\ Left \in [Nat -> Nat]
    BY PlacesEnough, LeftDigits DEF EnoughPlaces, LeftOK, Within
  <1>2. Highest + 1 \in Nat
    BY BoundExists DEF Highest
  <1> QED
    BY <1>1, <1>2, ReadingFollows DEF Effort

(* Every step of a lookup lowers a natural number, whatever the overloads, predicates
   and memoised answers, with and without -final-overloads, and however predicates
   depend on each other; only another lookup raises it. The flags that refuse a
   predicate loop bound the nesting, each call passes what it has copied and
   matched once, and its predicates are answered by calls above it. (LookupsEnd, but
   for the fairness it assumes: lookupInvokeEntry, findMatchingInvoke, matchInvoke.) *)
THEOREM InvokeLookupsAdvance ==
    ASSUME IsFiniteSet(Sets)
    PROVE  Spec => [](Effort \in Nat) /\ [][Step => Effort' < Effort]_vars
  <1>1. Init => Inv /\ Within
    BY InitInv, InitWithin
  <1>2. Inv /\ Within /\ [Next]_vars => (Inv /\ Within)'
    BY NextInv, NextWithin
  <1>3. Inv /\ Within /\ [Next]_vars => [Step => Effort' < Effort]_vars
    BY NextInv, NextWithin, StepGoes, GoesLowersEffort
  <1>4. Inv /\ Within => Effort \in Nat
    BY EffortIsNatural
  <1> QED
    BY <1>1, <1>2, <1>3, <1>4, PTL DEF Spec

===========================================================================
