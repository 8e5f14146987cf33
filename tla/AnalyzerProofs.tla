--------------------------- MODULE AnalyzerProofs ---------------------------
(***************************************************************************)
(* Theorems about Analyzer, for every program and every order of requests. *)
(*                                                                         *)
(* Inv: types, every frame at a part its body has, no body twice at once.  *)
(* Based: every frame tells the truth about its body.  With the statements *)
(* behind it it has either a type or, for every return statement, a call   *)
(* that was given up; what it passed can be passed, and a type or a value  *)
(* it has is in PossibleTypes, which one more call does not enlarge: the   *)
(* chain of the sets TypesWithin(p, n) stops growing, being finite.        *)
(* Blamed: the bodies under analysis have called one another, from the     *)
(* entry asked for on, and what was given up belongs to a cycle of calls.  *)
(***************************************************************************)
EXTENDS Analyzer, DataLemmas

(***************************************************************************)
(* The inductive invariant.                                                *)
(***************************************************************************)
Typed ==
    /\ program \in Programs
    /\ analyzed \in [Entries -> BOOLEAN]
    /\ analyzing \in [Entries -> BOOLEAN]
    /\ returnType \in [Entries -> Returns \cup {Nothing}]
    /\ \A e \in Entries : analyzed[e] => returnType[e] # Nothing
    /\ stack \in Seq(Frames)
    /\ asked \in Entries \cup {Nothing}
    /\ requests \in 0 .. MaxRequests
    /\ error \in {"none", "recursion", "mismatch", "interface"}

(* A frame names a part its body has. *)
AtPart(frame) ==
    /\ frame.at \in 1 .. Len(program.code[frame.entry])
    /\ frame.part \in DOMAIN program.code[frame.entry][frame.at].parts

AllAtPart == \A i \in 1 .. Len(stack) : AtPart(stack[i])

Inv == Typed /\ AllAtPart /\ EachBodyOnce

LEMMA InvTypeOK == Inv => TypeOK
  BY DEF Inv, Typed, TypeOK

LEMMA InitInv == Init => Inv
  <1> SUFFICES ASSUME Init PROVE Inv
    OBVIOUS
  <1>1. Typed
    BY AnalyzerAssumption DEF Init, Typed
  <1>2. stack = <<>> /\ Len(stack) = 0 /\ \A e \in Entries : ~analyzing[e]
    BY DEF Init
  <1> QED
    BY <1>1, <1>2 DEF Inv, EachBodyOnce, AllAtPart

(***************************************************************************)
(* Programs.                                                               *)
(***************************************************************************)
LEMMA ProgramFacts ==
    ASSUME Typed, NEW e \in Entries
    PROVE  /\ Len(program.code[e]) \in Nat \ {0}
           /\ \A i \in 1 .. Len(program.code[e]) : IsStatement(program.code[e][i])
           /\ program.declared[e] \in Returns \cup {Nothing}
  <1>1. ProgramType(program)
    BY AnalyzerAssumption DEF Typed
  <1>2. /\ program.code[e] \in Seq(Range(program.code[e])) /\ program.code[e] # <<>>
        /\ \A s \in Range(program.code[e]) : IsStatement(s)
        /\ program.declared[e] \in Returns \cup {Nothing}
    BY <1>1 DEF ProgramType
  <1>3. Len(program.code[e]) \in Nat \ {0}
    BY <1>2
  <1>4. \A i \in 1 .. Len(program.code[e]) : program.code[e][i] \in Range(program.code[e])
    BY <1>2
  <1> QED
    BY <1>2, <1>3, <1>4

LEMMA StatementFacts ==
    ASSUME NEW s, IsStatement(s)
    PROVE  /\ 1 \in DOMAIN s.parts
           /\ s.kind = "if" => 2 \in DOMAIN s.parts
           /\ \A k \in DOMAIN s.parts : s.parts[k] \in Parts
  BY DEF IsStatement

LEMMA BodyOK ==
    ASSUME Typed, NEW e \in Entries
    PROVE  Body(e) \in Frames /\ AtPart(Body(e)) /\ Body(e).entry = e
  <1>1. Body(e) \in Frames /\ Body(e).entry = e
    BY DEF Body, Frames, Results
  <1>2. 1 \in 1 .. Len(program.code[e]) /\ 1 \in DOMAIN program.code[e][1].parts
    BY ProgramFacts, StatementFacts
  <1> QED
    BY <1>1, <1>2 DEF AtPart, Body

(* The innermost body. *)
LEMMA TopFacts ==
    ASSUME Inv, stack # <<>>
    PROVE  /\ Top \in Frames /\ AtPart(Top)
           /\ Top = stack[Len(stack)] /\ Len(stack) \in Nat \ {0}
           /\ Statement = program.code[Top.entry][Top.at] /\ IsStatement(Statement)
           /\ Part \in Parts
  <1>1. stack \in Seq(Frames) /\ Typed
    BY DEF Inv, Typed
  <1>2. Top \in Frames /\ Top = stack[Len(stack)] /\ Len(stack) \in Nat \ {0}
    BY <1>1, TopAndBelow DEF Top
  <1>3. AtPart(Top)
    BY <1>2 DEF Inv, AllAtPart
  <1>4. Top.entry \in Entries
    BY <1>2 DEF Frames
  <1>5. Statement = program.code[Top.entry][Top.at] /\ IsStatement(Statement)
    BY <1>1, <1>3, <1>4, ProgramFacts DEF AtPart, Statement
  <1>6. Part \in Parts
    BY <1>3, <1>5, StatementFacts DEF AtPart, Part
  <1> QED
    BY <1>2, <1>3, <1>5, <1>6

(***************************************************************************)
(* The stack of bodies.                                                    *)
(***************************************************************************)
LEMMA FrameReplaced ==
    ASSUME NEW calls \in Seq(Frames), calls # <<>>, NEW f \in Frames
    PROVE  /\ Append(Front(calls), f) \in Seq(Frames)
           /\ Len(Append(Front(calls), f)) = Len(calls)
           /\ Append(Front(calls), f)[Len(calls)] = f
           /\ \A i \in 1 .. Len(calls) - 1 : Append(Front(calls), f)[i] = calls[i]
  BY TopReplaced

LEMMA Replaced ==
    ASSUME stack \in Seq(Frames), stack # <<>>, NEW frame \in Frames, stack' = Replace(frame)
    PROVE  /\ stack' \in Seq(Frames) /\ Len(stack') = Len(stack)
           /\ stack'[Len(stack)] = frame
           /\ \A i \in 1 .. Len(stack) - 1 : stack'[i] = stack[i]
  <1> DEFINE replaced == Append(Front(stack), frame)
  <1>1. /\ replaced \in Seq(Frames) /\ Len(replaced) = Len(stack)
        /\ replaced[Len(stack)] = frame
        /\ \A i \in 1 .. Len(stack) - 1 : replaced[i] = stack[i]
    BY FrameReplaced
  <1>2. stack' = replaced
    BY DEF Replace
  <1> HIDE DEF replaced
  <1> QED
    BY <1>1, <1>2

(* The innermost frame changes, but not the body it stands for. *)
LEMMA ReplaceOK ==
    ASSUME Inv, stack # <<>>, NEW frame \in Frames, frame.entry = Top.entry, AtPart(frame),
           stack' = Replace(frame), UNCHANGED <<program, analyzing, asked, requests, error>>,
           analyzed' \in [Entries -> BOOLEAN], returnType' \in [Entries -> Returns \cup {Nothing}],
           \A e \in Entries : analyzed'[e] => returnType'[e] # Nothing
    PROVE  Inv'
  <1>1. stack \in Seq(Frames)
    BY DEF Inv, Typed
  <1>2. Top = stack[Len(stack)] /\ Len(stack) \in Nat \ {0}
    BY TopFacts
  <1>3. /\ stack' \in Seq(Frames) /\ Len(stack') = Len(stack)
        /\ stack'[Len(stack)] = frame
        /\ \A i \in 1 .. Len(stack) - 1 : stack'[i] = stack[i]
    BY <1>1, Replaced
  <1>4. \A i \in 1 .. Len(stack) : stack'[i].entry = stack[i].entry
    BY <1>2, <1>3
  <1>5. Typed'
    BY <1>3 DEF Inv, Typed
  <1>6. AllAtPart'
    <2>1. ASSUME NEW i \in 1 .. Len(stack')
          PROVE  AtPart(stack'[i])
      BY <1>2, <1>3 DEF Inv, AllAtPart
    <2>2. program' = program
      OBVIOUS
    <2> QED
      BY <2>1, <2>2 DEF AllAtPart, AtPart
  <1>7. EachBodyOnce'
    BY <1>3, <1>4 DEF Inv, EachBodyOnce, Alias
  <1> QED
    BY <1>5, <1>6, <1>7 DEF Inv

(* A body that is not under analysis is begun. *)
LEMMA BeginOK ==
    ASSUME Inv, NEW e \in Entries, ~Known(e), Begin(e, stack),
           UNCHANGED <<program, analyzed, returnType>>,
           asked' \in Entries \cup {Nothing}, requests' \in 0 .. MaxRequests,
           error' \in {"none", "recursion", "mismatch", "interface"}
    PROVE  Inv'
  <1>1. stack \in Seq(Frames) /\ Typed /\ Len(stack) \in Nat
    BY DEF Inv, Typed
  <1>2. Body(e) \in Frames /\ AtPart(Body(e)) /\ Body(e).entry = e
    BY <1>1, BodyOK
  <1>3. /\ stack' \in Seq(Frames) /\ Len(stack') = Len(stack) + 1
        /\ stack'[Len(stack) + 1] = Body(e)
        /\ \A i \in 1 .. Len(stack) : stack'[i] = stack[i]
    BY <1>1, <1>2, Pushed DEF Begin
  <1>4. /\ analyzing' \in [Entries -> BOOLEAN] /\ analyzing'[e] = ~Alias(e)
        /\ \A x \in Entries : x # e => analyzing'[x] = analyzing[x]
    BY DEF Begin, Inv, Typed, Alias
  <1>5. Typed'
    BY <1>1, <1>3, <1>4 DEF Typed
  <1>6. AllAtPart'
    <2>1. ASSUME NEW i \in 1 .. Len(stack')
          PROVE  AtPart(stack'[i])
      BY <1>1, <1>2, <1>3 DEF Inv, AllAtPart
    <2>2. program' = program
      OBVIOUS
    <2> QED
      BY <2>1, <2>2 DEF AllAtPart, AtPart
  <1>7. EachBodyOnce'
    <2> HIDE DEF Body
    <2>1. ASSUME NEW i \in 1 .. Len(stack)
          PROVE  stack[i].entry \in Entries
      <3>1. stack[i] \in Frames
        BY <1>1
      <3> QED
        BY <3>1 DEF Frames
    <2>2. ~Alias(e) => \A i \in 1 .. Len(stack) : stack[i].entry # e
      BY <2>1 DEF Inv, EachBodyOnce, Known
    <2>3. \A i \in 1 .. Len(stack') : stack'[i].entry = IF i = Len(stack) + 1 THEN e ELSE stack[i].entry
      BY <1>1, <1>2, <1>3
    <2>4. \A i, j \in 1 .. Len(stack') :
             stack'[i].entry = stack'[j].entry /\ ~Alias(stack'[i].entry) => i = j
      BY <1>1, <1>3, <2>2, <2>3 DEF Inv, EachBodyOnce
    <2>5. \A i \in 1 .. Len(stack') : ~Alias(stack'[i].entry) => analyzing'[stack'[i].entry]
      BY <1>1, <1>3, <1>4, <2>1, <2>3 DEF Inv, EachBodyOnce
    <2>6. ~program.repl => \A x \in Entries : analyzing'[x] => \E i \in 1 .. Len(stack') : stack'[i].entry = x
      <3> SUFFICES ASSUME ~program.repl, NEW x \in Entries, analyzing'[x]
                   PROVE  \E i \in 1 .. Len(stack') : stack'[i].entry = x
        OBVIOUS
      <3>1. CASE x = e
        BY <1>1, <1>3, <2>3, <3>1
      <3>2. CASE x # e
        <4>1. PICK i \in 1 .. Len(stack) : stack[i].entry = x
          BY <1>4, <3>2 DEF Inv, EachBodyOnce
        <4> QED
          BY <1>1, <1>3, <4>1
      <3> QED
        BY <3>1, <3>2
    <2> QED
      BY <2>4, <2>5, <2>6 DEF EachBodyOnce, Alias
  <1> QED
    BY <1>5, <1>6, <1>7 DEF Inv

(***************************************************************************)
(* On to the next part or statement.                                       *)
(***************************************************************************)
LEMMA FrameFields ==
    ASSUME NEW frame \in Frames
    PROVE  /\ DOMAIN frame = {"entry", "at", "part", "first", "value", "result", "type", "recursive"}
           /\ frame.entry \in Entries /\ frame.at \in Nat \ {0} /\ frame.part \in {1, 2}
           /\ frame.first \in Results /\ frame.value \in Returns \cup {Null, Nothing}
           /\ frame.result \in Results \cup {Nothing} /\ frame.type \in Returns \cup {Nothing}
           /\ frame.recursive \in BOOLEAN
  BY DEF Frames

LEMMA FrameUpdates ==
    ASSUME NEW f \in Frames
    PROVE  /\ \A v \in Returns \cup {Null, Nothing} : [f EXCEPT !.value = v] \in Frames
           /\ \A t \in Returns : [f EXCEPT !.type = t] \in Frames
           /\ [f EXCEPT !.recursive = TRUE] \in Frames
           /\ \A r \in Results : /\ [f EXCEPT !.result = r] \in Frames
                                 /\ [f EXCEPT !.part = 2, !.first = r, !.value = Nothing] \in Frames
           /\ \A n \in Nat \ {0} : [f EXCEPT !.at = n, !.part = 1, !.value = Nothing] \in Frames
  <1> DEFINE values == Returns \cup {Null, Nothing}
             results == Results \cup {Nothing}
             types == Returns \cup {Nothing}
             positive == Nat \ {0}
             parts == {1, 2}
  <1>1. Frames = [entry : Entries, at : positive, part : parts, first : Results,
                  value : values, result : results, type : types, recursive : BOOLEAN]
    BY DEF Frames
  <1>2. 1 \in parts /\ 2 \in parts /\ Nothing \in values
        /\ (\A r \in Results : r \in results) /\ (\A t \in Returns : t \in types)
    OBVIOUS
  <1> HIDE DEF values, results, types, positive, parts
  <1>3. /\ \A v \in values : [f EXCEPT !.value = v] \in Frames
        /\ \A t \in Returns : [f EXCEPT !.type = t] \in Frames
        /\ [f EXCEPT !.recursive = TRUE] \in Frames
    BY <1>1, <1>2
  <1>4. /\ \A r \in Results : [f EXCEPT !.result = r] \in Frames
        /\ \A r \in Results : [f EXCEPT !.part = 2, !.first = r, !.value = Nothing] \in Frames
        /\ \A n \in positive : [f EXCEPT !.at = n, !.part = 1, !.value = Nothing] \in Frames
    BY <1>1, <1>2
  <1> QED
    BY <1>3, <1>4 DEF values, positive

LEMMA AdvanceOK ==
    ASSUME Inv, stack # <<>>, NEW f \in Frames, NEW r \in Results,
           f.entry = Top.entry, f.at = Top.at, f.part = Top.part
    PROVE  /\ Advance(f, r) \in Frames
           /\ Advance(f, r).entry = Top.entry
           /\ AtPart(Advance(f, r))
  <1> DEFINE second == [f EXCEPT !.part = 2, !.first = r, !.value = Nothing]
             whole == IF Statement.kind = "if" THEN Combine(f.first, r)
                      ELSE IF Statement.kind = "while" THEN "FALLTHROUGH" ELSE r
             ended == [f EXCEPT !.result = whole]
             n == f.at + 1
             onwards == [f EXCEPT !.at = n, !.part = 1, !.value = Nothing]
  <1>1. /\ Top \in Frames /\ AtPart(Top) /\ Typed
        /\ Statement = program.code[Top.entry][Top.at] /\ IsStatement(Statement)
    BY TopFacts DEF Inv
  <1>2. Top.entry \in Entries /\ f.at \in Nat \ {0} /\ f.first \in Results
    BY <1>1 DEF Frames
  <1>3. whole \in Results /\ n \in Nat \ {0}
    BY <1>2 DEF Combine, Results
  <1>4. \/ Advance(f, r) = second /\ Statement.kind = "if"
        \/ Advance(f, r) = ended
        \/ Advance(f, r) = onwards /\ f.at # Len(program.code[f.entry])
    BY DEF Advance, NextStatement
  <1>5. DOMAIN f = {"entry", "at", "part", "first", "value", "result", "type", "recursive"}
    BY DEF Frames
  <1>6. CASE Advance(f, r) = second /\ Statement.kind = "if"
    <2>1. second.entry = f.entry /\ second.at = f.at /\ second.part = 2
      BY <1>5
    <2>2. second \in Frames
      BY FrameUpdates
    <2> HIDE DEF second
    <2>3. 2 \in DOMAIN Statement.parts
      BY <1>1, <1>6, StatementFacts
    <2>4. AtPart(second)
      BY <1>1, <2>1, <2>3 DEF AtPart
    <2> QED
      BY <1>6, <2>1, <2>2, <2>4
  <1>7. CASE Advance(f, r) = ended
    <2> HIDE DEF whole
    <2>1. ended.entry = f.entry /\ ended.at = f.at /\ ended.part = f.part
      BY <1>5
    <2>2. ended \in Frames
      BY <1>3, FrameUpdates
    <2> HIDE DEF ended
    <2>3. AtPart(ended)
      BY <1>1, <2>1 DEF AtPart
    <2> QED
      BY <1>7, <2>1, <2>2, <2>3
  <1>8. CASE Advance(f, r) = onwards /\ f.at # Len(program.code[f.entry])
    <2>1. Len(program.code[f.entry]) \in Nat /\ f.at \in 1 .. Len(program.code[f.entry])
      BY <1>1, <1>2, ProgramFacts DEF AtPart
    <2>2. n \in 1 .. Len(program.code[f.entry])
      BY <1>2, <1>8, <2>1
    <2>3. IsStatement(program.code[f.entry][n])
      BY <1>1, <1>2, <2>2, ProgramFacts
    <2>4. 1 \in DOMAIN program.code[f.entry][n].parts
      BY <2>3, StatementFacts
    <2> HIDE DEF n
    <2>5. onwards.entry = f.entry /\ onwards.at = n /\ onwards.part = 1
      BY <1>5
    <2>6. onwards \in Frames
      BY <1>3, FrameUpdates
    <2> HIDE DEF onwards
    <2>7. AtPart(onwards)
      BY <2>2, <2>4, <2>5 DEF AtPart
    <2> QED
      BY <1>8, <2>5, <2>6, <2>7
  <1> QED
    BY <1>4, <1>6, <1>7, <1>8

(* A step that only moves the innermost frame on. *)
LEMMA MoveOnOK ==
    ASSUME Inv, stack # <<>>, NEW f \in Frames, NEW r \in Results,
           f.entry = Top.entry, f.at = Top.at, f.part = Top.part,
           stack' = Replace(Advance(f, r)),
           UNCHANGED <<program, analyzed, analyzing, returnType, asked, requests, error>>
    PROVE  Inv'
  <1> DEFINE frame == Advance(f, r)
  <1>1. frame \in Frames /\ frame.entry = Top.entry /\ AtPart(frame)
    BY AdvanceOK
  <1> HIDE DEF frame
  <1>2. stack' = Replace(frame)
    BY DEF frame
  <1>3. UNCHANGED <<program, analyzing, asked, requests, error>> /\ UNCHANGED <<analyzed, returnType>>
    OBVIOUS
  <1>4. /\ analyzed' \in [Entries -> BOOLEAN] /\ returnType' \in [Entries -> Returns \cup {Nothing}]
        /\ \A e \in Entries : analyzed'[e] => returnType'[e] # Nothing
    BY <1>3 DEF Inv, Typed
  <1> QED
    BY <1>1, <1>2, <1>3, <1>4, ReplaceOK

(* The value in hand, once it has come, is a type or null. *)
LEMMA ValueType ==
    ASSUME Inv, stack # <<>>, Value # Nothing, Part[1] \in {"return", "bind"}
    PROVE  Value \in Returns \cup {Null}
  <1>1. Top \in Frames /\ Part \in Parts
    BY TopFacts
  <1>2. Top.value \in Returns \cup {Null, Nothing}
    BY <1>1 DEF Frames
  <1>3. Part[2] \in Types \cup Entries \/ Part[1] = "throw" \/ Part[1] = "skip"
    BY <1>1 DEF Parts, Expressions
  <1>4. Part[2] \in Types \cup Entries
    BY <1>3
  <1> QED
    BY <1>2, <1>4 DEF Value, Calls, Returns

(***************************************************************************)
(* The end of a body: its flag is cleared, and the body below goes on.     *)
(***************************************************************************)
(* The body below the innermost one is handed the value. *)
LEMMA Delivered ==
    ASSUME stack \in Seq(Frames), stack # <<>>, NEW v \in Returns \cup {Null}, Deliver(v)
    PROVE  /\ stack' \in Seq(Frames) /\ Len(stack) \in Nat \ {0} /\ Len(stack') = Len(stack) - 1
           /\ \A i \in 1 .. Len(stack) - 2 : stack'[i] = stack[i]
           /\ Len(stack) > 1 => stack'[Len(stack) - 1] = [stack[Len(stack) - 1] EXCEPT !.value = v]
  <1> DEFINE calls == Front(stack)
             frame == [Last(calls) EXCEPT !.value = v]
             n == Len(stack) - 1
  <1>1. /\ calls \in Seq(Frames) /\ Len(calls) = n /\ Len(stack) \in Nat \ {0}
        /\ \A i \in 1 .. n : calls[i] = stack[i]
    BY TopAndBelow
  <1>2. CASE Len(stack) = 1
    <2>1. stack' = <<>>
      BY <1>2 DEF Deliver
    <2> QED
      BY <1>2, <2>1
  <1>3. CASE Len(stack) # 1
    <2>1. stack' = Append(Front(calls), frame)
      BY <1>3 DEF Deliver
    <2>2. n \in Nat \ {0} /\ calls # <<>>
      BY <1>1, <1>3
    <2> HIDE DEF calls
    <2>3. Last(calls) \in Frames /\ Last(calls) = calls[n]
      BY <1>1, <2>2, TopAndBelow
    <2>4. Last(calls) = stack[n]
      BY <1>1, <2>2, <2>3
    <2>5. frame \in Frames
      BY <2>3, FrameUpdates
    <2>6. frame = [stack[n] EXCEPT !.value = v]
      BY <2>4
    <2> HIDE DEF frame
    <2>7. /\ Append(Front(calls), frame) \in Seq(Frames)
          /\ Len(Append(Front(calls), frame)) = Len(calls)
          /\ Append(Front(calls), frame)[Len(calls)] = frame
          /\ \A i \in 1 .. Len(calls) - 1 : Append(Front(calls), frame)[i] = calls[i]
      BY <1>1, <2>2, <2>5, FrameReplaced
    <2>8. /\ stack' \in Seq(Frames) /\ Len(stack') = n /\ stack'[n] = frame
          /\ \A i \in 1 .. n - 1 : stack'[i] = calls[i]
      BY <1>1, <2>1, <2>7
    <2>9. \A i \in 1 .. Len(stack) - 2 : stack'[i] = stack[i]
      BY <1>1, <2>2, <2>8
    <2> QED
      BY <1>1, <2>6, <2>8, <2>9
  <1> QED
    BY <1>2, <1>3

LEMMA DeliverOK ==
    ASSUME Inv, stack # <<>>, NEW v \in Returns \cup {Null}, Deliver(v),
           analyzing' = ClearAnalyzing(Top.entry), UNCHANGED <<program, asked, requests>>,
           analyzed' \in [Entries -> BOOLEAN], returnType' \in [Entries -> Returns \cup {Nothing}],
           \A e \in Entries : analyzed'[e] => returnType'[e] # Nothing
    PROVE  Inv'
  <1> DEFINE n == Len(stack) - 1
  <1>1. stack \in Seq(Frames) /\ Typed /\ AllAtPart /\ EachBodyOnce
    BY DEF Inv, Typed
  <1>2. Top \in Frames /\ Top = stack[Len(stack)] /\ Len(stack) \in Nat \ {0}
    BY TopFacts
  <1>3. /\ stack' \in Seq(Frames) /\ Len(stack') = n
        /\ \A i \in 1 .. Len(stack) - 2 : stack'[i] = stack[i]
        /\ Len(stack) > 1 => stack'[n] = [stack[n] EXCEPT !.value = v]
    BY <1>1, Delivered
  <1>4. n \in Nat
    BY <1>2
  <1>5. error' \in {"none", "recursion", "mismatch", "interface"}
    BY <1>1 DEF Deliver, Typed
  \* Nothing about the bodies below changes but the value one of them waits for.
  <1>6. /\ stack' \in Seq(Frames) /\ Len(stack') = n
        /\ \A i \in 1 .. n : stack'[i].entry = stack[i].entry /\ AtPart(stack'[i])
    <2>1. ASSUME NEW i \in 1 .. n
          PROVE  /\ stack'[i].entry = stack[i].entry /\ stack'[i].at = stack[i].at
                 /\ stack'[i].part = stack[i].part
      <3>1. CASE i = n
        <4>1. stack[i] \in Frames /\ stack'[i] = [stack[i] EXCEPT !.value = v]
          BY <1>1, <1>2, <1>3, <3>1
        <4> QED
          BY <4>1, FrameFields
      <3>2. CASE i # n
        BY <1>2, <1>3, <3>2
      <3> QED
        BY <3>1, <3>2
    <2>2. \A i \in 1 .. n : AtPart(stack[i])
      BY <1>1, <1>2 DEF AllAtPart
    <2> QED
      BY <1>3, <2>1, <2>2 DEF AtPart
  <1>7. Top.entry \in Entries /\ \A i \in 1 .. n : stack[i].entry \in Entries
    <2>1. ASSUME NEW i \in 1 .. Len(stack)
          PROVE  stack[i].entry \in Entries
      <3>1. stack[i] \in Frames
        BY <1>1
      <3> QED
        BY <3>1 DEF Frames
    <2> QED
      BY <1>2, <2>1
  <1>8. /\ analyzing' \in [Entries -> BOOLEAN] /\ ~analyzing'[Top.entry]
        /\ \A e \in Entries : e # Top.entry => analyzing'[e] = analyzing[e]
    BY <1>1, <1>7 DEF ClearAnalyzing, Typed
  <1>9. Typed'
    BY <1>1, <1>5, <1>6, <1>8 DEF Typed
  <1>10. AllAtPart'
    <2>1. program' = program
      OBVIOUS
    <2> QED
      BY <1>6, <2>1 DEF AllAtPart, AtPart
  <1>11. EachBodyOnce'
    <2>1. \A i, j \in 1 .. n : stack[i].entry = stack[j].entry /\ ~Alias(stack[i].entry) => i = j
      BY <1>1, <1>2 DEF EachBodyOnce
    <2>2. \A i \in 1 .. n : ~Alias(stack[i].entry) => stack[i].entry # Top.entry /\ analyzing[stack[i].entry]
      BY <1>1, <1>2 DEF EachBodyOnce
    <2>3. ~program.repl => \A e \in Entries : analyzing'[e] => \E i \in 1 .. n : stack[i].entry = e
      BY <1>1, <1>2, <1>8 DEF EachBodyOnce
    <2>4. \A i \in 1 .. n : ~Alias(stack[i].entry) => analyzing'[stack[i].entry]
      BY <1>7, <1>8, <2>2
    <2> HIDE DEF n
    <2>5. /\ \A i, j \in 1 .. n : stack'[i].entry = stack'[j].entry /\ ~Alias(stack'[i].entry) => i = j
          /\ \A i \in 1 .. n : ~Alias(stack'[i].entry) => analyzing'[stack'[i].entry]
          /\ ~program.repl => \A e \in Entries : analyzing'[e] => \E i \in 1 .. n : stack'[i].entry = e
      BY <1>6, <2>1, <2>3, <2>4
    <2> QED
      BY <1>6, <2>5 DEF EachBodyOnce, Alias
  <1> QED
    BY <1>9, <1>10, <1>11 DEF Inv

(***************************************************************************)
(* One lemma for each kind of action.                                      *)
(***************************************************************************)
LEMMA RaiseOK ==
    ASSUME Inv, NEW kind \in {"none", "recursion", "mismatch", "interface"}, Raise(kind)
    PROVE  Inv'
  <1>1. /\ error' = kind /\ UNCHANGED <<program, analyzed, analyzing, returnType, asked, requests>>
        /\ stack' = stack \/ (program.repl /\ stack' = <<>>)
    BY DEF Raise
  <1>2. Typed'
    <2>1. stack \in Seq(Frames) /\ <<>> \in Seq(Frames)
      BY DEF Inv, Typed
    <2>2. stack' \in Seq(Frames)
      BY <1>1, <2>1
    <2> QED
      BY <1>1, <2>2 DEF Inv, Typed
  <1>3. CASE stack' = stack
    BY <1>1, <1>2, <1>3 DEF Inv, AllAtPart, AtPart, EachBodyOnce, Alias
  <1>4. CASE program.repl /\ stack' = <<>>
    BY <1>1, <1>2, <1>4 DEF Inv, AllAtPart, EachBodyOnce
  <1> QED
    BY <1>1, <1>3, <1>4

LEMMA MarkDeclaredOK ==
    ASSUME Inv, NEW e \in Entries, Declared(e), MarkDeclared(e)
    PROVE  /\ analyzed' \in [Entries -> BOOLEAN]
           /\ returnType' \in [Entries -> Returns \cup {Nothing}]
           /\ \A x \in Entries : analyzed'[x] => returnType'[x] # Nothing
  BY ProgramFacts DEF Inv, Typed, Declared, MarkDeclared

LEMMA RequestOK ==
    ASSUME Inv, NEW e \in Entries, Request(e)
    PROVE  Inv'
  <1>1. /\ stack = <<>> /\ requests < MaxRequests /\ asked' = e /\ requests' = requests + 1
        /\ UNCHANGED program
    BY DEF Request
  <1>2. asked' \in Entries \cup {Nothing} /\ requests' \in 0 .. MaxRequests
    BY <1>1, AnalyzerAssumption DEF Inv, Typed
  <1>3. CASE ~Known(e) /\ ~Declared(e)
    <2>1. Begin(e, stack) /\ error' = "none" /\ UNCHANGED <<analyzed, returnType>>
      BY <1>1, <1>3 DEF Request
    <2>2. UNCHANGED <<program, analyzed, returnType>>
          /\ error' \in {"none", "recursion", "mismatch", "interface"}
      BY <1>1, <2>1
    <2> QED
      BY <1>2, <1>3, <2>1, <2>2, BeginOK
  <1>4. CASE Known(e) \/ Declared(e)
    <2>1. /\ (Declared(e) /\ MarkDeclared(e)) \/ UNCHANGED <<analyzed, returnType>>
          /\ error' \in {"none", "recursion"} /\ UNCHANGED <<analyzing, stack>>
      BY <1>4 DEF Request
    <2>2. /\ analyzed' \in [Entries -> BOOLEAN] /\ returnType' \in [Entries -> Returns \cup {Nothing}]
          /\ \A x \in Entries : analyzed'[x] => returnType'[x] # Nothing
      <3>1. CASE Declared(e) /\ MarkDeclared(e)
        BY <3>1, MarkDeclaredOK
      <3>2. CASE UNCHANGED <<analyzed, returnType>>
        BY <3>2 DEF Inv, Typed
      <3> QED
        BY <2>1, <3>1, <3>2
    <2>3. Typed'
      BY <1>1, <1>2, <2>1, <2>2 DEF Inv, Typed
    <2>4. UNCHANGED <<program, analyzing, stack>>
      BY <1>1, <2>1
    <2> QED
      BY <2>3, <2>4 DEF Inv, AllAtPart, AtPart, EachBodyOnce, Alias
  <1> QED
    BY <1>3, <1>4

LEMMA CallKnownOK ==
    ASSUME Inv, CallKnown
    PROVE  Inv'
  <1> DEFINE e == Part[2]
             v == IF Declared(e) /\ Alias(e) THEN program.declared[e] ELSE ResultOf(e)
             f == [Top EXCEPT !.value = v]
  <1>1. /\ stack # <<>> /\ Calls(Part)
        /\ (Declared(e) /\ MarkDeclared(e)) \/ UNCHANGED <<analyzed, returnType>>
        /\ stack' = Replace(f)
        /\ UNCHANGED <<program, analyzing, asked, requests, error>>
    BY DEF CallKnown, Running
  <1>2. e \in Entries
    BY <1>1 DEF Calls
  <1>3. /\ analyzed' \in [Entries -> BOOLEAN] /\ returnType' \in [Entries -> Returns \cup {Nothing}]
        /\ \A x \in Entries : analyzed'[x] => returnType'[x] # Nothing
    <2>1. CASE Declared(e) /\ MarkDeclared(e)
      BY <1>2, <2>1, MarkDeclaredOK
    <2>2. CASE UNCHANGED <<analyzed, returnType>>
      BY <2>2 DEF Inv, Typed
    <2> QED
      BY <1>1, <2>1, <2>2
  <1>4. v \in Returns \cup {Null, Nothing}
    BY <1>2, <1>3, ProgramFacts DEF Inv, ResultOf
  <1>5. Top \in Frames /\ AtPart(Top)
    BY <1>1, TopFacts
  <1> HIDE DEF v
  <1>6. f \in Frames
    BY <1>4, <1>5, FrameUpdates
  <1>7. f.entry = Top.entry /\ f.at = Top.at /\ f.part = Top.part
    BY <1>5 DEF Frames
  <1> HIDE DEF f
  <1>8. AtPart(f)
    BY <1>5, <1>7 DEF AtPart
  <1> QED
    BY <1>1, <1>3, <1>6, <1>7, <1>8, ReplaceOK

LEMMA CallUnknownOK ==
    ASSUME Inv, CallUnknown
    PROVE  Inv'
  <1>1. /\ Calls(Part) /\ ~Known(Part[2]) /\ Begin(Part[2], stack)
        /\ UNCHANGED <<program, analyzed, returnType>> /\ UNCHANGED <<asked, requests, error>>
    BY DEF CallUnknown
  <1>2. Part[2] \in Entries
    BY <1>1 DEF Calls
  <1>3. /\ asked' \in Entries \cup {Nothing} /\ requests' \in 0 .. MaxRequests
        /\ error' \in {"none", "recursion", "mismatch", "interface"}
    BY <1>1 DEF Inv, Typed
  <1> QED
    BY <1>1, <1>2, <1>3, BeginOK

LEMMA PassPartOK ==
    ASSUME Inv, PassPart
    PROVE  Inv'
  <1> DEFINE r == IF Part[1] = "throw" THEN "TERMINATED" ELSE "FALLTHROUGH"
  <1>1. /\ stack # <<>> /\ stack' = Replace(Advance(Top, r))
        /\ UNCHANGED <<program, analyzed, analyzing, returnType, asked, requests, error>>
    BY DEF PassPart, Running
  <1>2. r \in Results
    BY DEF Results
  <1> HIDE DEF r
  <1> QED
    BY <1>1, <1>2, TopFacts, MoveOnOK

LEMMA GiveUpOK ==
    ASSUME Inv, GiveUp
    PROVE  Inv'
  <1> DEFINE f == [Top EXCEPT !.recursive = TRUE]
  <1>1. /\ stack # <<>> /\ stack' = Replace(Advance(f, "RECURSIVE"))
        /\ UNCHANGED <<program, analyzed, analyzing, returnType, asked, requests, error>>
    BY DEF GiveUp, Evaluated, Running
  <1>2. f \in Frames /\ f.entry = Top.entry /\ f.at = Top.at /\ f.part = Top.part
    <2>1. Top \in Frames
      BY <1>1, TopFacts
    <2>2. f \in Frames
      BY <2>1, FrameUpdates
    <2> QED
      BY <2>1, <2>2 DEF Frames
  <1>3. "RECURSIVE" \in Results
    BY DEF Results
  <1> HIDE DEF f
  <1> QED
    BY <1>1, <1>2, <1>3, MoveOnOK

LEMMA BindValueOK ==
    ASSUME Inv, BindValue
    PROVE  Inv'
  <1>1. /\ stack # <<>> /\ stack' = Replace(Advance(Top, "FALLTHROUGH"))
        /\ UNCHANGED <<program, analyzed, analyzing, returnType, asked, requests, error>>
    BY DEF BindValue, Evaluated, Running
  <1>2. "FALLTHROUGH" \in Results
    BY DEF Results
  <1> QED
    BY <1>1, <1>2, TopFacts, MoveOnOK

LEMMA ReturnValueOK ==
    ASSUME Inv, ReturnValue
    PROVE  Inv'
  <1> DEFINE v == Value
             f == [Top EXCEPT !.type = v]
  <1>1. /\ stack # <<>> /\ stack' = Replace(Advance(f, "TERMINATED"))
        /\ Part[1] = "return" /\ v # Null /\ v # Nothing
        /\ UNCHANGED <<program, analyzed, analyzing, returnType, asked, requests, error>>
    BY DEF ReturnValue, Evaluated, Running
  <1>2. v \in Returns
    BY <1>1, ValueType
  <1> HIDE DEF v
  <1>3. f \in Frames /\ f.entry = Top.entry /\ f.at = Top.at /\ f.part = Top.part
    <2>1. Top \in Frames
      BY <1>1, TopFacts
    <2>2. f \in Frames
      BY <1>2, <2>1, FrameUpdates
    <2> QED
      BY <2>1, <2>2 DEF Frames
  <1>4. "TERMINATED" \in Results
    BY DEF Results
  <1> HIDE DEF f
  <1> QED
    BY <1>1, <1>3, <1>4, MoveOnOK

LEMMA LeaveUntypedOK ==
    ASSUME Inv, LeaveUntyped
    PROVE  Inv'
  <1>1. /\ stack # <<>> /\ Deliver(Null) /\ analyzing' = ClearAnalyzing(Top.entry)
        /\ UNCHANGED <<analyzed, returnType>> /\ UNCHANGED <<program, asked, requests>>
    BY DEF LeaveUntyped, Finished, Running
  <1>2. /\ analyzed' \in [Entries -> BOOLEAN] /\ returnType' \in [Entries -> Returns \cup {Nothing}]
        /\ \A e \in Entries : analyzed'[e] => returnType'[e] # Nothing
    BY <1>1 DEF Inv, Typed
  <1> QED
    BY <1>1, <1>2, DeliverOK

LEMMA FinishEntryOK ==
    ASSUME Inv, FinishEntry
    PROVE  Inv'
  <1> DEFINE t == Inferred(Top)
  <1>1. /\ stack # <<>> /\ Deliver(t) /\ analyzing' = ClearAnalyzing(Top.entry)
        /\ UNCHANGED <<program, asked, requests>>
        /\ \/ UNCHANGED <<analyzed, returnType>>
           \/ /\ returnType' = [returnType EXCEPT ![Top.entry] = t]
              /\ analyzed' = [analyzed EXCEPT ![Top.entry] = TRUE]
    BY DEF FinishEntry, Finished, Running
  <1>2. t \in Returns /\ Top.entry \in Entries /\ Nothing \notin Returns
    <2>1. Top \in Frames
      BY <1>1, TopFacts
    <2>2. Top.type \in Returns \cup {Nothing} /\ Top.entry \in Entries
      BY <2>1 DEF Frames
    <2> QED
      BY <2>2, AnalyzerAssumption DEF Inferred, Returns
  <1> HIDE DEF t
  <1>3. /\ analyzed' \in [Entries -> BOOLEAN] /\ returnType' \in [Entries -> Returns \cup {Nothing}]
        /\ \A e \in Entries : analyzed'[e] => returnType'[e] # Nothing
    <2>1. /\ analyzed \in [Entries -> BOOLEAN] /\ returnType \in [Entries -> Returns \cup {Nothing}]
          /\ \A e \in Entries : analyzed[e] => returnType[e] # Nothing
      BY DEF Inv, Typed
    <2>2. CASE UNCHANGED <<analyzed, returnType>>
      BY <2>1, <2>2
    <2>3. CASE /\ returnType' = [returnType EXCEPT ![Top.entry] = t]
               /\ analyzed' = [analyzed EXCEPT ![Top.entry] = TRUE]
      BY <1>2, <2>1, <2>3
    <2> QED
      BY <1>1, <2>2, <2>3
  <1> QED
    BY <1>1, <1>2, <1>3, DeliverOK

(***************************************************************************)
(* The theorems.                                                           *)
(***************************************************************************)
LEMMA NextInv == Inv /\ [Next]_vars => Inv'
  <1> SUFFICES ASSUME Inv, [Next]_vars PROVE Inv'
    OBVIOUS
  <1>1. CASE UNCHANGED vars
    BY <1>1 DEF vars, Inv, Typed, AllAtPart, AtPart, EachBodyOnce, Alias
  <1>2. CASE CallKnown
    BY <1>2, CallKnownOK
  <1>3. CASE CallUnknown
    BY <1>3, CallUnknownOK
  <1>4. CASE PassPart
    BY <1>4, PassPartOK
  <1>5. CASE GiveUp
    BY <1>5, GiveUpOK
  <1>6. CASE BindValue
    BY <1>6, BindValueOK
  <1>7. CASE ReturnValue
    BY <1>7, ReturnValueOK
  <1>8. CASE ReturnMismatch
    BY <1>8, RaiseOK DEF ReturnMismatch
  <1>9. CASE LeaveUntyped
    BY <1>9, LeaveUntypedOK
  <1>10. CASE NoBaseCase
    BY <1>10, RaiseOK DEF NoBaseCase
  <1>11. CASE WrongInterface
    BY <1>11, RaiseOK DEF WrongInterface
  <1>12. CASE FinishEntry
    BY <1>12, FinishEntryOK
  <1>13. ASSUME NEW e \in Entries, Request(e)
         PROVE  Inv'
    BY <1>13, RequestOK
  <1> QED
    BY <1>1, <1>2, <1>3, <1>4, <1>5, <1>6, <1>7, <1>8, <1>9, <1>10, <1>11, <1>12, <1>13 DEF Next, Step

LEMMA SpecInv == Spec => []Inv
  BY InitInv, NextInv, PTL DEF Spec

(* Every variable keeps its type, and an entry marked analyzed has a type. *)
THEOREM AnalyzerTypeOK == Spec => []TypeOK
  BY SpecInv, InvTypeOK, PTL

(* No body is under analysis twice at once, aliases apart, and outside the REPL
   the `analyzing` flags are those of the bodies under analysis: for any program,
   with any recursion, and any order in which entries are asked for. *)
THEOREM AnalyzerEachBodyOnce == Spec => []EachBodyOnce
  <1>1. Inv => EachBodyOnce
    BY DEF Inv
  <1> QED
    BY <1>1, SpecInv, PTL

(***************************************************************************)
(* What a body under analysis knows.                                       *)
(***************************************************************************)
(* The part that frame frame has come to, of a body with code b. *)
PartAt(frame, b) == b[frame.at].parts[frame.part]

(* A return statement behind the frame has given it a type, or had none to give. *)
Found(frame, x) == x[1] = "return" => frame.type # Nothing \/ (frame.recursive /\ x[2] \notin Types)

AllFound(frame, s) == \A k \in DOMAIN s.parts : Found(frame, s.parts[k])

(* What the result r of part x means, `below` being the types entries can return. *)
Outcome(frame, below, x, r) ==
    /\ Found(frame, x)
    /\ r = "FALLTHROUGH" => Falls(x, below)
    /\ r # "FALLTHROUGH" => ~Falls(x, {})
    /\ r = "RECURSIVE" => frame.recursive
    /\ r = "TERMINATED" => x[1] = "throw" \/ frame.type # Nothing

Behind(frame, below, b) ==
    \A j \in 1 .. frame.at - 1 : b[j] \in Passed(b, below) /\ AllFound(frame, b[j])

Halfway(frame, below, b) ==
    frame.part = 2 /\ frame.result = Nothing => Outcome(frame, below, b[frame.at].parts[1], frame.first)

(* The body has come to an end at statement frame.at. *)
Ended(frame, below, b) ==
    /\ AllFound(frame, b[frame.at])
    /\ frame.result = "FALLTHROUGH" => frame.at = Len(b) /\ b[frame.at] \in Passed(b, below)
    /\ frame.result # "FALLTHROUGH" => b[frame.at] \notin Passed(b, {})
    /\ frame.result = "RECURSIVE" => frame.recursive
    /\ frame.result = "TERMINATED" /\ frame.type = Nothing /\ ~frame.recursive =>
          b[frame.at].kind # "while" /\ \A k \in DOMAIN b[frame.at].parts : b[frame.at].parts[k][1] = "throw"

Valued(frame, below, b) ==
    frame.value \in Returns => Calls(PartAt(frame, b)) /\ <<PartAt(frame, b)[2], frame.value>> \in below

FrameOK(frame, below, b) ==
    /\ Behind(frame, below, b)
    /\ Halfway(frame, below, b)
    /\ frame.result # Nothing => Ended(frame, below, b)
    /\ frame.type # Nothing => <<frame.entry, frame.type>> \in below
    /\ Valued(frame, below, b)

(* A body that is not the innermost one is at the call of the body above it. *)
AtCall(frame, b, callee) ==
    /\ frame.result = Nothing /\ frame.value = Nothing
    /\ Calls(PartAt(frame, b)) /\ PartAt(frame, b)[2] = callee

FramesOK ==
    \A i \in 1 .. Len(stack) :
        /\ FrameOK(stack[i], PossibleTypes(program), program.code[stack[i].entry])
        /\ program.declared[stack[i].entry] = Nothing

Linked ==
    \A i \in 1 .. Len(stack) - 1 :
        AtCall(stack[i], program.code[stack[i].entry], stack[i + 1].entry)

(* An entry calls, directly or not, one that calls itself. *)
Loops(paths, e) == \E x \in Entries : <<x, x>> \in paths /\ (x = e \/ <<e, x>> \in paths)

(* Only recursion leaves a call without a type. *)
GaveUp(frame, paths, b) ==
    /\ frame.recursive => Loops(paths, frame.entry)
    /\ frame.value = Null => Calls(PartAt(frame, b)) /\ Loops(paths, PartAt(frame, b)[2])

RecursionOK ==
    ~program.repl =>
        /\ stack # <<>> => stack[1].entry = asked
        /\ \A i, j \in 1 .. Len(stack) :
              i < j => <<stack[i].entry, stack[j].entry>> \in CallPaths(program)
        /\ \A i \in 1 .. Len(stack) :
              GaveUp(stack[i], CallPaths(program), program.code[stack[i].entry])
        /\ error = "recursion" => asked \in Entries /\ Loops(CallPaths(program), asked)

(***************************************************************************)
(* The types that entries can return.                                      *)
(***************************************************************************)
LEMMA FallsMonotone ==
    ASSUME NEW below, NEW above, below \subseteq above, NEW x, Falls(x, below)
    PROVE  Falls(x, above)
  BY DEF Falls, Returning

LEMMA PassedMonotone ==
    ASSUME NEW below, NEW above, below \subseteq above, NEW b
    PROVE  Passed(b, below) \subseteq Passed(b, above)
  BY FallsMonotone DEF Passed

(* A part is come to when the statements before its own are passed. *)
LEMMA PartsReachedMember ==
    ASSUME NEW b, NEW passed, NEW x
    PROVE  x \in PartsReached(b, passed) <=>
              \E i \in DOMAIN b : x \in Range(b[i].parts) /\ \A j \in 1 .. i - 1 : b[j] \in passed
  BY DEF PartsReached

LEMMA ReachedMonotone ==
    ASSUME NEW below, NEW above, below \subseteq above, NEW b
    PROVE  Reached(b, below) \subseteq Reached(b, above)
  <1> SUFFICES ASSUME NEW x \in Reached(b, below) PROVE x \in Reached(b, above)
    OBVIOUS
  <1>1. PICK i \in DOMAIN b : x \in Range(b[i].parts) /\ \A j \in 1 .. i - 1 : b[j] \in Passed(b, below)
    BY PartsReachedMember DEF Reached
  <1>2. \A j \in 1 .. i - 1 : b[j] \in Passed(b, above)
    BY <1>1, PassedMonotone
  <1> QED
    BY <1>1, <1>2, PartsReachedMember DEF Reached

LEMMA OneMoreCallMonotone ==
    ASSUME NEW p, NEW below, NEW above, below \subseteq above
    PROVE  WithOneMoreCall(p, below) \subseteq WithOneMoreCall(p, above)
  <1>1. ASSUME NEW b, NEW t, CanReturn(b, t, below)
        PROVE  CanReturn(b, t, above)
    BY <1>1, ReachedMonotone, PassedMonotone DEF CanReturn
  <1>2. ASSUME NEW b, OnlyThrows(b, below)
        PROVE  OnlyThrows(b, above)
    BY <1>2, ReachedMonotone DEF OnlyThrows
  <1> QED
    BY <1>1, <1>2 DEF WithOneMoreCall

LEMMA FinitelyManyTypes == IsFiniteSet(Entries \X Returns)
  <1>1. IsFiniteSet(Returns)
    BY FiniteAssumption, FS_AddElement DEF Returns
  <1> QED
    BY <1>1, FiniteAssumption, FS_Product

LEMMA OneMoreCallType ==
    ASSUME NEW p, NEW below
    PROVE  WithOneMoreCall(p, below) \in SUBSET (Entries \X Returns)
  BY DEF WithOneMoreCall

(* TypesWithin is defined by recursion over the depth of calls. *)
LEMMA TypesWithinEquations ==
    ASSUME NEW p
    PROVE  /\ TypesWithin(p, 0) = {}
           /\ \A n \in Nat : TypesWithin(p, n + 1) = WithOneMoreCall(p, TypesWithin(p, n))
  <1> DEFINE S == SUBSET (Entries \X Returns)
             step == [n \in Nat |-> [X \in S |-> WithOneMoreCall(p, X)]]
             Within(w) == w = [k \in Nat |-> IF k = 0 THEN {} ELSE WithOneMoreCall(p, w[k - 1])]
             within == CHOOSE w : Within(w)
  <1>1. {} \in S /\ step \in [Nat -> [S -> S]]
    <2>1. \A X \in S : WithOneMoreCall(p, X) \in S
      BY OneMoreCallType
    <2> QED
      BY <2>1
  <1>2. PICK w \in [Nat -> S] : w[0] = {} /\ \A n \in Nat : w[n + 1] = step[n + 1][w[n]]
    <2> DEFINE Recursion(U) == \A a \in U : \A next \in [Nat -> [U -> U]] :
                 \E f \in [Nat -> U] : f[0] = a /\ \A n \in Nat : f[n + 1] = next[n + 1][f[n]]
    <2>1. \A U : Recursion(U)
      BY PrimitiveRecursion
    <2> HIDE DEF Recursion
    <2>2. Recursion(S)
      BY <2>1
    <2> USE DEF Recursion
    <2> HIDE DEF step, S
    <2>3. \E w \in [Nat -> S] : w[0] = {} /\ \A n \in Nat : w[n + 1] = step[n + 1][w[n]]
      BY <1>1, <2>2
    <2> QED
      BY <2>3
  <1>3. ASSUME NEW n \in Nat PROVE w[n] = IF n = 0 THEN {} ELSE WithOneMoreCall(p, w[n - 1])
    <2>1. n # 0 => n - 1 \in Nat /\ n - 1 + 1 = n /\ w[n - 1] \in S
      BY <1>2
    <2>2. n # 0 => w[n] = step[n][w[n - 1]]
      BY <1>2, <2>1
    <2>3. n # 0 => step[n][w[n - 1]] = WithOneMoreCall(p, w[n - 1])
      BY <2>1
    <2> QED
      BY <1>2, <2>2, <2>3
  <1>4. w = [n \in Nat |-> IF n = 0 THEN {} ELSE WithOneMoreCall(p, w[n - 1])]
    BY <1>2, <1>3
  <1>5. Within(within)
    BY <1>4, Zenon
  <1>6. ASSUME NEW n \in Nat PROVE TypesWithin(p, n) = within[n]
    BY DEF TypesWithin
  <1>7. within[0] = {}
    BY <1>5
  <1>8. ASSUME NEW n \in Nat PROVE within[n + 1] = WithOneMoreCall(p, within[n])
    <2>1. n + 1 \in Nat /\ n + 1 # 0 /\ n + 1 - 1 = n
      OBVIOUS
    <2> HIDE DEF within
    <2>2. \A k \in Nat : within[k] = IF k = 0 THEN {} ELSE WithOneMoreCall(p, within[k - 1])
      BY <1>5
    <2>3. within[n + 1] = WithOneMoreCall(p, within[n + 1 - 1])
      BY <2>1, <2>2
    <2> QED
      BY <2>1, <2>3
  <1> HIDE DEF within
  <1>9. ASSUME NEW n \in Nat PROVE TypesWithin(p, n + 1) = WithOneMoreCall(p, TypesWithin(p, n))
    <2>1. n + 1 \in Nat
      OBVIOUS
    <2>2. TypesWithin(p, n + 1) = within[n + 1] /\ TypesWithin(p, n) = within[n]
      BY <1>6, <2>1
    <2> QED
      BY <1>8, <2>2
  <1> QED
    BY <1>6, <1>7, <1>9

(* One more call adds nothing: every chain of calls that gives a type is counted. *)
LEMMA PossibleTypesClosed ==
    ASSUME NEW p
    PROVE  WithOneMoreCall(p, PossibleTypes(p)) = PossibleTypes(p)
  <1> DEFINE S == Entries \X Returns
             within == [n \in Nat |-> TypesWithin(p, n)]
  <1>1. within[0] = {} /\ \A n \in Nat : within[n + 1] = WithOneMoreCall(p, within[n])
    BY TypesWithinEquations
  <1>2. ASSUME NEW n \in Nat PROVE TypesWithin(p, n) \in SUBSET S
    <2>1. CASE n = 0
      BY <2>1, TypesWithinEquations
    <2>2. CASE n # 0
      <3>1. n - 1 \in Nat /\ n - 1 + 1 = n
        BY <2>2
      <3>2. TypesWithin(p, n) = WithOneMoreCall(p, TypesWithin(p, n - 1))
        BY <3>1, TypesWithinEquations
      <3> QED
        BY <3>2, OneMoreCallType
    <2> QED
      BY <2>1, <2>2
  <1>3. within \in [Nat -> SUBSET S]
    BY <1>2
  <1>4. \A n \in Nat : within[n + 1] = within[n] => within[n + 1 + 1] = within[n + 1]
    BY <1>1
  <1>5. \A n \in Nat : within[n] \subseteq within[n + 1]
    <2> DEFINE T == {n \in Nat : within[n] \subseteq within[n + 1]}
    <2> HIDE DEF within
    <2>1. 0 \in T
      BY <1>1
    <2>2. ASSUME NEW n \in Nat, n \in T PROVE n + 1 \in T
      <3>1. WithOneMoreCall(p, within[n]) \subseteq WithOneMoreCall(p, within[n + 1])
        BY <2>2, OneMoreCallMonotone
      <3>2. n + 1 \in Nat /\ within[n + 1] = WithOneMoreCall(p, within[n])
            /\ within[n + 1 + 1] = WithOneMoreCall(p, within[n + 1])
        BY <1>1
      <3>3. within[n + 1] \subseteq within[n + 1 + 1]
        BY <3>1, <3>2
      <3> QED
        BY <3>2, <3>3
    <2> HIDE DEF T
    <2>3. \A n \in Nat : n \in T
      BY <2>1, <2>2, Induction
    <2> QED
      BY <2>3 DEF T
  <1>6. IsFiniteSet(S)
    BY FinitelyManyTypes
  <1>7. Cardinality(S) \in Nat
    BY <1>6, FS_CardinalityType
  <1> HIDE DEF within, S
  <1>8. within[Cardinality(S) + 1] = within[Cardinality(S)]
    BY <1>3, <1>4, <1>5, <1>6, ChainStops
  <1>9. within[Cardinality(S)] = PossibleTypes(p)
    BY <1>7 DEF PossibleTypes, within, S
  <1> QED
    BY <1>1, <1>7, <1>8, <1>9

LEMMA CallPathsFacts ==
    ASSUME NEW p
    PROVE  /\ \A x \in Entries : \A y \in CalledBy(p, x) : <<x, y>> \in CallPaths(p)
           /\ \A x, y, z \in Entries :
                 <<x, y>> \in CallPaths(p) /\ <<y, z>> \in CallPaths(p) => <<x, z>> \in CallPaths(p)
  <1> DEFINE Closed(C) == \A e \in C : CalledBy(p, e) \subseteq C
  <1>1. ASSUME NEW x \in Entries, NEW y \in Entries
        PROVE  <<x, y>> \in CallPaths(p) <=>
                  \A C \in SUBSET Entries : CalledBy(p, x) \subseteq C /\ Closed(C) => y \in C
    BY DEF CallPaths
  <1>2. ASSUME NEW x \in Entries, NEW y \in CalledBy(p, x) PROVE <<x, y>> \in CallPaths(p)
    <2>1. y \in Entries
      BY DEF CalledBy
    <2> QED
      BY <1>1, <2>1
  <1>3. ASSUME NEW x \in Entries, NEW y \in Entries, NEW z \in Entries,
               <<x, y>> \in CallPaths(p), <<y, z>> \in CallPaths(p)
        PROVE  <<x, z>> \in CallPaths(p)
    <2> SUFFICES ASSUME NEW C \in SUBSET Entries, CalledBy(p, x) \subseteq C, Closed(C)
                 PROVE  z \in C
      BY <1>1
    <2>1. y \in C
      BY <1>1, <1>3
    <2>2. CalledBy(p, y) \subseteq C
      BY <2>1
    <2> QED
      BY <1>1, <1>3, <2>2
  <1> QED
    BY <1>2, <1>3

(***************************************************************************)
(* A statement that has been analyzed.                                     *)
(***************************************************************************)
(* The result of a statement whose last part has result r. *)
Whole(frame, s, r) ==
    IF s.kind = "if" THEN Combine(frame.first, r)
    ELSE IF s.kind = "while" THEN "FALLTHROUGH" ELSE r

(* What the result of statement s of body b means. *)
StatementOutcome(frame, below, b, s, r) ==
    /\ AllFound(frame, s)
    /\ r = "FALLTHROUGH" => s \in Passed(b, below)
    /\ r # "FALLTHROUGH" => s \notin Passed(b, {})
    /\ r = "RECURSIVE" => frame.recursive
    /\ r = "TERMINATED" /\ frame.type = Nothing /\ ~frame.recursive =>
          s.kind # "while" /\ \A k \in DOMAIN s.parts : s.parts[k][1] = "throw"

LEMMA PlainOutcome ==
    ASSUME NEW frame, NEW below, NEW b, NEW s \in Range(b), IsStatement(s), s.kind # "if",
           NEW r \in Results, Outcome(frame, below, s.parts[1], r)
    PROVE  StatementOutcome(frame, below, b, s, Whole(frame, s, r))
  <1>1. DOMAIN s.parts = {1}
    BY DEF IsStatement
  <1>2. Range(s.parts) = {s.parts[1]}
    BY <1>1 DEF Range
  <1>3. CASE s.kind = "while"
    <2>1. Whole(frame, s, r) = "FALLTHROUGH" /\ s \in Passed(b, below)
      BY <1>3 DEF Whole, Passed
    <2> QED
      BY <1>1, <2>1 DEF StatementOutcome, Outcome, AllFound
  <1>4. CASE s.kind # "while"
    <2>1. Whole(frame, s, r) = r
      BY <1>4 DEF Whole
    <2>2. \A P : s \in Passed(b, P) <=> Falls(s.parts[1], P)
      BY <1>2, <1>4 DEF Passed
    <2> QED
      BY <1>1, <1>4, <2>1, <2>2 DEF StatementOutcome, Outcome, AllFound
  <1> QED
    BY <1>3, <1>4

LEMMA IfOutcome ==
    ASSUME NEW frame \in Frames, NEW below, NEW b, NEW s \in Range(b), IsStatement(s), s.kind = "if",
           NEW r \in Results, Outcome(frame, below, s.parts[1], frame.first),
           Outcome(frame, below, s.parts[2], r)
    PROVE  StatementOutcome(frame, below, b, s, Whole(frame, s, r))
  <1> DEFINE q == frame.first
             whole == Combine(q, r)
             x == s.parts[1]
             y == s.parts[2]
  <1>1. DOMAIN s.parts = {1, 2}
    BY DEF IsStatement
  <1>2. Range(s.parts) = {x, y}
    BY <1>1 DEF Range
  <1>3. q \in Results
    BY DEF Frames
  <1>4. Whole(frame, s, r) = whole
    BY DEF Whole
  <1>5. \A P : s \in Passed(b, P) <=> Falls(x, P) \/ Falls(y, P)
    BY <1>2 DEF Passed
  <1>6. /\ whole = "FALLTHROUGH" <=> q = "FALLTHROUGH" \/ r = "FALLTHROUGH"
        /\ whole = "RECURSIVE" => q = "RECURSIVE"
        /\ whole = "TERMINATED" => q \in {"TERMINATED", "RECURSIVE"} /\ r \in {"TERMINATED", "RECURSIVE"}
    BY <1>3 DEF Combine, Results
  <1> HIDE DEF whole
  <1>7. AllFound(frame, s)
    BY <1>1 DEF AllFound, Outcome
  <1>8. /\ whole = "FALLTHROUGH" => s \in Passed(b, below)
        /\ whole # "FALLTHROUGH" => s \notin Passed(b, {})
        /\ whole = "RECURSIVE" => frame.recursive
    BY <1>5, <1>6 DEF Outcome
  <1>9. ASSUME whole = "TERMINATED", frame.type = Nothing, ~frame.recursive
        PROVE  s.kind # "while" /\ \A k \in DOMAIN s.parts : s.parts[k][1] = "throw"
    <2>1. q = "TERMINATED" /\ r = "TERMINATED"
      BY <1>6, <1>9 DEF Outcome
    <2> QED
      BY <1>1, <1>9, <2>1 DEF Outcome
  <1> QED
    BY <1>4, <1>7, <1>8, <1>9 DEF StatementOutcome

(***************************************************************************)
(* A body under analysis, from its start to its end.                       *)
(***************************************************************************)
LEMMA NothingIsNoResult == "void" \in Returns /\ Nothing \notin Returns /\ Null \notin Returns
  BY AnalyzerAssumption DEF Returns

LEMMA BodyBegun ==
    ASSUME NEW e, NEW below, NEW b
    PROVE  FrameOK(Body(e), below, b)
  BY NothingIsNoResult DEF FrameOK, Behind, Halfway, Ended, Valued, Body

(* Only a type and a mark for recursion that are new distinguish two frames. *)
LEMMA FrameTyped ==
    ASSUME NEW old \in Frames, NEW new \in Frames, NEW below, NEW b, FrameOK(old, below, b),
           old.result = Nothing, new.result = Nothing, new.entry = old.entry, new.at = old.at,
           new.part = old.part, new.first = old.first, new.value = old.value,
           old.type # Nothing => new.type # Nothing,
           new.type # Nothing => <<new.entry, new.type>> \in below,
           old.recursive => new.recursive
    PROVE  FrameOK(new, below, b)
  <1>1. ASSUME NEW x, Found(old, x)
        PROVE  Found(new, x)
    BY <1>1 DEF Found
  <1>2. Behind(new, below, b)
    BY <1>1 DEF FrameOK, Behind, AllFound
  <1>3. Halfway(new, below, b)
    BY <1>1 DEF FrameOK, Halfway, Outcome
  <1>4. Valued(new, below, b)
    BY DEF FrameOK, Valued, PartAt
  <1> QED
    BY <1>2, <1>3, <1>4 DEF FrameOK

(* The code of an entry, as a sequence of statements. *)
LEMMA CodeFacts ==
    ASSUME Typed, NEW e \in Entries
    PROVE  /\ DOMAIN program.code[e] = 1 .. Len(program.code[e])
           /\ Range(program.code[e]) = {program.code[e][i] : i \in 1 .. Len(program.code[e])}
           /\ Len(program.code[e]) \in Nat \ {0}
           /\ \A i \in 1 .. Len(program.code[e]) : IsStatement(program.code[e][i])
  <1>1. ProgramType(program)
    BY AnalyzerAssumption DEF Typed
  <1>2. program.code[e] \in Seq(Range(program.code[e]))
    BY <1>1 DEF ProgramType
  <1> QED
    BY <1>2, ProgramFacts DEF Range

(* The call that the frame is at gets its value. *)
LEMMA FrameValued ==
    ASSUME NEW frame \in Frames, NEW below, NEW b, FrameOK(frame, below, b), frame.result = Nothing,
           Calls(PartAt(frame, b)), NEW v \in Returns \cup {Null},
           v \in Returns => <<PartAt(frame, b)[2], v>> \in below
    PROVE  /\ FrameOK([frame EXCEPT !.value = v], below, b)
           /\ [frame EXCEPT !.value = v].entry = frame.entry
  <1> DEFINE new == [frame EXCEPT !.value = v]
  <1>1. /\ new.entry = frame.entry /\ new.at = frame.at /\ new.part = frame.part
        /\ new.first = frame.first /\ new.result = frame.result /\ new.type = frame.type
        /\ new.recursive = frame.recursive /\ new.value = v
    BY FrameFields
  <1> HIDE DEF new
  <1>2. ASSUME NEW x PROVE Found(new, x) <=> Found(frame, x)
    BY <1>1 DEF Found
  <1>3. Behind(new, below, b) /\ Halfway(new, below, b)
    BY <1>1, <1>2 DEF FrameOK, Behind, Halfway, AllFound, Outcome
  <1>4. Valued(new, below, b)
    BY <1>1 DEF Valued, PartAt
  <1>5. FrameOK(new, below, b)
    BY <1>1, <1>3, <1>4 DEF FrameOK
  <1> QED
    BY <1>1, <1>5 DEF new

LEMMA Advanced ==
    ASSUME Inv, stack # <<>>, NEW frame \in Frames, NEW r \in Results,
           frame.entry = Top.entry, frame.at = Top.at, frame.part = Top.part, frame.result = Nothing,
           NEW below, FrameOK(frame, below, program.code[frame.entry]), Outcome(frame, below, Part, r)
    PROVE  FrameOK(Advance(frame, r), below, program.code[frame.entry])
  <1> DEFINE b == program.code[frame.entry]
             s == b[frame.at]
             second == [frame EXCEPT !.part = 2, !.first = r, !.value = Nothing]
             whole == Whole(frame, s, r)
             ended == [frame EXCEPT !.result = whole]
             n == frame.at + 1
             onwards == [frame EXCEPT !.at = n, !.part = 1, !.value = Nothing]
  <1>1. /\ Top \in Frames /\ AtPart(Top) /\ Typed
        /\ Statement = program.code[Top.entry][Top.at] /\ IsStatement(Statement)
    BY TopFacts DEF Inv
  <1>2. /\ frame.at \in 1 .. Len(b) /\ Len(b) \in Nat \ {0}
        /\ Statement = s /\ Part = s.parts[frame.part] /\ IsStatement(s)
        /\ frame.part \in DOMAIN s.parts
    BY <1>1, FrameFields, ProgramFacts DEF AtPart, Part
  <1>3. s \in Range(b)
    <2>1. frame.entry \in Entries
      BY FrameFields
    <2>2. Range(b) = {b[i] : i \in 1 .. Len(b)}
      BY <1>1, <2>1, CodeFacts
    <2> HIDE DEF b
    <2> QED
      BY <1>2, <2>2
  <1>4. \/ Advance(frame, r) = second /\ s.kind = "if" /\ frame.part = 1
        \/ Advance(frame, r) = ended /\ ~(s.kind = "if" /\ frame.part = 1)
           /\ (whole # "FALLTHROUGH" \/ frame.at = Len(b))
        \/ Advance(frame, r) = onwards /\ ~(s.kind = "if" /\ frame.part = 1) /\ whole = "FALLTHROUGH"
    BY <1>2 DEF Advance, NextStatement, Whole
  <1>5. ~(s.kind = "if" /\ frame.part = 1) => StatementOutcome(frame, below, b, s, whole)
    <2>1. CASE s.kind # "if"
      <3> HIDE DEF b, s
      <3>1. DOMAIN s.parts = {1}
        BY <1>2, <2>1 DEF IsStatement
      <3>2. frame.part = 1
        BY <1>2, <3>1
      <3> QED
        BY <1>2, <1>3, <2>1, <3>2, PlainOutcome
    <2>2. CASE s.kind = "if" /\ frame.part = 2
      <3>1. Outcome(frame, below, s.parts[1], frame.first)
        BY <2>2 DEF FrameOK, Halfway
      <3> HIDE DEF b, s
      <3> QED
        BY <1>2, <1>3, <2>2, <3>1, IfOutcome
    <2> QED
      BY <2>1, <2>2, FrameFields
  <1> HIDE DEF whole
  <1>6. Nothing \notin Returns
    BY NothingIsNoResult
  <1>7. DOMAIN frame = {"entry", "at", "part", "first", "value", "result", "type", "recursive"}
        /\ frame.at \in Nat \ {0}
    BY FrameFields
  <1> HIDE DEF b, s
  <1>8. FrameOK(frame, below, b)
    BY DEF b
  <1>9. CASE Advance(frame, r) = second /\ s.kind = "if" /\ frame.part = 1
    <2>1. /\ second.entry = frame.entry /\ second.at = frame.at /\ second.part = 2 /\ second.first = r
          /\ second.value = Nothing /\ second.result = Nothing /\ second.type = frame.type
          /\ second.recursive = frame.recursive
      BY <1>7
    <2> HIDE DEF second
    <2>2. ASSUME NEW x PROVE Found(second, x) <=> Found(frame, x)
      BY <2>1 DEF Found
    <2>3. Behind(second, below, b)
      BY <1>8, <2>1, <2>2 DEF FrameOK, Behind, AllFound
    <2>4. Outcome(second, below, b[second.at].parts[1], r)
      BY <1>2, <1>9, <2>1, <2>2 DEF Outcome, s
    <2>5. FrameOK(second, below, b)
      BY <1>6, <1>8, <2>1, <2>3, <2>4 DEF FrameOK, Halfway, Valued
    <2> QED
      BY <1>9, <2>5 DEF b
  <1>10. CASE Advance(frame, r) = ended /\ ~(s.kind = "if" /\ frame.part = 1)
              /\ (whole # "FALLTHROUGH" \/ frame.at = Len(b))
    <2>1. /\ ended.entry = frame.entry /\ ended.at = frame.at /\ ended.part = frame.part
          /\ ended.value = frame.value /\ ended.result = whole /\ ended.type = frame.type
          /\ ended.recursive = frame.recursive
      BY <1>7
    <2> HIDE DEF ended
    <2>2. ASSUME NEW x PROVE Found(ended, x) <=> Found(frame, x)
      BY <2>1 DEF Found
    <2>3. Behind(ended, below, b)
      BY <1>8, <2>1, <2>2 DEF FrameOK, Behind, AllFound
    <2>4. Ended(ended, below, b)
      BY <1>5, <1>10, <2>1, <2>2 DEF StatementOutcome, Ended, AllFound, s
    <2>5. Valued(ended, below, b)
      BY <1>8, <2>1 DEF FrameOK, Valued, PartAt
    <2>6. ended.first = frame.first
      BY <1>7 DEF ended
    <2>7. Halfway(ended, below, b)
      BY <1>8, <2>1, <2>2, <2>6 DEF FrameOK, Halfway, Outcome
    <2>8. FrameOK(ended, below, b)
      BY <1>8, <2>1, <2>3, <2>4, <2>5, <2>7 DEF FrameOK
    <2> QED
      BY <1>10, <2>8 DEF b
  <1>11. CASE Advance(frame, r) = onwards /\ ~(s.kind = "if" /\ frame.part = 1) /\ whole = "FALLTHROUGH"
    <2>1. /\ onwards.entry = frame.entry /\ onwards.at = frame.at + 1 /\ onwards.part = 1
          /\ onwards.value = Nothing /\ onwards.result = Nothing /\ onwards.type = frame.type
          /\ onwards.recursive = frame.recursive
      BY <1>7
    <2> HIDE DEF onwards
    <2>2. ASSUME NEW x PROVE Found(onwards, x) <=> Found(frame, x)
      BY <2>1 DEF Found
    <2>3. s \in Passed(b, below) /\ AllFound(frame, s)
      BY <1>5, <1>11 DEF StatementOutcome
    <2>4. ASSUME NEW j \in 1 .. onwards.at - 1
          PROVE  b[j] \in Passed(b, below) /\ AllFound(onwards, b[j])
      <3>1. b[j] \in Passed(b, below) /\ AllFound(frame, b[j])
        <4>1. CASE j = frame.at
          BY <2>3, <4>1 DEF s
        <4>2. CASE j # frame.at
          <5>1. j \in 1 .. frame.at - 1
            BY <1>7, <2>1, <4>2
          <5> QED
            BY <1>8, <5>1 DEF FrameOK, Behind
        <4> QED
          BY <4>1, <4>2
      <3> QED
        BY <2>2, <3>1 DEF AllFound
    <2>5. FrameOK(onwards, below, b)
      BY <1>6, <1>8, <2>1, <2>4 DEF FrameOK, Behind, Halfway, Valued
    <2> QED
      BY <1>11, <2>5 DEF b
  <1> QED
    BY <1>4, <1>9, <1>10, <1>11

(* A type that the code of an entry supports is one it can return. *)
LEMMA PossibleByCode ==
    ASSUME NEW p, NEW e \in Entries, NEW t \in Returns, p.declared[e] = Nothing,
           \/ CanReturn(p.code[e], t, PossibleTypes(p))
           \/ t = "void" /\ OnlyThrows(p.code[e], PossibleTypes(p))
    PROVE  <<e, t>> \in PossibleTypes(p)
  <1>1. <<e, t>> \in WithOneMoreCall(p, PossibleTypes(p))
    BY DEF WithOneMoreCall
  <1> QED
    BY <1>1, PossibleTypesClosed

LEMMA PossibleByDeclaration ==
    ASSUME NEW p, NEW e \in Entries, p.declared[e] \in Returns
    PROVE  <<e, p.declared[e]>> \in PossibleTypes(p)
  <1>1. p.declared[e] # Nothing
    BY NothingIsNoResult
  <1>2. <<e, p.declared[e]>> \in WithOneMoreCall(p, PossibleTypes(p))
    BY <1>1 DEF WithOneMoreCall
  <1> QED
    BY <1>2, PossibleTypesClosed

(* The parts of the statement that a body has come to are reached. *)
LEMMA HereReached ==
    ASSUME Typed, NEW frame \in Frames, AtPart(frame), NEW below,
           FrameOK(frame, below, program.code[frame.entry])
    PROVE  \A k \in DOMAIN program.code[frame.entry][frame.at].parts :
              program.code[frame.entry][frame.at].parts[k] \in Reached(program.code[frame.entry], below)
  <1> DEFINE b == program.code[frame.entry]
             s == b[frame.at]
  <1>1. frame.at \in DOMAIN b /\ frame.at \in Nat
    BY CodeFacts, FrameFields DEF AtPart
  <1>2. \A j \in 1 .. frame.at - 1 : b[j] \in Passed(b, below)
    BY DEF FrameOK, Behind
  <1>3. ASSUME NEW k \in DOMAIN s.parts PROVE s.parts[k] \in Reached(b, below)
    <2>1. s.parts[k] \in Range(s.parts)
      BY DEF Range
    <2> HIDE DEF b
    <2> QED
      BY <1>1, <1>2, <2>1, PartsReachedMember DEF Reached
  <1> QED
    BY <1>3

(* A return statement that has its value in hand. *)
LEMMA ReturnPossible ==
    ASSUME Inv, FramesOK, Evaluated, Part[1] = "return", Value # Null
    PROVE  Value \in Returns /\ <<Top.entry, Value>> \in PossibleTypes(program)
  <1> DEFINE b == program.code[Top.entry]
             W == PossibleTypes(program)
  <1>1. stack # <<>> /\ Value # Nothing
    BY DEF Evaluated, Running
  <1>2. Value \in Returns
    BY <1>1, ValueType
  <1>3. /\ Top \in Frames /\ AtPart(Top) /\ Typed /\ Part \in Parts
        /\ Part = b[Top.at].parts[Top.part] /\ Top.part \in DOMAIN b[Top.at].parts
        /\ FrameOK(Top, W, b) /\ program.declared[Top.entry] = Nothing
    BY <1>1, TopFacts DEF Inv, FramesOK, Part, AtPart
  <1>4. Part \in Reached(b, W)
    BY <1>3, HereReached
  <1>5. Part[2] = Value \/ <<Part[2], Value>> \in W
    BY <1>2, <1>3 DEF Value, FrameOK, Valued, PartAt
  <1>6. CanReturn(b, Value, W)
    BY <1>4, <1>5 DEF CanReturn
  <1>7. <<Top.entry, Value>> \in W
    BY <1>2, <1>3, <1>6, FrameFields, PossibleByCode
  <1> QED
    BY <1>2, <1>7

(***************************************************************************)
(* A body at its end.                                                      *)
(***************************************************************************)
LEMMA EndPossible ==
    ASSUME Typed, NEW frame \in Frames, AtPart(frame),
           FrameOK(frame, PossibleTypes(program), program.code[frame.entry]),
           program.declared[frame.entry] = Nothing,
           frame.result # Nothing, ~Untyped(frame), ~BaseCaseMissing(frame)
    PROVE  <<frame.entry, Inferred(frame)>> \in PossibleTypes(program)
  <1> DEFINE b == program.code[frame.entry]
             s == b[frame.at]
             W == PossibleTypes(program)
  <1>1. frame.entry \in Entries /\ "void" \in Returns /\ frame.result \in Results
    BY FrameFields, NothingIsNoResult
  <1>2. CASE frame.type # Nothing
    BY <1>2 DEF FrameOK, Inferred
  <1>3. CASE frame.type = Nothing
    <2>1. Inferred(frame) = "void"
      BY <1>3 DEF Inferred
    <2>2. /\ DOMAIN b = 1 .. Len(b) /\ Range(b) = {b[i] : i \in 1 .. Len(b)}
          /\ frame.at \in 1 .. Len(b) /\ Len(b) \in Nat
          /\ \A i \in 1 .. Len(b) : IsStatement(b[i])
      BY <1>1, CodeFacts DEF AtPart
    <2>3. Behind(frame, W, b) /\ Ended(frame, W, b)
      BY DEF FrameOK
    <2> HIDE DEF b, W
    <2>4. frame.result = "FALLTHROUGH" \/ (frame.result = "TERMINATED" /\ ~frame.recursive)
      BY <1>1, <1>3 DEF Results, Untyped, BaseCaseMissing
    <2>5. CASE frame.result = "FALLTHROUGH"
      <3>1. \A i \in 1 .. Len(b) : b[i] \in Passed(b, W)
        BY <2>2, <2>3, <2>5 DEF Behind, Ended
      <3>2. CanReturn(b, "void", W)
        BY <2>2, <3>1 DEF CanReturn
      <3> QED
        BY <1>1, <2>1, <3>2, PossibleByCode DEF b, W
    <2>6. CASE frame.result = "TERMINATED" /\ ~frame.recursive
      <3>1. s.kind # "while" /\ \A k \in DOMAIN s.parts : s.parts[k][1] = "throw"
        BY <1>3, <2>3, <2>6 DEF Ended
      <3>2. 1 \in DOMAIN s.parts /\ s.parts[1] \in Parts
        BY <2>2, StatementFacts
      <3>3. s.parts[1] = <<"throw", Nothing>>
        BY <3>1, <3>2 DEF Parts
      <3>4. <<"throw", Nothing>> \in Reached(b, W)
        BY <3>2, <3>3, HereReached DEF b, W
      \* Nothing behind the throw is come to, and nothing before it returns.
      <3>5. ASSUME NEW x \in ReachableParts(b) PROVE x[1] # "return"
        <4> DEFINE passable == {q \in Range(b) :
                q.kind = "while" \/ \E part \in Range(q.parts) : part[1] \in {"bind", "skip"}}
        <4>1. PICK i \in DOMAIN b : x \in Range(b[i].parts) /\ \A j \in 1 .. i - 1 : b[j] \in passable
          BY PartsReachedMember DEF ReachableParts
        <4>2. s \notin passable
          <5>1. ASSUME NEW part \in Range(s.parts) PROVE part[1] = "throw"
            BY <3>1 DEF Range
          <5> QED
            BY <3>1, <5>1
        <4>3. i <= frame.at
          BY <2>2, <4>1, <4>2
        <4>4. AllFound(frame, b[i])
          <5>1. CASE i = frame.at
            BY <2>3, <5>1 DEF Ended
          <5>2. CASE i # frame.at
            <6>1. i \in 1 .. frame.at - 1
              BY <2>2, <4>1, <4>3, <5>2
            <6> QED
              BY <2>3, <6>1 DEF Behind
          <5> QED
            BY <5>1, <5>2
        <4>5. PICK k \in DOMAIN b[i].parts : x = b[i].parts[k]
          BY <4>1 DEF Range
        <4> QED
          BY <1>3, <2>6, <4>4, <4>5 DEF AllFound, Found
      <3>6. OnlyThrows(b, W)
        BY <3>4, <3>5 DEF OnlyThrows
      <3> QED
        BY <1>1, <2>1, <3>6, PossibleByCode DEF b, W
    <2> QED
      BY <2>4, <2>5, <2>6
  <1> QED
    BY <1>2, <1>3

(* A body that is left without a type has no base case of its own. *)
LEMMA UntypedHasNoBaseCase ==
    ASSUME Typed, NEW frame \in Frames, AtPart(frame), NEW below,
           FrameOK(frame, below, program.code[frame.entry]), frame.result # Nothing, Untyped(frame)
    PROVE  \A t \in Returns : ~CanReturn(program.code[frame.entry], t, {})
  <1> DEFINE b == program.code[frame.entry]
  <1>1. /\ DOMAIN b = 1 .. Len(b) /\ Range(b) = {b[i] : i \in 1 .. Len(b)}
        /\ frame.at \in 1 .. Len(b) /\ Len(b) \in Nat
        /\ \A i \in 1 .. Len(b) : IsStatement(b[i])
    BY CodeFacts, FrameFields DEF AtPart
  <1>2. frame.result = "RECURSIVE" /\ frame.type = Nothing
    BY DEF Untyped
  <1>3. Behind(frame, below, b) /\ Ended(frame, below, b)
    BY DEF FrameOK
  <1> HIDE DEF b
  <1>4. b[frame.at] \notin Passed(b, {}) /\ AllFound(frame, b[frame.at])
    BY <1>2, <1>3 DEF Ended
  <1> SUFFICES ASSUME NEW t \in Returns, CanReturn(b, t, {}) PROVE FALSE
    BY DEF b
  <1>5. PICK x \in Reached(b, {}) : x[1] = "return" /\ x[2] = t
    BY <1>1, <1>4 DEF CanReturn
  <1>6. PICK i \in DOMAIN b : x \in Range(b[i].parts) /\ \A j \in 1 .. i - 1 : b[j] \in Passed(b, {})
    BY PartsReachedMember DEF Reached
  <1>7. i <= frame.at
    BY <1>1, <1>4, <1>6
  <1>8. AllFound(frame, b[i])
    <2>1. CASE i # frame.at
      <3>1. i \in 1 .. frame.at - 1
        BY <1>1, <1>6, <1>7, <2>1
      <3> QED
        BY <1>3, <3>1 DEF Behind
    <2> QED
      BY <1>4, <2>1
  <1>9. PICK k \in DOMAIN b[i].parts : x = b[i].parts[k]
    BY <1>6 DEF Range
  <1>10. x[2] \notin Types
    BY <1>2, <1>5, <1>8, <1>9 DEF AllFound, Found
  <1>11. x[2] \in Types
    <2>1. x \in Parts
      BY <1>1, <1>6, <1>9, StatementFacts
    <2>2. x[2] \in Types \cup Entries
      BY <1>5, <2>1 DEF Parts, Expressions
    <2> QED
      BY <1>5, <2>2, AnalyzerAssumption
  <1> QED
    BY <1>10, <1>11

(***************************************************************************)
(* The stack of bodies.                                                    *)
(***************************************************************************)
LEMMA TopOK ==
    ASSUME Inv, FramesOK, stack # <<>>
    PROVE  /\ FrameOK(Top, PossibleTypes(program), program.code[Top.entry])
           /\ program.declared[Top.entry] = Nothing
  BY TopFacts DEF FramesOK

LEMMA PartIsPartAt ==
    ASSUME Inv, stack # <<>>
    PROVE  Part = PartAt(Top, program.code[Top.entry])
  BY TopFacts DEF Part, PartAt

LEMMA StructureReplaced ==
    ASSUME Inv, FramesOK, Linked, stack # <<>>, NEW frame \in Frames, frame.entry = Top.entry,
           FrameOK(frame, PossibleTypes(program), program.code[frame.entry]),
           stack' = Replace(frame), program' = program
    PROVE  FramesOK' /\ Linked'
  <1>1. stack \in Seq(Frames)
    BY DEF Inv, Typed
  <1>2. Top = stack[Len(stack)] /\ Len(stack) \in Nat \ {0}
    BY TopFacts
  <1>3. /\ Len(stack') = Len(stack) /\ stack'[Len(stack)] = frame
        /\ \A i \in 1 .. Len(stack) - 1 : stack'[i] = stack[i]
    BY <1>1, Replaced
  <1>4. \A i \in 1 .. Len(stack') :
          /\ FrameOK(stack'[i], PossibleTypes(program), program.code[stack'[i].entry])
          /\ program.declared[stack'[i].entry] = Nothing
    BY <1>2, <1>3, TopOK DEF FramesOK
  <1>5. \A i \in 1 .. Len(stack') - 1 : AtCall(stack'[i], program.code[stack'[i].entry], stack'[i + 1].entry)
    <2>1. \A i \in 1 .. Len(stack) : stack'[i].entry = stack[i].entry
      BY <1>2, <1>3
    <2> QED
      BY <1>2, <1>3, <2>1 DEF Linked
  <1> QED
    BY <1>4, <1>5 DEF FramesOK, Linked

LEMMA StructurePushed ==
    ASSUME Inv, FramesOK, Linked, NEW e \in Entries, program.declared[e] = Nothing,
           stack # <<>> => AtCall(Top, program.code[Top.entry], e),
           Begin(e, stack), program' = program
    PROVE  FramesOK' /\ Linked'
  <1>1. stack \in Seq(Frames) /\ Typed /\ Len(stack) \in Nat
    BY DEF Inv, Typed
  <1>2. Body(e) \in Frames /\ Body(e).entry = e
    BY <1>1, BodyOK
  <1> HIDE DEF Body
  <1>3. /\ Len(stack') = Len(stack) + 1 /\ stack'[Len(stack) + 1] = Body(e)
        /\ \A i \in 1 .. Len(stack) : stack'[i] = stack[i]
    BY <1>1, <1>2, Pushed DEF Begin
  <1>4. \A i \in 1 .. Len(stack') :
          /\ FrameOK(stack'[i], PossibleTypes(program), program.code[stack'[i].entry])
          /\ program.declared[stack'[i].entry] = Nothing
    BY <1>1, <1>2, <1>3, BodyBegun DEF FramesOK
  <1>5. ASSUME NEW i \in 1 .. Len(stack') - 1
        PROVE  AtCall(stack'[i], program.code[stack'[i].entry], stack'[i + 1].entry)
    <2>1. CASE i = Len(stack)
      <3>1. stack # <<>> /\ Top = stack[i]
        BY <1>1, <1>3, <2>1, TopFacts
      <3> QED
        BY <1>1, <1>2, <1>3, <2>1, <3>1
    <2>2. CASE i # Len(stack)
      <3>1. i \in 1 .. Len(stack) - 1 /\ i \in 1 .. Len(stack) /\ i + 1 \in 1 .. Len(stack)
        BY <1>1, <1>3, <2>2
      <3> QED
        BY <1>3, <3>1 DEF Linked
    <2> QED
      BY <2>1, <2>2
  <1> QED
    BY <1>4, <1>5 DEF FramesOK, Linked

LEMMA StructureDelivered ==
    ASSUME Inv, FramesOK, Linked, stack # <<>>, NEW v \in Returns \cup {Null}, Deliver(v),
           v \in Returns => <<Top.entry, v>> \in PossibleTypes(program), program' = program
    PROVE  FramesOK' /\ Linked'
  <1> DEFINE n == Len(stack) - 1
             old == stack[n]
             new == [stack[n] EXCEPT !.value = v]
             W == PossibleTypes(program)
             b == program.code[old.entry]
  <1>1. stack \in Seq(Frames)
    BY DEF Inv, Typed
  <1>2. Top = stack[Len(stack)]
    BY TopFacts
  <1>3. /\ Len(stack) \in Nat \ {0} /\ Len(stack') = n
        /\ \A i \in 1 .. n - 1 : stack'[i] = stack[i]
        /\ n > 0 => stack'[n] = new
    BY <1>1, Delivered
  <1>4. ASSUME n > 0
        PROVE  /\ FrameOK(new, W, program.code[new.entry]) /\ program.declared[new.entry] = Nothing
               /\ new.entry = old.entry
    <2>1. n \in 1 .. Len(stack) /\ n \in 1 .. Len(stack) - 1 /\ n + 1 = Len(stack)
      BY <1>3, <1>4
    <2>2. old \in Frames
      BY <1>1, <2>1
    <2>3. FrameOK(old, W, b) /\ program.declared[old.entry] = Nothing
      BY <2>1 DEF FramesOK
    <2>4. AtCall(old, b, Top.entry)
      BY <1>2, <2>1 DEF Linked
    <2> HIDE DEF W, b, old
    <2>5. FrameOK([old EXCEPT !.value = v], W, b) /\ [old EXCEPT !.value = v].entry = old.entry
      BY <2>2, <2>3, <2>4, FrameValued DEF AtCall, W
    <2> QED
      BY <2>3, <2>5 DEF b, old
  <1> HIDE DEF new, W
  <1>5. ASSUME NEW i \in 1 .. n
        PROVE  /\ FrameOK(stack'[i], W, program.code[stack'[i].entry])
               /\ program.declared[stack'[i].entry] = Nothing
               /\ stack'[i].entry = stack[i].entry
    <2>1. CASE i = n
      BY <1>3, <1>4, <2>1
    <2>2. CASE i # n
      <3>1. i \in 1 .. n - 1 /\ i \in 1 .. Len(stack)
        BY <1>3, <2>2
      <3> QED
        BY <1>3, <3>1 DEF FramesOK, W
    <2> QED
      BY <2>1, <2>2
  <1>6. ASSUME NEW i \in 1 .. n - 1
        PROVE  AtCall(stack'[i], program.code[stack'[i].entry], stack'[i + 1].entry)
    <2>1. i \in 1 .. Len(stack) - 1 /\ i + 1 \in 1 .. n
      BY <1>3
    <2>2. stack'[i + 1].entry = stack[i + 1].entry /\ stack'[i] = stack[i]
      BY <1>3, <1>5, <2>1
    <2> QED
      BY <2>1, <2>2 DEF Linked
  <1> HIDE DEF n
  <1>7. FramesOK'
    BY <1>3, <1>5 DEF FramesOK, W
  <1>8. Linked'
    BY <1>3, <1>6 DEF Linked
  <1> QED
    BY <1>7, <1>8

LEMMA StructureRaised ==
    ASSUME Inv, FramesOK, Linked, NEW kind, Raise(kind)
    PROVE  FramesOK' /\ Linked'
  <1>1. program' = program /\ (stack' = stack \/ stack' = <<>>)
    BY DEF Raise
  <1> QED
    BY <1>1 DEF FramesOK, Linked

(***************************************************************************)
(* Types come from base cases.                                             *)
(***************************************************************************)
Based == FramesOK /\ Linked /\ TypeFromBaseCase /\ MismatchIsReal

LEMMA TypesKept ==
    ASSUME TypeFromBaseCase, UNCHANGED <<program, analyzed, returnType>>
    PROVE  TypeFromBaseCase'
  BY DEF TypeFromBaseCase

LEMMA TypeAdded ==
    ASSUME Typed, TypeFromBaseCase, program' = program, NEW e \in Entries, NEW t \in Returns,
           <<e, t>> \in PossibleTypes(program),
           returnType' = [returnType EXCEPT ![e] = t], analyzed' = [analyzed EXCEPT ![e] = TRUE]
    PROVE  TypeFromBaseCase'
  <1>1. \A x \in Entries : analyzed'[x] => <<x, returnType'[x]>> \in PossibleTypes(program)
    BY DEF Typed, TypeFromBaseCase
  <1> QED
    BY <1>1 DEF TypeFromBaseCase

LEMMA DeclaredType ==
    ASSUME Typed, NEW e \in Entries, program.declared[e] # Nothing
    PROVE  program.declared[e] \in Returns /\ <<e, program.declared[e]>> \in PossibleTypes(program)
  <1>1. program.declared[e] \in Returns
    BY ProgramFacts
  <1> QED
    BY <1>1, PossibleByDeclaration

LEMMA MismatchKept ==
    ASSUME MismatchIsReal, program' = program, error' = error \/ error' \in {"none", "recursion", "interface"}
    PROVE  MismatchIsReal'
  BY DEF MismatchIsReal

LEMMA MarkDeclaredBased ==
    ASSUME Typed, TypeFromBaseCase, program' = program, NEW e \in Entries, Declared(e), MarkDeclared(e)
    PROVE  TypeFromBaseCase'
  <1>1. program.declared[e] \in Returns /\ <<e, program.declared[e]>> \in PossibleTypes(program)
    BY DeclaredType DEF Declared
  <1> QED
    BY <1>1, TypeAdded DEF MarkDeclared

LEMMA RequestBased ==
    ASSUME Inv, Based, NEW e \in Entries, Request(e)
    PROVE  Based'
  <1>1. stack = <<>> /\ program' = program /\ Typed
        /\ FramesOK /\ Linked /\ TypeFromBaseCase /\ MismatchIsReal
    BY DEF Request, Inv, Based
  <1>2. CASE ~Known(e) /\ ~Declared(e)
    <2>1. Begin(e, stack) /\ error' = "none" /\ UNCHANGED <<analyzed, returnType>>
      BY <1>1, <1>2 DEF Request
    <2>2. program.declared[e] = Nothing
      BY <1>2 DEF Declared
    <2>3. FramesOK' /\ Linked'
      BY <1>1, <2>1, <2>2, StructurePushed
    <2> QED
      BY <1>1, <2>1, <2>3, TypesKept, MismatchKept DEF Based
  <1>3. CASE Known(e) \/ Declared(e)
    <2>1. /\ (Declared(e) /\ MarkDeclared(e)) \/ UNCHANGED <<analyzed, returnType>>
          /\ error' \in {"none", "recursion"} /\ UNCHANGED stack
      BY <1>3 DEF Request
    <2>2. FramesOK' /\ Linked'
      BY <1>1, <2>1 DEF FramesOK, Linked
    <2>3. TypeFromBaseCase'
      BY <1>1, <2>1, TypesKept, MarkDeclaredBased
    <2> QED
      BY <1>1, <2>1, <2>2, <2>3, MismatchKept DEF Based
  <1> QED
    BY <1>2, <1>3

LEMMA CallKnownBased ==
    ASSUME Inv, Based, CallKnown, Inv'
    PROVE  Based'
  <1> DEFINE e == Part[2]
             v == IF Declared(e) /\ Alias(e) THEN program.declared[e] ELSE ResultOf(e)
             frame == [Top EXCEPT !.value = v]
             W == PossibleTypes(program)
             b == program.code[Top.entry]
  <1>1. /\ stack # <<>> /\ Calls(Part) /\ Top.result = Nothing
        /\ (Declared(e) /\ MarkDeclared(e)) \/ UNCHANGED <<analyzed, returnType>>
        /\ stack' = Replace(frame)
        /\ UNCHANGED <<program, analyzing, asked, requests, error>>
    BY DEF CallKnown, Running
  <1>2. e \in Entries /\ Typed /\ FramesOK /\ Linked /\ TypeFromBaseCase /\ MismatchIsReal
    BY <1>1 DEF Calls, Inv, Based
  <1>3. TypeFromBaseCase'
    BY <1>1, <1>2, TypesKept, MarkDeclaredBased
  <1>4. v \in Returns \cup {Null} /\ (v \in Returns => <<e, v>> \in W)
    <2>1. CASE Declared(e) /\ Alias(e)
      <3>1. program.declared[e] \in Returns /\ <<e, program.declared[e]>> \in W
        BY <1>2, <2>1, DeclaredType DEF Declared
      <3> QED
        BY <2>1, <3>1
    <2>2. CASE ~(Declared(e) /\ Alias(e))
      <3>1. v = IF analyzed'[e] THEN returnType'[e] ELSE Null
        BY <2>2 DEF ResultOf
      <3>2. analyzed'[e] => returnType'[e] \in Returns
        BY <1>2 DEF Inv, Typed
      <3>3. analyzed'[e] => <<e, returnType'[e]>> \in W
        BY <1>1, <1>2, <1>3 DEF TypeFromBaseCase
      <3>4. Null \notin Returns
        BY NothingIsNoResult
      <3> QED
        BY <3>1, <3>2, <3>3, <3>4
    <2> QED
      BY <2>1, <2>2
  <1>5. Top \in Frames /\ FrameOK(Top, W, b) /\ Part = PartAt(Top, b)
    BY <1>1, <1>2, TopFacts, TopOK, PartIsPartAt
  <1> HIDE DEF v, W, b
  <1>6. FrameOK(frame, W, b) /\ frame.entry = Top.entry
    BY <1>1, <1>4, <1>5, FrameValued
  <1>7. frame \in Frames
    BY <1>4, <1>5, FrameUpdates
  <1> HIDE DEF frame
  <1>8. FramesOK' /\ Linked'
    BY <1>1, <1>2, <1>6, <1>7, StructureReplaced DEF W, b
  <1> QED
    BY <1>1, <1>2, <1>3, <1>8, MismatchKept DEF Based

LEMMA CallUnknownBased ==
    ASSUME Inv, Based, CallUnknown
    PROVE  Based'
  <1>1. /\ stack # <<>> /\ Top.result = Nothing /\ Top.value = Nothing
        /\ Calls(Part) /\ ~Known(Part[2]) /\ ~Declared(Part[2]) /\ Begin(Part[2], stack)
        /\ UNCHANGED <<program, analyzed, returnType>> /\ error' = error
    BY DEF CallUnknown, Running
  <1>2. Part[2] \in Entries /\ program.declared[Part[2]] = Nothing
    BY <1>1 DEF Calls, Declared
  <1>3. AtCall(Top, program.code[Top.entry], Part[2])
    BY <1>1, PartIsPartAt DEF AtCall
  <1>4. FramesOK' /\ Linked'
    BY <1>1, <1>2, <1>3, StructurePushed DEF Based
  <1> QED
    BY <1>1, <1>4, TypesKept, MismatchKept DEF Based

(* The frame in hand goes on, its part having result r. *)
LEMMA MoveOnBased ==
    ASSUME Inv, Based, stack # <<>>, NEW frame \in Frames, NEW r \in Results,
           frame.entry = Top.entry, frame.at = Top.at, frame.part = Top.part, frame.result = Nothing,
           FrameOK(frame, PossibleTypes(program), program.code[frame.entry]),
           Outcome(frame, PossibleTypes(program), Part, r),
           stack' = Replace(Advance(frame, r)),
           UNCHANGED <<program, analyzed, analyzing, returnType, asked, requests, error>>
    PROVE  Based'
  <1> DEFINE next == Advance(frame, r)
             W == PossibleTypes(program)
  <1>1. next \in Frames /\ next.entry = Top.entry
    BY AdvanceOK
  <1>2. FrameOK(next, W, program.code[frame.entry])
    BY Advanced
  <1> HIDE DEF next
  <1>3. FrameOK(next, W, program.code[next.entry])
    BY <1>1, <1>2
  <1>4. stack' = Replace(next)
    BY DEF next
  <1>5. FramesOK' /\ Linked'
    BY <1>1, <1>3, <1>4, StructureReplaced DEF Based
  <1> QED
    BY <1>5, TypesKept, MismatchKept DEF Based

LEMMA PassPartBased ==
    ASSUME Inv, Based, PassPart
    PROVE  Based'
  <1> DEFINE r == IF Part[1] = "throw" THEN "TERMINATED" ELSE "FALLTHROUGH"
             W == PossibleTypes(program)
  <1>1. /\ stack # <<>> /\ Top.result = Nothing /\ Part[1] \in {"throw", "skip"}
        /\ stack' = Replace(Advance(Top, r))
        /\ UNCHANGED <<program, analyzed, analyzing, returnType, asked, requests, error>>
    BY DEF PassPart, Running
  <1>2. r \in Results
    BY DEF Results
  <1>3. Outcome(Top, W, Part, r)
    BY <1>1 DEF Outcome, Found, Falls
  <1>4. Top \in Frames /\ FrameOK(Top, W, program.code[Top.entry])
    BY <1>1, TopFacts, TopOK DEF Based
  <1> HIDE DEF r
  <1> QED
    BY <1>1, <1>2, <1>3, <1>4, MoveOnBased

(* A frame to which a type is given, or the mark for recursion. *)
LEMMA FrameMarked ==
    ASSUME NEW frame \in Frames, frame.result = Nothing, NEW below, NEW b, FrameOK(frame, below, b)
    PROVE  /\ FrameOK([frame EXCEPT !.recursive = TRUE], below, b)
           /\ \A t \in Returns : frame.type \in {Nothing, t} /\ <<frame.entry, t>> \in below =>
                 FrameOK([frame EXCEPT !.type = t], below, b)
  <1>1. FrameOK([frame EXCEPT !.recursive = TRUE], below, b)
    <2> DEFINE new == [frame EXCEPT !.recursive = TRUE]
    <2>1. new \in Frames
      BY FrameUpdates
    <2>2. /\ new.result = Nothing /\ new.entry = frame.entry /\ new.at = frame.at
          /\ new.part = frame.part /\ new.first = frame.first /\ new.value = frame.value
          /\ new.type = frame.type /\ new.recursive
      BY FrameFields
    <2> HIDE DEF new
    <2>3. new.type # Nothing => <<new.entry, new.type>> \in below
      BY <2>2 DEF FrameOK
    <2>4. FrameOK(new, below, b)
      BY <2>1, <2>2, <2>3, FrameTyped
    <2> QED
      BY <2>4 DEF new
  <1>2. ASSUME NEW t \in Returns, frame.type \in {Nothing, t}, <<frame.entry, t>> \in below
        PROVE  FrameOK([frame EXCEPT !.type = t], below, b)
    <2> DEFINE new == [frame EXCEPT !.type = t]
    <2>1. new \in Frames
      BY FrameUpdates
    <2>2. /\ new.result = Nothing /\ new.entry = frame.entry /\ new.at = frame.at
          /\ new.part = frame.part /\ new.first = frame.first /\ new.value = frame.value
          /\ new.type = t /\ new.recursive = frame.recursive
      BY FrameFields
    <2> HIDE DEF new
    <2>3. t # Nothing
      BY NothingIsNoResult
    <2>4. FrameOK(new, below, b)
      BY <1>2, <2>1, <2>2, <2>3, FrameTyped
    <2> QED
      BY <2>4 DEF new
  <1> QED
    BY <1>1, <1>2

LEMMA GiveUpBased ==
    ASSUME Inv, Based, GiveUp
    PROVE  Based'
  <1> DEFINE frame == [Top EXCEPT !.recursive = TRUE]
             W == PossibleTypes(program)
  <1>1. /\ stack # <<>> /\ Top.result = Nothing /\ Value = Null
        /\ stack' = Replace(Advance(frame, "RECURSIVE"))
        /\ UNCHANGED <<program, analyzed, analyzing, returnType, asked, requests, error>>
    BY DEF GiveUp, Evaluated, Running
  <1>2. Top \in Frames /\ Part \in Parts /\ FrameOK(Top, W, program.code[Top.entry])
    BY <1>1, TopFacts, TopOK DEF Based
  <1>3. /\ frame \in Frames /\ frame.entry = Top.entry /\ frame.at = Top.at /\ frame.part = Top.part
        /\ frame.result = Nothing /\ frame.recursive
    BY <1>1, <1>2, FrameUpdates, FrameFields
  <1>4. FrameOK(frame, W, program.code[frame.entry])
    BY <1>1, <1>2, <1>3, FrameMarked
  <1>5. Calls(Part)
    BY <1>1, <1>2, AnalyzerAssumption DEF Value, Parts, Expressions, Returns
  <1>6. Part[2] \notin Types
    BY <1>5, AnalyzerAssumption DEF Calls, Returns
  <1> HIDE DEF frame
  <1>7. Outcome(frame, W, Part, "RECURSIVE")
    BY <1>3, <1>5, <1>6 DEF Outcome, Found, Falls, Returning, Calls
  <1>8. "RECURSIVE" \in Results
    BY DEF Results
  <1> QED
    BY <1>1, <1>3, <1>4, <1>7, <1>8, MoveOnBased

LEMMA BindValueBased ==
    ASSUME Inv, Based, BindValue
    PROVE  Based'
  <1> DEFINE W == PossibleTypes(program)
  <1>1. /\ stack # <<>> /\ Top.result = Nothing /\ Part[1] = "bind" /\ Value # Null /\ Value # Nothing
        /\ stack' = Replace(Advance(Top, "FALLTHROUGH"))
        /\ UNCHANGED <<program, analyzed, analyzing, returnType, asked, requests, error>>
    BY DEF BindValue, Evaluated, Running
  <1>2. Top \in Frames /\ Part \in Parts /\ FrameOK(Top, W, program.code[Top.entry])
        /\ Part = PartAt(Top, program.code[Top.entry])
    BY <1>1, TopFacts, TopOK, PartIsPartAt DEF Based
  <1>3. Value \in Returns
    BY <1>1, ValueType
  <1>4. Returning(Part[2], W)
    <2>1. CASE Calls(Part)
      <3>1. Top.value \in Returns
        BY <1>3, <2>1 DEF Value
      <3>2. <<Part[2], Top.value>> \in W
        BY <1>2, <3>1 DEF FrameOK, Valued
      <3> QED
        BY <3>1, <3>2 DEF Returning
    <2>2. CASE ~Calls(Part)
      <3>1. Part[2] \in Types
        BY <1>1, <1>2, <2>2 DEF Parts, Expressions, Calls
      <3> QED
        BY <3>1 DEF Returning
    <2> QED
      BY <2>1, <2>2
  <1>5. Outcome(Top, W, Part, "FALLTHROUGH")
    BY <1>1, <1>4 DEF Outcome, Found, Falls
  <1>6. "FALLTHROUGH" \in Results
    BY DEF Results
  <1> QED
    BY <1>1, <1>2, <1>5, <1>6, MoveOnBased

LEMMA ReturnValueBased ==
    ASSUME Inv, Based, ReturnValue
    PROVE  Based'
  <1> DEFINE v == Value
             frame == [Top EXCEPT !.type = v]
             W == PossibleTypes(program)
  <1>1. /\ stack # <<>> /\ Top.result = Nothing /\ Part[1] = "return" /\ Top.type \in {Nothing, v}
        /\ Evaluated /\ v # Null
        /\ stack' = Replace(Advance(frame, "TERMINATED"))
        /\ UNCHANGED <<program, analyzed, analyzing, returnType, asked, requests, error>>
    BY DEF ReturnValue, Evaluated, Running
  <1>2. v \in Returns /\ <<Top.entry, v>> \in W
    BY <1>1, ReturnPossible DEF Based
  <1>3. Top \in Frames /\ FrameOK(Top, W, program.code[Top.entry])
    BY <1>1, TopFacts, TopOK DEF Based
  <1> HIDE DEF v, W
  <1>4. /\ frame \in Frames /\ frame.entry = Top.entry /\ frame.at = Top.at /\ frame.part = Top.part
        /\ frame.result = Nothing /\ frame.type = v
    BY <1>1, <1>2, <1>3, FrameUpdates, FrameFields
  <1>5. FrameOK(frame, W, program.code[frame.entry])
    BY <1>1, <1>2, <1>3, <1>4, FrameMarked
  <1> HIDE DEF frame
  <1>6. Outcome(frame, W, Part, "TERMINATED")
    BY <1>1, <1>2, <1>4, NothingIsNoResult DEF Outcome, Found, Falls
  <1>7. "TERMINATED" \in Results
    BY DEF Results
  <1> QED
    BY <1>1, <1>4, <1>5, <1>6, <1>7, MoveOnBased DEF W

LEMMA RaiseBased ==
    ASSUME Inv, Based, NEW kind \in {"recursion", "interface"}, Raise(kind)
    PROVE  Based'
  <1>1. UNCHANGED <<program, analyzed, returnType>> /\ error' \in {"none", "recursion", "interface"}
    BY DEF Raise
  <1>2. FramesOK' /\ Linked'
    BY StructureRaised DEF Based
  <1> QED
    BY <1>1, <1>2, TypesKept, MismatchKept DEF Based

LEMMA ReturnMismatchBased ==
    ASSUME Inv, Based, ReturnMismatch
    PROVE  Based'
  <1> DEFINE W == PossibleTypes(program)
  <1>1. /\ Evaluated /\ stack # <<>> /\ Part[1] = "return" /\ Value # Null
        /\ Top.type # Nothing /\ Top.type # Value /\ Raise("mismatch")
    BY DEF ReturnMismatch, Evaluated, Running
  <1>2. <<Top.entry, Value>> \in W
    BY <1>1, ReturnPossible DEF Based
  <1>3. <<Top.entry, Top.type>> \in W
    BY <1>1, TopOK DEF Based, FrameOK
  <1>4. \E q, r \in W : q[1] = r[1] /\ q[2] # r[2]
    BY <1>1, <1>2, <1>3
  <1>5. FramesOK' /\ Linked'
    BY <1>1, StructureRaised DEF Based
  <1>6. UNCHANGED <<program, analyzed, returnType>>
    BY <1>1 DEF Raise
  <1>7. MismatchIsReal'
    BY <1>4, <1>6 DEF MismatchIsReal
  <1> QED
    BY <1>5, <1>6, <1>7, TypesKept DEF Based

LEMMA DeliverError ==
    ASSUME NEW v, Deliver(v)
    PROVE  error' = error \/ error' = "recursion"
  BY DEF Deliver

LEMMA LeaveUntypedBased ==
    ASSUME Inv, Based, LeaveUntyped
    PROVE  Based'
  <1>1. stack # <<>> /\ Deliver(Null) /\ UNCHANGED <<program, analyzed, returnType>>
    BY DEF LeaveUntyped, Finished, Running
  <1>2. FramesOK' /\ Linked'
    BY <1>1, StructureDelivered, NothingIsNoResult DEF Based
  <1> QED
    BY <1>1, <1>2, DeliverError, TypesKept, MismatchKept DEF Based

LEMMA FinishEntryBased ==
    ASSUME Inv, Based, FinishEntry
    PROVE  Based'
  <1> DEFINE t == Inferred(Top)
             W == PossibleTypes(program)
  <1>1. /\ stack # <<>> /\ Top.result # Nothing /\ ~Untyped(Top) /\ ~BaseCaseMissing(Top)
        /\ Deliver(t) /\ program' = program
        /\ \/ UNCHANGED <<analyzed, returnType>>
           \/ /\ returnType' = [returnType EXCEPT ![Top.entry] = t]
              /\ analyzed' = [analyzed EXCEPT ![Top.entry] = TRUE]
    BY DEF FinishEntry, Finished, Running
  <1>2. Top \in Frames /\ AtPart(Top) /\ Typed /\ Top.entry \in Entries
        /\ FrameOK(Top, W, program.code[Top.entry]) /\ program.declared[Top.entry] = Nothing
    BY <1>1, TopFacts, TopOK, FrameFields DEF Based, Inv
  <1>3. <<Top.entry, t>> \in W
    BY <1>1, <1>2, EndPossible
  <1>4. t \in Returns
    BY <1>2, FrameFields, NothingIsNoResult DEF Inferred
  <1> HIDE DEF t, W
  <1>5. FramesOK' /\ Linked'
    BY <1>1, <1>3, <1>4, StructureDelivered DEF Based, W
  <1>6. TypeFromBaseCase'
    <2>1. CASE UNCHANGED <<analyzed, returnType>>
      BY <1>1, <2>1, TypesKept DEF Based
    <2>2. CASE /\ returnType' = [returnType EXCEPT ![Top.entry] = t]
               /\ analyzed' = [analyzed EXCEPT ![Top.entry] = TRUE]
      BY <1>1, <1>2, <1>3, <1>4, <2>2, TypeAdded DEF Based, W
    <2> QED
      BY <1>1, <2>1, <2>2
  <1> QED
    BY <1>1, <1>5, <1>6, DeliverError, MismatchKept DEF Based

LEMMA InitBased == Init => Based
  <1> SUFFICES ASSUME Init PROVE Based
    OBVIOUS
  <1>1. stack = <<>> /\ Len(stack) = 0 /\ (\A e \in Entries : ~analyzed[e]) /\ error = "none"
    BY DEF Init
  <1> QED
    BY <1>1 DEF Based, FramesOK, Linked, TypeFromBaseCase, MismatchIsReal

LEMMA NextBased == Inv /\ Inv' /\ Based /\ [Next]_vars => Based'
  <1> SUFFICES ASSUME Inv, Inv', Based, [Next]_vars PROVE Based'
    OBVIOUS
  <1>1. CASE UNCHANGED vars
    BY <1>1 DEF vars, Based, FramesOK, Linked, TypeFromBaseCase, MismatchIsReal
  <1>2. CASE CallKnown
    BY <1>2, CallKnownBased
  <1>3. CASE CallUnknown
    BY <1>3, CallUnknownBased
  <1>4. CASE PassPart
    BY <1>4, PassPartBased
  <1>5. CASE GiveUp
    BY <1>5, GiveUpBased
  <1>6. CASE BindValue
    BY <1>6, BindValueBased
  <1>7. CASE ReturnValue
    BY <1>7, ReturnValueBased
  <1>8. CASE ReturnMismatch
    BY <1>8, ReturnMismatchBased
  <1>9. CASE LeaveUntyped
    BY <1>9, LeaveUntypedBased
  <1>10. CASE NoBaseCase
    BY <1>10, RaiseBased DEF NoBaseCase
  <1>11. CASE WrongInterface
    BY <1>11, RaiseBased DEF WrongInterface
  <1>12. CASE FinishEntry
    BY <1>12, FinishEntryBased
  <1>13. ASSUME NEW e \in Entries, Request(e) PROVE Based'
    BY <1>13, RequestBased
  <1> QED
    BY <1>1, <1>2, <1>3, <1>4, <1>5, <1>6, <1>7, <1>8, <1>9, <1>10, <1>11, <1>12, <1>13 DEF Next, Step

LEMMA SpecBased == Spec => []Based
  BY SpecInv, InitBased, NextBased, PTL DEF Spec

(* Whatever was given up because of recursion, and in whatever order entries were
   asked for, an inferred type comes from a base case. *)
THEOREM AnalyzerTypeFromBaseCase == Spec => []TypeFromBaseCase
  <1>1. Based => TypeFromBaseCase
    BY DEF Based
  <1> QED
    BY <1>1, SpecBased, PTL

(***************************************************************************)
(* An entry that has a base case of its own gets a type.                   *)
(***************************************************************************)
(* The expansion of an alias is not marked. *)
AliasesUnmarked == \A e \in Entries : Alias(e) => ~analyzing[e]

LEMMA MarksKept ==
    ASSUME Inv, AliasesUnmarked, [Next]_vars
    PROVE  AliasesUnmarked'
  <1>1. analyzing \in [Entries -> BOOLEAN]
    BY DEF Inv, Typed
  <1>2. program' = program
    BY DEF Next, Step, vars, Request, CallKnown, CallUnknown, PassPart, GiveUp, BindValue, ReturnValue,
           ReturnMismatch, LeaveUntyped, NoBaseCase, WrongInterface, FinishEntry, Raise
  <1>3. \/ analyzing' = analyzing
        \/ \E e \in Entries : analyzing' = [analyzing EXCEPT ![e] = ~Alias(e)]
        \/ \E e \in Entries : analyzing' = [analyzing EXCEPT ![e] = FALSE]
    <2>1. CASE UNCHANGED vars
      BY <2>1 DEF vars
    <2>2. ASSUME NEW e \in Entries, Request(e)
          PROVE  analyzing' = analyzing \/ analyzing' = [analyzing EXCEPT ![e] = ~Alias(e)]
      BY <2>2 DEF Request, Begin
    <2>3. CASE CallUnknown
      BY <2>3 DEF CallUnknown, Begin, Calls
    <2>4. CASE LeaveUntyped \/ FinishEntry
      <3>1. stack # <<>> /\ analyzing' = [analyzing EXCEPT ![Top.entry] = FALSE]
        BY <2>4 DEF LeaveUntyped, FinishEntry, Finished, Running, ClearAnalyzing
      <3> QED
        BY <3>1, TopFacts, FrameFields
    <2>5. CASE CallKnown \/ PassPart \/ GiveUp \/ BindValue \/ ReturnValue
      BY <2>5 DEF CallKnown, PassPart, GiveUp, BindValue, ReturnValue
    <2>6. CASE ReturnMismatch \/ NoBaseCase \/ WrongInterface
      BY <2>6 DEF ReturnMismatch, NoBaseCase, WrongInterface, Raise
    <2> QED
      BY <2>1, <2>2, <2>3, <2>4, <2>5, <2>6 DEF Next, Step
  <1>4. ASSUME NEW x \in Entries, Alias(x) PROVE ~analyzing'[x]
    BY <1>1, <1>3, <1>4 DEF AliasesUnmarked
  <1> QED
    BY <1>2, <1>4 DEF AliasesUnmarked, Alias

LEMMA StepOwnBaseCase ==
    ASSUME Inv, Based, AliasesUnmarked, [Next]_vars, NEW e \in Entries,
           analyzing[e], ~analyzing'[e], ~analyzed'[e]
    PROVE  \A t \in Returns : ~CanReturn(program.code[e], t, {})
  <1>1. analyzing \in [Entries -> BOOLEAN] /\ analyzed \in [Entries -> BOOLEAN] /\ ~Alias(e)
    BY DEF Inv, Typed, AliasesUnmarked
  <1>2. CASE LeaveUntyped
    <2>1. /\ stack # <<>> /\ Top.result # Nothing /\ Untyped(Top)
          /\ analyzing' = [analyzing EXCEPT ![Top.entry] = FALSE]
      BY <1>2 DEF LeaveUntyped, Finished, Running, ClearAnalyzing
    <2>2. e = Top.entry
      BY <1>1, <2>1
    <2>3. Top \in Frames /\ AtPart(Top) /\ Typed
          /\ FrameOK(Top, PossibleTypes(program), program.code[Top.entry])
      BY <2>1, TopFacts, TopOK DEF Inv, Based
    <2>4. \A t \in Returns : ~CanReturn(program.code[Top.entry], t, {})
      BY <2>1, <2>3, UntypedHasNoBaseCase
    <2> QED
      BY <2>2, <2>4
  <1>3. CASE FinishEntry
    <2>1. /\ stack # <<>> /\ analyzing' = [analyzing EXCEPT ![Top.entry] = FALSE]
          /\ Alias(Top.entry) \/ analyzed' = [analyzed EXCEPT ![Top.entry] = TRUE]
      BY <1>3 DEF FinishEntry, Finished, Running, ClearAnalyzing
    <2> QED
      BY <1>1, <2>1
  <1>4. CASE CallUnknown
    BY <1>1, <1>4 DEF CallUnknown, Begin
  <1>5. ASSUME NEW x \in Entries, Request(x) PROVE FALSE
    BY <1>1, <1>5 DEF Request, Begin
  <1>6. CASE CallKnown \/ PassPart \/ GiveUp \/ BindValue \/ ReturnValue
    BY <1>6 DEF CallKnown, PassPart, GiveUp, BindValue, ReturnValue
  <1>7. CASE ReturnMismatch \/ NoBaseCase \/ WrongInterface
    BY <1>7 DEF ReturnMismatch, NoBaseCase, WrongInterface, Raise
  <1>8. CASE UNCHANGED vars
    BY <1>8 DEF vars
  <1> QED
    BY <1>2, <1>3, <1>4, <1>5, <1>6, <1>7, <1>8 DEF Next, Step

(* An entry with a return statement or an end of its body that is reached without
   a call is never left without a type. *)
THEOREM AnalyzerOwnBaseCaseSuffices == Spec => OwnBaseCaseSuffices
  <1>1. Init => AliasesUnmarked
    BY DEF Init, AliasesUnmarked
  <1>2. Inv /\ AliasesUnmarked /\ [Next]_vars => AliasesUnmarked'
    BY MarksKept
  <1>3. Inv /\ Based /\ AliasesUnmarked /\ [Next]_vars =>
          [\A e \in Entries :
              analyzing[e] /\ ~analyzing'[e] /\ ~analyzed'[e] =>
                  \A t \in Returns : ~CanReturn(program.code[e], t, {})]_vars
    BY StepOwnBaseCase
  <1> QED
    BY <1>1, <1>2, <1>3, SpecInv, SpecBased, PTL DEF Spec, OwnBaseCaseSuffices

(***************************************************************************)
(* Recursion is blamed for nothing else.                                   *)
(***************************************************************************)
LEMMA LoopsAbove ==
    ASSUME NEW p, NEW x \in Entries, NEW y \in Entries, x = y \/ <<x, y>> \in CallPaths(p),
           Loops(CallPaths(p), y)
    PROVE  Loops(CallPaths(p), x)
  BY CallPathsFacts DEF Loops

(* The call that a frame is at is one its entry makes. *)
LEMMA CallIsPath ==
    ASSUME Typed, NEW frame \in Frames, AtPart(frame), Calls(PartAt(frame, program.code[frame.entry]))
    PROVE  <<frame.entry, PartAt(frame, program.code[frame.entry])[2]>> \in CallPaths(program)
  <1> DEFINE e == frame.entry
             b == program.code[e]
             x == PartAt(frame, b)
  <1>1. e \in Entries /\ frame.at \in 1 .. Len(b) /\ Range(b) = {b[i] : i \in 1 .. Len(b)}
    BY FrameFields, CodeFacts DEF AtPart
  <1>2. b[frame.at] \in Range(b) /\ x \in Range(b[frame.at].parts)
    BY <1>1 DEF AtPart, PartAt, Range
  <1>3. x[2] \in CalledBy(program, e)
    BY <1>2 DEF CalledBy, Calls
  <1> QED
    BY <1>1, <1>3, CallPathsFacts

LEMMA TopCallIsPath ==
    ASSUME Inv, stack # <<>>, Calls(Part)
    PROVE  Part[2] \in Entries /\ Top.entry \in Entries /\ <<Top.entry, Part[2]>> \in CallPaths(program)
  <1>1. Top \in Frames /\ AtPart(Top) /\ Typed /\ Part = PartAt(Top, program.code[Top.entry])
    BY TopFacts, PartIsPartAt DEF Inv
  <1> QED
    BY <1>1, CallIsPath, FrameFields DEF Calls

LEMMA StackEntries ==
    ASSUME Inv
    PROVE  \A i \in 1 .. Len(stack) : stack[i] \in Frames /\ stack[i].entry \in Entries
  <1>1. stack \in Seq(Frames)
    BY DEF Inv, Typed
  <1>2. \A i \in 1 .. Len(stack) : stack[i] \in Frames
    BY <1>1
  <1> QED
    BY <1>2, FrameFields

(* The bodies under analysis have been called by one another, the first for the
   entry asked for; those that were given up belong to entries that do recurse. *)
Blamed ==
    /\ stack # <<>> => stack[1].entry = asked
    /\ \A i, j \in 1 .. Len(stack) :
          i < j => <<stack[i].entry, stack[j].entry>> \in CallPaths(program)
    /\ \A i \in 1 .. Len(stack) :
          GaveUp(stack[i], CallPaths(program), program.code[stack[i].entry])
    /\ error = "recursion" => asked \in Entries /\ Loops(CallPaths(program), asked)

BlamedUnlessREPL == ~program.repl => Blamed

(* What leads to the innermost body leads to an entry that it loops with. *)
LEMMA AskedLoops ==
    ASSUME Inv, Blamed, stack # <<>>, Loops(CallPaths(program), Top.entry)
    PROVE  asked \in Entries /\ Loops(CallPaths(program), asked)
  <1>1. Top = stack[Len(stack)] /\ Len(stack) \in Nat \ {0}
    BY TopFacts
  <1>2. asked = stack[1].entry /\ asked \in Entries /\ Top.entry \in Entries
    BY <1>1, StackEntries DEF Blamed
  <1>3. asked = Top.entry \/ <<asked, Top.entry>> \in CallPaths(program)
    BY <1>1, <1>2 DEF Blamed
  <1> QED
    BY <1>2, <1>3, LoopsAbove

LEMMA BlamedReplaced ==
    ASSUME Inv, Blamed, stack # <<>>, NEW frame \in Frames, frame.entry = Top.entry,
           GaveUp(frame, CallPaths(program), program.code[frame.entry]),
           stack' = Replace(frame), UNCHANGED <<program, asked, error>>
    PROVE  Blamed'
  <1>1. stack \in Seq(Frames)
    BY DEF Inv, Typed
  <1>2. Top = stack[Len(stack)] /\ Len(stack) \in Nat \ {0}
    BY TopFacts
  <1>3. /\ Len(stack') = Len(stack) /\ stack'[Len(stack)] = frame
        /\ \A i \in 1 .. Len(stack) - 1 : stack'[i] = stack[i]
    BY <1>1, Replaced
  <1>4. \A i \in 1 .. Len(stack) : stack'[i].entry = stack[i].entry
    BY <1>2, <1>3
  <1>5. \A i \in 1 .. Len(stack') : GaveUp(stack'[i], CallPaths(program), program.code[stack'[i].entry])
    BY <1>2, <1>3 DEF Blamed
  <1>6. stack'[1].entry = asked
    BY <1>2, <1>4 DEF Blamed
  <1>7. \A i, j \in 1 .. Len(stack') :
          i < j => <<stack'[i].entry, stack'[j].entry>> \in CallPaths(program)
    BY <1>3, <1>4 DEF Blamed
  <1> QED
    BY <1>5, <1>6, <1>7 DEF Blamed

LEMMA BlamedPushed ==
    ASSUME Inv, Blamed, stack # <<>>, NEW e \in Entries, <<Top.entry, e>> \in CallPaths(program),
           Begin(e, stack), UNCHANGED <<program, asked, error>>
    PROVE  Blamed'
  <1>1. stack \in Seq(Frames) /\ Typed /\ Len(stack) \in Nat
    BY DEF Inv, Typed
  <1>2. Body(e) \in Frames /\ Body(e).entry = e
    BY <1>1, BodyOK
  <1>3. GaveUp(Body(e), CallPaths(program), program.code[e])
    BY AnalyzerAssumption DEF GaveUp, Body
  <1> HIDE DEF Body
  <1>4. /\ Len(stack') = Len(stack) + 1 /\ stack'[Len(stack) + 1] = Body(e)
        /\ \A i \in 1 .. Len(stack) : stack'[i] = stack[i]
    BY <1>1, <1>2, Pushed DEF Begin
  <1>5. Top = stack[Len(stack)] /\ Len(stack) \in Nat \ {0} /\ Top.entry \in Entries
    BY TopFacts, FrameFields
  <1>6. \A i \in 1 .. Len(stack') : GaveUp(stack'[i], CallPaths(program), program.code[stack'[i].entry])
    BY <1>1, <1>2, <1>3, <1>4 DEF Blamed
  <1>7. ASSUME NEW i \in 1 .. Len(stack'), NEW j \in 1 .. Len(stack'), i < j
        PROVE  <<stack'[i].entry, stack'[j].entry>> \in CallPaths(program)
    <2>1. i \in 1 .. Len(stack) /\ stack'[i] = stack[i] /\ stack[i].entry \in Entries
      BY <1>4, <1>5, <1>7, StackEntries
    <2>2. CASE j \in 1 .. Len(stack)
      BY <1>4, <1>7, <2>1, <2>2 DEF Blamed
    <2>3. CASE j = Len(stack) + 1
      <3>1. stack'[j].entry = e
        BY <1>2, <1>4, <2>3
      <3>2. stack[i].entry = Top.entry \/ <<stack[i].entry, Top.entry>> \in CallPaths(program)
        BY <1>5, <2>1 DEF Blamed
      <3> QED
        BY <1>5, <2>1, <3>1, <3>2, CallPathsFacts
    <2> QED
      BY <1>4, <1>5, <2>2, <2>3
  <1>8. stack'[1].entry = asked
    BY <1>4, <1>5 DEF Blamed
  <1> QED
    BY <1>6, <1>7, <1>8 DEF Blamed

LEMMA BlamedDelivered ==
    ASSUME Inv, Linked, Blamed, stack # <<>>, NEW v \in Returns \cup {Null}, Deliver(v),
           v = Null => Loops(CallPaths(program), Top.entry), UNCHANGED <<program, asked>>
    PROVE  Blamed'
  <1> DEFINE n == Len(stack) - 1
             old == stack[n]
             new == [stack[n] EXCEPT !.value = v]
             CP == CallPaths(program)
             b == program.code[old.entry]
  <1>1. stack \in Seq(Frames)
    BY DEF Inv, Typed
  <1>2. Top = stack[Len(stack)]
    BY TopFacts
  <1>3. /\ Len(stack) \in Nat \ {0} /\ Len(stack') = n
        /\ \A i \in 1 .. n - 1 : stack'[i] = stack[i]
        /\ n > 0 => stack'[n] = new
    BY <1>1, Delivered
  <1>4. ASSUME n > 0
        PROVE  new.entry = old.entry /\ GaveUp(new, CP, program.code[new.entry])
    <2>1. n \in 1 .. Len(stack) /\ n \in 1 .. Len(stack) - 1 /\ n + 1 = Len(stack)
      BY <1>3, <1>4
    <2>2. old \in Frames
      BY <1>1, <2>1
    <2>3. GaveUp(old, CP, b)
      BY <2>1 DEF Blamed
    <2>4. AtCall(old, b, Top.entry)
      BY <1>2, <2>1 DEF Linked
    <2>5. /\ new.entry = old.entry /\ new.at = old.at /\ new.part = old.part
          /\ new.recursive = old.recursive /\ new.value = v
      BY <2>2, FrameFields
    <2> HIDE DEF new, old, b
    <2>6. GaveUp(new, CP, b)
      BY <2>3, <2>4, <2>5 DEF GaveUp, AtCall, PartAt
    <2> QED
      BY <2>5, <2>6 DEF b
  <1> HIDE DEF new, CP
  <1>5. ASSUME NEW i \in 1 .. n
        PROVE  GaveUp(stack'[i], CP, program.code[stack'[i].entry]) /\ stack'[i].entry = stack[i].entry
    <2>1. CASE i = n
      BY <1>3, <1>4, <2>1
    <2>2. CASE i # n
      <3>1. i \in 1 .. n - 1 /\ i \in 1 .. Len(stack)
        BY <1>3, <2>2
      <3> QED
        BY <1>3, <3>1 DEF Blamed, CP
    <2> QED
      BY <2>1, <2>2
  <1>6. \A i, j \in 1 .. n : i < j => <<stack'[i].entry, stack'[j].entry>> \in CP
    <2>1. \A i \in 1 .. n : i \in 1 .. Len(stack)
      BY <1>3
    <2> HIDE DEF n
    <2> QED
      BY <1>5, <2>1 DEF Blamed, CP
  <1>7. stack' # <<>> => stack'[1].entry = asked
    BY <1>1, <1>3, <1>5, Delivered DEF Blamed
  <1>8. error' = "recursion" => asked \in Entries /\ Loops(CP, asked)
    <2>1. error' = error \/ v = Null
      BY DEF Deliver
    <2>2. CASE error' = error
      BY <2>2 DEF Blamed, CP
    <2>3. CASE v = Null
      BY <2>3, AskedLoops DEF CP
    <2> QED
      BY <2>1, <2>2, <2>3
  <1> HIDE DEF n
  <1> QED
    BY <1>3, <1>5, <1>6, <1>7, <1>8 DEF Blamed, CP

(* Going on to another part keeps the mark, and drops the value with the part. *)
LEMMA AdvanceGaveUp ==
    ASSUME NEW frame \in Frames, NEW r, NEW paths, NEW b, GaveUp(frame, paths, b)
    PROVE  GaveUp(Advance(frame, r), paths, b)
  <1> DEFINE second == [frame EXCEPT !.part = 2, !.first = r, !.value = Nothing]
             whole == IF Statement.kind = "if" THEN Combine(frame.first, r)
                      ELSE IF Statement.kind = "while" THEN "FALLTHROUGH" ELSE r
             ended == [frame EXCEPT !.result = whole]
             n == frame.at + 1
             onwards == [frame EXCEPT !.at = n, !.part = 1, !.value = Nothing]
  <1>1. Advance(frame, r) \in {second, ended, onwards}
    BY DEF Advance, NextStatement
  <1>2. DOMAIN frame = {"entry", "at", "part", "first", "value", "result", "type", "recursive"}
    BY FrameFields
  <1> HIDE DEF whole, n
  <1>3. Nothing # Null
    BY AnalyzerAssumption
  <1>4. GaveUp(second, paths, b)
    <2>1. second.recursive = frame.recursive /\ second.entry = frame.entry /\ second.value = Nothing
      BY <1>2
    <2> HIDE DEF second
    <2> QED
      BY <1>3, <2>1 DEF GaveUp
  <1>5. GaveUp(ended, paths, b)
    <2>1. /\ ended.recursive = frame.recursive /\ ended.entry = frame.entry /\ ended.value = frame.value
          /\ ended.at = frame.at /\ ended.part = frame.part
      BY <1>2
    <2> HIDE DEF ended
    <2> QED
      BY <2>1 DEF GaveUp, PartAt
  <1>6. GaveUp(onwards, paths, b)
    <2>1. onwards.recursive = frame.recursive /\ onwards.entry = frame.entry /\ onwards.value = Nothing
      BY <1>2
    <2> HIDE DEF onwards
    <2> QED
      BY <1>3, <2>1 DEF GaveUp
  <1> HIDE DEF second, ended, onwards
  <1> QED
    BY <1>1, <1>4, <1>5, <1>6

LEMMA TopGaveUp ==
    ASSUME Inv, Blamed, stack # <<>>
    PROVE  GaveUp(Top, CallPaths(program), program.code[Top.entry])
  BY TopFacts DEF Blamed

LEMMA BlamedMoveOn ==
    ASSUME Inv, Blamed, stack # <<>>, NEW frame \in Frames, NEW r \in Results,
           frame.entry = Top.entry, frame.at = Top.at, frame.part = Top.part,
           GaveUp(frame, CallPaths(program), program.code[frame.entry]),
           stack' = Replace(Advance(frame, r)), UNCHANGED <<program, asked, error>>
    PROVE  Blamed'
  <1> DEFINE next == Advance(frame, r)
  <1>1. next \in Frames /\ next.entry = Top.entry
    BY AdvanceOK
  <1>2. GaveUp(next, CallPaths(program), program.code[frame.entry])
    BY AdvanceGaveUp
  <1>3. stack' = Replace(next)
    OBVIOUS
  <1> HIDE DEF next
  <1> QED
    BY <1>1, <1>2, <1>3, BlamedReplaced

LEMMA RequestBlamed ==
    ASSUME Inv, Blamed, NEW e \in Entries, Request(e), ~program.repl
    PROVE  Blamed'
  <1>1. stack = <<>> /\ asked' = e /\ program' = program /\ Typed /\ Len(stack) = 0
    BY DEF Request, Inv
  <1>2. CASE ~Known(e) /\ ~Declared(e)
    <2>1. stack' = Append(<<>>, Body(e)) /\ error' = "none"
      BY <1>2 DEF Request, Begin
    <2>2. Body(e) \in Frames /\ Body(e).entry = e
      BY <1>1, BodyOK
    <2>3. GaveUp(Body(e), CallPaths(program), program.code[e])
      BY AnalyzerAssumption DEF GaveUp, Body
    <2> HIDE DEF Body
    <2>4. Len(stack') = 1 /\ stack'[1] = Body(e)
      BY <2>1
    <2>5. \A i, j \in 1 .. Len(stack') : ~(i < j)
      BY <2>4
    <2> QED
      BY <1>1, <2>1, <2>2, <2>3, <2>4, <2>5 DEF Blamed
  \* An entry that is neither begun nor declared is analyzed: nothing is in progress.
  <1>3. CASE Known(e) \/ Declared(e)
    <2>1. stack' = stack /\ error' = (IF analyzed'[e] THEN "none" ELSE "recursion")
          /\ ((Declared(e) /\ MarkDeclared(e)) \/ (~Declared(e) /\ analyzed' = analyzed))
      BY <1>3 DEF Request
    <2>2. analyzed'[e]
      <3>1. CASE Declared(e)
        BY <2>1, <3>1 DEF MarkDeclared, Inv, Typed
      <3>2. CASE ~Declared(e)
        <4>1. ~analyzing[e]
          BY <1>1 DEF Inv, EachBodyOnce
        <4> QED
          BY <1>3, <2>1, <3>2, <4>1 DEF Known
      <3> QED
        BY <3>1, <3>2
    <2> QED
      BY <1>1, <2>1, <2>2 DEF Blamed
  <1> QED
    BY <1>2, <1>3

LEMMA CallKnownBlamed ==
    ASSUME Inv, Blamed, CallKnown, Inv', ~program.repl
    PROVE  Blamed'
  <1> DEFINE e == Part[2]
             v == IF Declared(e) /\ Alias(e) THEN program.declared[e] ELSE ResultOf(e)
             frame == [Top EXCEPT !.value = v]
             CP == CallPaths(program)
             b == program.code[Top.entry]
  <1>1. /\ stack # <<>> /\ Calls(Part) /\ stack' = Replace(frame)
        /\ Known(e) \/ Declared(e)
        /\ IF Declared(e) /\ ~Alias(e) THEN MarkDeclared(e) ELSE UNCHANGED <<analyzed, returnType>>
        /\ UNCHANGED <<program, asked, error>>
    BY DEF CallKnown, Running
  <1>2. /\ Top \in Frames /\ AtPart(Top) /\ Typed /\ Part = PartAt(Top, b) /\ GaveUp(Top, CP, b)
        /\ Top = stack[Len(stack)] /\ Len(stack) \in Nat \ {0}
    BY <1>1, TopFacts, PartIsPartAt, TopGaveUp DEF Inv
  <1>3. e \in Entries /\ Top.entry \in Entries /\ <<Top.entry, e>> \in CP
    BY <1>1, TopCallIsPath
  <1>4. v \in Returns \cup {Null, Nothing}
    <2>1. program.declared[e] \in Returns \cup {Nothing}
      BY <1>2, <1>3, ProgramFacts
    <2>2. returnType'[e] \in Returns \cup {Nothing}
      BY <1>3 DEF Inv, Typed
    <2> QED
      BY <2>1, <2>2 DEF ResultOf
  <1>5. v = Null => Loops(CP, e)
    <2> SUFFICES ASSUME v = Null PROVE Loops(CP, e)
      OBVIOUS
    <2>1. ~(Declared(e) /\ Alias(e))
      <3>1. Declared(e) => program.declared[e] \in Returns
        BY <1>2, <1>3, DeclaredType DEF Declared
      <3> QED
        BY <3>1, NothingIsNoResult
    <2>2. ~analyzed'[e]
      <3>1. v = IF analyzed'[e] THEN returnType'[e] ELSE Null
        BY <2>1 DEF ResultOf
      <3>2. returnType'[e] \in Returns \cup {Nothing}
        BY <1>3 DEF Inv, Typed
      <3>3. Null \notin Returns \cup {Nothing}
        BY NothingIsNoResult, AnalyzerAssumption
      <3> HIDE DEF v
      <3>4. analyzed'[e] => v \in Returns \cup {Nothing}
        BY <3>1, <3>2
      <3> QED
        BY <3>3, <3>4
    <2>3. ~Declared(e)
      BY <1>1, <1>2, <1>3, <2>1, <2>2 DEF MarkDeclared, Typed
    <2>4. analyzing[e]
      BY <1>1, <2>2, <2>3 DEF Known
    <2>5. PICK i \in 1 .. Len(stack) : stack[i].entry = e
      BY <1>3, <2>4 DEF Inv, EachBodyOnce
    <2>6. e = Top.entry \/ <<e, Top.entry>> \in CP
      <3>1. CASE i = Len(stack)
        BY <1>2, <2>5, <3>1
      <3>2. CASE i # Len(stack)
        <4>1. i < Len(stack) /\ Len(stack) \in 1 .. Len(stack)
          BY <1>2, <3>2
        <4>2. <<stack[i].entry, stack[Len(stack)].entry>> \in CallPaths(program)
          BY <4>1 DEF Blamed
        <4> QED
          BY <1>2, <2>5, <4>2
      <3> QED
        BY <3>1, <3>2
    <2>7. <<e, e>> \in CP
      BY <1>3, <2>6, CallPathsFacts
    <2> QED
      BY <1>3, <2>7 DEF Loops
  <1> HIDE DEF v
  <1>6. /\ frame \in Frames /\ frame.entry = Top.entry /\ frame.at = Top.at /\ frame.part = Top.part
        /\ frame.recursive = Top.recursive /\ frame.value = v
    BY <1>2, <1>4, FrameUpdates, FrameFields
  <1> HIDE DEF frame
  <1>7. GaveUp(frame, CP, b)
    BY <1>1, <1>2, <1>5, <1>6 DEF GaveUp, PartAt
  <1> QED
    BY <1>1, <1>6, <1>7, BlamedReplaced DEF CP, b

LEMMA CallUnknownBlamed ==
    ASSUME Inv, Blamed, CallUnknown
    PROVE  Blamed'
  <1>1. /\ stack # <<>> /\ Calls(Part) /\ Begin(Part[2], stack) /\ UNCHANGED <<program, asked, error>>
    BY DEF CallUnknown, Running
  <1>2. Part[2] \in Entries /\ <<Top.entry, Part[2]>> \in CallPaths(program)
    BY <1>1, TopCallIsPath
  <1> QED
    BY <1>1, <1>2, BlamedPushed

LEMMA PassOrBindBlamed ==
    ASSUME Inv, Blamed, PassPart \/ BindValue
    PROVE  Blamed'
  <1>1. PICK r \in Results : stack # <<>> /\ stack' = Replace(Advance(Top, r)) /\ UNCHANGED <<program, asked, error>>
    BY DEF PassPart, BindValue, Evaluated, Running, Results
  <1>2. Top \in Frames /\ GaveUp(Top, CallPaths(program), program.code[Top.entry])
    BY <1>1, TopFacts, TopGaveUp
  <1> QED
    BY <1>1, <1>2, BlamedMoveOn

LEMMA GiveUpBlamed ==
    ASSUME Inv, Blamed, GiveUp
    PROVE  Blamed'
  <1> DEFINE frame == [Top EXCEPT !.recursive = TRUE]
             CP == CallPaths(program)
             b == program.code[Top.entry]
  <1>1. /\ stack # <<>> /\ Value = Null /\ stack' = Replace(Advance(frame, "RECURSIVE"))
        /\ UNCHANGED <<program, asked, error>>
    BY DEF GiveUp, Evaluated, Running
  <1>2. Top \in Frames /\ Part \in Parts /\ Part = PartAt(Top, b) /\ GaveUp(Top, CP, b)
    BY <1>1, TopFacts, PartIsPartAt, TopGaveUp
  <1>3. Calls(Part) /\ Top.value = Null
    BY <1>1, <1>2, AnalyzerAssumption DEF Value, Parts, Expressions, Returns
  <1>4. Part[2] \in Entries /\ Top.entry \in Entries /\ <<Top.entry, Part[2]>> \in CP
    BY <1>1, <1>3, TopCallIsPath
  <1>5. Loops(CP, Part[2])
    BY <1>2, <1>3 DEF GaveUp
  <1>6. Loops(CP, Top.entry)
    BY <1>4, <1>5, LoopsAbove
  <1>7. /\ frame \in Frames /\ frame.entry = Top.entry /\ frame.at = Top.at /\ frame.part = Top.part
        /\ frame.value = Top.value
    BY <1>2, FrameUpdates, FrameFields
  <1> HIDE DEF frame
  <1>8. GaveUp(frame, CP, program.code[frame.entry])
    BY <1>2, <1>6, <1>7 DEF GaveUp, PartAt
  <1>9. "RECURSIVE" \in Results
    BY DEF Results
  <1> QED
    BY <1>1, <1>7, <1>8, <1>9, BlamedMoveOn

LEMMA ReturnValueBlamed ==
    ASSUME Inv, Blamed, ReturnValue
    PROVE  Blamed'
  <1> DEFINE v == Value
             frame == [Top EXCEPT !.type = v]
             CP == CallPaths(program)
             b == program.code[Top.entry]
  <1>1. /\ stack # <<>> /\ v # Null /\ v # Nothing /\ Part[1] = "return"
        /\ stack' = Replace(Advance(frame, "TERMINATED"))
        /\ UNCHANGED <<program, asked, error>>
    BY DEF ReturnValue, Evaluated, Running
  <1>2. Top \in Frames /\ GaveUp(Top, CP, b) /\ v \in Returns
    BY <1>1, TopFacts, TopGaveUp, ValueType
  <1> HIDE DEF v
  <1>3. /\ frame \in Frames /\ frame.entry = Top.entry /\ frame.at = Top.at /\ frame.part = Top.part
        /\ frame.value = Top.value /\ frame.recursive = Top.recursive
    BY <1>2, FrameUpdates, FrameFields
  <1> HIDE DEF frame
  <1>4. GaveUp(frame, CP, program.code[frame.entry])
    BY <1>2, <1>3 DEF GaveUp, PartAt
  <1>5. "TERMINATED" \in Results
    BY DEF Results
  <1> QED
    BY <1>1, <1>3, <1>4, <1>5, BlamedMoveOn

(* Any error ends the compiler; that of recursion must be right. *)
LEMMA RaiseBlamed ==
    ASSUME Inv, Blamed, ~program.repl, NEW kind, Raise(kind),
           kind = "recursion" => asked \in Entries /\ Loops(CallPaths(program), asked)
    PROVE  Blamed'
  <1>1. UNCHANGED <<program, stack, asked>> /\ error' = kind
    BY DEF Raise
  <1> QED
    BY <1>1 DEF Blamed

LEMMA NoBaseCaseBlamed ==
    ASSUME Inv, Blamed, ~program.repl, NoBaseCase
    PROVE  Blamed'
  <1>1. stack # <<>> /\ Top.recursive /\ Raise("recursion")
    BY DEF NoBaseCase, Finished, Running, BaseCaseMissing
  <1>2. Loops(CallPaths(program), Top.entry)
    BY <1>1, TopGaveUp DEF GaveUp
  <1>3. asked \in Entries /\ Loops(CallPaths(program), asked)
    BY <1>1, <1>2, AskedLoops
  <1> QED
    BY <1>1, <1>3, RaiseBlamed

LEMMA LeaveUntypedBlamed ==
    ASSUME Inv, Based, Blamed, LeaveUntyped
    PROVE  Blamed'
  <1>1. stack # <<>> /\ Top.result # Nothing /\ Untyped(Top) /\ Deliver(Null)
        /\ UNCHANGED <<program, asked>>
    BY DEF LeaveUntyped, Finished, Running
  <1>2. Top.recursive
    BY <1>1, TopOK DEF Based, FrameOK, Ended, Untyped
  <1>3. Loops(CallPaths(program), Top.entry)
    BY <1>1, <1>2, TopGaveUp DEF GaveUp
  <1> QED
    BY <1>1, <1>3, BlamedDelivered DEF Based

LEMMA FinishEntryBlamed ==
    ASSUME Inv, Based, Blamed, FinishEntry
    PROVE  Blamed'
  <1> DEFINE t == Inferred(Top)
  <1>1. stack # <<>> /\ Deliver(t) /\ UNCHANGED <<program, asked>>
    BY DEF FinishEntry, Finished, Running
  <1>2. Top \in Frames
    BY <1>1, TopFacts
  <1>3. t \in Returns /\ t # Null
    BY <1>2, FrameFields, NothingIsNoResult DEF Inferred
  <1> HIDE DEF t
  <1> QED
    BY <1>1, <1>3, BlamedDelivered DEF Based

LEMMA NextBlamed == Inv /\ Inv' /\ Based /\ BlamedUnlessREPL /\ [Next]_vars => BlamedUnlessREPL'
  <1> SUFFICES ASSUME Inv, Inv', Based, BlamedUnlessREPL, [Next]_vars, ~program'.repl PROVE Blamed'
    BY DEF BlamedUnlessREPL
  <1>1. program' = program
    BY DEF Next, Step, vars, Request, CallKnown, CallUnknown, PassPart, GiveUp, BindValue, ReturnValue,
           ReturnMismatch, LeaveUntyped, NoBaseCase, WrongInterface, FinishEntry, Raise
  <1>2. ~program.repl /\ Blamed
    BY <1>1 DEF BlamedUnlessREPL
  <1>3. CASE UNCHANGED vars
    BY <1>2, <1>3 DEF vars, Blamed
  <1>4. CASE CallKnown
    BY <1>2, <1>4, CallKnownBlamed
  <1>5. CASE CallUnknown
    BY <1>2, <1>5, CallUnknownBlamed
  <1>6. CASE PassPart \/ BindValue
    BY <1>2, <1>6, PassOrBindBlamed
  <1>7. CASE GiveUp
    BY <1>2, <1>7, GiveUpBlamed
  <1>8. CASE ReturnValue
    BY <1>2, <1>8, ReturnValueBlamed
  <1>9. CASE ReturnMismatch
    BY <1>2, <1>9, RaiseBlamed DEF ReturnMismatch
  <1>10. CASE LeaveUntyped
    BY <1>2, <1>10, LeaveUntypedBlamed
  <1>11. CASE NoBaseCase
    BY <1>2, <1>11, NoBaseCaseBlamed
  <1>12. CASE WrongInterface
    BY <1>2, <1>12, RaiseBlamed DEF WrongInterface
  <1>13. CASE FinishEntry
    BY <1>2, <1>13, FinishEntryBlamed
  <1>14. ASSUME NEW e \in Entries, Request(e) PROVE Blamed'
    BY <1>2, <1>14, RequestBlamed
  <1> QED
    BY <1>3, <1>4, <1>5, <1>6, <1>7, <1>8, <1>9, <1>10, <1>11, <1>12, <1>13, <1>14 DEF Next, Step

LEMMA InitBlamed == Init => BlamedUnlessREPL
  <1> SUFFICES ASSUME Init PROVE Blamed
    BY DEF BlamedUnlessREPL
  <1>1. stack = <<>> /\ Len(stack) = 0 /\ error = "none"
    BY DEF Init
  <1> QED
    BY <1>1 DEF Blamed

(* The two errors that inference raises are told of programs that have them: types
   disagree only if some entry can return two, and recursion is blamed, outside the
   REPL, only if the entry asked for does call one that calls itself. *)
THEOREM AnalyzerErrorsAreReal == Spec => []ErrorsAreReal
  <1>1. Based => MismatchIsReal
    BY DEF Based
  <1>2. BlamedUnlessREPL => RecursionErrorIsRecursion
    BY DEF BlamedUnlessREPL, Blamed, Loops, RecursionErrorIsRecursion
  <1>3. MismatchIsReal /\ RecursionErrorIsRecursion => ErrorsAreReal
    BY DEF ErrorsAreReal
  <1> QED
    BY <1>1, <1>2, <1>3, SpecInv, SpecBased, InitBlamed, NextBlamed, PTL DEF Spec

(***************************************************************************)
(* An analysis comes to an end, where no alias expands itself.             *)
(***************************************************************************)
(* The aliases that an entry's body expands, those without declared return types, and
   those that theirs do: y is in every set that has what x expands and what its
   members expand. *)
Expands(p, e) == {x \in CalledBy(p, e) : x \in p.alias /\ p.declared[x] = Nothing}

Expansions(p) ==
    {q \in Entries \X Entries :
        \A C \in SUBSET Entries :
            Expands(p, q[1]) \subseteq C /\ (\A e \in C : Expands(p, e) \subseteq C) => q[2] \in C}

(* Nothing stops the expansion of an alias that comes to itself. *)
AliasesEnd == \A p \in Programs : \A e \in p.alias : <<e, e>> \notin Expansions(p)

(* A bound on the length of the bodies. *)
IsBound(p, b) == \A e \in Entries : Len(p.code[e]) <= b

Longest(p) == CHOOSE b \in Nat : IsBound(p, b)

(* What is left of a body: the statements to come, the second part of the present
   one, its value, and the end. *)
Rank(p, f) ==
    IF f.result # Nothing THEN 0
    ELSE 4 * (Len(p.code[f.entry]) - f.at) + 2 * (2 - f.part) + (IF f.value = Nothing THEN 1 ELSE 0) + 1

Highest == 4 * Longest(program) + 1

(* What is left of an analysis, as an odometer: it goes on, and then the bodies under
   analysis, the outermost first. A place no body has yet counts for more than any. *)
LeftAt(k) ==
    IF k = 1 THEN (IF Running THEN 1 ELSE 0)
    ELSE IF k - 1 \in 1 .. Len(stack) THEN Rank(program, stack[k - 1]) ELSE Highest

Left == [k \in Nat |-> LeftAt(k)]

(* As many digits as there can be bodies at once: no two are of the same entry with
   the same entries, other than aliases, begun before. *)
Places == Cardinality((SUBSET Entries) \X Entries) + 1

Effort == Reading(Left, Highest + 1, Places)

LEMMA ExpansionsFacts ==
    ASSUME NEW p
    PROVE  /\ \A x \in Entries : \A y \in Expands(p, x) : <<x, y>> \in Expansions(p)
           /\ \A x, y, z \in Entries :
                 <<x, y>> \in Expansions(p) /\ z \in Expands(p, y) => <<x, z>> \in Expansions(p)
  <1> DEFINE Closed(C) == \A e \in C : Expands(p, e) \subseteq C
  <1>1. ASSUME NEW x \in Entries, NEW y \in Entries
        PROVE  <<x, y>> \in Expansions(p) <=>
                  \A C \in SUBSET Entries : Expands(p, x) \subseteq C /\ Closed(C) => y \in C
    BY DEF Expansions
  <1>2. ASSUME NEW x \in Entries, NEW y \in Expands(p, x) PROVE <<x, y>> \in Expansions(p)
    <2>1. y \in Entries
      BY DEF Expands, CalledBy
    <2> QED
      BY <1>1, <2>1
  <1>3. ASSUME NEW x \in Entries, NEW y \in Entries, NEW z \in Entries,
               <<x, y>> \in Expansions(p), z \in Expands(p, y)
        PROVE  <<x, z>> \in Expansions(p)
    <2> SUFFICES ASSUME NEW C \in SUBSET Entries, Expands(p, x) \subseteq C, Closed(C)
                 PROVE  z \in C
      BY <1>1
    <2>1. y \in C
      BY <1>1, <1>3
    <2> QED
      BY <1>3, <2>1
  <1> QED
    BY <1>2, <1>3

(* A body under analysis calls the one above it. *)
LEMMA CallsNext ==
    ASSUME Inv, Linked, NEW i \in 1 .. Len(stack) - 1
    PROVE  stack[i + 1].entry \in CalledBy(program, stack[i].entry)
  <1>1. i \in 1 .. Len(stack) /\ Typed
    <2>1. Len(stack) \in Nat
      BY DEF Inv, Typed
    <2> QED
      BY <2>1 DEF Inv
  <1>2. PICK f : f = stack[i]
    OBVIOUS
  <1> DEFINE b == program.code[f.entry]
             x == PartAt(f, b)
  <1>3. f \in Frames /\ AtPart(f) /\ f.entry \in Entries
    BY <1>1, <1>2, StackEntries DEF Inv, AllAtPart
  <1>4. f.at \in 1 .. Len(b) /\ Range(b) = {b[k] : k \in 1 .. Len(b)}
    BY <1>1, <1>3, CodeFacts DEF AtPart
  <1>5. b[f.at] \in Range(b) /\ x \in Range(b[f.at].parts)
    BY <1>3, <1>4 DEF AtPart, PartAt, Range
  <1>6. Calls(x) /\ x[2] = stack[i + 1].entry
    BY <1>2 DEF Linked, AtCall
  <1> QED
    BY <1>2, <1>5, <1>6 DEF CalledBy, Calls

(* Bodies below wait at their calls, and none is of an entry with declared types. *)
Waiting == Linked /\ \A i \in 1 .. Len(stack) : program.declared[stack[i].entry] = Nothing

(* Aliases on top of one another are an expansion. *)
LEMMA AliasesExpand ==
    ASSUME Inv, Waiting, NEW i \in 1 .. Len(stack)
    PROVE  \A d \in Nat : /\ d # 0 /\ i + d <= Len(stack)
                          /\ \A k \in i + 1 .. i + d : Alias(stack[k].entry)
                          => <<stack[i].entry, stack[i + d].entry>> \in Expansions(program)
  <1> DEFINE Path(d) == <<stack[i].entry, stack[i + d].entry>> \in Expansions(program)
             Above(d) == i + d <= Len(stack) /\ \A k \in i + 1 .. i + d : Alias(stack[k].entry)
             T == {d \in Nat : d # 0 /\ Above(d) => Path(d)}
  <1>1. Len(stack) \in Nat /\ \A k \in 1 .. Len(stack) : stack[k].entry \in Entries
    BY StackEntries DEF Inv, Typed
  <1>2. 0 \in T
    OBVIOUS
  <1>3. ASSUME NEW d \in Nat, d \in T, Above(d + 1) PROVE Path(d + 1)
    <2>1. i + d \in 1 .. Len(stack) - 1 /\ (i + d) + 1 = i + (d + 1)
      BY <1>1, <1>3
    <2>2. i + d \in 1 .. Len(stack) /\ i + (d + 1) \in 1 .. Len(stack) /\ i + (d + 1) \in i + 1 .. i + (d + 1)
      BY <1>1, <2>1
    <2>3. stack[i + (d + 1)].entry \in Expands(program, stack[i + d].entry)
      <3>1. Alias(stack[i + (d + 1)].entry)
        BY <1>3, <2>2
      <3>2. stack[(i + d) + 1].entry \in CalledBy(program, stack[i + d].entry)
        BY <2>1, CallsNext DEF Waiting
      <3> QED
        BY <2>1, <2>2, <3>1, <3>2 DEF Expands, Alias, Waiting
    <2>4. CASE d = 0
      <3>1. i + d = i
        BY <2>4
      <3> QED
        BY <1>1, <2>3, <3>1, ExpansionsFacts
    <2>5. CASE d # 0
      <3>1. \A k \in i + 1 .. i + d : k \in i + 1 .. i + (d + 1)
        OBVIOUS
      <3>2. Above(d)
        BY <1>1, <1>3, <2>1, <3>1
      <3>3. Path(d)
        BY <1>3, <2>5, <3>2
      <3> QED
        BY <1>1, <2>2, <2>3, <3>3, ExpansionsFacts
    <2> QED
      BY <2>4, <2>5
  <1>4. \A d \in Nat : d \in T => d + 1 \in T
    <2> SUFFICES ASSUME NEW d \in Nat, d \in T PROVE d + 1 \in T
      OBVIOUS
    <2>1. Above(d + 1) => Path(d + 1)
      BY <1>3
    <2> QED
      BY <2>1
  <1>5. \A d \in Nat : d \in T
    <2> HIDE DEF T
    <2> QED
      BY <1>2, <1>4, Induction
  <1> QED
    BY <1>5

(* The entries other than aliases at the first i places. *)
Begun(i) == {e \in Entries : ~Alias(e) /\ \E k \in 1 .. i : stack[k].entry = e}

LEMMA BodiesDiffer ==
    ASSUME AliasesEnd, Inv, Waiting, NEW i \in 1 .. Len(stack), NEW j \in 1 .. Len(stack),
           i < j, stack[i].entry = stack[j].entry, Begun(i) = Begun(j)
    PROVE  FALSE
  <1>1. /\ Len(stack) \in Nat /\ \A k \in 1 .. Len(stack) : stack[k].entry \in Entries
        /\ \A k, l \in 1 .. Len(stack) : stack[k].entry = stack[l].entry /\ ~Alias(stack[k].entry) => k = l
    BY StackEntries DEF Inv, Typed, EachBodyOnce
  <1>2. Alias(stack[j].entry)
    BY <1>1
  <1>3. ASSUME NEW k \in i + 1 .. j PROVE Alias(stack[k].entry)
    <2> SUFFICES ASSUME ~Alias(stack[k].entry) PROVE FALSE
      OBVIOUS
    <2>1. k \in 1 .. Len(stack) /\ k \in 1 .. j
      BY <1>1
    <2>2. stack[k].entry \in Begun(j)
      BY <1>1, <2>1 DEF Begun
    <2>3. PICK l \in 1 .. i : stack[l].entry = stack[k].entry
      BY <2>2 DEF Begun
    <2>4. l \in 1 .. Len(stack) /\ l # k
      BY <1>1
    <2> QED
      BY <1>1, <2>1, <2>3, <2>4
  <1>4. PICK d \in Nat : d = j - i
    OBVIOUS
  <1>5. d # 0 /\ i + d = j
    BY <1>4
  <1>6. <<stack[i].entry, stack[j].entry>> \in Expansions(program)
    <2>1. i + d <= Len(stack) /\ \A k \in i + 1 .. i + d : Alias(stack[k].entry)
      BY <1>1, <1>3, <1>5
    <2>2. <<stack[i].entry, stack[i + d].entry>> \in Expansions(program)
      BY <1>5, <2>1, AliasesExpand
    <2> QED
      BY <1>5, <2>2
  <1>7. program \in Programs
    BY DEF Inv, Typed
  <1> QED
    BY <1>2, <1>6, <1>7 DEF AliasesEnd, Alias

EnoughPlaces == Places \in Nat /\ Len(stack) \in Nat /\ Len(stack) + 1 <= Places

LEMMA PlacesEnough ==
    ASSUME AliasesEnd, Inv, Waiting
    PROVE  EnoughPlaces
  <1> DEFINE K == (SUBSET Entries) \X Entries
             key == [i \in 1 .. Len(stack) |-> <<Begun(i), stack[i].entry>>]
  <1>1. IsFiniteSet(K)
    BY FiniteAssumption, FS_SUBSET, FS_Product
  <1>2. Len(stack) \in Nat /\ \A i \in 1 .. Len(stack) : stack[i].entry \in Entries
    BY StackEntries DEF Inv, Typed
  <1>3. key \in [1 .. Len(stack) -> K]
    <2>1. \A i \in 1 .. Len(stack) : Begun(i) \in SUBSET Entries
      BY DEF Begun
    <2> QED
      BY <1>2, <2>1
  <1>4. ASSUME NEW i \in 1 .. Len(stack), NEW j \in 1 .. Len(stack), key[i] = key[j] PROVE i = j
    <2>1. Begun(i) = Begun(j) /\ stack[i].entry = stack[j].entry
      BY <1>4
    <2>2. ~(i < j) /\ ~(j < i)
      BY <2>1, BodiesDiffer
    <2> QED
      BY <2>2
  <1> HIDE DEF key, K
  <1>5. Len(stack) <= Cardinality(K) /\ Cardinality(K) \in Nat
    BY <1>1, <1>2, <1>3, <1>4, StackBounded
  <1> QED
    BY <1>2, <1>5 DEF Places, EnoughPlaces, K

LEMMA PlacesEnoughNext ==
    ASSUME AliasesEnd PROVE Inv' /\ Waiting' => EnoughPlaces'
  <1>1. Inv /\ Waiting => EnoughPlaces
    BY PlacesEnough
  <1> QED
    BY <1>1, PTL

LEMMA BoundExists ==
    ASSUME Inv
    PROVE  Longest(program) \in Nat /\ \A e \in Entries : Len(program.code[e]) <= Longest(program)
  <1> DEFINE f == [e \in Entries |-> Len(program.code[e])]
  <1>1. f \in [Entries -> Nat]
    BY ProgramFacts DEF Inv
  <1>2. PICK b \in Nat : \A e \in Entries : f[e] <= b
    <2> HIDE DEF f
    <2> QED
      BY <1>1, FiniteAssumption, FiniteBound
  <1>3. IsBound(program, b)
    BY <1>2 DEF IsBound
  <1>4. Longest(program) \in Nat /\ IsBound(program, Longest(program))
    BY <1>2, <1>3 DEF Longest
  <1> QED
    BY <1>4 DEF IsBound

LEMMA Ranks ==
    ASSUME Inv, NEW f \in Frames, AtPart(f)
    PROVE  Rank(program, f) \in Nat /\ Rank(program, f) < Highest
  <1>1. f.entry \in Entries /\ f.at \in Nat \ {0} /\ f.part \in {1, 2}
    BY FrameFields
  <1>2. PICK l \in Nat : l = Longest(program)
    BY BoundExists
  <1>3. PICK n \in Nat : n = Len(program.code[f.entry])
    BY <1>1, ProgramFacts DEF Inv
  <1>4. n <= l /\ f.at <= n
    BY <1>1, <1>2, <1>3, BoundExists DEF AtPart
  <1>5. PICK u \in {0, 1} : u = IF f.value = Nothing THEN 1 ELSE 0
    OBVIOUS
  <1>6. PICK c \in Nat : c = n - f.at
    BY <1>1, <1>4
  <1>7. c <= l - 1
    BY <1>1, <1>4, <1>6
  <1>8. Rank(program, f) = IF f.result # Nothing THEN 0 ELSE 4 * c + 2 * (2 - f.part) + u + 1
    BY <1>3, <1>5, <1>6 DEF Rank
  <1>9. Highest = 4 * l + 1
    BY <1>2 DEF Highest
  <1>10. CASE f.part = 1
    BY <1>5, <1>7, <1>8, <1>9, <1>10
  <1>11. CASE f.part = 2
    BY <1>5, <1>7, <1>8, <1>9, <1>11
  <1> QED
    BY <1>1, <1>10, <1>11

(* The digits are natural numbers below the base. *)
LeftOK ==
    /\ Left \in [Nat -> Nat]
    /\ \A k \in Nat : Left[k] < Highest + 1 /\ Left[k] = LeftAt(k)

LEMMA LeftDigits == Inv => LeftOK
  <1> SUFFICES ASSUME Inv PROVE LeftOK
    OBVIOUS
  <1>1. Longest(program) \in Nat
    BY BoundExists
  <1>2. Highest \in Nat /\ 1 <= Highest
    BY <1>1 DEF Highest
  <1>3. ASSUME NEW k \in 1 .. Len(stack) PROVE Rank(program, stack[k]) \in Nat /\ Rank(program, stack[k]) < Highest
    <2>1. stack[k] \in Frames /\ AtPart(stack[k])
      BY StackEntries DEF Inv, AllAtPart
    <2> QED
      BY <2>1, Ranks
  <1>4. ASSUME NEW k \in Nat PROVE LeftAt(k) \in Nat /\ LeftAt(k) < Highest + 1
    <2>1. CASE k = 1
      BY <1>2, <2>1 DEF LeftAt
    <2>2. CASE k # 1 /\ k - 1 \in 1 .. Len(stack)
      <3>1. LeftAt(k) = Rank(program, stack[k - 1])
        BY <2>2 DEF LeftAt
      <3> QED
        BY <1>2, <1>3, <2>2, <3>1
    <2>3. CASE k # 1 /\ k - 1 \notin 1 .. Len(stack)
      BY <1>2, <2>3 DEF LeftAt
    <2> QED
      BY <2>1, <2>2, <2>3
  <1>5. Left = [k \in Nat |-> LeftAt(k)]
    BY DEF Left
  <1> QED
    BY <1>4, <1>5 DEF LeftOK

LEMMA LeftDigitsNext == Inv' => LeftOK'
  BY LeftDigits, PTL

(* A digit falls and those before it stand still. *)
LEMMA EffortFalls ==
    ASSUME Inv, Inv', program' = program, NEW i \in 1 .. Places, Places \in Nat,
           LeftAt(i)' < LeftAt(i), \A k \in 1 .. i - 1 : LeftAt(k)' = LeftAt(k)
    PROVE  Effort' < Effort
  <1>1. PICK b : b = Highest + 1
    OBVIOUS
  <1>2. Highest' = Highest
    BY DEF Highest
  <1>3. b \in Nat /\ Highest' + 1 = b
    BY <1>1, <1>2, BoundExists DEF Highest
  <1>4. PICK n \in Nat : n = Places
    OBVIOUS
  <1>5. Places' = n
    BY <1>4 DEF Places
  <1>6. PICK c : c = Left
    OBVIOUS
  <1>7. PICK d : d = Left'
    OBVIOUS
  <1>8. c \in [Nat -> Nat] /\ \A k \in Nat : c[k] = LeftAt(k)
    BY <1>6, LeftDigits DEF LeftOK
  <1>9. d \in [Nat -> Nat] /\ \A k \in Nat : d[k] < b /\ d[k] = LeftAt(k)'
    BY <1>3, <1>7, LeftDigitsNext DEF LeftOK
  <1>10. i \in 1 .. n /\ d[i] < c[i]
    BY <1>4, <1>8, <1>9
  <1>11. \A k \in 1 .. i - 1 : d[k] = c[k]
    BY <1>8, <1>9
  <1>12. \A k \in 1 .. n : d[k] < b
    BY <1>9
  <1>13. Reading(d, b, n) < Reading(c, b, n)
    BY <1>3, <1>8, <1>9, <1>10, <1>11, <1>12, ReadingFalls
  <1> QED
    BY <1>1, <1>3, <1>4, <1>5, <1>6, <1>7, <1>13 DEF Effort

LEMMA BodyFalls ==
    ASSUME AliasesEnd, Inv, Inv', Waiting, Waiting', program' = program, Running, Running',
           NEW n \in Nat \ {0}, n <= Len(stack'),
           \A k \in 1 .. n - 1 : k \in 1 .. Len(stack) /\ stack'[k] = stack[k],
           LeftAt(n + 1)' < LeftAt(n + 1)
    PROVE  Effort' < Effort
  <1>1. Places' \in Nat /\ Len(stack') \in Nat /\ Len(stack') + 1 <= Places'
    BY PlacesEnoughNext DEF EnoughPlaces
  <1>2. Places' = Places
    BY DEF Places
  <1>3. n + 1 \in 1 .. Places
    BY <1>1, <1>2
  <1>4. ASSUME NEW k \in 1 .. (n + 1) - 1 PROVE LeftAt(k)' = LeftAt(k)
    <2>1. CASE k = 1
      BY <2>1 DEF LeftAt
    <2>2. CASE k # 1
      <3>1. k - 1 \in 1 .. n - 1 /\ k - 1 \in 1 .. Len(stack')
        BY <1>1, <2>2
      <3>2. k - 1 \in 1 .. Len(stack) /\ stack'[k - 1] = stack[k - 1]
        BY <3>1
      <3>3. LeftAt(k) = Rank(program, stack[k - 1])
        BY <2>2, <3>2 DEF LeftAt
      <3>4. LeftAt(k)' = Rank(program, stack'[k - 1])
        <4>1. LeftAt(k)' = Rank(program, stack[k - 1])'
          BY <2>2, <3>1 DEF LeftAt
        <4>2. Rank(program, stack[k - 1])' = Rank(program, stack'[k - 1])
          BY DEF Rank
        <4> QED
          BY <4>1, <4>2
      <3> QED
        BY <3>2, <3>3, <3>4
    <2> QED
      BY <2>1, <2>2
  <1> QED
    BY <1>1, <1>2, <1>3, <1>4, EffortFalls

(***************************************************************************)
(* Every step takes a digit down.                                          *)
(***************************************************************************)
(* The analysis is over: it is given up, or there is nothing more to analyze. *)
AllEnd == ~Running'

(* The innermost body has less to come. *)
GetsOn ==
    /\ Running'
    /\ \E f \in Frames : stack' = Replace(f) /\ f.entry = Top.entry /\ Rank(program, f) < Rank(program, Top)

(* A body begins on top of the others. *)
Nests == Running' /\ \E e \in Entries : stack' = Append(stack, Body(e))

(* The body below the innermost one has a value in hand. *)
Answered ==
    /\ Running'
    /\ Len(stack) > 1
    /\ \E v \in Returns \cup {Null} : Deliver(v)

Goes == Running /\ program' = program /\ (AllEnd \/ GetsOn \/ Nests \/ Answered)

LEMMA AdvanceFalls ==
    ASSUME Inv, stack # <<>>, NEW f \in Frames, NEW r \in Results,
           f.entry = Top.entry, f.at = Top.at, f.part = Top.part, f.result = Nothing, Top.result = Nothing
    PROVE  Rank(program, Advance(f, r)) < Rank(program, Top)
  <1> DEFINE second == [f EXCEPT !.part = 2, !.first = r, !.value = Nothing]
             whole == IF Statement.kind = "if" THEN Combine(f.first, r)
                      ELSE IF Statement.kind = "while" THEN "FALLTHROUGH" ELSE r
             ended == [f EXCEPT !.result = whole]
             m == f.at + 1
             onwards == [f EXCEPT !.at = m, !.part = 1, !.value = Nothing]
  <1>1. Top \in Frames /\ AtPart(Top) /\ f.first \in Results /\ f.part \in {1, 2}
    BY TopFacts, FrameFields
  <1>2. f.entry \in Entries /\ f.at \in Nat \ {0}
    BY FrameFields
  <1>3. PICK n \in Nat : n = Len(program.code[f.entry])
    BY <1>2, ProgramFacts DEF Inv
  <1>4. f.at <= n
    BY <1>1, <1>3 DEF AtPart
  <1>5. PICK u \in {0, 1} : u = IF Top.value = Nothing THEN 1 ELSE 0
    OBVIOUS
  <1>6. PICK c \in Nat : c = n - f.at
    BY <1>2, <1>4
  <1>7. Rank(program, Top) = 4 * c + 2 * (2 - f.part) + u + 1
    BY <1>3, <1>5, <1>6 DEF Rank
  <1>8. \/ Advance(f, r) = second /\ f.part = 1
        \/ Advance(f, r) = ended
        \/ Advance(f, r) = onwards /\ f.at # n
    BY <1>3 DEF Advance, NextStatement
  <1>9. DOMAIN f = {"entry", "at", "part", "first", "value", "result", "type", "recursive"}
    BY FrameFields
  <1>10. whole \in Results /\ Nothing \notin Results
    <2>1. whole \in Results
      BY <1>1 DEF Combine, Results
    <2> QED
      BY <2>1, ResultsAssumption
  <1>11. CASE Advance(f, r) = second /\ f.part = 1
    <2>1. /\ second.entry = f.entry /\ second.at = f.at /\ second.part = 2
          /\ second.value = Nothing /\ second.result = Nothing
      BY <1>9
    <2> HIDE DEF second
    <2>2. Rank(program, second) = 4 * c + 2
      BY <1>3, <1>6, <2>1 DEF Rank
    <2> QED
      BY <1>5, <1>7, <1>11, <2>2
  <1>12. CASE Advance(f, r) = ended
    <2>1. ended.result = whole
      BY <1>9
    <2> HIDE DEF ended, whole
    <2>2. Rank(program, ended) = 0
      BY <1>10, <2>1 DEF Rank
    <2>3. CASE f.part = 1
      BY <1>5, <1>7, <1>12, <2>2, <2>3
    <2>4. CASE f.part = 2
      BY <1>5, <1>7, <1>12, <2>2, <2>4
    <2> QED
      BY <1>1, <2>3, <2>4
  <1>13. CASE Advance(f, r) = onwards /\ f.at # n
    <2>1. /\ onwards.entry = f.entry /\ onwards.at = f.at + 1 /\ onwards.part = 1
          /\ onwards.value = Nothing /\ onwards.result = Nothing
      BY <1>9
    <2> HIDE DEF onwards
    <2>2. n - (f.at + 1) = c - 1 /\ c >= 1
      BY <1>2, <1>4, <1>6, <1>13
    <2>3. Rank(program, onwards) = 4 * (n - (f.at + 1)) + 2 * (2 - 1) + 1 + 1
      BY <1>3, <2>1 DEF Rank
    <2>4. CASE f.part = 1
      BY <1>5, <1>7, <1>13, <2>2, <2>3, <2>4
    <2>5. CASE f.part = 2
      BY <1>5, <1>7, <1>13, <2>2, <2>3, <2>5
    <2> QED
      BY <1>1, <2>4, <2>5
  <1> QED
    BY <1>8, <1>11, <1>12, <1>13

(* An expression that gets its value. *)
LEMMA ValueFalls ==
    ASSUME Inv, NEW f \in Frames, AtPart(f), f.result = Nothing, f.value = Nothing,
           NEW v \in Returns \cup {Null}
    PROVE  Rank(program, [f EXCEPT !.value = v]) < Rank(program, f)
  <1> DEFINE g == [f EXCEPT !.value = v]
  <1>1. /\ DOMAIN f = {"entry", "at", "part", "first", "value", "result", "type", "recursive"}
        /\ f.entry \in Entries /\ f.at \in Nat \ {0} /\ f.part \in {1, 2}
    BY FrameFields
  <1>2. v # Nothing
    BY AnalyzerAssumption
  <1>3. g.entry = f.entry /\ g.at = f.at /\ g.part = f.part /\ g.value = v /\ g.result = Nothing
    BY <1>1
  <1> HIDE DEF g
  <1>4. PICK n \in Nat : n = Len(program.code[f.entry])
    BY <1>1, ProgramFacts DEF Inv
  <1>5. PICK c \in Int : c = 4 * (n - f.at) + 2 * (2 - f.part)
    BY <1>1
  <1>6. Rank(program, f) = c + 1 + 1
    BY <1>4, <1>5 DEF Rank
  <1>7. Rank(program, g) = c + 0 + 1
    BY <1>2, <1>3, <1>4, <1>5 DEF Rank
  <1>8. Rank(program, g) < Rank(program, f)
    BY <1>6, <1>7
  <1> QED
    BY <1>8 DEF g

LEMMA ReplacedRuns ==
    ASSUME Inv, Running, NEW f \in Frames, stack' = Replace(f), UNCHANGED <<program, error>>
    PROVE  Running'
  <1>1. stack \in Seq(Frames) /\ stack # <<>>
    BY DEF Inv, Typed, Running
  <1>2. Len(stack') = Len(stack) /\ Len(stack) \in Nat \ {0} /\ stack' \in Seq(Frames)
    BY <1>1, Replaced
  <1>3. stack' # <<>>
    BY <1>2
  <1> QED
    BY <1>3 DEF Running

LEMMA MovesOn ==
    ASSUME Inv, Running, NEW f \in Frames, NEW r \in Results,
           f.entry = Top.entry, f.at = Top.at, f.part = Top.part, f.result = Nothing, Top.result = Nothing,
           stack' = Replace(Advance(f, r)), UNCHANGED <<program, error>>
    PROVE  Goes
  <1> DEFINE g == Advance(f, r)
  <1>1. stack # <<>>
    BY DEF Running
  <1>2. g \in Frames /\ g.entry = Top.entry /\ Rank(program, g) < Rank(program, Top)
    BY <1>1, AdvanceOK, AdvanceFalls
  <1> HIDE DEF g
  <1>3. stack' = Replace(g)
    BY DEF g
  <1>4. Running'
    BY <1>2, <1>3, ReplacedRuns
  <1> QED
    BY <1>2, <1>3, <1>4 DEF Goes, GetsOn

LEMMA CallKnownGoes == ASSUME Inv, Inv', CallKnown PROVE Goes
  <1> DEFINE e == Part[2]
             v == IF Declared(e) /\ Alias(e) THEN program.declared[e] ELSE ResultOf(e)
             f == [Top EXCEPT !.value = v]
  <1>1. /\ Running /\ stack # <<>> /\ Calls(Part) /\ Top.result = Nothing /\ Top.value = Nothing
        /\ stack' = Replace(f) /\ UNCHANGED <<program, error>>
    BY DEF CallKnown, Running
  <1>2. e \in Entries
    BY <1>1 DEF Calls
  <1>3. Top \in Frames /\ AtPart(Top)
    BY <1>1, TopFacts
  <1>4. v \in Returns \cup {Null}
    <2>1. /\ \A x \in Entries : analyzed'[x] => returnType'[x] # Nothing
          /\ returnType' \in [Entries -> Returns \cup {Nothing}]
      BY DEF Inv, Typed
    <2>2. ResultOf(e) \in Returns \cup {Null}
      BY <1>2, <2>1 DEF ResultOf
    <2>3. Declared(e) => program.declared[e] \in Returns
      BY <1>2, ProgramFacts DEF Inv, Declared
    <2> QED
      BY <2>2, <2>3
  <1> HIDE DEF v
  <1>5. f \in Frames /\ f.entry = Top.entry
    BY <1>3, <1>4, FrameUpdates, FrameFields
  <1>6. Rank(program, f) < Rank(program, Top)
    BY <1>1, <1>3, <1>4, ValueFalls
  <1> HIDE DEF f
  <1>7. Running'
    BY <1>1, <1>5, ReplacedRuns
  <1> QED
    BY <1>1, <1>5, <1>6, <1>7 DEF Goes, GetsOn

LEMMA CallUnknownGoes == ASSUME Inv, CallUnknown PROVE Goes
  <1>1. /\ Running /\ Calls(Part) /\ stack' = Append(stack, Body(Part[2])) /\ UNCHANGED <<program, error>>
    BY DEF CallUnknown, Begin
  <1>2. PICK e \in Entries : e = Part[2]
    BY <1>1 DEF Calls
  <1>3. stack' # <<>>
    BY <1>1 DEF Inv, Typed
  <1>4. Running'
    BY <1>1, <1>3 DEF Running
  <1> QED
    BY <1>1, <1>2, <1>4 DEF Goes, Nests

LEMMA RaiseGoes ==
    ASSUME Running, NEW kind \in {"recursion", "mismatch", "interface"}, Raise(kind)
    PROVE  Goes
  <1>1. ~Running'
    BY DEF Raise, Running
  <1> QED
    BY <1>1 DEF Raise, Goes, AllEnd

LEMMA DeliverGoes ==
    ASSUME Inv, Running, NEW v \in Returns \cup {Null}, Deliver(v), program' = program
    PROVE  Goes
  <1>1. stack \in Seq(Frames) /\ stack # <<>>
    BY DEF Inv, Typed, Running
  <1>2. stack' \in Seq(Frames) /\ Len(stack) \in Nat \ {0} /\ Len(stack') = Len(stack) - 1
    BY <1>1, Delivered
  <1>3. CASE Len(stack) = 1
    <2>1. stack' = <<>>
      BY <1>3 DEF Deliver
    <2> QED
      BY <2>1 DEF Goes, AllEnd, Running
  <1>4. CASE Len(stack) # 1
    <2>1. error' = error
      BY <1>4 DEF Deliver
    <2>2. stack' # <<>> /\ Len(stack) > 1
      BY <1>2, <1>4
    <2>3. Running'
      BY <2>1, <2>2 DEF Running
    <2> QED
      BY <2>2, <2>3 DEF Goes, Answered
  <1> QED
    BY <1>3, <1>4

LEMMA StepGoes == ASSUME Inv, Inv', Step PROVE Goes
  <1>1. CASE CallKnown
    BY <1>1, CallKnownGoes
  <1>2. CASE CallUnknown
    BY <1>2, CallUnknownGoes
  <1>3. CASE PassPart
    <2> DEFINE r == IF Part[1] = "throw" THEN "TERMINATED" ELSE "FALLTHROUGH"
    <2>1. Running /\ Top.result = Nothing /\ stack' = Replace(Advance(Top, r)) /\ UNCHANGED <<program, error>>
      BY <1>3 DEF PassPart
    <2>2. r \in Results
      BY DEF Results
    <2> HIDE DEF r
    <2>3. Top \in Frames
      BY <2>1, TopFacts DEF Running
    <2> QED
      BY <2>1, <2>2, <2>3, MovesOn
  <1>4. CASE GiveUp
    <2> DEFINE f == [Top EXCEPT !.recursive = TRUE]
    <2>1. /\ Running /\ Top.result = Nothing /\ stack' = Replace(Advance(f, "RECURSIVE"))
          /\ UNCHANGED <<program, error>>
      BY <1>4 DEF GiveUp, Evaluated
    <2>2. Top \in Frames
      BY <2>1, TopFacts DEF Running
    <2>3. f \in Frames /\ f.entry = Top.entry /\ f.at = Top.at /\ f.part = Top.part /\ f.result = Top.result
      BY <2>2, FrameUpdates, FrameFields
    <2>4. "RECURSIVE" \in Results
      BY DEF Results
    <2> HIDE DEF f
    <2> QED
      BY <2>1, <2>3, <2>4, MovesOn
  <1>5. CASE BindValue
    <2>1. /\ Running /\ Top.result = Nothing /\ stack' = Replace(Advance(Top, "FALLTHROUGH"))
          /\ UNCHANGED <<program, error>>
      BY <1>5 DEF BindValue, Evaluated
    <2>2. Top \in Frames
      BY <2>1, TopFacts DEF Running
    <2>3. "FALLTHROUGH" \in Results
      BY DEF Results
    <2> QED
      BY <2>1, <2>2, <2>3, MovesOn
  <1>6. CASE ReturnValue
    <2> DEFINE f == [Top EXCEPT !.type = Value]
    <2>1. /\ Running /\ Top.result = Nothing /\ stack' = Replace(Advance(f, "TERMINATED"))
          /\ Part[1] = "return" /\ Value # Null /\ Value # Nothing /\ UNCHANGED <<program, error>>
      BY <1>6 DEF ReturnValue, Evaluated
    <2>2. Top \in Frames
      BY <2>1, TopFacts DEF Running
    <2>3. Value \in Returns
      BY <2>1, ValueType DEF Running
    <2>4. f \in Frames /\ f.entry = Top.entry /\ f.at = Top.at /\ f.part = Top.part /\ f.result = Top.result
      BY <2>2, <2>3, FrameUpdates, FrameFields
    <2>5. "TERMINATED" \in Results
      BY DEF Results
    <2> HIDE DEF f
    <2> QED
      BY <2>1, <2>4, <2>5, MovesOn
  <1>7. CASE ReturnMismatch
    BY <1>7, RaiseGoes DEF ReturnMismatch, Evaluated
  <1>8. CASE LeaveUntyped
    BY <1>8, DeliverGoes DEF LeaveUntyped, Finished
  <1>9. CASE NoBaseCase
    BY <1>9, RaiseGoes DEF NoBaseCase, Finished
  <1>10. CASE WrongInterface
    BY <1>10, RaiseGoes DEF WrongInterface, Finished
  <1>11. CASE FinishEntry
    <2> DEFINE t == Inferred(Top)
    <2>1. Running /\ Deliver(t) /\ program' = program
      BY <1>11 DEF FinishEntry, Finished
    <2>2. Top \in Frames
      BY <2>1, TopFacts DEF Running
    <2>3. t \in Returns \cup {Null}
      BY <2>2, FrameFields DEF Inferred, Returns
    <2> HIDE DEF t
    <2> QED
      BY <2>1, <2>3, DeliverGoes
  <1> QED
    BY <1>1, <1>2, <1>3, <1>4, <1>5, <1>6, <1>7, <1>8, <1>9, <1>10, <1>11 DEF Step

LEMMA GetsOnLowers ==
    ASSUME AliasesEnd, Inv, Inv', Waiting, Waiting', program' = program, Running, GetsOn
    PROVE  Effort' < Effort
  <1>1. PICK f \in Frames : stack' = Replace(f) /\ Rank(program, f) < Rank(program, Top)
    BY DEF GetsOn
  <1>2. stack \in Seq(Frames) /\ stack # <<>>
    BY DEF Inv, Typed, Running
  <1>3. /\ Len(stack') = Len(stack) /\ stack'[Len(stack)] = f
        /\ \A i \in 1 .. Len(stack) - 1 : stack'[i] = stack[i]
    BY <1>1, <1>2, Replaced
  <1>4. Top = stack[Len(stack)] /\ Len(stack) \in Nat \ {0}
    BY <1>2, TopFacts
  <1>5. PICK n \in Nat \ {0} : n = Len(stack)
    BY <1>4
  <1>6. LeftAt(n + 1) = Rank(program, Top)
    BY <1>4, <1>5 DEF LeftAt
  <1>7. LeftAt(n + 1)' = Rank(program, f)
    <2>1. LeftAt(n + 1)' = Rank(program, stack[n])'
      BY <1>3, <1>5 DEF LeftAt
    <2> QED
      BY <1>3, <1>5, <2>1 DEF Rank
  <1>8. n <= Len(stack') /\ \A k \in 1 .. n - 1 : k \in 1 .. Len(stack) /\ stack'[k] = stack[k]
    BY <1>3, <1>5
  <1>9. LeftAt(n + 1)' < LeftAt(n + 1) /\ Running'
    BY <1>1, <1>6, <1>7 DEF GetsOn
  <1> QED
    BY <1>5, <1>8, <1>9, BodyFalls

LEMMA NestsLowers ==
    ASSUME AliasesEnd, Inv, Inv', Waiting, Waiting', program' = program, Running, Nests
    PROVE  Effort' < Effort
  <1>1. PICK e \in Entries : stack' = Append(stack, Body(e))
    BY DEF Nests
  <1>2. Body(e) \in Frames /\ AtPart(Body(e))
    BY BodyOK DEF Inv
  <1>3. PICK g : g = Body(e)
    OBVIOUS
  <1>4. stack \in Seq(Frames) /\ Len(stack) \in Nat
    BY DEF Inv, Typed
  <1>5. PICK n \in Nat \ {0} : n = Len(stack) + 1
    BY <1>4
  <1>6. Len(stack') = n /\ stack'[n] = g /\ \A k \in 1 .. n - 1 : k \in 1 .. Len(stack) /\ stack'[k] = stack[k]
    BY <1>1, <1>2, <1>3, <1>4, <1>5, Pushed
  <1>7. LeftAt(n + 1) = Highest
    BY <1>4, <1>5 DEF LeftAt
  <1>8. LeftAt(n + 1)' = Rank(program, g)
    <2>1. LeftAt(n + 1)' = Rank(program, stack[n])'
      BY <1>6 DEF LeftAt
    <2> QED
      BY <1>6, <2>1 DEF Rank
  <1>9. LeftAt(n + 1)' < LeftAt(n + 1) /\ Running'
    BY <1>2, <1>3, <1>7, <1>8, Ranks DEF Nests
  <1> QED
    BY <1>6, <1>9, BodyFalls

LEMMA AnsweredLowers ==
    ASSUME AliasesEnd, Inv, Inv', Waiting, Waiting', program' = program, Running, Answered
    PROVE  Effort' < Effort
  <1>1. PICK v \in Returns \cup {Null} : Deliver(v)
    BY DEF Answered
  <1>2. stack \in Seq(Frames) /\ stack # <<>> /\ Len(stack) > 1
    BY DEF Inv, Typed, Running, Answered
  <1>3. /\ Len(stack) \in Nat \ {0} /\ Len(stack') = Len(stack) - 1
        /\ \A i \in 1 .. Len(stack) - 2 : stack'[i] = stack[i]
        /\ stack'[Len(stack) - 1] = [stack[Len(stack) - 1] EXCEPT !.value = v]
    BY <1>1, <1>2, Delivered
  <1>4. PICK n \in Nat \ {0} : n = Len(stack) - 1
    BY <1>2, <1>3
  <1>5. PICK f : f = stack[n]
    OBVIOUS
  <1>6. n \in 1 .. Len(stack) /\ n \in 1 .. Len(stack) - 1
    BY <1>3, <1>4
  <1>7. f \in Frames /\ AtPart(f)
    BY <1>5, <1>6, StackEntries DEF Inv, AllAtPart
  <1>8. f.result = Nothing /\ f.value = Nothing
    BY <1>5, <1>6 DEF Waiting, Linked, AtCall
  <1>9. LeftAt(n + 1) = Rank(program, f)
    BY <1>4, <1>5, <1>6 DEF LeftAt
  <1>10. PICK g : g = [f EXCEPT !.value = v]
    OBVIOUS
  <1>11. n <= Len(stack') /\ n \in 1 .. Len(stack') /\ stack'[n] = g
    BY <1>3, <1>4, <1>5, <1>10
  <1>12. \A k \in 1 .. n - 1 : k \in 1 .. Len(stack) /\ stack'[k] = stack[k]
    BY <1>3, <1>4
  <1>13. LeftAt(n + 1)' = Rank(program, g)
    <2>1. LeftAt(n + 1)' = Rank(program, stack[n])'
      BY <1>11 DEF LeftAt
    <2> QED
      BY <1>11, <2>1 DEF Rank
  <1>14. LeftAt(n + 1)' < LeftAt(n + 1) /\ Running'
    BY <1>7, <1>8, <1>9, <1>10, <1>13, ValueFalls DEF Answered
  <1> QED
    BY <1>11, <1>12, <1>14, BodyFalls

LEMMA AllEndLowers ==
    ASSUME AliasesEnd, Inv, Inv', Waiting, program' = program, Running, AllEnd
    PROVE  Effort' < Effort
  <1>1. Places \in Nat /\ 1 \in 1 .. Places
    BY PlacesEnough DEF EnoughPlaces
  <1>2. LeftAt(1) = 1 /\ LeftAt(1)' = 0
    BY DEF LeftAt, AllEnd
  <1> QED
    BY <1>1, <1>2, EffortFalls

LEMMA GoesLowersEffort ==
    ASSUME AliasesEnd, Inv, Inv', Waiting, Waiting', Goes
    PROVE  Effort' < Effort
  BY AllEndLowers, GetsOnLowers, NestsLowers, AnsweredLowers DEF Goes

LEMMA EffortIsNatural == ASSUME AliasesEnd PROVE Inv /\ Waiting => Effort \in Nat
  <1> SUFFICES ASSUME Inv, Waiting PROVE Effort \in Nat
    OBVIOUS
  <1>1. Places \in Nat
    BY PlacesEnough DEF EnoughPlaces
  <1>2. Highest + 1 \in Nat
    BY BoundExists DEF Highest
  <1>3. Left \in [Nat -> Nat]
    BY LeftDigits DEF LeftOK
  <1> QED
    BY <1>1, <1>2, <1>3, ReadingFollows DEF Effort

(* Inference never runs for ever, of any program in which no alias expands itself:
   every step of it takes the effort, a natural number, down. Bodies do not nest
   without end, as no entry is begun while it is under analysis; a body left without
   a type is begun again only by statements that are each come to once. (AnalysisEnds,
   but for the fairness it assumes: analyzeCallable, analyzeCodeBody, analyzeStatement.) *)
THEOREM AnalysisAdvances ==
    ASSUME AliasesEnd
    PROVE  Spec => [](Effort \in Nat) /\ [][Step => Effort' < Effort]_vars
  <1>1. Init => Inv /\ Based
    BY InitInv, InitBased
  <1>2. Inv /\ Based /\ [Next]_vars => (Inv /\ Based)'
    BY NextInv, NextBased
  <1>3. Inv /\ Based /\ [Next]_vars => [Step => Effort' < Effort]_vars
    <2> SUFFICES ASSUME Inv, Based, [Next]_vars, Step PROVE Effort' < Effort
      OBVIOUS
    <2>1. Inv' /\ Based'
      BY NextInv, NextBased
    <2>2. Waiting /\ Waiting'
      BY <2>1 DEF Based, FramesOK, Waiting
    <2> QED
      BY <2>1, <2>2, StepGoes, GoesLowersEffort
  <1>4. Inv /\ Based => Effort \in Nat
    BY EffortIsNatural DEF Based, FramesOK, Waiting
  <1> QED
    BY <1>1, <1>2, <1>3, <1>4, PTL DEF Spec

=============================================================================
