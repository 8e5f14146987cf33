------------------------ MODULE ModuleLoaderProofs ------------------------
(* Theorems about ModuleLoader, for every set of modules and programs. *)
EXTENDS ModuleLoader, TLAPS, SequenceTheorems

(* What the stack operations return. *)
LEMMA StackOperations ==
    ASSUME NEW S, NEW s \in Seq(S)
    PROVE  /\ s # <<>> => /\ Last(s) \in S
                          /\ Front(s) \in Seq(S)
                          /\ Len(Front(s)) = Len(s) - 1
                          /\ \A i \in 1 .. Len(s) - 1 : Front(s)[i] = s[i]
           /\ \A x \in S : /\ Append(s, x) \in Seq(S)
                           /\ Cons(x, s) \in Seq(S)
                           /\ Len(Cons(x, s)) = Len(s) + 1
                           /\ Cons(x, s)[1] = x
                           /\ \A i \in 1 .. Len(s) : Cons(x, s)[i + 1] = s[i]
  <1>1. ASSUME s # <<>>
        PROVE  /\ Last(s) \in S
               /\ Front(s) \in Seq(S)
               /\ Len(Front(s)) = Len(s) - 1
               /\ \A i \in 1 .. Len(s) - 1 : Front(s)[i] = s[i]
    <2>1. Len(s) \in Nat \ {0}
      BY <1>1
    <2>2. \A i \in 1 .. Len(s) - 1 : s[i] \in S
      BY <2>1
    <2>3. /\ SubSeq(s, 1, Len(s) - 1) \in Seq(S)
          /\ Len(SubSeq(s, 1, Len(s) - 1)) = Len(s) - 1
          /\ \A i \in 1 .. Len(s) - 1 : SubSeq(s, 1, Len(s) - 1)[i] = s[i]
      <3> DEFINE n == Len(s) - 1
      <3>1. n \in Nat
        BY <2>1
      <3>0. n \in Int /\ 1 \in Int
        BY <3>1
      <3>5. \A i \in 1 .. n : s[i] \in S
        BY <2>2
      <3> HIDE DEF n
      <3>2. /\ SubSeq(s, 1, n) \in Seq(S)
            /\ Len(SubSeq(s, 1, n)) = IF 1 <= n THEN n - 1 + 1 ELSE 0
            /\ \A i \in 1 .. n - 1 + 1 : SubSeq(s, 1, n)[i] = s[1 + i - 1]
        BY <3>0, <3>5, SubSeqProperties
      <3>3. \A i \in 1 .. n : SubSeq(s, 1, n)[i] = s[i]
        BY <3>1, <3>2
      <3>4. Len(SubSeq(s, 1, n)) = n
        BY <3>1, <3>2
      <3> QED
        BY <3>2, <3>3, <3>4 DEF n
    <2> QED
      BY <2>1, <2>3 DEF Last, Front
  <1>2. ASSUME NEW x \in S
        PROVE  /\ Append(s, x) \in Seq(S)
               /\ Cons(x, s) \in Seq(S)
               /\ Len(Cons(x, s)) = Len(s) + 1
               /\ Cons(x, s)[1] = x
               /\ \A i \in 1 .. Len(s) : Cons(x, s)[i + 1] = s[i]
    BY DEF Cons
  <1> QED
    BY <1>1, <1>2

LEMMA ConsOperation ==
    ASSUME NEW S, NEW s \in Seq(S), NEW x \in S
    PROVE  /\ Len(Cons(x, s)) = Len(s) + 1
           /\ Cons(x, s)[1] = x
           /\ \A i \in 1 .. Len(s) : Cons(x, s)[i + 1] = s[i]
  BY DEF Cons

LEMMA InitTypeOK == Init => TypeOK
  <1> SUFFICES ASSUME Init PROVE TypeOK
    OBVIOUS
  <1>1. PICK p \in Programs : imports = p.imports /\ defect = p.defect
    BY DEF Init
  <1>2. /\ imports \in [Everything -> Seq(Modules)]
        /\ defect \in [Everything -> Defects]
    BY <1>1, LoaderAssumption
  <1>3. /\ Prelude \in Modules
        /\ MaxCommands \in Nat
        /\ Main \in Everything /\ Prelude \in Everything
    BY LoaderAssumption DEF Everything
  <1>4. /\ loadStack \in Seq(Everything)
        /\ Len(loadStack) = 2
        /\ loadStack[1] = Main /\ loadStack[2] = Prelude
    BY <1>3 DEF Init
  <1> QED
    BY <1>2, <1>3, <1>4 DEF Init, TypeOK

(* What error() leaves behind is well typed. *)
Raised ==
    /\ error' \in {"none", "load", "clash", "misnamed", "loop", "item"}
    /\ phase' \in {"ready", "failed"}
    /\ initStack' = <<>> /\ initStack' \in Seq(Everything)
    /\ roots' = <<>> /\ roots' \in Seq(Everything)
    /\ loadStack' = <<>> /\ loadStack' \in Seq(Everything) /\ Len(loadStack') = 0

LEMMA RaiseTypeOK ==
    /\ Raise("load") => Raised
    /\ Raise("clash") => Raised
    /\ Raise("misnamed") => Raised
    /\ Raise("loop") => Raised
    /\ Raise("item") => Raised
  <1>1. <<>> \in Seq(Everything) /\ Len(<<>>) = 0
    OBVIOUS
  <1> QED
    BY <1>1 DEF Raise, Raised

LEMMA CallInitTypeOK ==
    ASSUME TypeOK, NEW x \in Everything, CallInit(x)
    PROVE  TypeOK'
  <1>1. UNCHANGED <<imports, defect, globalModules, bound, installed, visited, overloads, commands>>
    BY DEF CallInit, program
  <1>2. CASE Raised /\ UNCHANGED initState
    BY <1>1, <1>2 DEF TypeOK, Raised
  <1>3. CASE /\ initState' = [initState EXCEPT ![x] = "RUNNING"]
             /\ initStack' = Append(initStack, x)
             /\ UNCHANGED <<error, phase, roots, loadStack>>
    BY <1>1, <1>3 DEF TypeOK
  <1> QED
    BY <1>2, <1>3, RaiseTypeOK DEF CallInit

LEMMA NextTypeOK == TypeOK /\ [Next]_vars => TypeOK'
  <1> SUFFICES ASSUME TypeOK, [Next]_vars PROVE TypeOK'
    OBVIOUS
  <1>1. ASSUME NEW m \in Everything, EnterModule(m) PROVE TypeOK'
    <2>1. NextImport(m) \in Modules
      BY <1>1 DEF TypeOK, EnterModule, NextImport
    <2>0. UNCHANGED <<imports, defect, bound, installed, initState, visited, overloads, commands>>
      BY <1>1 DEF EnterModule, program
    <2>2. CASE Raised /\ UNCHANGED globalModules
      BY <2>0, <2>2 DEF TypeOK, Raised
    <2>3. CASE /\ globalModules' = Record(NextImport(m))
               /\ loadStack' = Descend(NextImport(m))
               /\ UNCHANGED <<error, phase, initStack, roots>>
      <3>1. loadStack' = Append(loadStack, NextImport(m)) /\ NextImport(m) \in Everything
        BY <2>1, <2>3 DEF Descend, Everything
      <3>2. /\ loadStack' \in Seq(Everything)
            /\ Len(loadStack') = Len(loadStack) + 1
            /\ loadStack'[Len(loadStack) + 1] = NextImport(m)
            /\ \A i \in 1 .. Len(loadStack) : loadStack'[i] = loadStack[i]
        BY <3>1 DEF TypeOK
      <3>3. \A i \in 1 .. Len(loadStack') : loadStack'[i] \in globalModules' \cup {Main}
        <4> TAKE i \in 1 .. Len(loadStack')
        <4>1. CASE i = Len(loadStack) + 1
          BY <2>3, <3>2, <4>1 DEF Record
        <4>2. CASE i \in 1 .. Len(loadStack)
          BY <2>3, <3>2, <4>2 DEF TypeOK, Record
        <4> QED
          BY <3>2, <4>1, <4>2 DEF TypeOK
      <3> QED
        BY <2>0, <2>1, <2>3, <3>2, <3>3 DEF TypeOK, Record
    <2> QED
      BY <1>1, <2>2, <2>3, RaiseTypeOK DEF EnterModule
  <1>2. ASSUME NEW m \in Everything, BindImport(m) PROVE TypeOK'
    <2>1. /\ bound' \in [Everything -> Nat]
          /\ \A x \in Everything : bound'[x] <= Len(imports[x]) /\ visited[x] <= bound'[x]
      BY <1>2 DEF TypeOK, BindImport, Bind
    <2>0. UNCHANGED <<imports, defect, globalModules, installed, initState, visited,
                      overloads, commands>>
      BY <1>2 DEF BindImport, program
    <2>2. CASE Raised
      BY <2>0, <2>1, <2>2 DEF TypeOK, Raised
    <2>3. CASE UNCHANGED <<error, phase, initStack, roots, loadStack>>
      BY <2>0, <2>1, <2>3 DEF TypeOK
    <2> QED
      BY <1>2, <2>2, <2>3, RaiseTypeOK DEF BindImport
  <1>3. ASSUME NEW m \in Everything, InstallModule(m) PROVE TypeOK'
    <2>1. /\ loadStack' \in Seq(Everything)
          /\ Len(loadStack') = Len(loadStack) - 1
          /\ \A i \in 1 .. Len(loadStack) - 1 : loadStack'[i] = loadStack[i]
      BY <1>3, StackOperations DEF TypeOK, InstallModule, Loading
    <2>2. \A i \in 1 .. Len(loadStack') : loadStack'[i] \in globalModules \cup {Main}
      <3> TAKE i \in 1 .. Len(loadStack')
      <3>1. Len(loadStack) \in Nat /\ i \in 1 .. Len(loadStack) /\ loadStack'[i] = loadStack[i]
        <4>1. Len(loadStack) \in Nat
          BY DEF TypeOK
        <4>2. i \in 1 .. Len(loadStack) - 1
          BY <2>1
        <4> QED
          BY <2>1, <4>1, <4>2
      <3> QED
        BY <3>1 DEF TypeOK
    <2> QED
      BY <1>3, <2>1, <2>2 DEF TypeOK, InstallModule, initing, program
  <1>4. CASE InitRoot
    <2>1. Head(roots) \in Everything
      BY <1>4 DEF InitRoot, TypeOK
    <2> QED
      BY <1>4, <2>1, CallInitTypeOK DEF InitRoot
  <1>5. CASE RootDone
    BY <1>5 DEF TypeOK, RootDone, program, loading, initing
  <1>6. ASSUME NEW m \in Everything, InitImport(m) PROVE TypeOK'
    <2>1. imports[m][visited[m] + 1] \in Modules
      BY <1>6 DEF TypeOK, InitImport
    <2>2. imports[m][visited[m] + 1] \in Everything
      BY <2>1 DEF Everything
    <2> QED
      BY <1>6, <2>2, CallInitTypeOK DEF InitImport
  <1>7. ASSUME NEW m \in Everything, ImportDone(m) PROVE TypeOK'
    BY <1>7 DEF TypeOK, ImportDone, program, loading
  <1>8. ASSUME NEW m \in Everything, NullImport(m) PROVE TypeOK'
    BY <1>8 DEF TypeOK, NullImport, program, loading, initing
  <1>9. ASSUME NEW m \in Everything, FinishModule(m) PROVE TypeOK'
    <2>1. initState' \in [Everything -> {"BEFORE", "RUNNING", "DONE"}]
      BY <1>9 DEF TypeOK, FinishModule
    <2>0. UNCHANGED <<imports, defect, globalModules, bound, installed, visited, commands>>
      BY <1>9 DEF FinishModule, program
    <2>2. CASE Raised /\ UNCHANGED overloads
      BY <2>0, <2>1, <2>2 DEF TypeOK, Raised
    <2>3. CASE /\ overloads' = AddOverload(m)
               /\ initStack' = Front(initStack)
               /\ UNCHANGED <<error, phase, roots, loadStack>>
      <3>1. overloads' \in Seq(Everything) /\ initStack' \in Seq(Everything)
        BY <1>9, <2>3, StackOperations DEF TypeOK, FinishModule, Initialising, AddOverload
      <3> QED
        BY <2>0, <2>1, <2>3, <3>1 DEF TypeOK
    <2> QED
      BY <1>9, <2>2, <2>3, RaiseTypeOK DEF FinishModule
  <1>10. CASE ReplImport
    <2>1. PICK line \in Commands : /\ imports' = [imports EXCEPT ![Main] = @ \o line]
                                   /\ roots' = line
      BY <1>10 DEF ReplImport
    <2>2. Main \in Everything /\ line \in Seq(Modules) /\ line \in Seq(Everything)
      BY LoaderAssumption DEF Everything
    <2>3. imports[Main] \in Seq(Modules) /\ imports[Main] \o line \in Seq(Modules)
          /\ Len(imports[Main]) \in Nat /\ Len(imports[Main] \o line) >= Len(imports[Main])
      BY <2>2 DEF TypeOK
    <2>4. imports' \in [Everything -> Seq(Modules)] /\ bound' \in [Everything -> Nat]
      BY <1>10, <2>1, <2>2, <2>3 DEF TypeOK, ReplImport
    <2>5. \A x \in Everything : bound'[x] <= Len(imports'[x]) /\ visited[x] <= bound'[x]
      BY <1>10, <2>1, <2>2, <2>3 DEF TypeOK, ReplImport
    <2>6. commands' \in 0 .. MaxCommands
      BY <1>10, LoaderAssumption DEF TypeOK, ReplImport
    <2>7. loadStack' \in Seq(Everything) /\ Len(loadStack') = 1 /\ loadStack'[1] = Main
      BY <1>10, <2>2 DEF ReplImport
    <2> QED
      BY <1>10, <2>1, <2>2, <2>4, <2>5, <2>6, <2>7 DEF TypeOK, ReplImport, initing
  <1>11. CASE UNCHANGED vars
    BY <1>11 DEF TypeOK, vars, program, loading, initing
  <1> QED
    BY <1>1, <1>2, <1>3, <1>4, <1>5, <1>6, <1>7, <1>8, <1>9, <1>10, <1>11
       DEF Next, LoadStep, InitStep

(* Type correctness (the modules of compiler/loader.cpp): in every reachable
   state the module records, the two recursions and the overload list hold
   modules, and every module being loaded is already in globalModules. *)
THEOREM LoaderTypeOK == Spec => []TypeOK
  BY InitTypeOK, NextTypeOK, PTL DEF Spec

(***************************************************************************)
(* A module registers once.                                                *)
(***************************************************************************)
(* The inductive invariant behind RegisteredOnce: the modules of the import
   chain are RUNNING and distinct, the registered ones are DONE. *)
Chain ==
    /\ \A i \in 1 .. Len(initStack) : initState[initStack[i]] = "RUNNING"
    /\ \A i, j \in 1 .. Len(initStack) : initStack[i] = initStack[j] => i = j

RegisteredDone == \A i \in 1 .. Len(overloads) : initState[overloads[i]] = "DONE"

RegisterInv == Chain /\ RegisteredDone /\ RegisteredOnce

(* The part of the type invariant that the steps below need. *)
LEMMA SequenceTypes ==
    ASSUME TypeOK
    PROVE  /\ initState \in [Everything -> {"BEFORE", "RUNNING", "DONE"}]
           /\ initStack \in Seq(Everything) /\ Len(initStack) \in Nat
           /\ \A i \in 1 .. Len(initStack) : initStack[i] \in Everything
           /\ overloads \in Seq(Everything) /\ Len(overloads) \in Nat
           /\ \A i \in 1 .. Len(overloads) : overloads[i] \in Everything
  BY DEF TypeOK

LEMMA CallInitRegister ==
    ASSUME TypeOK, RegisterInv, NEW x \in Everything, CallInit(x)
    PROVE  RegisterInv'
  <1>1. overloads' = overloads /\ initState[x] # "DONE"
    BY DEF CallInit, Returns
  <1>2. CASE Raised /\ UNCHANGED initState
    BY <1>1, <1>2 DEF Raised, RegisterInv, Chain, RegisteredDone, RegisteredOnce
  <1>3. CASE /\ ~InLoop(x)
             /\ initState' = [initState EXCEPT ![x] = "RUNNING"]
             /\ initStack' = Append(initStack, x)
    <2>1. initState[x] = "BEFORE"
      BY <1>1, <1>3, SequenceTypes DEF InLoop
    <2>2. \A i \in 1 .. Len(initStack) : initStack[i] # x
      BY <2>1 DEF RegisterInv, Chain
    <2>3. /\ Len(initStack') = Len(initStack) + 1
          /\ initStack'[Len(initStack) + 1] = x
          /\ \A i \in 1 .. Len(initStack) : initStack'[i] = initStack[i]
      BY <1>3, SequenceTypes
    <2>4. \A i \in 1 .. Len(initStack') :
             i = Len(initStack) + 1 \/ i \in 1 .. Len(initStack)
      BY <2>3, SequenceTypes
    <2>5. \A y \in Everything : initState'[y] = IF y = x THEN "RUNNING" ELSE initState[y]
      BY <1>3, SequenceTypes
    <2>6. \A i \in 1 .. Len(initStack') : initState'[initStack'[i]] = "RUNNING"
      BY <2>3, <2>4, <2>5, SequenceTypes DEF RegisterInv, Chain
    <2>7. \A i, j \in 1 .. Len(initStack') : initStack'[i] = initStack'[j] => i = j
      BY <2>2, <2>3, <2>4 DEF RegisterInv, Chain
    <2>8. RegisteredDone'
      BY <1>1, <2>1, <2>5, SequenceTypes DEF RegisterInv, RegisteredDone
    <2> QED
      BY <1>1, <2>6, <2>7, <2>8 DEF RegisterInv, Chain, RegisteredOnce
  <1> QED
    BY <1>2, <1>3, RaiseTypeOK DEF CallInit

LEMMA FinishRegister ==
    ASSUME TypeOK, RegisterInv, NEW m \in Everything, FinishModule(m)
    PROVE  RegisterInv'
  <1>1. /\ initStack # <<>>
        /\ m = initStack[Len(initStack)]
        /\ initState' = [initState EXCEPT ![m] = "DONE"]
    BY DEF FinishModule, Initialising, Last
  <1>2. Len(initStack) \in Nat \ {0}
    BY <1>1, SequenceTypes
  <1>3. initState[m] = "RUNNING"
    BY <1>1, <1>2 DEF RegisterInv, Chain
  <1>4. \A i \in 1 .. Len(overloads) : overloads[i] # m
    BY <1>3 DEF RegisterInv, RegisteredDone
  <1>5. \A y \in Everything : initState'[y] = IF y = m THEN "DONE" ELSE initState[y]
    BY <1>1, SequenceTypes
  <1>6. CASE Raised /\ UNCHANGED overloads
    <2>1. RegisteredDone'
      BY <1>5, <1>6, SequenceTypes DEF RegisterInv, RegisteredDone
    <2> QED
      BY <1>6, <2>1 DEF Raised, RegisterInv, Chain, RegisteredOnce
  <1>7. CASE overloads' = AddOverload(m) /\ initStack' = Front(initStack)
    <2>1. /\ Len(overloads') = Len(overloads) + 1
          /\ overloads'[1] = m
          /\ \A i \in 1 .. Len(overloads) : overloads'[i + 1] = overloads[i]
      <3>1. overloads' = Cons(m, overloads)
        BY <1>7 DEF AddOverload
      <3>2. overloads \in Seq(Everything)
        BY SequenceTypes
      <3>3. /\ Len(Cons(m, overloads)) = Len(overloads) + 1
            /\ Cons(m, overloads)[1] = m
            /\ \A i \in 1 .. Len(overloads) : Cons(m, overloads)[i + 1] = overloads[i]
        BY <3>2, ConsOperation
      <3> QED
        BY <3>1, <3>3
    <2>2. \A i \in 1 .. Len(overloads') :
             i = 1 \/ (i - 1 \in 1 .. Len(overloads) /\ overloads'[i] = overloads[i - 1])
      <3> TAKE i \in 1 .. Len(overloads')
      <3>1. i = 1 \/ i - 1 \in 1 .. Len(overloads)
        BY <2>1, SequenceTypes
      <3>2. (i - 1) + 1 = i
        OBVIOUS
      <3> QED
        BY <2>1, <3>1, <3>2
    <2>3. /\ Len(initStack') = Len(initStack) - 1
          /\ \A i \in 1 .. Len(initStack) - 1 : initStack'[i] = initStack[i]
      BY <1>1, <1>7, SequenceTypes, StackOperations
    <2>4. \A i \in 1 .. Len(initStack) - 1 :
             i \in 1 .. Len(initStack) /\ initStack[i] # m
      BY <1>1, <1>2 DEF RegisterInv, Chain
    <2>5. \A i \in 1 .. Len(initStack') : initState'[initStack'[i]] = "RUNNING"
      BY <1>5, <2>3, <2>4, SequenceTypes DEF RegisterInv, Chain
    <2>6. \A i, j \in 1 .. Len(initStack') : initStack'[i] = initStack'[j] => i = j
      BY <2>3, <2>4 DEF RegisterInv, Chain
    <2>7. RegisteredDone'
      BY <1>5, <2>1, <2>2, SequenceTypes DEF RegisterInv, RegisteredDone
    <2>8. RegisteredOnce'
      <3> SUFFICES ASSUME NEW i \in 1 .. Len(overloads'), NEW j \in 1 .. Len(overloads'),
                          overloads'[i] = overloads'[j]
                   PROVE  i = j
        BY DEF RegisteredOnce
      <3>1. CASE i = 1 /\ j = 1
        BY <3>1
      <3>2. CASE i # 1 /\ j # 1
        BY <2>2, <3>2 DEF RegisterInv, RegisteredOnce
      <3>3. CASE i = 1 /\ j # 1
        BY <1>4, <2>1, <2>2, <3>3
      <3>4. CASE i # 1 /\ j = 1
        BY <1>4, <2>1, <2>2, <3>4
      <3> QED
        BY <3>1, <3>2, <3>3, <3>4
    <2> QED
      BY <2>5, <2>6, <2>7, <2>8 DEF RegisterInv, Chain
  <1> QED
    BY <1>6, <1>7, RaiseTypeOK DEF FinishModule

LEMMA NextRegister == TypeOK /\ RegisterInv /\ [Next]_vars => RegisterInv'
  <1> SUFFICES ASSUME TypeOK, RegisterInv, [Next]_vars PROVE RegisterInv'
    OBVIOUS
  <1>1. ASSUME UNCHANGED <<initState, initStack, overloads>> PROVE RegisterInv'
    BY <1>1 DEF RegisterInv, Chain, RegisteredDone, RegisteredOnce
  <1>2. ASSUME UNCHANGED <<initState, overloads>>, Raised PROVE RegisterInv'
    BY <1>2 DEF RegisterInv, Chain, RegisteredDone, RegisteredOnce, Raised
  <1>3. ASSUME NEW m \in Everything, EnterModule(m) PROVE RegisterInv'
    BY <1>1, <1>2, <1>3, RaiseTypeOK DEF EnterModule
  <1>4. ASSUME NEW m \in Everything, BindImport(m) PROVE RegisterInv'
    BY <1>1, <1>2, <1>4, RaiseTypeOK DEF BindImport
  <1>5. ASSUME NEW m \in Everything, InstallModule(m) PROVE RegisterInv'
    BY <1>1, <1>5 DEF InstallModule, initing
  <1>6. CASE InitRoot
    <2>1. Head(roots) \in Everything
      BY <1>6 DEF InitRoot, TypeOK
    <2> QED
      BY <1>6, <2>1, CallInitRegister DEF InitRoot
  <1>7. CASE RootDone
    BY <1>1, <1>7 DEF RootDone, initing
  <1>8. ASSUME NEW m \in Everything, InitImport(m) PROVE RegisterInv'
    <2>1. imports[m][visited[m] + 1] \in Modules
      BY <1>8 DEF TypeOK, InitImport
    <2>2. imports[m][visited[m] + 1] \in Everything
      BY <2>1 DEF Everything
    <2> QED
      BY <1>8, <2>2, CallInitRegister DEF InitImport
  <1>9. ASSUME NEW m \in Everything, ImportDone(m) PROVE RegisterInv'
    BY <1>1, <1>9 DEF ImportDone
  <1>10. ASSUME NEW m \in Everything, NullImport(m) PROVE RegisterInv'
    BY <1>1, <1>10 DEF NullImport, initing
  <1>11. ASSUME NEW m \in Everything, FinishModule(m) PROVE RegisterInv'
    BY <1>11, FinishRegister
  <1>12. CASE ReplImport
    BY <1>1, <1>12 DEF ReplImport, initing
  <1>13. CASE UNCHANGED vars
    BY <1>1, <1>13 DEF vars, initing
  <1> QED
    BY <1>3, <1>4, <1>5, <1>6, <1>7, <1>8, <1>9, <1>10, <1>11, <1>12, <1>13
       DEF Next, LoadStep, InitStep

LEMMA SpecRegister == Spec => [](TypeOK /\ RegisterInv)
  <1>1. Init => RegisterInv
    BY DEF Init, RegisterInv, Chain, RegisteredDone, RegisteredOnce
  <1> QED
    BY <1>1, InitTypeOK, NextTypeOK, NextRegister, PTL DEF Spec

(* initModule registers the overloads of a module at most once, in every REPL
   session and whatever errors interrupt it. *)
THEOREM LoaderRegisteredOnce == Spec => []RegisteredOnce
  <1>1. RegisterInv => RegisteredOnce
    BY DEF RegisterInv
  <1> QED
    BY <1>1, SpecRegister, PTL

(***************************************************************************)
(* In a compilation, importers come first.                                 *)
(***************************************************************************)
(* The inductive invariant behind ImportersFirst: nothing is initialised while
   modules are loaded; until an error, the modules that are DONE are those
   registered; and what initModule returned from is DONE or the module itself. *)
Visited ==
    \A m \in Everything : \A i \in 1 .. visited[m] :
        imports[m][i] = m \/ initState[imports[m][i]] = "DONE"

RegisteredIffDone ==
    phase = "init" =>
        \A m \in Everything : initState[m] = "DONE" => \E i \in 1 .. Len(overloads) : overloads[i] = m

NothingDoneYet == phase = "load" => \A m \in Everything : initState[m] # "DONE"

OrderInv ==
    /\ commands = 0
    /\ NothingDoneYet
    /\ RegisteredIffDone
    /\ Visited
    /\ ImportersFirst

(* What Visited needs to know of the types. *)
LEMMA ImportTypes ==
    ASSUME TypeOK
    PROVE  /\ \A m \in Everything : /\ visited[m] \in Nat
                                    /\ bound[m] \in Nat
                                    /\ visited[m] <= bound[m]
                                    /\ bound[m] <= Len(imports[m])
                                    /\ Len(imports[m]) \in Nat
                                    /\ \A i \in 1 .. Len(imports[m]) : imports[m][i] \in Everything
           /\ visited \in [Everything -> Nat]
  <1>1. \A m \in Everything : imports[m] \in Seq(Modules)
    BY DEF TypeOK
  <1>2. \A m \in Everything : \A i \in 1 .. Len(imports[m]) : imports[m][i] \in Modules
    BY <1>1
  <1>3. \A m \in Everything : Len(imports[m]) \in Nat
    BY <1>1
  <1>4. \A m \in Everything : /\ visited[m] \in Nat /\ bound[m] \in Nat
                              /\ visited[m] <= bound[m] /\ bound[m] <= Len(imports[m])
    BY DEF TypeOK
  <1>5. visited \in [Everything -> Nat]
    BY DEF TypeOK
  <1> QED
    BY <1>2, <1>3, <1>4, <1>5 DEF Everything

LEMMA ImportersFirstUnchanged ==
    ASSUME ImportersFirst, UNCHANGED <<imports, overloads>>
    PROVE  ImportersFirst'
  <1>1. \A m : ImportsOf(m)' = ImportsOf(m)
    BY DEF ImportsOf
  <1> SUFFICES ASSUME NEW i \in 1 .. Len(overloads'),
                      NEW x \in ImportsOf(overloads'[i]) \ {overloads'[i]}
               PROVE  \E j \in i + 1 .. Len(overloads') : overloads'[j] = x
    BY <1>1 DEF ImportersFirst
  <1> QED
    BY DEF ImportersFirst

LEMMA CallInitOrder ==
    ASSUME TypeOK, OrderInv, phase = "init", NEW x \in Everything, CallInit(x)
    PROVE  OrderInv'
  <1>1. /\ UNCHANGED <<imports, visited, overloads, commands>>
        /\ initState[x] # "DONE"
    BY DEF CallInit, Returns, program
  <1>2. CASE Raised /\ UNCHANGED initState
    BY <1>1, <1>2, ImportersFirstUnchanged
       DEF Raised, OrderInv, NothingDoneYet, RegisteredIffDone, Visited
  <1>3. CASE /\ initState' = [initState EXCEPT ![x] = "RUNNING"]
             /\ phase' = phase
    <2>1. \A y \in Everything : initState'[y] = "DONE" <=> initState[y] = "DONE"
      BY <1>1, <1>3, SequenceTypes
    <2>2. NothingDoneYet' /\ RegisteredIffDone'
      BY <1>1, <1>3, <2>1 DEF OrderInv, NothingDoneYet, RegisteredIffDone
    <2>3. Visited'
      <3> SUFFICES ASSUME NEW m \in Everything, NEW i \in 1 .. visited[m]
                   PROVE  imports[m][i] = m \/ initState'[imports[m][i]] = "DONE"
        BY <1>1 DEF Visited
      <3>1. imports[m][i] \in Everything
        BY ImportTypes
      <3> QED
        BY <2>1, <3>1 DEF OrderInv, Visited
    <2> QED
      BY <1>1, <2>2, <2>3, ImportersFirstUnchanged DEF OrderInv
  <1> QED
    BY <1>2, <1>3, RaiseTypeOK DEF CallInit

LEMMA ImportDoneOrder ==
    ASSUME TypeOK, OrderInv, NEW m \in Everything, ImportDone(m)
    PROVE  OrderInv'
  <1>1. /\ UNCHANGED <<imports, initState, overloads, phase, commands>>
        /\ visited' = [visited EXCEPT ![m] = @ + 1]
        /\ Returns(imports[m][visited[m] + 1])
        /\ m = Last(initStack)
    BY DEF ImportDone, Initialising, program
  <1>2. \/ imports[m][visited[m] + 1] = m
        \/ initState[imports[m][visited[m] + 1]] = "DONE"
    BY <1>1 DEF Returns
  <1>3. Visited'
    <2> SUFFICES ASSUME NEW y \in Everything, NEW i \in 1 .. visited'[y]
                 PROVE  imports[y][i] = y \/ initState[imports[y][i]] = "DONE"
      BY <1>1 DEF Visited
    <2>1. \/ i \in 1 .. visited[y]
          \/ y = m /\ i = visited[m] + 1
      BY <1>1, ImportTypes
    <2> QED
      BY <1>2, <2>1 DEF OrderInv, Visited
  <1> QED
    BY <1>1, <1>3, ImportersFirstUnchanged DEF OrderInv, NothingDoneYet, RegisteredIffDone

LEMMA FinishOrder ==
    ASSUME TypeOK, OrderInv, NEW m \in Everything, FinishModule(m)
    PROVE  OrderInv'
  <1>1. /\ UNCHANGED <<imports, visited, commands>>
        /\ initState' = [initState EXCEPT ![m] = "DONE"]
        /\ visited[m] = Len(imports[m])
        /\ phase = "init"
    BY DEF FinishModule, Initialising, program
  <1>2. \A y \in Everything : initState'[y] = IF y = m THEN "DONE" ELSE initState[y]
    BY <1>1, SequenceTypes
  <1>3. Visited'
    <2> SUFFICES ASSUME NEW y \in Everything, NEW i \in 1 .. visited[y]
                 PROVE  imports[y][i] = y \/ initState'[imports[y][i]] = "DONE"
      BY <1>1 DEF Visited
    <2>1. imports[y][i] \in Everything
      BY ImportTypes
    <2> QED
      BY <1>2, <2>1 DEF OrderInv, Visited
  <1>4. CASE Raised /\ UNCHANGED overloads
    BY <1>1, <1>3, <1>4, ImportersFirstUnchanged
       DEF Raised, OrderInv, NothingDoneYet, RegisteredIffDone
  <1>5. CASE overloads' = AddOverload(m) /\ phase' = phase
    <2>1. /\ Len(overloads') = Len(overloads) + 1
          /\ overloads'[1] = m
          /\ \A i \in 1 .. Len(overloads) : overloads'[i + 1] = overloads[i]
      <3>1. overloads \in Seq(Everything)
        BY SequenceTypes
      <3>2. /\ Len(Cons(m, overloads)) = Len(overloads) + 1
            /\ Cons(m, overloads)[1] = m
            /\ \A i \in 1 .. Len(overloads) : Cons(m, overloads)[i + 1] = overloads[i]
        BY <3>1, ConsOperation
      <3> QED
        BY <1>5, <3>2 DEF AddOverload
    <2>2. \A x \in Everything : (\E i \in 1 .. Len(overloads) : overloads[i] = x)
             => \E j \in 2 .. Len(overloads') : overloads'[j] = x
      <3> TAKE x \in Everything
      <3> HAVE \E i \in 1 .. Len(overloads) : overloads[i] = x
      <3>1. PICK i \in 1 .. Len(overloads) : overloads[i] = x
        OBVIOUS
      <3>2. i + 1 \in 2 .. Len(overloads')
        BY <2>1, SequenceTypes
      <3> QED
        BY <2>1, <3>1, <3>2
    <2>3. RegisteredIffDone'
      <3> SUFFICES ASSUME NEW x \in Everything, initState'[x] = "DONE"
                   PROVE  \E i \in 1 .. Len(overloads') : overloads'[i] = x
        BY DEF RegisteredIffDone
      <3>1. CASE x = m
        BY <2>1, <3>1, SequenceTypes
      <3>2. CASE x # m
        <4>1. \E j \in 2 .. Len(overloads') : overloads'[j] = x
          BY <1>1, <1>2, <2>2, <3>2 DEF OrderInv, RegisteredIffDone
        <4> QED
          BY <4>1
      <3> QED
        BY <3>1, <3>2
    <2>4. \A x \in ImportsOf(m) \ {m} : \E j \in 2 .. Len(overloads') : overloads'[j] = x
      <3> TAKE x \in ImportsOf(m) \ {m}
      <3>1. PICK k \in 1 .. Len(imports[m]) : x = imports[m][k]
        BY DEF ImportsOf
      <3>2. x \in Everything /\ initState[x] = "DONE"
        BY <1>1, <3>1, ImportTypes DEF OrderInv, Visited
      <3> QED
        BY <1>1, <2>2, <3>2 DEF OrderInv, RegisteredIffDone
    <2>5. ImportersFirst'
      <3>0. \A y : ImportsOf(y)' = ImportsOf(y)
        BY <1>1 DEF ImportsOf
      <3> SUFFICES ASSUME NEW i \in 1 .. Len(overloads'),
                          NEW x \in ImportsOf(overloads'[i]) \ {overloads'[i]}
                   PROVE  \E j \in i + 1 .. Len(overloads') : overloads'[j] = x
        BY <3>0 DEF ImportersFirst
      <3>1. CASE i = 1
        BY <2>1, <2>4, <3>1
      <3>2. CASE i # 1
        <4>1. i - 1 \in 1 .. Len(overloads) /\ (i - 1) + 1 = i
          BY <2>1, <3>2, SequenceTypes
        <4>2. overloads'[i] = overloads[i - 1]
          BY <2>1, <4>1
        <4>3. PICK j \in (i - 1) + 1 .. Len(overloads) : overloads[j] = x
          BY <4>1, <4>2 DEF OrderInv, ImportersFirst
        <4>4. j \in 1 .. Len(overloads) /\ j + 1 \in i + 1 .. Len(overloads')
          BY <2>1, <4>1, SequenceTypes
        <4> QED
          BY <2>1, <4>3, <4>4
      <3> QED
        BY <3>1, <3>2
    <2> QED
      BY <1>1, <1>3, <1>5, <2>3, <2>5 DEF OrderInv, NothingDoneYet
  <1> QED
    BY <1>4, <1>5, RaiseTypeOK DEF FinishModule

LEMMA NextOrder ==
    ASSUME MaxCommands = 0
    PROVE  TypeOK /\ OrderInv /\ [Next]_vars => OrderInv'
  <1> SUFFICES ASSUME TypeOK, OrderInv, [Next]_vars PROVE OrderInv'
    OBVIOUS
  <1>1. ASSUME UNCHANGED <<imports, initState, visited, overloads, commands>>,
               phase' # phase => phase' # "init"
               \/ (phase = "load" /\ phase' = "init"),
               phase' = "load" => phase = "load"
        PROVE  OrderInv'
    BY <1>1, ImportersFirstUnchanged DEF OrderInv, NothingDoneYet, RegisteredIffDone, Visited
  <1>2. ASSUME NEW m \in Everything, EnterModule(m) PROVE OrderInv'
    BY <1>1, <1>2, RaiseTypeOK DEF EnterModule, Raised, program
  <1>3. ASSUME NEW m \in Everything, BindImport(m) PROVE OrderInv'
    BY <1>1, <1>3, RaiseTypeOK DEF BindImport, Raised, program
  <1>4. ASSUME NEW m \in Everything, InstallModule(m) PROVE OrderInv'
    BY <1>1, <1>4 DEF InstallModule, Loading, initing, program
  <1>5. CASE InitRoot
    <2>1. Head(roots) \in Everything
      BY <1>5 DEF InitRoot, TypeOK
    <2> QED
      BY <1>5, <2>1, CallInitOrder DEF InitRoot
  <1>6. CASE RootDone
    BY <1>1, <1>6 DEF RootDone, initing, program
  <1>7. ASSUME NEW m \in Everything, InitImport(m) PROVE OrderInv'
    <2>1. imports[m][visited[m] + 1] \in Everything
      BY <1>7, ImportTypes DEF InitImport
    <2> QED
      BY <1>7, <2>1, CallInitOrder DEF InitImport, Initialising
  <1>8. ASSUME NEW m \in Everything, ImportDone(m) PROVE OrderInv'
    BY <1>8, ImportDoneOrder
  <1>9. ASSUME NEW m \in Everything, NullImport(m) PROVE OrderInv'
    BY <1>1, <1>9 DEF NullImport, initing, program
  <1>10. ASSUME NEW m \in Everything, FinishModule(m) PROVE OrderInv'
    BY <1>10, FinishOrder
  <1>11. CASE ReplImport
    BY <1>11 DEF ReplImport, OrderInv
  <1>12. CASE UNCHANGED vars
    BY <1>1, <1>12 DEF vars, initing, program
  <1> QED
    BY <1>2, <1>3, <1>4, <1>5, <1>6, <1>7, <1>8, <1>9, <1>10, <1>11, <1>12
       DEF Next, LoadStep, InitStep

(* Overload priority: in a compilation, whatever the imports and the errors,
   every registered module comes before the modules it imports. *)
THEOREM LoaderImportersFirst ==
    ASSUME MaxCommands = 0
    PROVE  Spec => []ImportersFirst
  <1>1. Init => OrderInv
    BY DEF Init, OrderInv, NothingDoneYet, RegisteredIffDone, Visited, ImportersFirst
  <1>2. TypeOK /\ OrderInv /\ [Next]_vars => OrderInv'
    BY NextOrder
  <1>3. OrderInv => ImportersFirst
    BY DEF OrderInv
  <1> QED
    BY <1>1, <1>2, <1>3, InitTypeOK, NextTypeOK, PTL DEF Spec
============================================================================
