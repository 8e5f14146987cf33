--------------------- MODULE ModuleLoaderVerdictProofs ---------------------
(* Theorems about ModuleLoader, for every set of modules and programs: what has
   been loaded and initialised when the walks of the import graph come to an end,
   or are interrupted by an error. *)
EXTENDS ModuleLoaderProofs, DataLemmas

(***************************************************************************)
(* The two walks.                                                          *)
(***************************************************************************)
(* While modules are loaded the main module waits for them; while they are
   initialised none is being loaded; and no REPL line initialises the main module. *)
Phases ==
    /\ phase = "load" => Len(loadStack) > 0 /\ loadStack[1] = Main
    /\ phase = "init" => Len(loadStack) = 0 /\ bound[Main] = Len(imports[Main])
    /\ phase \in {"load", "ready"} => Len(initStack) = 0
    /\ phase = "ready" => Len(roots) = 0
    /\ commands > 0 => /\ \A i \in 1 .. Len(initStack) : initStack[i] # Main
                       /\ \A i \in 1 .. Len(roots) : roots[i] # Main

(* An import whose loadDependent has run is loaded (but for those of the main
   module that an error interrupted), and so is a root once Main has its imports. *)
Loaded ==
    /\ Prelude \in globalModules
    /\ \A m \in Everything : m # Main \/ commands = 0 =>
          \A i \in 1 .. bound[m] : imports[m][i] \in globalModules
    /\ \A i \in 1 .. Len(roots) :
          \/ roots[i] \in {Main, Prelude}
          \/ \E j \in 1 .. Len(imports[Main]) :
                imports[Main][j] = roots[i] /\ (j <= bound[Main] => roots[i] \in globalModules)

(* Initialisation has not begun on what is not loaded, or being loaded. *)
Untouched ==
    /\ \A x \in Modules : x \notin globalModules => initState[x] = "BEFORE"
    /\ \A i \in 1 .. Len(loadStack) : loadStack[i] = Main \/ initState[loadStack[i]] = "BEFORE"

WalkInv == Phases /\ Loaded /\ Untouched

LEMMA Types ==
    ASSUME TypeOK
    PROVE  /\ loadStack \in Seq(Everything) /\ Len(loadStack) \in Nat
           /\ roots \in Seq(Everything) /\ Len(roots) \in Nat
           /\ initStack \in Seq(Everything) /\ Len(initStack) \in Nat
           /\ imports \in [Everything -> Seq(Modules)]
           /\ \A m \in Everything : \A i \in 1 .. Len(imports[m]) : imports[m][i] \in Modules
           /\ bound \in [Everything -> Nat] /\ visited \in [Everything -> Nat]
           /\ initState \in [Everything -> {"BEFORE", "RUNNING", "DONE"}]
           /\ \A i \in 1 .. Len(loadStack) : loadStack[i] \in Everything
           /\ \A i \in 1 .. Len(initStack) : initStack[i] \in Everything
           /\ \A i \in 1 .. Len(roots) : roots[i] \in Everything
           /\ globalModules \subseteq Modules
           /\ commands \in Nat
           /\ Main \in Everything /\ Prelude \in Everything /\ Prelude \in Modules
           /\ Main \notin Modules /\ \A x \in Everything : x # Main => x \in Modules
  <1>1. \A m \in Everything : imports[m] \in Seq(Modules)
    BY DEF TypeOK
  <1>2. \A m \in Everything : \A i \in 1 .. Len(imports[m]) : imports[m][i] \in Modules
    BY <1>1
  <1>3. commands \in Nat
    BY LoaderAssumption DEF TypeOK
  <1>4. /\ loadStack \in Seq(Everything) /\ roots \in Seq(Everything) /\ initStack \in Seq(Everything)
        /\ imports \in [Everything -> Seq(Modules)]
        /\ bound \in [Everything -> Nat] /\ visited \in [Everything -> Nat]
        /\ initState \in [Everything -> {"BEFORE", "RUNNING", "DONE"}]
        /\ globalModules \subseteq Modules
    BY DEF TypeOK
  <1>5. /\ Main \in Everything /\ Prelude \in Everything /\ Prelude \in Modules
        /\ Main \notin Modules /\ \A x \in Everything : x # Main => x \in Modules
    BY LoaderAssumption DEF Everything
  <1> HIDE DEF Everything
  <1>6. \A S : \A s \in Seq(S) : Len(s) \in Nat /\ \A i \in 1 .. Len(s) : s[i] \in S
    OBVIOUS
  <1> QED
    BY <1>2, <1>3, <1>4, <1>5, <1>6

(* error(): both recursions end; a compilation ends with them. *)
Cleared ==
    /\ phase' \in {"ready", "failed"} /\ (commands = 0 => phase' = "failed")
    /\ Len(loadStack') = 0 /\ Len(initStack') = 0 /\ Len(roots') = 0

LEMMA RaiseClears ==
    ASSUME TypeOK, NEW e, Raise(e)
    PROVE  Cleared /\ error' = e
  BY Types DEF Raise, Interactive, Cleared

LEMMA ClearedWalk ==
    ASSUME TypeOK, WalkInv, Cleared, UNCHANGED <<imports, initState, globalModules, commands>>,
           \A m \in Everything : m # Main \/ commands = 0 =>
              \A i \in 1 .. bound'[m] : imports[m][i] \in globalModules
    PROVE  WalkInv'
  <1>1. Phases'
    BY Types DEF Phases, Cleared
  <1>2. Loaded'
    BY Types DEF WalkInv, Loaded, Cleared
  <1>3. Untouched'
    BY Types DEF WalkInv, Untouched, Cleared
  <1> QED
    BY <1>1, <1>2, <1>3 DEF WalkInv

LEMMA InitWalk == Init => WalkInv
  <1> SUFFICES ASSUME Init PROVE WalkInv
    OBVIOUS
  <1>1. TypeOK
    BY InitTypeOK
  <1>2. /\ Len(loadStack) = 2 /\ loadStack[1] = Main /\ loadStack[2] = Prelude
        /\ Len(initStack) = 0 /\ phase = "load" /\ commands = 0
        /\ Len(roots) = 2 /\ roots[1] = Prelude /\ roots[2] = Main
        /\ \A m \in Everything : bound[m] = 0 /\ initState[m] = "BEFORE"
        /\ globalModules = {Prelude}
    BY DEF Init
  <1>3. \A x \in Modules : initState[x] = "BEFORE"
    BY <1>2 DEF Everything
  <1>4. initState[Prelude] = "BEFORE"
    BY <1>1, <1>2, Types
  <1> QED
    BY <1>1, <1>2, <1>3, <1>4 DEF WalkInv, Phases, Loaded, Untouched

LEMMA EnterModuleWalk ==
    ASSUME TypeOK, WalkInv, NEW m \in Everything, EnterModule(m) PROVE WalkInv'
  <1> DEFINE x == NextImport(m)
  <1>1. /\ phase = "load" /\ x \notin globalModules /\ bound[m] < Len(imports[m])
        /\ UNCHANGED <<imports, bound, initState, commands>>
        /\ \/ Raise("load") /\ UNCHANGED globalModules
           \/ /\ globalModules' = globalModules \cup {x}
              /\ loadStack' = Append(loadStack, x)
              /\ UNCHANGED <<error, phase, initStack, roots>>
    BY DEF EnterModule, Loading, Record, Descend, program
  <1>2. x \in Modules /\ x \in Everything
    <2>1. bound[m] + 1 \in 1 .. Len(imports[m])
      BY <1>1, ImportTypes
    <2>2. x \in Modules
      BY <2>1, Types DEF NextImport
    <2> QED
      BY <2>2 DEF Everything
  <1> HIDE DEF x
  <1>3. CASE Raise("load") /\ UNCHANGED globalModules
    <2>1. Cleared
      BY <1>3, RaiseClears
    <2>2. \A y \in Everything : y # Main \/ commands = 0 =>
             \A i \in 1 .. bound'[y] : imports[y][i] \in globalModules
      BY <1>1 DEF WalkInv, Loaded
    <2> QED
      BY <1>1, <1>3, <2>1, <2>2, ClearedWalk
  <1>4. CASE /\ globalModules' = globalModules \cup {x}
             /\ loadStack' = Append(loadStack, x)
             /\ UNCHANGED <<error, phase, initStack, roots>>
    <2>0. Len(loadStack) \in Nat /\ loadStack \in Seq(Everything)
      BY Types
    <2>1. /\ Len(loadStack') = Len(loadStack) + 1
          /\ loadStack'[Len(loadStack) + 1] = x
          /\ \A i \in 1 .. Len(loadStack) : loadStack'[i] = loadStack[i]
      BY <1>2, <1>4, <2>0
    <2>2. initState[x] = "BEFORE"
      BY <1>1, <1>2 DEF WalkInv, Untouched
    <2>3. Phases'
      BY <1>1, <1>4, <2>0, <2>1 DEF WalkInv, Phases
    <2>4. Loaded'
      BY <1>1, <1>4 DEF WalkInv, Loaded
    <2>5. Untouched'
      <3>1. \A i \in 1 .. Len(loadStack') : i \in 1 .. Len(loadStack) \/ i = Len(loadStack) + 1
        BY <2>0, <2>1
      <3> QED
        BY <1>1, <1>4, <2>1, <2>2, <3>1 DEF WalkInv, Untouched
    <2> QED
      BY <2>3, <2>4, <2>5 DEF WalkInv
  <1> QED
    BY <1>1, <1>3, <1>4

LEMMA BindImportWalk ==
    ASSUME TypeOK, WalkInv, NEW m \in Everything, BindImport(m) PROVE WalkInv'
  <1>1. /\ phase = "load" /\ bound[m] < Len(imports[m])
        /\ imports[m][bound[m] + 1] \in globalModules
        /\ bound' = [bound EXCEPT ![m] = @ + 1]
        /\ UNCHANGED <<imports, globalModules, initState, commands>>
        /\ Raise("clash") \/ UNCHANGED <<error, phase, initStack, roots, loadStack>>
    BY DEF BindImport, Loading, NextImport, Bind, program
  <1>2. \A y \in Everything : /\ bound[y] \in Nat
                              /\ bound'[y] = IF y = m THEN bound[m] + 1 ELSE bound[y]
    BY <1>1, Types
  <1>3. ASSUME NEW y \in Everything, y # Main \/ commands = 0, NEW i \in 1 .. bound'[y]
        PROVE  imports[y][i] \in globalModules
    <2>1. i \in 1 .. bound[y] \/ (y = m /\ i = bound[m] + 1)
      BY <1>2
    <2> QED
      BY <1>1, <1>3, <2>1 DEF WalkInv, Loaded
  <1>4. CASE Raise("clash")
    <2>1. Cleared
      BY <1>4, RaiseClears
    <2> QED
      BY <1>1, <1>3, <2>1, ClearedWalk
  <1>5. CASE UNCHANGED <<error, phase, initStack, roots, loadStack>>
    <2>1. Phases'
      BY <1>1, <1>5 DEF WalkInv, Phases
    <2>2. \A i \in 1 .. Len(roots) :
             \/ roots[i] \in {Main, Prelude}
             \/ \E j \in 1 .. Len(imports[Main]) :
                   imports[Main][j] = roots[i] /\ (j <= bound'[Main] => roots[i] \in globalModules)
      <3> TAKE i \in 1 .. Len(roots)
      <3>1. CASE roots[i] \notin {Main, Prelude}
        <4>1. PICK j \in 1 .. Len(imports[Main]) :
                 imports[Main][j] = roots[i] /\ (j <= bound[Main] => roots[i] \in globalModules)
          BY <3>1 DEF WalkInv, Loaded
        <4>2. j <= bound'[Main] => j <= bound[Main] \/ (m = Main /\ j = bound[m] + 1)
          <5>1. Main \in Everything
            BY Types
          <5> QED
            BY <1>2, <5>1
        <4> QED
          BY <1>1, <4>1, <4>2
      <3> QED
        BY <3>1
    <2>3. Loaded'
      BY <1>1, <1>3, <1>5, <2>2 DEF WalkInv, Loaded
    <2>4. Untouched'
      BY <1>1, <1>5 DEF WalkInv, Untouched
    <2> QED
      BY <2>1, <2>3, <2>4 DEF WalkInv
  <1> QED
    BY <1>1, <1>4, <1>5

LEMMA InstallModuleWalk ==
    ASSUME TypeOK, WalkInv, NEW m \in Everything, InstallModule(m) PROVE WalkInv'
  <1>1. /\ phase = "load" /\ loadStack # <<>> /\ m = Last(loadStack) /\ bound[m] = Len(imports[m])
        /\ loadStack' = Front(loadStack)
        /\ phase' = IF Len(loadStack) = 1 THEN "init" ELSE "load"
        /\ UNCHANGED <<imports, globalModules, bound, initState, initStack, roots, commands>>
    BY DEF InstallModule, Loading, initing, program
  <1>2. /\ Len(loadStack) \in Nat \ {0} /\ loadStack[1] = Main
        /\ m = loadStack[Len(loadStack)]
        /\ Len(loadStack') = Len(loadStack) - 1
        /\ \A i \in 1 .. Len(loadStack) - 1 : loadStack'[i] = loadStack[i]
    <2>1. loadStack \in Seq(Everything) /\ Len(loadStack) > 0 /\ Len(loadStack) \in Nat
      BY <1>1, Types DEF WalkInv, Phases
    <2>2. /\ Len(Front(loadStack)) = Len(loadStack) - 1
          /\ \A i \in 1 .. Len(loadStack) - 1 : Front(loadStack)[i] = loadStack[i]
      BY <1>1, <2>1, StackOperations
    <2>3. loadStack[1] = Main
      BY <1>1 DEF WalkInv, Phases
    <2> QED
      BY <1>1, <2>1, <2>2, <2>3 DEF Last
  <1>3. Phases'
    BY <1>1, <1>2 DEF WalkInv, Phases
  <1>4. Loaded'
    BY <1>1 DEF WalkInv, Loaded
  <1>5. Untouched'
    BY <1>1, <1>2 DEF WalkInv, Untouched
  <1> QED
    BY <1>3, <1>4, <1>5 DEF WalkInv

LEMMA CallInitWalk ==
    ASSUME TypeOK, WalkInv, phase = "init", NEW x \in Everything, CallInit(x),
           x = Main \/ x \in globalModules, commands > 0 => x # Main
    PROVE  WalkInv'
  <1>1. /\ UNCHANGED <<imports, globalModules, bound, commands>>
        /\ \/ (Raise("misnamed") \/ Raise("loop")) /\ UNCHANGED initState
           \/ /\ initState' = [initState EXCEPT ![x] = "RUNNING"]
              /\ initStack' = Append(initStack, x)
              /\ UNCHANGED <<error, phase, roots, loadStack>>
    BY DEF CallInit, program
  <1>2. CASE (Raise("misnamed") \/ Raise("loop")) /\ UNCHANGED initState
    <2>1. Cleared
      BY <1>2, RaiseClears
    <2>2. \A y \in Everything : y # Main \/ commands = 0 =>
             \A i \in 1 .. bound'[y] : imports[y][i] \in globalModules
      BY <1>1 DEF WalkInv, Loaded
    <2> QED
      BY <1>1, <1>2, <2>1, <2>2, ClearedWalk
  <1>3. CASE /\ initState' = [initState EXCEPT ![x] = "RUNNING"]
             /\ initStack' = Append(initStack, x)
             /\ UNCHANGED <<error, phase, roots, loadStack>>
    <2>0. Len(initStack) \in Nat /\ initStack \in Seq(Everything)
      BY Types
    <2>1. /\ Len(initStack') = Len(initStack) + 1
          /\ initStack'[Len(initStack) + 1] = x
          /\ \A i \in 1 .. Len(initStack) : initStack'[i] = initStack[i]
      BY <1>3, <2>0
    <2>2. \A i \in 1 .. Len(initStack') : i \in 1 .. Len(initStack) \/ i = Len(initStack) + 1
      BY <2>0, <2>1
    <2>3. Phases'
      BY <1>1, <1>3, <2>1, <2>2 DEF WalkInv, Phases
    <2>4. Loaded'
      BY <1>1, <1>3 DEF WalkInv, Loaded
    <2>5. \A y \in Modules : y \notin globalModules => initState'[y] = "BEFORE"
      <3>1. \A y \in Everything : initState'[y] = IF y = x THEN "RUNNING" ELSE initState[y]
        BY <1>3, Types
      <3>2. Modules \subseteq Everything /\ Main \notin Modules
        BY Types DEF Everything
      <3> QED
        BY <3>1, <3>2 DEF WalkInv, Untouched
    <2>6. Len(loadStack') = 0
      BY <1>3 DEF WalkInv, Phases
    <2>7. Untouched'
      BY <1>1, <2>5, <2>6 DEF Untouched
    <2> QED
      BY <2>3, <2>4, <2>7 DEF WalkInv
  <1> QED
    BY <1>1, <1>2, <1>3

LEMMA InitRootWalk == TypeOK /\ WalkInv /\ InitRoot => WalkInv'
  <1> SUFFICES ASSUME TypeOK, WalkInv, InitRoot PROVE WalkInv'
    OBVIOUS
  <1> DEFINE x == roots[1]
  <1>1. phase = "init" /\ roots # <<>> /\ CallInit(Head(roots))
    BY DEF InitRoot
  <1>2. roots \in Seq(Everything) /\ Len(roots) \in Nat
    BY Types
  <1>3. Len(roots) > 0 /\ Head(roots) = x /\ x \in Everything
    BY <1>1, <1>2
  <1>4. 1 \in 1 .. Len(roots)
    BY <1>2, <1>3
  <1>5. x = Main \/ x \in globalModules
    <2>1. bound[Main] = Len(imports[Main]) /\ Len(imports[Main]) \in Nat
      <3>1. Len(imports[Main]) \in Nat
        BY ImportTypes, Types
      <3> QED
        BY <1>1, <3>1 DEF WalkInv, Phases
    <2> QED
      BY <1>4, <2>1 DEF WalkInv, Loaded
  <1>6. commands > 0 => x # Main
    BY <1>4 DEF WalkInv, Phases
  <1> HIDE DEF x
  <1> QED
    BY <1>1, <1>3, <1>5, <1>6, CallInitWalk

LEMMA RootDoneWalk == TypeOK /\ WalkInv /\ RootDone => WalkInv'
  <1> SUFFICES ASSUME TypeOK, WalkInv, RootDone PROVE WalkInv'
    OBVIOUS
  <1>1. /\ phase = "init" /\ roots # <<>> /\ initStack = <<>> /\ roots' = Tail(roots)
        /\ phase' = IF Len(roots) = 1 THEN "ready" ELSE "init"
        /\ UNCHANGED <<imports, globalModules, bound, loadStack, initState, initStack, commands>>
    BY DEF RootDone, loading, initing, program
  <1>2. roots \in Seq(Everything) /\ Len(roots) \in Nat /\ Len(initStack) = 0
    BY <1>1, Types
  <1>3. /\ Len(roots') = Len(roots) - 1
        /\ \A i \in 1 .. Len(roots') : roots'[i] = roots[i + 1] /\ i + 1 \in 1 .. Len(roots)
    BY <1>1, <1>2
  <1>4. Phases'
    BY <1>1, <1>2, <1>3 DEF WalkInv, Phases
  <1>5. Loaded'
    BY <1>1, <1>3 DEF WalkInv, Loaded
  <1>6. Untouched'
    BY <1>1 DEF WalkInv, Untouched
  <1> QED
    BY <1>4, <1>5, <1>6 DEF WalkInv

(* The call that is initialising m, and the import it has come to. *)
LEMMA InitialisingFacts ==
    ASSUME TypeOK, WalkInv, RegisterInv, NEW m \in Everything, Initialising(m)
    PROVE  /\ phase = "init" /\ initStack \in Seq(Everything) /\ Len(initStack) \in Nat \ {0}
           /\ m = initStack[Len(initStack)]
           /\ initState[m] = "RUNNING"
           /\ m = Main \/ m \in globalModules
           /\ m = Main => commands = 0
           /\ visited[m] < bound[m] =>
                 /\ imports[m][visited[m] + 1] \in globalModules
                 /\ imports[m][visited[m] + 1] \in Modules
                 /\ imports[m][visited[m] + 1] \in Everything
  <1>1. phase = "init" /\ initStack # <<>> /\ m = Last(initStack)
    BY DEF Initialising
  <1>2. initStack \in Seq(Everything) /\ Len(initStack) \in Nat
    BY Types
  <1>3. Len(initStack) \in Nat \ {0} /\ m = initStack[Len(initStack)] /\ Len(initStack) \in 1 .. Len(initStack)
    BY <1>1, <1>2 DEF Last
  <1>4. initState[m] = "RUNNING"
    BY <1>3 DEF RegisterInv, Chain
  <1>5. m = Main \/ m \in globalModules
    BY <1>4, Types DEF WalkInv, Untouched
  <1>6. m = Main => commands = 0
    <2>1. commands \in Nat
      BY Types
    <2>2. commands > 0 => m # Main
      BY <1>3 DEF WalkInv, Phases
    <2> QED
      BY <2>1, <2>2
  <1>7. ASSUME visited[m] < bound[m]
        PROVE  /\ imports[m][visited[m] + 1] \in globalModules
               /\ imports[m][visited[m] + 1] \in Modules
               /\ imports[m][visited[m] + 1] \in Everything
    <2>1. visited[m] + 1 \in 1 .. bound[m]
      BY <1>7, ImportTypes
    <2>2. imports[m][visited[m] + 1] \in globalModules
      BY <1>6, <2>1 DEF WalkInv, Loaded
    <2>3. globalModules \subseteq Modules
      BY Types
    <2> QED
      BY <2>2, <2>3 DEF Everything
  <1> QED
    BY <1>1, <1>2, <1>3, <1>4, <1>5, <1>6, <1>7

LEMMA FinishModuleWalk ==
    ASSUME TypeOK, WalkInv, RegisterInv, NEW m \in Everything, FinishModule(m) PROVE WalkInv'
  <1>1. /\ Initialising(m)
        /\ UNCHANGED <<imports, globalModules, bound, commands>>
        /\ initState' = [initState EXCEPT ![m] = "DONE"]
        /\ \/ Raise("item")
           \/ /\ initStack' = Front(initStack)
              /\ UNCHANGED <<error, phase, roots, loadStack>>
    BY DEF FinishModule, program
  <1>2. /\ phase = "init" /\ initStack \in Seq(Everything) /\ Len(initStack) \in Nat \ {0}
        /\ m = Main \/ m \in globalModules
    BY <1>1, InitialisingFacts
  <1>3. \A y \in Modules : y \notin globalModules => initState'[y] = "BEFORE"
    <2>1. \A y \in Everything : initState'[y] = IF y = m THEN "DONE" ELSE initState[y]
      BY <1>1, Types
    <2>2. Modules \subseteq Everything /\ Main \notin Modules
      BY Types DEF Everything
    <2> QED
      BY <1>2, <2>1, <2>2 DEF WalkInv, Untouched
  <1>4. CASE Raise("item")
    <2>1. Cleared
      BY <1>4, RaiseClears
    <2>2. Phases'
      BY <1>1, <2>1, Types DEF Phases, Cleared
    <2>3. Loaded'
      <3>1. \A i \in 1 .. Len(roots') : FALSE
        BY <2>1 DEF Cleared
      <3> QED
        BY <1>1, <3>1 DEF WalkInv, Loaded
    <2>4. Untouched'
      BY <1>1, <1>3, <2>1 DEF Untouched, Cleared
    <2> QED
      BY <2>2, <2>3, <2>4 DEF WalkInv
  <1>5. CASE initStack' = Front(initStack) /\ UNCHANGED <<error, phase, roots, loadStack>>
    <2>1. /\ Len(initStack') = Len(initStack) - 1
          /\ \A i \in 1 .. Len(initStack) - 1 : initStack'[i] = initStack[i]
      BY <1>2, <1>5, StackOperations
    <2>2. Phases'
      <3>1. \A i \in 1 .. Len(initStack') : i \in 1 .. Len(initStack) /\ i \in 1 .. Len(initStack) - 1
        BY <1>2, <2>1
      <3>2. commands > 0 => \A i \in 1 .. Len(initStack') : initStack'[i] # Main
        BY <2>1, <3>1 DEF WalkInv, Phases
      <3> QED
        BY <1>1, <1>2, <1>5, <3>2 DEF WalkInv, Phases
    <2>3. Loaded'
      BY <1>1, <1>5 DEF WalkInv, Loaded
    <2>4. Len(loadStack') = 0
      BY <1>2, <1>5 DEF WalkInv, Phases
    <2>5. Untouched'
      BY <1>1, <1>3, <2>4 DEF Untouched
    <2> QED
      BY <2>2, <2>3, <2>5 DEF WalkInv
  <1> QED
    BY <1>1, <1>4, <1>5

(* What a line of imports does to the main module: its imports grow by the line. *)
LEMMA LineAppended ==
    ASSUME TypeOK, ReplImport
    PROVE  \E line \in Seq(Modules) :
              /\ roots' = line
              /\ Len(imports'[Main]) = Len(imports[Main]) + Len(line)
              /\ Len(imports[Main]) \in Nat /\ Len(line) \in Nat
              /\ \A i \in 1 .. Len(imports[Main]) : imports'[Main][i] = imports[Main][i]
              /\ \A i \in 1 .. Len(line) : imports'[Main][Len(imports[Main]) + i] = line[i]
              /\ \A m \in Everything \ {Main} : imports'[m] = imports[m]
  <1>1. PICK line \in Commands :
           imports' = [imports EXCEPT ![Main] = @ \o line] /\ roots' = line
    BY DEF ReplImport
  <1>2. line \in Seq(Modules) /\ Len(line) \in Nat
    BY LoaderAssumption
  <1>3. imports[Main] \in Seq(Modules) /\ Main \in Everything /\ Len(imports[Main]) \in Nat
    <2>1. Main \in Everything /\ imports \in [Everything -> Seq(Modules)]
      BY Types
    <2>2. imports[Main] \in Seq(Modules)
      BY <2>1
    <2> QED
      BY <2>1, <2>2
  <1>4. imports'[Main] = imports[Main] \o line /\ \A m \in Everything \ {Main} : imports'[m] = imports[m]
    BY <1>1, <1>3, Types
  <1>5. /\ Len(imports[Main] \o line) = Len(imports[Main]) + Len(line)
        /\ \A i \in 1 .. Len(imports[Main]) : (imports[Main] \o line)[i] = imports[Main][i]
        /\ \A i \in 1 .. Len(line) : (imports[Main] \o line)[Len(imports[Main]) + i] = line[i]
    BY <1>2, <1>3
  <1> QED
    BY <1>1, <1>2, <1>3, <1>4, <1>5

LEMMA ReplImportWalk == TypeOK /\ WalkInv /\ ReplImport => WalkInv'
  <1> SUFFICES ASSUME TypeOK, WalkInv, ReplImport PROVE WalkInv'
    OBVIOUS
  <1>1. /\ phase = "ready" /\ phase' = "load" /\ commands' = commands + 1 /\ loadStack' = <<Main>>
        /\ bound' = [bound EXCEPT ![Main] = Len(imports[Main])]
        /\ UNCHANGED <<globalModules, initState, initStack>>
    BY DEF ReplImport, initing
  <1>2. PICK line \in Seq(Modules) :
              /\ roots' = line
              /\ Len(imports'[Main]) = Len(imports[Main]) + Len(line)
              /\ Len(imports[Main]) \in Nat /\ Len(line) \in Nat
              /\ \A i \in 1 .. Len(imports[Main]) : imports'[Main][i] = imports[Main][i]
              /\ \A i \in 1 .. Len(line) : imports'[Main][Len(imports[Main]) + i] = line[i]
              /\ \A m \in Everything \ {Main} : imports'[m] = imports[m]
    BY LineAppended
  <1>3. /\ commands \in Nat /\ Main \in Everything /\ Main \notin Modules
        /\ bound \in [Everything -> Nat]
    BY Types
  <1>4. Len(loadStack') = 1 /\ loadStack'[1] = Main /\ Len(initStack') = 0 /\ commands' > 0
    BY <1>1, <1>3 DEF WalkInv, Phases
  <1>5. \A i \in 1 .. Len(roots') : roots'[i] # Main
    BY <1>2, <1>3
  <1>6. bound'[Main] = Len(imports[Main]) /\ \A m \in Everything \ {Main} : bound'[m] = bound[m]
    BY <1>1, <1>3
  <1>7. Phases'
    BY <1>1, <1>4, <1>5 DEF Phases
  <1>8. \A i \in 1 .. Len(roots') : \E j \in 1 .. Len(imports'[Main]) :
           imports'[Main][j] = roots'[i] /\ (j <= bound'[Main] => roots'[i] \in globalModules')
    <2> TAKE i \in 1 .. Len(roots')
    <2> DEFINE j == Len(imports[Main]) + i
    <2>1. /\ j \in 1 .. Len(imports'[Main]) /\ imports'[Main][j] = roots'[i]
          /\ ~(j <= bound'[Main])
      BY <1>2, <1>6
    <2> QED
      BY <2>1
  <1>9. ASSUME NEW m \in Everything, m # Main \/ commands' = 0, NEW i \in 1 .. bound'[m]
        PROVE  imports'[m][i] \in globalModules
    <2>1. m # Main
      BY <1>4, <1>9
    <2> QED
      BY <1>2, <1>6, <1>9, <2>1 DEF WalkInv, Loaded
  <1>10. Loaded'
    BY <1>1, <1>8, <1>9 DEF WalkInv, Loaded
  <1>11. Untouched'
    BY <1>1, <1>4 DEF WalkInv, Untouched
  <1> QED
    BY <1>7, <1>10, <1>11 DEF WalkInv

LEMMA NextWalk == TypeOK /\ RegisterInv /\ WalkInv /\ [Next]_vars => WalkInv'
  <1> SUFFICES ASSUME TypeOK, RegisterInv, WalkInv, [Next]_vars PROVE WalkInv'
    OBVIOUS
  <1>1. ASSUME UNCHANGED <<imports, globalModules, bound, loadStack, initState, initStack, roots, commands>>,
               phase' = phase \/ phase' = "crashed"
        PROVE  WalkInv'
    BY <1>1 DEF WalkInv, Phases, Loaded, Untouched
  <1>2. ASSUME NEW m \in Everything, EnterModule(m) \/ BindImport(m) \/ InstallModule(m) PROVE WalkInv'
    BY <1>2, EnterModuleWalk, BindImportWalk, InstallModuleWalk
  <1>3. CASE InitRoot \/ RootDone \/ ReplImport
    BY <1>3, InitRootWalk, RootDoneWalk, ReplImportWalk
  <1>4. ASSUME NEW m \in Everything, InitImport(m) PROVE WalkInv'
    <2>1. Initialising(m) /\ visited[m] < bound[m] /\ CallInit(imports[m][visited[m] + 1])
      BY <1>4 DEF InitImport
    <2> DEFINE x == imports[m][visited[m] + 1]
    <2>2. phase = "init" /\ x \in globalModules /\ x \in Modules /\ x \in Everything
      BY <2>1, InitialisingFacts
    <2>3. x # Main
      BY <2>2, Types
    <2> HIDE DEF x
    <2>4. CallInit(x)
      BY <2>1 DEF x
    <2> QED
      BY <2>2, <2>3, <2>4, CallInitWalk
  <1>5. ASSUME NEW m \in Everything, ImportDone(m) PROVE WalkInv'
    BY <1>1, <1>5 DEF ImportDone, loading, program
  <1>6. ASSUME NEW m \in Everything, NullImport(m) PROVE WalkInv'
    BY <1>1, <1>6 DEF NullImport, loading, initing, program
  <1>7. ASSUME NEW m \in Everything, FinishModule(m) PROVE WalkInv'
    BY <1>7, FinishModuleWalk
  <1>8. CASE UNCHANGED vars
    BY <1>1, <1>8 DEF vars, loading, initing, program
  <1> QED
    BY <1>2, <1>3, <1>4, <1>5, <1>6, <1>7, <1>8 DEF Next, LoadStep, InitStep

LEMMA SpecWalk == Spec => [](TypeOK /\ RegisterInv /\ WalkInv)
  BY InitTypeOK, NextTypeOK, InitWalk, NextWalk, SpecRegister, PTL DEF Spec

(***************************************************************************)
(* In any session, after any errors.                                       *)
(***************************************************************************)
(* A module that is DONE is registered unless it could not be, and a registered
   one has been through all of its imports. *)
DoneAccounted ==
    \A x \in Modules : initState[x] = "DONE" =>
        \/ \E i \in 1 .. Len(overloads) : overloads[i] = x
        \/ defect[x] # "none" \/ x \notin installed

AllVisited ==
    \A i \in 1 .. Len(overloads) :
        overloads[i] # Main => visited[overloads[i]] = Len(imports[overloads[i]])

Accounted == DoneAccounted /\ AllVisited /\ Visited

LEMMA AccountedKept ==
    ASSUME TypeOK, Accounted, UNCHANGED <<defect, visited, overloads>>,
           \A x \in Everything : initState'[x] = "DONE" <=> initState[x] = "DONE",
           \A x \in Modules : initState[x] = "DONE" /\ x \in installed' => x \in installed,
           \A m \in Everything \ {Main} : imports'[m] = imports[m],
           \A i \in 1 .. visited[Main] : imports'[Main][i] = imports[Main][i]
    PROVE  Accounted'
  <1>1. /\ Modules \subseteq Everything /\ Main \in Everything
        /\ \A i \in 1 .. Len(overloads) : overloads[i] \in Everything
    BY Types, SequenceTypes DEF Everything
  <1>2. DoneAccounted'
    BY <1>1 DEF Accounted, DoneAccounted
  <1>3. AllVisited'
    BY <1>1 DEF Accounted, AllVisited
  <1>4. ASSUME NEW m \in Everything, NEW i \in 1 .. visited[m]
        PROVE  imports'[m][i] = m \/ initState'[imports'[m][i]] = "DONE"
    <2>1. imports'[m][i] = imports[m][i]
      BY <1>1
    <2>2. imports[m][i] \in Everything
      BY ImportTypes
    <2> QED
      BY <2>1, <2>2 DEF Accounted, Visited
  <1>5. Visited'
    BY <1>4 DEF Visited
  <1> QED
    BY <1>2, <1>3, <1>5 DEF Accounted

LEMMA CallInitAccounted ==
    ASSUME TypeOK, Accounted, NEW x \in Everything, CallInit(x) PROVE Accounted'
  <1>1. /\ UNCHANGED <<imports, defect, installed, visited, overloads>>
        /\ initState[x] # "DONE"
        /\ initState' = initState \/ initState' = [initState EXCEPT ![x] = "RUNNING"]
    BY DEF CallInit, Returns, program
  <1>2. \A y \in Everything : initState'[y] = "DONE" <=> initState[y] = "DONE"
    BY <1>1, Types
  <1> QED
    BY <1>1, <1>2, AccountedKept

LEMMA ImportDoneAccounted ==
    ASSUME TypeOK, WalkInv, RegisterInv, Accounted, NEW m \in Everything, ImportDone(m) PROVE Accounted'
  <1>1. /\ Initialising(m) /\ visited[m] < bound[m] /\ Returns(imports[m][visited[m] + 1])
        /\ m = Last(initStack)
        /\ visited' = [visited EXCEPT ![m] = @ + 1]
        /\ UNCHANGED <<imports, defect, installed, initState, overloads>>
    BY DEF ImportDone, Initialising, loading, program
  <1>2. initState[m] = "RUNNING"
    BY <1>1, InitialisingFacts
  <1>3. \A y \in Everything : visited[y] \in Nat /\ visited'[y] = IF y = m THEN visited[m] + 1 ELSE visited[y]
    BY <1>1, Types
  <1>4. \A i \in 1 .. Len(overloads) : overloads[i] \in Everything /\ overloads[i] # m
    BY <1>2, SequenceTypes DEF RegisterInv, RegisteredDone
  <1>5. DoneAccounted' /\ AllVisited'
    BY <1>1, <1>3, <1>4 DEF Accounted, DoneAccounted, AllVisited
  <1>6. imports[m][visited[m] + 1] = m \/ initState[imports[m][visited[m] + 1]] = "DONE"
    BY <1>1 DEF Returns
  <1>7. ASSUME NEW y \in Everything, NEW i \in 1 .. visited'[y]
        PROVE  imports[y][i] = y \/ initState[imports[y][i]] = "DONE"
    <2>1. i \in 1 .. visited[y] \/ (y = m /\ i = visited[m] + 1)
      BY <1>3
    <2> QED
      BY <1>6, <2>1 DEF Accounted, Visited
  <1>8. Visited'
    BY <1>1, <1>7 DEF Visited
  <1> QED
    BY <1>5, <1>8 DEF Accounted

LEMMA FinishModuleAccounted ==
    ASSUME TypeOK, Accounted, NEW m \in Everything, FinishModule(m) PROVE Accounted'
  <1>1. /\ visited[m] = Len(imports[m])
        /\ initState' = [initState EXCEPT ![m] = "DONE"]
        /\ UNCHANGED <<imports, defect, installed, visited>>
        /\ \/ (defect[m] = "badItem" \/ m \notin installed) /\ overloads' = overloads
           \/ overloads' = Cons(m, overloads)
    BY DEF FinishModule, AddOverload, program
  <1>2. \A y \in Everything : initState'[y] = IF y = m THEN "DONE" ELSE initState[y]
    BY <1>1, Types
  <1>3. Modules \subseteq Everything
    BY DEF Everything
  <1>4. Visited'
    <2>1. ASSUME NEW y \in Everything, NEW i \in 1 .. visited[y]
          PROVE  imports[y][i] = y \/ initState'[imports[y][i]] = "DONE"
      <3>1. imports[y][i] \in Everything
        BY ImportTypes
      <3> QED
        BY <1>2, <3>1 DEF Accounted, Visited
    <2> QED
      BY <1>1, <2>1 DEF Visited
  <1>5. CASE (defect[m] = "badItem" \/ m \notin installed) /\ overloads' = overloads
    <2>1. DoneAccounted'
      BY <1>1, <1>2, <1>3, <1>5 DEF Accounted, DoneAccounted
    <2>2. AllVisited'
      BY <1>1, <1>5 DEF Accounted, AllVisited
    <2> QED
      BY <1>4, <2>1, <2>2 DEF Accounted
  <1>6. CASE overloads' = Cons(m, overloads)
    <2>1. overloads \in Seq(Everything) /\ Len(overloads) \in Nat
      BY SequenceTypes
    <2>2. /\ Len(overloads') = Len(overloads) + 1 /\ overloads'[1] = m
          /\ \A i \in 1 .. Len(overloads) : overloads'[i + 1] = overloads[i]
      BY <1>6, <2>1, ConsOperation
    <2>3. \A i \in 1 .. Len(overloads') :
             \/ i = 1
             \/ \E k \in 1 .. Len(overloads) : overloads'[i] = overloads[k]
      <3> TAKE i \in 1 .. Len(overloads')
      <3>1. i = 1 \/ (i - 1 \in 1 .. Len(overloads) /\ i = i - 1 + 1)
        BY <2>1, <2>2
      <3> QED
        BY <2>2, <3>1
    <2>4. AllVisited'
      BY <1>1, <2>2, <2>3 DEF Accounted, AllVisited
    <2>5. ASSUME NEW x \in Modules, initState'[x] = "DONE"
          PROVE  \/ \E i \in 1 .. Len(overloads') : overloads'[i] = x
                 \/ defect[x] # "none" \/ x \notin installed
      <3>1. CASE x = m
        <4>1. 1 \in 1 .. Len(overloads') /\ overloads'[1] = x
          BY <2>1, <2>2, <3>1
        <4> QED
          BY <4>1
      <3>2. CASE x # m /\ \E i \in 1 .. Len(overloads) : overloads[i] = x
        <4>1. PICK i \in 1 .. Len(overloads) : overloads[i] = x
          BY <3>2
        <4>2. i + 1 \in 1 .. Len(overloads') /\ overloads'[i + 1] = x
          BY <2>1, <2>2, <4>1
        <4> QED
          BY <4>2
      <3>3. CASE x # m /\ ~ \E i \in 1 .. Len(overloads) : overloads[i] = x
        <4>1. initState[x] = "DONE"
          BY <1>2, <1>3, <2>5, <3>3
        <4> QED
          BY <3>3, <4>1 DEF Accounted, DoneAccounted
      <3> QED
        BY <3>1, <3>2, <3>3
    <2>6. DoneAccounted'
      BY <1>1, <2>5 DEF DoneAccounted
    <2> QED
      BY <1>4, <2>4, <2>6 DEF Accounted
  <1> QED
    BY <1>1, <1>5, <1>6

LEMMA NextAccounted ==
    TypeOK /\ RegisterInv /\ WalkInv /\ Accounted /\ [Next]_vars => Accounted'
  <1> SUFFICES ASSUME TypeOK, RegisterInv, WalkInv, Accounted, [Next]_vars PROVE Accounted'
    OBVIOUS
  <1>1. ASSUME UNCHANGED <<imports, defect, installed, initState, visited, overloads>> PROVE Accounted'
    BY <1>1, AccountedKept
  <1>2. ASSUME NEW m \in Everything, EnterModule(m) \/ BindImport(m) PROVE Accounted'
    BY <1>1, <1>2 DEF EnterModule, BindImport, program
  <1>3. ASSUME NEW m \in Everything, InstallModule(m) PROVE Accounted'
    <2>1. /\ loadStack # <<>> /\ m = Last(loadStack) /\ installed' = installed \cup {m}
          /\ UNCHANGED <<imports, defect, initState, visited, overloads>>
      BY <1>3 DEF InstallModule, Loading, initing, program
    <2>2. loadStack \in Seq(Everything) /\ Len(loadStack) \in Nat /\ Main \notin Modules
      BY Types
    <2>3. m = loadStack[Len(loadStack)] /\ Len(loadStack) \in 1 .. Len(loadStack)
      BY <2>1, <2>2 DEF Last
    <2>4. m = Main \/ initState[m] = "BEFORE"
      BY <2>3 DEF WalkInv, Untouched
    <2>5. \A x \in Modules : initState[x] = "DONE" /\ x \in installed' => x \in installed
      BY <2>1, <2>2, <2>4
    <2> QED
      BY <2>1, <2>5, AccountedKept
  <1>4. CASE InitRoot
    <2>1. Head(roots) \in Everything /\ CallInit(Head(roots))
      BY <1>4 DEF InitRoot, TypeOK
    <2> QED
      BY <2>1, CallInitAccounted
  <1>5. CASE RootDone
    BY <1>1, <1>5 DEF RootDone, loading, initing, program
  <1>6. ASSUME NEW m \in Everything, InitImport(m) PROVE Accounted'
    <2>1. imports[m][visited[m] + 1] \in Everything /\ CallInit(imports[m][visited[m] + 1])
      BY <1>6, InitialisingFacts DEF InitImport
    <2> QED
      BY <2>1, CallInitAccounted
  <1>7. ASSUME NEW m \in Everything, ImportDone(m) PROVE Accounted'
    BY <1>7, ImportDoneAccounted
  <1>8. ASSUME NEW m \in Everything, NullImport(m) PROVE Accounted'
    BY <1>1, <1>8 DEF NullImport, loading, initing, program
  <1>9. ASSUME NEW m \in Everything, FinishModule(m) PROVE Accounted'
    BY <1>9, FinishModuleAccounted
  <1>10. CASE ReplImport
    <2>1. UNCHANGED <<defect, installed, initState, visited, overloads>>
      BY <1>10 DEF ReplImport, initing
    <2>2. /\ \A i \in 1 .. Len(imports[Main]) : imports'[Main][i] = imports[Main][i]
          /\ \A m \in Everything \ {Main} : imports'[m] = imports[m]
      BY <1>10, LineAppended
    <2>3. \A i \in 1 .. visited[Main] : i \in 1 .. Len(imports[Main])
      BY ImportTypes, Types
    <2>4. \A i \in 1 .. visited[Main] : imports'[Main][i] = imports[Main][i]
      BY <2>2, <2>3
    <2> QED
      BY <2>1, <2>2, <2>4, AccountedKept
  <1>11. CASE UNCHANGED vars
    BY <1>1, <1>11 DEF vars, loading, initing, program
  <1> QED
    BY <1>2, <1>3, <1>4, <1>5, <1>6, <1>7, <1>8, <1>9, <1>10, <1>11 DEF Next, LoadStep, InitStep

LEMMA AccountedProperty ==
    ASSUME TypeOK, Accounted PROVE ImportsRegisteredOrBroken
  <1> SUFFICES ASSUME NEW m \in ToSet(overloads) \ {Main}, NEW x \in ImportsOf(m) \ {m}
               PROVE  x \in ToSet(overloads) \/ defect[x] # "none" \/ x \notin installed
    BY DEF ImportsRegisteredOrBroken
  <1>1. overloads \in Seq(Everything) /\ DOMAIN overloads = 1 .. Len(overloads)
    BY SequenceTypes
  <1>2. PICK k \in 1 .. Len(overloads) : overloads[k] = m
    BY <1>1 DEF ToSet
  <1>3. m \in Everything
    BY <1>2, SequenceTypes
  <1>4. PICK i \in 1 .. Len(imports[m]) : imports[m][i] = x
    BY DEF ImportsOf
  <1>5. i \in 1 .. visited[m]
    BY <1>2 DEF Accounted, AllVisited
  <1>6. initState[x] = "DONE"
    BY <1>3, <1>4, <1>5 DEF Accounted, Visited
  <1>7. x \in Modules
    BY <1>3, <1>4, Types
  <1>8. (\E j \in 1 .. Len(overloads) : overloads[j] = x) => x \in ToSet(overloads)
    BY <1>1 DEF ToSet
  <1> QED
    BY <1>6, <1>7, <1>8 DEF Accounted, DoneAccounted

(* Whatever a session imports and whatever errors interrupt it, an import of a
   registered module is registered as well, unless it has an error of its own or
   its loading was interrupted: `state = DONE` before the items are processed
   loses no other module. (initModule, loadImports.) *)
THEOREM LoaderImportsRegisteredOrBroken == Spec => []ImportsRegisteredOrBroken
  <1>1. Init => Accounted
    BY DEF Init, Accounted, DoneAccounted, AllVisited, Visited, Everything
  <1>2. TypeOK /\ Accounted => ImportsRegisteredOrBroken
    BY AccountedProperty
  <1> QED
    BY <1>1, <1>2, SpecWalk, NextAccounted, PTL DEF Spec

(***************************************************************************)
(* In a compilation: the walk that loads reaches everything.               *)
(***************************************************************************)
(* Until an error, a module that was loaded is installed or is being loaded, and
   an installed one has all of its imports. *)
Going == phase \in {"load", "init", "ready"}

Covered ==
    /\ Going => \A x \in globalModules \cup {Main} :
                   x \in installed \/ \E i \in 1 .. Len(loadStack) : loadStack[i] = x
    /\ installed \subseteq globalModules \cup {Main}
    /\ \A x \in installed : bound[x] = Len(imports[x])

LEMMA ReachableIsLeast ==
    ASSUME TypeOK
    PROVE  /\ Reachable \subseteq Everything /\ Main \in Reachable /\ Prelude \in Reachable
           /\ \A m \in Reachable : \A x \in ImportsOf(m) : x \in Reachable
           /\ \A S \in SUBSET Everything :
                 (/\ Main \in S /\ Prelude \in S
                  /\ \A m \in S : \A x \in ImportsOf(m) : x \in S) => Reachable \subseteq S
  <1>1. Main \in Everything /\ Prelude \in Everything
    BY Types
  <1>2. \A m \in Everything : ImportsOf(m) \subseteq Everything
    BY ImportTypes DEF ImportsOf
  <1>3. ASSUME NEW m \in Reachable, NEW x \in ImportsOf(m) PROVE x \in Reachable
    <2>1. m \in Everything /\ x \in Everything
      BY <1>2 DEF Reachable
    <2>2. ASSUME NEW S \in SUBSET Everything, {Main, Prelude} \subseteq S,
                 \A y \in S : ImportsOf(y) \subseteq S
          PROVE  x \in S
      BY <2>2 DEF Reachable
    <2> QED
      BY <2>1, <2>2 DEF Reachable
  <1>4. ASSUME NEW S \in SUBSET Everything, Main \in S, Prelude \in S,
               \A m \in S : \A x \in ImportsOf(m) : x \in S
        PROVE  Reachable \subseteq S
    BY <1>4 DEF Reachable
  <1> QED
    BY <1>1, <1>3, <1>4 DEF Reachable

LEMMA CoveredKept ==
    ASSUME Covered, UNCHANGED <<imports, globalModules, bound, installed>>,
           loadStack' = loadStack \/ ~Going', Going' => Going
    PROVE  Covered'
  BY DEF Covered

LEMMA RaiseStops ==
    ASSUME TypeOK, commands = 0, NEW e, Raise(e) PROVE ~Going'
  BY RaiseClears DEF Cleared, Going

LEMMA InitCovered == Init => Covered
  <1> SUFFICES ASSUME Init PROVE Covered
    OBVIOUS
  <1>1. /\ globalModules = {Prelude} /\ installed = {}
        /\ Len(loadStack) = 2 /\ loadStack[1] = Main /\ loadStack[2] = Prelude
    BY DEF Init
  <1> QED
    BY <1>1 DEF Covered

LEMMA NextCovered ==
    TypeOK /\ RegisterInv /\ WalkInv /\ OrderInv /\ Covered /\ [Next]_vars =>
        Covered' \/ ReplImport
  <1> SUFFICES ASSUME TypeOK, RegisterInv, WalkInv, OrderInv, Covered, [Next]_vars, ~ReplImport
               PROVE  Covered'
    OBVIOUS
  <1>0. commands = 0 /\ (phase \in {"load", "init"} => Going)
    BY DEF OrderInv, Going
  <1>1. ASSUME NEW m \in Everything, EnterModule(m) PROVE Covered'
    <2> DEFINE x == NextImport(m)
    <2>1. /\ UNCHANGED <<imports, bound, installed>> /\ Going
          /\ \/ Raise("load") /\ UNCHANGED globalModules
             \/ /\ globalModules' = globalModules \cup {x}
                /\ loadStack' = Append(loadStack, x)
                /\ phase' = phase
      BY <1>0, <1>1 DEF EnterModule, Loading, Record, Descend, program
    <2>2. CASE Raise("load") /\ UNCHANGED globalModules
      BY <1>0, <2>1, <2>2, RaiseStops, CoveredKept
    <2>3. CASE /\ globalModules' = globalModules \cup {x}
               /\ loadStack' = Append(loadStack, x)
               /\ phase' = phase
      <3>0. Len(loadStack) \in Nat /\ loadStack \in Seq(Everything)
        BY Types
      <3>1. x \in Everything
        <4>1. bound[m] + 1 \in 1 .. Len(imports[m])
          BY <1>1, ImportTypes DEF EnterModule
        <4> QED
          BY <4>1, ImportTypes DEF NextImport
      <3> HIDE DEF x
      <3>2. /\ Len(loadStack') = Len(loadStack) + 1
            /\ loadStack'[Len(loadStack) + 1] = x
            /\ \A i \in 1 .. Len(loadStack) : loadStack'[i] = loadStack[i]
        BY <2>3, <3>0, <3>1
      <3>3. \A i \in 1 .. Len(loadStack) : i \in 1 .. Len(loadStack')
        BY <3>0, <3>2
      <3>4. Len(loadStack) + 1 \in 1 .. Len(loadStack')
        BY <3>0, <3>2
      <3> QED
        BY <2>1, <2>3, <3>2, <3>3, <3>4 DEF Covered
    <2> QED
      BY <2>1, <2>2, <2>3
  <1>2. ASSUME NEW m \in Everything, BindImport(m) PROVE Covered'
    <2>1. /\ UNCHANGED <<imports, globalModules, installed>>
          /\ bound' = [bound EXCEPT ![m] = @ + 1] /\ bound[m] < Len(imports[m])
          /\ Raise("clash") \/ UNCHANGED <<phase, loadStack>>
      BY <1>2 DEF BindImport, Bind, program
    <2>2. /\ m \notin installed /\ installed \subseteq Everything
          /\ \A y \in Everything \ {m} : bound'[y] = bound[y]
      <3>1. bound[m] \in Nat /\ Len(imports[m]) \in Nat
        BY ImportTypes
      <3>2. m \notin installed
        BY <2>1, <3>1 DEF Covered
      <3> QED
        BY <2>1, <3>2, Types DEF TypeOK
    <2>3. \A y \in installed : bound'[y] = Len(imports[y])
      BY <2>2 DEF Covered
    <2>4. Raise("clash") => ~Going'
      BY <1>0, RaiseStops
    <2>5. phase' = phase => (Going' <=> Going)
      BY DEF Going
    <2> QED
      BY <2>1, <2>3, <2>4, <2>5 DEF Covered
  <1>3. ASSUME NEW m \in Everything, InstallModule(m) PROVE Covered'
    <2>1. /\ phase = "load" /\ loadStack # <<>> /\ m = Last(loadStack) /\ bound[m] = Len(imports[m])
          /\ loadStack' = Front(loadStack) /\ installed' = installed \cup {m}
          /\ UNCHANGED <<imports, globalModules, bound>>
      BY <1>3 DEF InstallModule, Loading, program
    <2>2. loadStack \in Seq(Everything) /\ Len(loadStack) \in Nat
      BY Types
    <2>3. Len(loadStack) # 0
      BY <2>1, <2>2
    <2>4. /\ m = loadStack[Len(loadStack)] /\ Len(loadStack) \in 1 .. Len(loadStack)
          /\ Len(loadStack') = Len(loadStack) - 1
          /\ \A i \in 1 .. Len(loadStack) - 1 : loadStack'[i] = loadStack[i]
      <3>1. m = loadStack[Len(loadStack)]
        BY <2>1 DEF Last
      <3>2. Len(loadStack) \in 1 .. Len(loadStack)
        BY <2>2, <2>3
      <3>3. /\ Len(loadStack') = Len(loadStack) - 1
            /\ \A i \in 1 .. Len(loadStack) - 1 : loadStack'[i] = loadStack[i]
        BY <2>1, <2>2, <2>3, StackOperations
      <3> QED
        BY <3>1, <3>2, <3>3
    <2>5. m \in globalModules \cup {Main}
      BY <2>4 DEF TypeOK
    <2>6. ASSUME NEW x \in globalModules \cup {Main}
          PROVE  x \in installed' \/ \E i \in 1 .. Len(loadStack') : loadStack'[i] = x
      <3>1. CASE x \in installed
        BY <2>1, <3>1
      <3>2. CASE \E i \in 1 .. Len(loadStack) : loadStack[i] = x
        <4>1. PICK i \in 1 .. Len(loadStack) : loadStack[i] = x
          BY <3>2
        <4>2. CASE i = Len(loadStack)
          BY <2>1, <2>4, <4>1, <4>2
        <4>3. CASE i # Len(loadStack)
          <5>1. i \in 1 .. Len(loadStack')
            BY <2>2, <2>4, <4>3
          <5> QED
            BY <2>4, <4>1, <5>1
        <4> QED
          BY <4>2, <4>3
      <3> QED
        BY <1>0, <2>1, <3>1, <3>2 DEF Covered
    <2> QED
      BY <2>1, <2>5, <2>6 DEF Covered
  <1>4. ASSUME NEW x, CallInit(x), phase = "init" PROVE Covered'
    <2>1. /\ UNCHANGED <<imports, globalModules, bound, installed>>
          /\ Raise("misnamed") \/ Raise("loop") \/ UNCHANGED <<phase, loadStack>>
      BY <1>4 DEF CallInit, program
    <2> QED
      BY <1>0, <1>4, <2>1, RaiseStops, CoveredKept DEF Going
  <1>5. CASE InitRoot
    BY <1>4, <1>5 DEF InitRoot
  <1>6. CASE RootDone
    BY <1>0, <1>6, CoveredKept DEF RootDone, loading, program
  <1>7. ASSUME NEW m \in Everything, InitImport(m) PROVE Covered'
    BY <1>4, <1>7 DEF InitImport, Initialising
  <1>8. ASSUME NEW m \in Everything, ImportDone(m) PROVE Covered'
    BY <1>8, CoveredKept DEF ImportDone, loading, program, Going
  <1>9. ASSUME NEW m \in Everything, NullImport(m) PROVE Covered'
    BY <1>9, CoveredKept DEF NullImport, loading, program, Going
  <1>10. ASSUME NEW m \in Everything, FinishModule(m) PROVE Covered'
    <2>1. /\ UNCHANGED <<imports, globalModules, bound, installed>>
          /\ Raise("item") \/ UNCHANGED <<phase, loadStack>>
      BY <1>10 DEF FinishModule, program
    <2> QED
      BY <1>0, <2>1, RaiseStops, CoveredKept DEF Going
  <1>11. CASE UNCHANGED vars
    BY <1>11, CoveredKept DEF vars, loading, program, Going
  <1> QED
    BY <1>1, <1>2, <1>3, <1>5, <1>6, <1>7, <1>8, <1>9, <1>10, <1>11 DEF Next, LoadStep, InitStep

LEMMA CoveredProperty ==
    ASSUME TypeOK, WalkInv, OrderInv, Covered, phase = "init"
    PROVE  Reachable \subseteq installed
  <1>1. \A x \in globalModules \cup {Main} : x \in installed
    <2>1. Len(loadStack) = 0
      BY DEF WalkInv, Phases
    <2> QED
      BY <2>1 DEF Covered, Going
  <1>2. installed \subseteq Everything /\ Main \in installed /\ Prelude \in installed
    BY <1>1 DEF TypeOK, WalkInv, Loaded
  <1>3. ASSUME NEW m \in installed, NEW x \in ImportsOf(m) PROVE x \in installed
    <2>1. PICK i \in 1 .. Len(imports[m]) : imports[m][i] = x
      BY DEF ImportsOf
    <2>2. i \in 1 .. bound[m] /\ m \in Everything
      BY <1>2 DEF Covered
    <2> QED
      BY <1>1, <2>1, <2>2 DEF WalkInv, Loaded, OrderInv
  <1> QED
    BY <1>2, <1>3, ReachableIsLeast

LEMMA NoLines ==
    ASSUME MaxCommands = 0, OrderInv PROVE ~ReplImport
  BY DEF ReplImport, OrderInv

LEMMA SpecOrder ==
    ASSUME MaxCommands = 0
    PROVE  Spec => [](TypeOK /\ RegisterInv /\ WalkInv /\ OrderInv)
  <1>1. Init => OrderInv
    BY DEF Init, OrderInv, NothingDoneYet, RegisteredIffDone, Visited, ImportersFirst
  <1>2. TypeOK /\ OrderInv /\ [Next]_vars => OrderInv'
    BY NextOrder
  <1> QED
    BY <1>1, <1>2, SpecWalk, PTL DEF Spec

(* Two-pass loading, for any imports and errors: when a compilation evaluates its
   first top-level item, every module that the main module or the prelude reaches
   is loaded and its globals are installed. (loadProgram, loadDependents,
   installGlobals before initModule.) *)
THEOREM LoaderPopulatedBeforeEvaluated ==
    ASSUME MaxCommands = 0
    PROVE  Spec => []PopulatedBeforeEvaluated
  <1>1. TypeOK /\ RegisterInv /\ WalkInv /\ OrderInv /\ Covered /\ [Next]_vars => Covered'
    BY NextCovered, NoLines
  <1>2. TypeOK /\ WalkInv /\ OrderInv /\ Covered => PopulatedBeforeEvaluated
    BY CoveredProperty DEF PopulatedBeforeEvaluated
  <1> QED
    BY <1>1, <1>2, InitCovered, SpecOrder, PTL DEF Spec

(***************************************************************************)
(* In a compilation: the verdict.                                          *)
(***************************************************************************)
(* The import chain is a path of the import graph from one of the two roots, a
   module is RUNNING exactly while it is on it, and a loop is reported where the
   path closes. *)
Path ==
    /\ \A i \in 1 .. Len(initStack) - 1 : initStack[i + 1] \in ImportsOf(initStack[i])
    /\ \A i \in 1 .. Len(initStack) : initStack[i] \in Reachable
    /\ phase \in {"load", "init"} =>
          \A x \in Everything : initState[x] = "RUNNING" =>
             \E i \in 1 .. Len(initStack) : initStack[i] = x

FromRoots ==
    /\ \A i \in 1 .. Len(roots) : roots[i] \in {Main, Prelude}
    /\ Going => \A x \in {Main, Prelude} :
          \/ \E i \in 1 .. Len(roots) : roots[i] = x
          \/ \E i \in 1 .. Len(overloads) : overloads[i] = x
    /\ \A i \in 1 .. Len(overloads) : overloads[i] \in Reachable

VerdictInv == Path /\ FromRoots /\ (error = "loop" => Cyclic)

(* The graph of a compilation does not change. *)
LEMMA SameGraph ==
    ASSUME UNCHANGED imports
    PROVE  /\ \A m : ImportsOf(m)' = ImportsOf(m)
           /\ Reachable' = Reachable
           /\ Cyclic' <=> Cyclic
  <1>1. \A m : ImportsOf(m)' = ImportsOf(m)
    BY DEF ImportsOf
  <1>2. Reachable' = Reachable
    BY DEF Reachable, ImportsOf
  <1>3. Cyclic' <=> Cyclic
    BY <1>2 DEF Cyclic, ImportsOf
  <1> QED
    BY <1>1, <1>2, <1>3

LEMMA VerdictKept ==
    ASSUME VerdictInv,
           UNCHANGED <<imports, overloads, initState, initStack, roots, error>>,
           phase' = phase \/ phase' = "crashed" \/ (phase = "load" /\ phase' = "init")
    PROVE  VerdictInv'
  BY SameGraph DEF VerdictInv, Path, FromRoots, Going

LEMMA VerdictStopped ==
    ASSUME TypeOK, commands = 0, VerdictInv, UNCHANGED <<imports, overloads>>,
           NEW e, Raise(e), e # "loop" \/ Cyclic
    PROVE  VerdictInv'
  <1>1. Cleared /\ error' = e /\ phase' = "failed"
    BY RaiseClears DEF Cleared
  <1>2. Path'
    BY <1>1 DEF Path, Cleared
  <1>3. FromRoots'
    BY <1>1, SameGraph DEF VerdictInv, FromRoots, Cleared, Going
  <1> QED
    BY <1>1, <1>2, <1>3, SameGraph DEF VerdictInv

(* The modules from x on the import chain, when the next import is x again. *)
LEMMA LoopIsReal ==
    ASSUME TypeOK, RegisterInv, VerdictInv, initStack # <<>>,
           NEW i \in 1 .. Len(initStack), initStack[i] # Last(initStack),
           initStack[i] \in ImportsOf(Last(initStack))
    PROVE  Cyclic
  <1> DEFINE n == Len(initStack)
             S == {y \in Everything : \E j \in i .. n : initStack[j] = y}
  <1>1. /\ initStack \in Seq(Everything) /\ n \in Nat
        /\ \A j \in 1 .. n : initStack[j] \in Everything
    BY Types
  <1>2. Last(initStack) = initStack[n] /\ n \in i .. n /\ i \in 1 .. n /\ n # i
    BY <1>1 DEF Last
  <1> HIDE DEF n
  <1>3. S \in SUBSET Reachable
    BY <1>1, <1>2 DEF VerdictInv, Path, n
  <1>4. initStack[i] \in S
    BY <1>1, <1>2
  <1>5. ASSUME NEW m \in S PROVE \E x \in S : x # m /\ x \in ImportsOf(m)
    <2>1. PICK j \in i .. n : initStack[j] = m
      OBVIOUS
    <2>2. CASE j = n
      BY <1>2, <1>4, <2>1, <2>2
    <2>3. CASE j # n
      <3>1. j \in 1 .. n - 1 /\ j + 1 \in i .. n /\ j + 1 \in 1 .. n /\ j \in 1 .. n /\ j + 1 # j
        BY <1>1, <1>2, <2>3
      <3>2. initStack[j + 1] \in ImportsOf(m)
        BY <2>1, <3>1 DEF VerdictInv, Path, n
      <3>3. initStack[j + 1] # m
        BY <2>1, <3>1 DEF RegisterInv, Chain, n
      <3>4. initStack[j + 1] \in S
        BY <1>1, <3>1
      <3> QED
        BY <3>2, <3>3, <3>4
    <2> QED
      BY <2>2, <2>3
  <1> HIDE DEF S
  <1> QED
    BY <1>3, <1>4, <1>5 DEF Cyclic

LEMMA CallInitVerdict ==
    ASSUME TypeOK, RegisterInv, commands = 0, VerdictInv, phase = "init",
           NEW x \in Everything, CallInit(x), x \in Reachable,
           initStack = <<>> \/ x \in ImportsOf(Last(initStack))
    PROVE  VerdictInv'
  <1>1. /\ UNCHANGED <<imports, overloads>>
        /\ \/ Raise("misnamed")
           \/ Raise("loop") /\ initState[x] = "RUNNING" /\ defect[x] # "misnamed"
           \/ /\ initState' = [initState EXCEPT ![x] = "RUNNING"]
              /\ initStack' = Append(initStack, x)
              /\ UNCHANGED <<error, phase, roots, loadStack>>
        /\ ~Returns(x)
    BY DEF CallInit, InLoop, program
  <1>2. CASE Raise("misnamed")
    BY <1>1, <1>2, VerdictStopped
  <1>3. CASE Raise("loop") /\ initState[x] = "RUNNING" /\ defect[x] # "misnamed"
    <2>1. PICK i \in 1 .. Len(initStack) : initStack[i] = x
      BY <1>3 DEF VerdictInv, Path
    <2>2. initStack # <<>>
      <3>1. Len(initStack) \in Nat /\ Len(initStack) # 0
        BY Types
      <3> QED
        BY <3>1
    <2>3. Last(initStack) # x
      BY <1>1, <1>3, <2>2 DEF Returns
    <2>4. Cyclic
      BY <2>1, <2>2, <2>3, LoopIsReal
    <2> QED
      BY <1>1, <1>3, <2>4, VerdictStopped
  <1>4. CASE /\ initState' = [initState EXCEPT ![x] = "RUNNING"]
             /\ initStack' = Append(initStack, x)
             /\ UNCHANGED <<error, phase, roots, loadStack>>
    <2>0. Len(initStack) \in Nat /\ initStack \in Seq(Everything)
      BY Types
    <2>1. /\ Len(initStack') = Len(initStack) + 1
          /\ initStack'[Len(initStack) + 1] = x
          /\ \A i \in 1 .. Len(initStack) : initStack'[i] = initStack[i]
      BY <1>4, <2>0
    <2>2. \A y \in Everything : initState'[y] = IF y = x THEN "RUNNING" ELSE initState[y]
      BY <1>4, Types
    <2>3. \A i \in 1 .. Len(initStack') - 1 : initStack'[i + 1] \in ImportsOf(initStack'[i])
      <3> TAKE i \in 1 .. Len(initStack') - 1
      <3>1. i \in 1 .. Len(initStack)
        BY <2>0, <2>1
      <3>2. CASE i = Len(initStack)
        <4>1. initStack # <<>>
          BY <2>0, <3>1
        <4>2. Last(initStack) = initStack[i]
          BY <3>2 DEF Last
        <4> QED
          BY <2>1, <3>1, <3>2, <4>1, <4>2
      <3>3. CASE i # Len(initStack)
        <4>1. i \in 1 .. Len(initStack) - 1 /\ i + 1 \in 1 .. Len(initStack)
          BY <2>0, <3>1, <3>3
        <4> QED
          BY <2>1, <3>1, <4>1 DEF VerdictInv, Path
      <3> QED
        BY <3>2, <3>3
    <2>4. \A i \in 1 .. Len(initStack') : initStack'[i] \in Reachable
      <3>1. \A i \in 1 .. Len(initStack') : i \in 1 .. Len(initStack) \/ i = Len(initStack) + 1
        BY <2>0, <2>1
      <3> QED
        BY <2>1, <3>1 DEF VerdictInv, Path
    <2>5. ASSUME NEW y \in Everything, initState'[y] = "RUNNING"
          PROVE  \E i \in 1 .. Len(initStack') : initStack'[i] = y
      <3>1. CASE y = x
        <4>1. Len(initStack) + 1 \in 1 .. Len(initStack')
          BY <2>0, <2>1
        <4> QED
          BY <2>1, <3>1, <4>1
      <3>2. CASE y # x
        <4>1. PICK i \in 1 .. Len(initStack) : initStack[i] = y
          BY <2>2, <2>5, <3>2 DEF VerdictInv, Path
        <4>2. i \in 1 .. Len(initStack')
          BY <2>0, <2>1
        <4> QED
          BY <2>1, <4>1, <4>2
      <3> QED
        BY <3>1, <3>2
    <2>6. Path'
      BY <1>1, <2>3, <2>4, <2>5, SameGraph DEF Path
    <2>7. FromRoots'
      BY <1>1, <1>4, SameGraph DEF VerdictInv, FromRoots, Going
    <2> QED
      BY <1>1, <1>4, <2>6, <2>7, SameGraph DEF VerdictInv
  <1> QED
    BY <1>1, <1>2, <1>3, <1>4

LEMMA RootDoneVerdict ==
    ASSUME TypeOK, OrderInv, VerdictInv, RootDone
    PROVE  VerdictInv'
  <1>1. /\ phase = "init" /\ roots # <<>> /\ roots' = Tail(roots) /\ initStack = <<>>
        /\ phase' \in {"init", "ready"} /\ Returns(Head(roots))
        /\ UNCHANGED <<imports, initState, initStack, overloads, error>>
    BY DEF RootDone, initing, program
  <1>2. roots \in Seq(Everything) /\ Len(roots) \in Nat
    BY Types
  <1>3. /\ Len(roots) \in Nat \ {0} /\ Head(roots) = roots[1] /\ Head(roots) \in Everything
        /\ Len(roots') = Len(roots) - 1
        /\ \A i \in 1 .. Len(roots') : roots'[i] = roots[i + 1] /\ i + 1 \in 1 .. Len(roots)
    BY <1>1, <1>2
  <1>4. initState[Head(roots)] = "DONE"
    BY <1>1 DEF Returns
  <1>5. \E i \in 1 .. Len(overloads) : overloads[i] = roots[1]
    BY <1>1, <1>3, <1>4 DEF OrderInv, RegisteredIffDone
  <1>6. ASSUME NEW x \in {Main, Prelude}
        PROVE  \/ \E i \in 1 .. Len(roots') : roots'[i] = x
               \/ \E i \in 1 .. Len(overloads) : overloads[i] = x
    <2>1. CASE \E i \in 1 .. Len(roots) : roots[i] = x
      <3>1. PICK i \in 1 .. Len(roots) : roots[i] = x
        BY <2>1
      <3>2. CASE i = 1
        BY <1>5, <3>1, <3>2
      <3>3. CASE i # 1
        <4>1. i - 1 \in 1 .. Len(roots') /\ (i - 1) + 1 = i
          BY <1>3, <3>3
        <4> QED
          BY <1>3, <3>1, <4>1
      <3> QED
        BY <3>2, <3>3
    <2>2. CASE \E i \in 1 .. Len(overloads) : overloads[i] = x
      BY <2>2
    <2> QED
      BY <1>1, <2>1, <2>2 DEF VerdictInv, FromRoots, Going
  <1>7. \A i \in 1 .. Len(roots') : roots'[i] \in {Main, Prelude}
    BY <1>3 DEF VerdictInv, FromRoots
  <1>8. FromRoots'
    BY <1>1, <1>6, <1>7, SameGraph DEF VerdictInv, FromRoots
  <1>9. Path'
    BY <1>1, SameGraph DEF VerdictInv, Path
  <1> QED
    BY <1>1, <1>8, <1>9, SameGraph DEF VerdictInv

LEMMA FinishModuleVerdict ==
    ASSUME TypeOK, RegisterInv, WalkInv, commands = 0, VerdictInv,
           NEW m \in Everything, FinishModule(m)
    PROVE  VerdictInv'
  <1>1. /\ Initialising(m)
        /\ imports' = imports
        /\ initState' = [initState EXCEPT ![m] = "DONE"]
        /\ \/ Raise("item") /\ UNCHANGED overloads
           \/ /\ overloads' = Cons(m, overloads)
              /\ initStack' = Front(initStack)
              /\ UNCHANGED <<error, phase, roots, loadStack>>
    BY DEF FinishModule, AddOverload, program
  <1>2. CASE Raise("item") /\ UNCHANGED overloads
    BY <1>1, <1>2, VerdictStopped
  <1>3. CASE /\ overloads' = Cons(m, overloads)
             /\ initStack' = Front(initStack)
             /\ UNCHANGED <<error, phase, roots, loadStack>>
    <2>1. /\ initStack \in Seq(Everything) /\ Len(initStack) \in Nat \ {0}
          /\ m = initStack[Len(initStack)]
      BY <1>1, InitialisingFacts
    <2>2. /\ Len(initStack') = Len(initStack) - 1
          /\ \A i \in 1 .. Len(initStack) - 1 : initStack'[i] = initStack[i]
      BY <1>3, <2>1, StackOperations
    <2>3. /\ Len(overloads) \in Nat
          /\ Len(overloads') = Len(overloads) + 1
          /\ overloads'[1] = m
          /\ \A i \in 1 .. Len(overloads) : overloads'[i + 1] = overloads[i]
      <3>1. overloads \in Seq(Everything) /\ Len(overloads) \in Nat
        BY SequenceTypes
      <3> QED
        BY <1>3, <3>1, ConsOperation
    <2>4. m \in Reachable
      <3>1. Len(initStack) \in 1 .. Len(initStack)
        BY <2>1
      <3> QED
        BY <2>1, <3>1 DEF VerdictInv, Path
    <2>5. Path'
      <3>1. \A i \in 1 .. Len(initStack') : i \in 1 .. Len(initStack)
        BY <2>1, <2>2
      <3>2. \A i \in 1 .. Len(initStack') - 1 : initStack'[i + 1] \in ImportsOf(initStack'[i])
        <4> TAKE i \in 1 .. Len(initStack') - 1
        <4>1. /\ i \in 1 .. Len(initStack) - 1 /\ i + 1 \in 1 .. Len(initStack) - 1
          BY <2>1, <2>2
        <4> QED
          BY <2>2, <4>1 DEF VerdictInv, Path
      <3>3. \A i \in 1 .. Len(initStack') : initStack'[i] \in Reachable
        BY <2>2, <3>1 DEF VerdictInv, Path
      <3>4. ASSUME phase \in {"load", "init"}, NEW y \in Everything, initState'[y] = "RUNNING"
            PROVE  \E i \in 1 .. Len(initStack') : initStack'[i] = y
        <4>1. y # m /\ initState[y] = "RUNNING"
          BY <1>1, <3>4, Types
        <4>2. PICK i \in 1 .. Len(initStack) : initStack[i] = y
          BY <3>4, <4>1 DEF VerdictInv, Path
        <4>3. i \in 1 .. Len(initStack')
          BY <2>1, <2>2, <4>1, <4>2
        <4> QED
          BY <2>2, <4>2, <4>3
      <3> QED
        BY <1>1, <1>3, <3>2, <3>3, <3>4, SameGraph DEF Path
    <2>6. \A i \in 1 .. Len(overloads') : overloads'[i] \in Reachable
      <3> TAKE i \in 1 .. Len(overloads')
      <3>1. CASE i = 1
        BY <2>3, <2>4, <3>1
      <3>2. CASE i # 1
        <4>1. i - 1 \in 1 .. Len(overloads) /\ (i - 1) + 1 = i
          BY <2>3, <3>2
        <4> QED
          BY <2>3, <4>1 DEF VerdictInv, FromRoots
      <3> QED
        BY <3>1, <3>2
    <2>7. \A x : (\E i \in 1 .. Len(overloads) : overloads[i] = x) =>
                    \E i \in 1 .. Len(overloads') : overloads'[i] = x
      <3>1. \A i \in 1 .. Len(overloads) : i + 1 \in 1 .. Len(overloads')
        BY <2>3
      <3> QED
        BY <2>3, <3>1
    <2>8. FromRoots'
      BY <1>1, <1>3, <2>6, <2>7, SameGraph DEF VerdictInv, FromRoots, Going
    <2> QED
      BY <1>1, <1>3, <2>5, <2>8, SameGraph DEF VerdictInv
  <1> QED
    BY <1>1, <1>2, <1>3

LEMMA InitVerdict == Init => VerdictInv
  <1> SUFFICES ASSUME Init PROVE VerdictInv
    OBVIOUS
  <1>1. /\ Len(initStack) = 0 /\ Len(overloads) = 0 /\ error = "none"
        /\ Len(roots) = 2 /\ roots[1] = Prelude /\ roots[2] = Main
        /\ \A x \in Everything : initState[x] = "BEFORE"
    BY DEF Init
  <1> QED
    BY <1>1 DEF VerdictInv, Path, FromRoots

LEMMA NextVerdict ==
    TypeOK /\ RegisterInv /\ WalkInv /\ OrderInv /\ VerdictInv /\ [Next]_vars =>
        VerdictInv' \/ ReplImport
  <1> SUFFICES ASSUME TypeOK, RegisterInv, WalkInv, OrderInv, VerdictInv, [Next]_vars, ~ReplImport
               PROVE  VerdictInv'
    OBVIOUS
  <1>0. commands = 0
    BY DEF OrderInv
  <1>1. Main \in Reachable /\ Prelude \in Reachable /\ Main \in Everything /\ Prelude \in Everything
    BY ReachableIsLeast, Types
  <1>2. ASSUME NEW m \in Everything, EnterModule(m) PROVE VerdictInv'
    <2>1. /\ UNCHANGED <<imports, overloads, initState>>
          /\ Raise("load") \/ UNCHANGED <<error, phase, initStack, roots>>
      BY <1>2 DEF EnterModule, program
    <2> QED
      BY <1>0, <2>1, VerdictStopped, VerdictKept
  <1>3. ASSUME NEW m \in Everything, BindImport(m) PROVE VerdictInv'
    <2>1. /\ UNCHANGED <<imports, overloads, initState>>
          /\ Raise("clash") \/ UNCHANGED <<error, phase, initStack, roots>>
      BY <1>3 DEF BindImport, program
    <2> QED
      BY <1>0, <2>1, VerdictStopped, VerdictKept
  <1>4. ASSUME NEW m \in Everything, InstallModule(m) PROVE VerdictInv'
    <2>1. /\ UNCHANGED <<imports, overloads, initState, initStack, roots, error>>
          /\ phase = "load" /\ phase' \in {"load", "init"}
      BY <1>4 DEF InstallModule, Loading, initing, program
    <2> QED
      BY <2>1, VerdictKept
  <1>5. CASE InitRoot
    <2>1. phase = "init" /\ initStack = <<>> /\ roots # <<>> /\ CallInit(Head(roots))
      BY <1>5 DEF InitRoot
    <2>2. roots \in Seq(Everything) /\ Len(roots) \in Nat
      BY Types
    <2>3. 1 \in 1 .. Len(roots) /\ Head(roots) = roots[1]
      BY <2>1, <2>2
    <2>4. Head(roots) \in {Main, Prelude}
      BY <2>3 DEF VerdictInv, FromRoots
    <2> QED
      BY <1>0, <1>1, <2>1, <2>4, CallInitVerdict
  <1>6. CASE RootDone
    BY <1>6, RootDoneVerdict
  <1>7. ASSUME NEW m \in Everything, InitImport(m) PROVE VerdictInv'
    <2> DEFINE x == imports[m][visited[m] + 1]
    <2>1. Initialising(m) /\ m = Last(initStack) /\ visited[m] < bound[m] /\ CallInit(x)
      BY <1>7 DEF InitImport, Initialising
    <2>2. /\ phase = "init" /\ Len(initStack) \in Nat \ {0} /\ m = initStack[Len(initStack)]
          /\ x \in Everything
      BY <2>1, InitialisingFacts
    <2>3. x \in ImportsOf(m)
      <3>1. visited[m] + 1 \in 1 .. Len(imports[m])
        BY <2>1, ImportTypes
      <3> QED
        BY <3>1 DEF ImportsOf
    <2> HIDE DEF x
    <2>4. m \in Reachable
      <3>1. Len(initStack) \in 1 .. Len(initStack)
        BY <2>2
      <3> QED
        BY <2>2, <3>1 DEF VerdictInv, Path
    <2>5. x \in Reachable
      BY <2>3, <2>4, ReachableIsLeast
    <2> QED
      BY <1>0, <2>1, <2>2, <2>3, <2>5, CallInitVerdict
  <1>8. ASSUME NEW m \in Everything, ImportDone(m) PROVE VerdictInv'
    BY <1>8, VerdictKept DEF ImportDone, program
  <1>9. ASSUME NEW m \in Everything, NullImport(m) PROVE VerdictInv'
    BY <1>9, VerdictKept DEF NullImport, initing, program
  <1>10. ASSUME NEW m \in Everything, FinishModule(m) PROVE VerdictInv'
    BY <1>0, <1>10, FinishModuleVerdict
  <1>11. CASE UNCHANGED vars
    BY <1>11, VerdictKept DEF vars, initing, program
  <1> QED
    BY <1>2, <1>3, <1>4, <1>5, <1>6, <1>7, <1>8, <1>9, <1>10, <1>11 DEF Next, LoadStep, InitStep

(* A set of positions has a last one. *)
LEMMA LastPosition ==
    ASSUME NEW n \in Nat, NEW T \in SUBSET (1 .. n), T # {}
    PROVE  \E k \in T : \A j \in T : ~(k < j)
  <1> DEFINE D == {d \in Nat : n - d \in T}
  <1>1. PICK t \in T : TRUE
    OBVIOUS
  <1>2. n - t \in Nat /\ n - (n - t) = t
    BY <1>1
  <1>3. D \subseteq Nat /\ D # {}
    BY <1>1, <1>2
  <1> HIDE DEF D
  <1>4. PICK d \in D : \A e \in D : d <= e
    BY <1>3, LeastNatural
  <1>5. d \in Nat /\ n - d \in T
    BY <1>3, <1>4 DEF D
  <1>6. ASSUME NEW j \in T PROVE ~(n - d < j)
    <2>1. n - j \in Nat /\ n - (n - j) = j /\ j \in Nat
      OBVIOUS
    <2>2. n - j \in D
      BY <2>1 DEF D
    <2> QED
      BY <1>4, <1>5, <2>1, <2>2
  <1> QED
    BY <1>5, <1>6

(* If every registered module comes before its imports, the one of a loop that
   is registered last has no import in the loop. *)
LEMMA OrderedIsAcyclic ==
    ASSUME TypeOK, ImportersFirst, \A x \in Reachable : \E i \in 1 .. Len(overloads) : overloads[i] = x
    PROVE  ~Cyclic
  <1> SUFFICES ASSUME Cyclic PROVE FALSE
    OBVIOUS
  <1>1. PICK S \in SUBSET Reachable : S # {} /\ \A m \in S : \E x \in S : x # m /\ x \in ImportsOf(m)
    BY DEF Cyclic
  <1> DEFINE T == {i \in 1 .. Len(overloads) : overloads[i] \in S}
  <1>2. Len(overloads) \in Nat
    BY SequenceTypes
  <1>3. T \in SUBSET (1 .. Len(overloads)) /\ T # {}
    BY <1>1
  <1> HIDE DEF T
  <1>4. PICK k \in T : \A j \in T : ~(k < j)
    BY <1>2, <1>3, LastPosition
  <1>5. k \in 1 .. Len(overloads) /\ overloads[k] \in S
    BY DEF T
  <1>6. PICK x \in S : x # overloads[k] /\ x \in ImportsOf(overloads[k])
    BY <1>1, <1>5
  <1>7. PICK j \in k + 1 .. Len(overloads) : overloads[j] = x
    BY <1>5, <1>6 DEF ImportersFirst
  <1>8. j \in 1 .. Len(overloads) /\ k < j
    BY <1>2, <1>5, <1>7
  <1>9. j \in T
    BY <1>6, <1>7, <1>8 DEF T
  <1> QED
    BY <1>4, <1>8, <1>9

LEMMA VerdictProperty ==
    ASSUME TypeOK, WalkInv, OrderInv, VerdictInv PROVE LoopVerdict
  <1>1. ASSUME phase = "ready" PROVE ~Cyclic /\ Reachable = ToSet(overloads)
    <2> DEFINE S == {x \in Everything : \E i \in 1 .. Len(overloads) : overloads[i] = x}
    <2>1. Len(roots) = 0
      BY <1>1 DEF WalkInv, Phases
    <2>2. Main \in S /\ Prelude \in S
      BY <1>1, <2>1, Types DEF VerdictInv, FromRoots, Going
    <2>3. ASSUME NEW m \in S, NEW x \in ImportsOf(m) PROVE x \in S
      <3>1. PICK i \in 1 .. Len(overloads) : overloads[i] = m
        OBVIOUS
      <3>2. CASE x = m
        BY <3>2
      <3>3. CASE x # m
        <4>1. PICK j \in i + 1 .. Len(overloads) : overloads[j] = x
          BY <3>1, <3>3 DEF OrderInv, ImportersFirst
        <4>2. j \in 1 .. Len(overloads)
          BY <3>1, <4>1, SequenceTypes
        <4>3. x \in Everything
          BY <4>1, <4>2, SequenceTypes
        <4> QED
          BY <4>1, <4>2, <4>3
      <3> QED
        BY <3>2, <3>3
    <2>4. S \in SUBSET Everything
      OBVIOUS
    <2> HIDE DEF S
    <2>5. Reachable \subseteq S
      BY <2>2, <2>3, <2>4, ReachableIsLeast
    <2>6. \A x \in Reachable : \E i \in 1 .. Len(overloads) : overloads[i] = x
      BY <2>5 DEF S
    <2>7. ~Cyclic
      BY <2>6, OrderedIsAcyclic DEF OrderInv
    <2>8. Reachable = ToSet(overloads)
      <3>1. \A i \in 1 .. Len(overloads) : overloads[i] \in Reachable
        BY DEF VerdictInv, FromRoots
      <3>2. ToSet(overloads) = {overloads[i] : i \in 1 .. Len(overloads)}
        <4>1. DOMAIN overloads = 1 .. Len(overloads)
          BY SequenceTypes
        <4> QED
          BY <4>1 DEF ToSet
      <3> QED
        BY <2>6, <3>1, <3>2
    <2> QED
      BY <2>7, <2>8
  <1> QED
    BY <1>1 DEF LoopVerdict, VerdictInv

(* The verdict of a compilation, for any imports and errors: it gets past
   initialisation only if the program has no import loop, and then exactly the
   modules of the program are registered; it reports a loop only where there is
   one, importing oneself aside. (initModule and its importChain.) *)
THEOREM LoaderLoopVerdict ==
    ASSUME MaxCommands = 0
    PROVE  Spec => []LoopVerdict
  <1>1. TypeOK /\ RegisterInv /\ WalkInv /\ OrderInv /\ VerdictInv /\ [Next]_vars => VerdictInv'
    BY NextVerdict, NoLines
  <1>2. TypeOK /\ WalkInv /\ OrderInv /\ VerdictInv => LoopVerdict
    BY VerdictProperty
  <1> QED
    BY <1>1, <1>2, InitVerdict, SpecOrder, PTL DEF Spec

-----------------------------------------------------------------------------
(***************************************************************************)
(* The abstract specification.  A compilation implements ImportOrder, for  *)
(* every set of modules and programs: what loader.cpp does in two          *)
(* depth-first walks is a registration of the modules of the program in    *)
(* some order that respects the imports.                                   *)
(***************************************************************************)
(* The modules being loaded are of the program, and nothing goes on after an error. *)
LoadsProgram ==
    /\ \A i \in 1 .. Len(loadStack) : loadStack[i] \in Reachable
    /\ Going => error = "none"

(* The two specifications mean the same by the modules of the program. *)
LEMMA OrderInProgram ==
    ASSUME TypeOK
    PROVE  /\ \A m : Order!Dependencies(m) = ImportsOf(m) \ {m}
           /\ \A m \in Everything : Order!InProgram(m) <=> m \in Reachable
           /\ Cyclic => Order!Loop
           /\ Order!Registered = {overloads[i] : i \in 1 .. Len(overloads)}
  <1>1. \A m : Order!Dependencies(m) = ImportsOf(m) \ {m}
    BY DEF Order!Dependencies, ImportsOf
  <1>2. \A m \in Everything : Order!InProgram(m) <=> m \in Reachable
    <2>1. \A S \in SUBSET Everything :
             (\A x \in S : Order!Dependencies(x) \subseteq S) <=> \A x \in S : ImportsOf(x) \subseteq S
      BY <1>1
    <2> QED
      BY <2>1 DEF Order!InProgram, Reachable
  <1>3. Cyclic => Order!Loop
    <2> SUFFICES ASSUME Cyclic PROVE Order!Loop
      OBVIOUS
    <2>1. PICK S \in SUBSET Reachable : S # {} /\ \A m \in S : \E x \in S : x # m /\ x \in ImportsOf(m)
      BY DEF Cyclic
    <2>2. S \in SUBSET Everything
      BY DEF Reachable
    <2>3. \A m \in S : Order!InProgram(m) /\ Order!Dependencies(m) \cap S # {}
      BY <1>1, <1>2, <2>1, <2>2
    <2> QED
      BY <2>1, <2>2, <2>3 DEF Order!Loop
  <1>4. Order!Registered = {overloads[i] : i \in 1 .. Len(overloads)}
    BY DEF Order!Registered
  <1> QED
    BY <1>1, <1>2, <1>3, <1>4

LEMMA OrderInit == Init => Order!Init
  <1> SUFFICES ASSUME Init PROVE Order!Init
    OBVIOUS
  <1>1. TypeOK
    BY InitTypeOK
  <1>2. imports \in [Everything -> Seq(Everything)]
    <2>1. Modules \subseteq Everything
      BY DEF Everything
    <2>2. \A s \in Seq(Modules) : s \in Seq(Everything)
      BY <2>1
    <2>3. imports \in [Everything -> Seq(Modules)]
      BY <1>1, Types
    <2> QED
      BY <2>2, <2>3
  <1> QED
    BY <1>2 DEF Init, Order!Init

LEMMA LoadsProgramKept ==
    ASSUME LoadsProgram, imports' = imports,
           \/ UNCHANGED <<loadStack, error>> /\ (Going' => Going)
           \/ Len(loadStack') = 0 /\ ~Going'
    PROVE  LoadsProgram'
  BY SameGraph DEF LoadsProgram

(* An error of a compilation leaves nothing to load and ends it. *)
LEMMA RaiseEnds ==
    ASSUME TypeOK, commands = 0, NEW e, Raise(e)
    PROVE  Len(loadStack') = 0 /\ ~Going' /\ error' = e /\ phase' = "failed"
  BY RaiseClears DEF Cleared, Going

LEMMA InitLoadsProgram == Init => LoadsProgram
  <1> SUFFICES ASSUME Init PROVE LoadsProgram
    OBVIOUS
  <1>1. /\ Len(loadStack) = 2 /\ loadStack[1] = Main /\ loadStack[2] = Prelude
        /\ error = "none"
    BY DEF Init
  <1>2. Main \in Reachable /\ Prelude \in Reachable
    BY InitTypeOK, ReachableIsLeast
  <1> QED
    BY <1>1, <1>2 DEF LoadsProgram

LEMMA NextLoadsProgram ==
    TypeOK /\ OrderInv /\ LoadsProgram /\ [Next]_vars => LoadsProgram' \/ ReplImport
  <1> SUFFICES ASSUME TypeOK, OrderInv, LoadsProgram, [Next]_vars, ~ReplImport
               PROVE  LoadsProgram'
    OBVIOUS
  <1>0. commands = 0
    BY DEF OrderInv
  <1>1. ASSUME NEW m \in Everything, EnterModule(m) PROVE LoadsProgram'
    <2> DEFINE x == NextImport(m)
    <2>1. /\ imports' = imports /\ m = Last(loadStack) /\ loadStack # <<>>
          /\ bound[m] < Len(imports[m])
          /\ \/ Raise("load")
             \/ /\ loadStack' = Append(loadStack, x)
                /\ UNCHANGED <<error, phase>>
      BY <1>1 DEF EnterModule, Loading, Descend, program
    <2>2. CASE Raise("load")
      BY <1>0, <2>1, <2>2, RaiseEnds, LoadsProgramKept
    <2>3. CASE loadStack' = Append(loadStack, x) /\ UNCHANGED <<error, phase>>
      <3>1. loadStack \in Seq(Everything) /\ Len(loadStack) \in Nat
        BY Types
      <3>2. Len(loadStack) \in 1 .. Len(loadStack) /\ m = loadStack[Len(loadStack)]
        BY <2>1, <3>1 DEF Last
      <3>3. bound[m] + 1 \in 1 .. Len(imports[m])
        BY <2>1, ImportTypes
      <3>4. x \in ImportsOf(m) /\ x \in Everything
        BY <3>3, ImportTypes DEF ImportsOf, NextImport
      <3>5. x \in Reachable
        BY <3>2, <3>4, ReachableIsLeast DEF LoadsProgram
      <3> HIDE DEF x
      <3>6. /\ Len(loadStack') = Len(loadStack) + 1
            /\ loadStack'[Len(loadStack) + 1] = x
            /\ \A i \in 1 .. Len(loadStack) : loadStack'[i] = loadStack[i]
        BY <2>3, <3>1, <3>4
      <3>7. \A i \in 1 .. Len(loadStack') : i \in 1 .. Len(loadStack) \/ i = Len(loadStack) + 1
        BY <3>1, <3>6
      <3>8. Going' => Going
        BY <2>3 DEF Going
      <3> QED
        BY <2>1, <2>3, <3>5, <3>6, <3>7, <3>8, SameGraph DEF LoadsProgram
    <2> QED
      BY <2>1, <2>2, <2>3
  <1>2. ASSUME NEW m \in Everything, BindImport(m) PROVE LoadsProgram'
    <2>1. imports' = imports /\ (Raise("clash") \/ UNCHANGED <<error, phase, loadStack>>)
      BY <1>2 DEF BindImport, program
    <2> QED
      BY <1>0, <2>1, RaiseEnds, LoadsProgramKept DEF Going
  <1>3. ASSUME NEW m \in Everything, InstallModule(m) PROVE LoadsProgram'
    <2>1. /\ phase = "load" /\ loadStack # <<>> /\ loadStack' = Front(loadStack)
          /\ imports' = imports /\ error' = error
      BY <1>3 DEF InstallModule, Loading, program
    <2>2. loadStack \in Seq(Everything) /\ Len(loadStack) \in Nat
      BY Types
    <2>3. /\ Len(loadStack') = Len(loadStack) - 1
          /\ \A i \in 1 .. Len(loadStack) - 1 : loadStack'[i] = loadStack[i]
      BY <2>1, <2>2, StackOperations
    <2>4. \A i \in 1 .. Len(loadStack') : i \in 1 .. Len(loadStack)
      BY <2>2, <2>3
    <2> QED
      BY <2>1, <2>3, <2>4, SameGraph DEF LoadsProgram, Going
  <1>4. ASSUME NEW x, CallInit(x) PROVE LoadsProgram'
    <2>1. /\ imports' = imports
          /\ Raise("misnamed") \/ Raise("loop") \/ UNCHANGED <<error, phase, loadStack>>
      BY <1>4 DEF CallInit, program
    <2> QED
      BY <1>0, <2>1, RaiseEnds, LoadsProgramKept DEF Going
  <1>5. CASE InitRoot
    BY <1>4, <1>5 DEF InitRoot
  <1>6. CASE RootDone
    BY <1>6, LoadsProgramKept DEF RootDone, loading, program, Going
  <1>7. ASSUME NEW m \in Everything, InitImport(m) PROVE LoadsProgram'
    BY <1>4, <1>7 DEF InitImport
  <1>8. ASSUME NEW m \in Everything, ImportDone(m) PROVE LoadsProgram'
    BY <1>8, LoadsProgramKept DEF ImportDone, loading, program, Going
  <1>9. ASSUME NEW m \in Everything, NullImport(m) PROVE LoadsProgram'
    BY <1>9, LoadsProgramKept DEF NullImport, loading, program, Going
  <1>10. ASSUME NEW m \in Everything, FinishModule(m) PROVE LoadsProgram'
    <2>1. imports' = imports /\ (Raise("item") \/ UNCHANGED <<error, phase, loadStack>>)
      BY <1>10 DEF FinishModule, program
    <2> QED
      BY <1>0, <2>1, RaiseEnds, LoadsProgramKept DEF Going
  <1>11. CASE UNCHANGED vars
    BY <1>11, LoadsProgramKept DEF vars, loading, program, Going
  <1> QED
    BY <1>1, <1>2, <1>3, <1>5, <1>6, <1>7, <1>8, <1>9, <1>10, <1>11 DEF Next, LoadStep, InitStep

(* What the steps of the loader are to ImportOrder. *)
LEMMA OrderStutters ==
    ASSUME UNCHANGED <<imports, defect, overloads, error>>, phase' = "ready" <=> phase = "ready"
    PROVE  UNCHANGED Order!vars
  BY DEF Order!vars

LEMMA OrderRejects ==
    ASSUME TypeOK, commands = 0, error = "none", phase # "ready",
           UNCHANGED <<imports, defect, overloads>>,
           NEW e, Raise(e), e # "loop", e # "none",
           NEW m \in Reachable, defect[m] # "none"
    PROVE  Order!Next
  <1>1. error' = e
    BY RaiseEnds
  <1>2. m \in Everything /\ Order!InProgram(m)
    BY OrderInProgram DEF Reachable
  <1>3. Order!Reject
    BY <1>1, <1>2 DEF Order!Reject
  <1> QED
    BY <1>3 DEF Order!Next

LEMMA CallInitRefines ==
    ASSUME TypeOK, RegisterInv, commands = 0, VerdictInv, VerdictInv', phase = "init", error = "none",
           NEW x \in Reachable, CallInit(x)
    PROVE  [Order!Next]_(Order!vars)
  <1>1. /\ UNCHANGED <<imports, defect, overloads>>
        /\ \/ Raise("misnamed") /\ defect[x] = "misnamed"
           \/ Raise("loop")
           \/ UNCHANGED <<error, phase>>
    BY DEF CallInit, program
  <1>2. CASE Raise("misnamed") /\ defect[x] = "misnamed"
    BY <1>1, <1>2, OrderRejects
  <1>3. CASE Raise("loop")
    <2>1. error' = "loop" /\ phase' = "failed"
      BY <1>3, RaiseEnds
    <2>2. Cyclic
      BY <1>1, <2>1, SameGraph DEF VerdictInv
    <2>3. Order!ReportLoop
      BY <1>1, <2>1, <2>2, OrderInProgram DEF Order!ReportLoop
    <2> QED
      BY <2>3 DEF Order!Next
  <1>4. CASE UNCHANGED <<error, phase>>
    BY <1>1, <1>4, OrderStutters
  <1> QED
    BY <1>1, <1>2, <1>3, <1>4

LEMMA FinishModuleRefines ==
    ASSUME TypeOK, RegisterInv, WalkInv, OrderInv, Covered, VerdictInv, error = "none",
           NEW m \in Everything, FinishModule(m)
    PROVE  [Order!Next]_(Order!vars)
  <1>0. commands = 0
    BY DEF OrderInv
  <1>1. /\ Initialising(m) /\ visited[m] = Len(imports[m])
        /\ UNCHANGED <<imports, defect>>
        /\ \/ Raise("item") /\ UNCHANGED overloads /\ (defect[m] = "badItem" \/ m \notin installed)
           \/ overloads' = Cons(m, overloads) /\ UNCHANGED <<error, phase>>
    BY DEF FinishModule, AddOverload, program
  <1>2. /\ phase = "init" /\ Len(initStack) \in Nat \ {0} /\ m = initStack[Len(initStack)]
        /\ initState[m] = "RUNNING"
    BY <1>1, InitialisingFacts
  <1>3. m \in Reachable
    <2>1. Len(initStack) \in 1 .. Len(initStack)
      BY <1>2
    <2> QED
      BY <1>2, <2>1 DEF VerdictInv, Path
  <1>4. CASE Raise("item") /\ UNCHANGED overloads /\ (defect[m] = "badItem" \/ m \notin installed)
    <2>1. m \in installed
      BY <1>2, <1>3, CoveredProperty
    <2> QED
      BY <1>0, <1>1, <1>2, <1>3, <1>4, <2>1, OrderRejects
  <1>5. CASE overloads' = Cons(m, overloads) /\ UNCHANGED <<error, phase>>
    <2>1. m \notin Order!Registered
      <3>1. \A i \in 1 .. Len(overloads) : overloads[i] # m
        BY <1>2 DEF RegisterInv, RegisteredDone
      <3> QED
        BY <3>1, OrderInProgram
    <2>2. ASSUME NEW x \in Order!Dependencies(m) PROVE x \in Order!Registered
      <3>1. PICK i \in 1 .. Len(imports[m]) : imports[m][i] = x
        BY <2>2, OrderInProgram DEF ImportsOf
      <3>2. x # m /\ x \in Everything
        BY <2>2, <3>1, OrderInProgram, ImportTypes
      <3>3. initState[x] = "DONE"
        BY <1>1, <3>1, <3>2 DEF OrderInv, Visited
      <3>4. \E j \in 1 .. Len(overloads) : overloads[j] = x
        BY <1>2, <3>2, <3>3 DEF OrderInv, RegisteredIffDone
      <3> QED
        BY <3>4, OrderInProgram
    <2>3. overloads' = <<m>> \o overloads
      BY <1>5 DEF Cons
    <2>4. Order!InProgram(m)
      BY <1>3, OrderInProgram
    <2>5. Order!Register(m)
      BY <1>1, <1>2, <1>5, <2>1, <2>2, <2>3, <2>4 DEF Order!Register
    <2> QED
      BY <2>5 DEF Order!Next
  <1> QED
    BY <1>1, <1>4, <1>5

LEMMA RootDoneRefines ==
    ASSUME TypeOK, OrderInv, OrderInv', LoopVerdict', error = "none", RootDone
    PROVE  [Order!Next]_(Order!vars)
  <1>1. /\ phase = "init" /\ phase' \in {"init", "ready"}
        /\ UNCHANGED <<imports, defect, overloads, error>>
    BY DEF RootDone, initing, program
  <1>2. CASE phase' = "init"
    BY <1>1, <1>2, OrderStutters
  <1>3. CASE phase' = "ready"
    <2>1. Reachable = ToSet(overloads)
      <3>1. Reachable' = ToSet(overloads')
        BY <1>3 DEF LoopVerdict, OrderInv
      <3> QED
        BY <1>1, <3>1, SameGraph
    <2>2. \A m \in Everything : Order!InProgram(m) => m \in Order!Registered
      <3>1. DOMAIN overloads = 1 .. Len(overloads)
        BY SequenceTypes
      <3>2. ToSet(overloads) = Order!Registered
        BY <3>1, OrderInProgram DEF ToSet
      <3> QED
        BY <2>1, <3>2, OrderInProgram
    <2>3. Order!Complete
      BY <1>1, <1>3, <2>2 DEF Order!Complete
    <2> QED
      BY <2>3 DEF Order!Next
  <1> QED
    BY <1>1, <1>2, <1>3

(* The module whose imports are being loaded is of the program. *)
LEMMA LoadingReachable ==
    ASSUME TypeOK, LoadsProgram, NEW m \in Everything, Loading(m)
    PROVE  m \in Reachable
  <1>1. loadStack # <<>> /\ m = Last(loadStack)
    BY DEF Loading
  <1>2. loadStack \in Seq(Everything) /\ Len(loadStack) \in Nat
    BY Types
  <1>3. Len(loadStack) \in 1 .. Len(loadStack) /\ m = loadStack[Len(loadStack)]
    BY <1>1, <1>2 DEF Last
  <1> QED
    BY <1>3 DEF LoadsProgram

LEMMA NextRefines ==
    /\ TypeOK /\ RegisterInv /\ WalkInv /\ OrderInv /\ Covered /\ VerdictInv /\ LoadsProgram
    /\ OrderInv' /\ VerdictInv' /\ LoopVerdict'
    /\ [Next]_vars
    => [Order!Next]_(Order!vars)
  <1> SUFFICES ASSUME TypeOK, RegisterInv, WalkInv, OrderInv, Covered, VerdictInv, LoadsProgram,
                      OrderInv', VerdictInv', LoopVerdict', [Next]_vars
               PROVE  [Order!Next]_(Order!vars)
    OBVIOUS
  <1>0. commands = 0 /\ commands' = 0
    BY DEF OrderInv
  <1>00. phase \in {"load", "init"} => error = "none"
    BY DEF LoadsProgram, Going
  <1>1. ASSUME NEW m \in Everything, EnterModule(m) PROVE [Order!Next]_(Order!vars)
    <2>1. /\ Loading(m) /\ phase = "load" /\ bound[m] < Len(imports[m])
          /\ UNCHANGED <<imports, defect, overloads>>
          /\ \/ Raise("load") /\ defect[NextImport(m)] = "unloadable"
             \/ UNCHANGED <<error, phase>>
      BY <1>1 DEF EnterModule, Loading, program
    <2>2. CASE Raise("load") /\ defect[NextImport(m)] = "unloadable"
      <3>1. m \in Reachable
        BY <2>1, LoadingReachable
      <3>2. bound[m] + 1 \in 1 .. Len(imports[m])
        BY <2>1, ImportTypes
      <3>3. NextImport(m) \in ImportsOf(m)
        BY <3>2 DEF ImportsOf, NextImport
      <3>4. NextImport(m) \in Reachable
        BY <3>1, <3>3, ReachableIsLeast
      <3> QED
        BY <1>0, <1>00, <2>1, <2>2, <3>4, OrderRejects
    <2>3. CASE UNCHANGED <<error, phase>>
      BY <2>1, <2>3, OrderStutters
    <2> QED
      BY <2>1, <2>2, <2>3
  <1>2. ASSUME NEW m \in Everything, BindImport(m) PROVE [Order!Next]_(Order!vars)
    <2>1. /\ Loading(m) /\ phase = "load"
          /\ UNCHANGED <<imports, defect, overloads>>
          /\ \/ Raise("clash") /\ defect[m] = "clash"
             \/ UNCHANGED <<error, phase>>
      BY <1>2 DEF BindImport, Loading, program
    <2>2. m \in Reachable
      BY <2>1, LoadingReachable
    <2>3. CASE Raise("clash") /\ defect[m] = "clash"
      BY <1>0, <1>00, <2>1, <2>2, <2>3, OrderRejects
    <2>4. CASE UNCHANGED <<error, phase>>
      BY <2>1, <2>4, OrderStutters
    <2> QED
      BY <2>1, <2>3, <2>4
  <1>3. ASSUME NEW m \in Everything, InstallModule(m) PROVE [Order!Next]_(Order!vars)
    <2>1. /\ phase = "load" /\ phase' \in {"load", "init"}
          /\ UNCHANGED <<imports, defect, overloads, error>>
      BY <1>3 DEF InstallModule, Loading, initing, program
    <2> QED
      BY <2>1, OrderStutters
  <1>4. CASE InitRoot
    <2>1. phase = "init" /\ roots # <<>> /\ CallInit(Head(roots))
      BY <1>4 DEF InitRoot
    <2>2. roots \in Seq(Everything) /\ Len(roots) \in Nat
      BY Types
    <2>3. 1 \in 1 .. Len(roots) /\ Head(roots) = roots[1]
      BY <2>1, <2>2
    <2>4. Head(roots) \in Reachable
      BY <2>3, ReachableIsLeast DEF VerdictInv, FromRoots
    <2> QED
      BY <1>0, <1>00, <2>1, <2>4, CallInitRefines
  <1>5. CASE RootDone
    <2>1. phase = "init"
      BY <1>5 DEF RootDone
    <2> QED
      BY <1>00, <1>5, <2>1, RootDoneRefines
  <1>6. ASSUME NEW m \in Everything, InitImport(m) PROVE [Order!Next]_(Order!vars)
    <2> DEFINE x == imports[m][visited[m] + 1]
    <2>1. Initialising(m) /\ visited[m] < bound[m] /\ CallInit(x)
      BY <1>6 DEF InitImport
    <2>2. phase = "init" /\ Len(initStack) \in Nat \ {0} /\ m = initStack[Len(initStack)]
      BY <2>1, InitialisingFacts
    <2>3. Len(initStack) \in 1 .. Len(initStack) /\ visited[m] + 1 \in 1 .. Len(imports[m])
      BY <2>1, <2>2, ImportTypes
    <2>4. m \in Reachable /\ x \in ImportsOf(m)
      BY <2>2, <2>3 DEF VerdictInv, Path, ImportsOf
    <2> HIDE DEF x
    <2>5. x \in Reachable
      BY <2>4, ReachableIsLeast
    <2> QED
      BY <1>0, <1>00, <2>1, <2>2, <2>5, CallInitRefines
  <1>7. ASSUME NEW m \in Everything, ImportDone(m) PROVE [Order!Next]_(Order!vars)
    BY <1>7, OrderStutters DEF ImportDone, program
  <1>8. ASSUME NEW m \in Everything, NullImport(m) PROVE [Order!Next]_(Order!vars)
    BY <1>8, OrderStutters DEF NullImport, Initialising, initing, program
  <1>9. ASSUME NEW m \in Everything, FinishModule(m) PROVE [Order!Next]_(Order!vars)
    <2>1. phase = "init"
      BY <1>9 DEF FinishModule, Initialising
    <2> QED
      BY <1>00, <1>9, <2>1, FinishModuleRefines
  <1>10. CASE ReplImport
    BY <1>0, <1>10 DEF ReplImport
  <1>11. CASE UNCHANGED vars
    BY <1>11, OrderStutters DEF vars, initing, program
  <1> QED
    BY <1>1, <1>2, <1>3, <1>4, <1>5, <1>6, <1>7, <1>8, <1>9, <1>10, <1>11 DEF Next, LoadStep, InitStep

(* A compilation, for any imports and errors, takes no step that the abstract
   specification of initModule does not: it registers modules of the program one
   by one, none before its imports, completes only when all are registered, and
   reports a loop or rejects a source only if there is one. (That it does not
   stop half-way is left to the runs.) *)
THEOREM LoaderImplementsImportOrder ==
    ASSUME MaxCommands = 0
    PROVE  Spec => Order!Init /\ [][Order!Next]_(Order!vars)
  <1>1. TypeOK /\ RegisterInv /\ WalkInv /\ OrderInv /\ Covered /\ [Next]_vars => Covered'
    BY NextCovered, NoLines
  <1>2. TypeOK /\ RegisterInv /\ WalkInv /\ OrderInv /\ VerdictInv /\ [Next]_vars => VerdictInv'
    BY NextVerdict, NoLines
  <1>3. TypeOK /\ OrderInv /\ LoadsProgram /\ [Next]_vars => LoadsProgram'
    BY NextLoadsProgram, NoLines
  <1> QED
    BY <1>1, <1>2, <1>3, InitCovered, InitVerdict, InitLoadsProgram, OrderInit, NextRefines,
       SpecOrder, LoaderLoopVerdict, PTL DEF Spec

(***************************************************************************)
(* Both walks come to an end.                                              *)
(***************************************************************************)
(* What remains to be done: modules to enter, imports to bind, loadDependents
   calls to return from, initModule calls to begin, imports to visit, modules to
   finish, roots to initialise, and the end of it all. *)
OnStack == {loadStack[i] : i \in 1 .. Len(loadStack)}

Pending(work, m, i) ==
    \/ work = "enter" /\ i = 0 /\ m \in Modules \ globalModules
    \/ work = "bind" /\ i \in bound[m] + 1 .. Len(imports[m])
    \/ work = "return" /\ i = 0 /\ (m \in OnStack \/ m \in Modules \ globalModules)
    \/ work = "begin" /\ i = 0 /\ initState[m] = "BEFORE"
    \/ work = "visit" /\ i \in visited[m] + 1 .. Len(imports[m])
    \/ work = "finish" /\ i = 0 /\ initState[m] # "DONE"
    \/ work = "root" /\ m = Main /\ i \in 1 .. Len(roots)
    \/ work = "end" /\ m = Main /\ i = 0 /\ phase \in {"load", "init"}

Works == {"enter", "bind", "return", "begin", "visit", "finish", "root", "end"}

ToDo == {w \in Works \X (Everything \X Nat) : Pending(w[1], w[2][1], w[2][2])}

Remaining == Cardinality(ToDo)

(* No module is being loaded by two calls at once: a cycle of imports meets a
   module that is in globalModules. *)
LoadedByOneCall ==
    \A i, j \in 1 .. Len(loadStack) : loadStack[i] = loadStack[j] => i = j

LEMMA InitOneCall == Init => LoadedByOneCall
  <1> SUFFICES ASSUME Init PROVE LoadedByOneCall
    OBVIOUS
  <1>1. Len(loadStack) = 2 /\ loadStack[1] = Main /\ loadStack[2] = Prelude
    BY DEF Init
  <1>2. Main # Prelude
    BY LoaderAssumption
  <1> QED
    BY <1>1, <1>2 DEF LoadedByOneCall

LEMMA CallInitOneCall ==
    ASSUME TypeOK, NEW x, CallInit(x)
    PROVE  UNCHANGED loadStack \/ Len(loadStack') = 0
  BY RaiseClears DEF CallInit, Cleared

LEMMA NextOneCall == TypeOK /\ WalkInv /\ LoadedByOneCall /\ [Next]_vars => LoadedByOneCall'
  <1> SUFFICES ASSUME TypeOK, WalkInv, LoadedByOneCall, [Next]_vars PROVE LoadedByOneCall'
    OBVIOUS
  <1>1. loadStack \in Seq(Everything) /\ Len(loadStack) \in Nat
    BY Types
  <1>2. CASE UNCHANGED loadStack \/ Len(loadStack') = 0
    BY <1>2 DEF LoadedByOneCall
  <1>3. ASSUME NEW m \in Everything, EnterModule(m) PROVE LoadedByOneCall'
    <2> DEFINE x == NextImport(m)
    <2>1. /\ x \notin globalModules /\ bound[m] < Len(imports[m])
          /\ Raise("load") \/ loadStack' = Append(loadStack, x)
      BY <1>3 DEF EnterModule, Descend
    <2>2. x \in Modules /\ x # Main /\ x \in Everything
      <3>1. bound[m] + 1 \in 1 .. Len(imports[m])
        BY <2>1, ImportTypes
      <3> QED
        BY <3>1, Types DEF NextImport, Everything
    <2> HIDE DEF x
    <2>3. CASE loadStack' = Append(loadStack, x)
      <3>1. /\ Len(loadStack') = Len(loadStack) + 1
            /\ loadStack'[Len(loadStack) + 1] = x
            /\ \A i \in 1 .. Len(loadStack) : loadStack'[i] = loadStack[i]
        BY <1>1, <2>2, <2>3
      <3>2. \A i \in 1 .. Len(loadStack) : loadStack[i] # x
        BY <2>1, <2>2 DEF TypeOK
      <3>3. \A i \in 1 .. Len(loadStack') : i \in 1 .. Len(loadStack) \/ i = Len(loadStack) + 1
        BY <1>1, <3>1
      <3> QED
        BY <3>1, <3>2, <3>3 DEF LoadedByOneCall
    <2> QED
      BY <1>2, <2>1, <2>3, RaiseClears DEF Cleared
  <1>4. ASSUME NEW m \in Everything, BindImport(m) PROVE LoadedByOneCall'
    BY <1>2, <1>4, RaiseClears DEF BindImport, Cleared
  <1>5. ASSUME NEW m \in Everything, InstallModule(m) PROVE LoadedByOneCall'
    <2>1. loadStack # <<>> /\ loadStack' = Front(loadStack)
      BY <1>5 DEF InstallModule, Loading
    <2>2. /\ Len(loadStack') = Len(loadStack) - 1
          /\ \A i \in 1 .. Len(loadStack) - 1 : loadStack'[i] = loadStack[i]
      BY <1>1, <2>1, StackOperations
    <2> QED
      BY <1>1, <2>2 DEF LoadedByOneCall
  <1>6. CASE InitRoot
    BY <1>2, <1>6, CallInitOneCall DEF InitRoot
  <1>7. ASSUME NEW m \in Everything, InitImport(m) PROVE LoadedByOneCall'
    BY <1>2, <1>7, CallInitOneCall DEF InitImport
  <1>8. ASSUME NEW m \in Everything, FinishModule(m) PROVE LoadedByOneCall'
    BY <1>2, <1>8, RaiseClears DEF FinishModule, Cleared
  <1>9. ASSUME NEW m \in Everything, ImportDone(m) \/ NullImport(m) PROVE LoadedByOneCall'
    BY <1>2, <1>9 DEF ImportDone, NullImport, loading
  <1>10. CASE RootDone \/ UNCHANGED vars
    BY <1>2, <1>10 DEF RootDone, vars, loading
  <1>11. CASE ReplImport
    <2>1. Len(loadStack') = 1
      BY <1>11 DEF ReplImport
    <2> QED
      BY <2>1 DEF LoadedByOneCall
  <1> QED
    BY <1>3, <1>4, <1>5, <1>6, <1>7, <1>8, <1>9, <1>10, <1>11 DEF Next, LoadStep, InitStep

(* At any moment only so much remains: every module's imports are a finite list. *)
LEMMA ToDoFinite ==
    ASSUME TypeOK, IsFiniteSet(Modules) PROVE IsFiniteSet(ToDo) /\ Remaining \in Nat
  <1>1. IsFiniteSet(Everything)
    BY FS_AddElement DEF Everything
  <1> DEFINE f == [m \in Everything |-> Len(imports[m])]
  <1>2. f \in [Everything -> Nat]
    BY ImportTypes
  <1>3. PICK b \in Nat : \A m \in Everything : f[m] <= b
    <2> HIDE DEF f
    <2> QED
      BY <1>1, <1>2, FiniteBound
  <1>4. Len(roots) \in Nat
    BY Types
  <1>5. PICK c \in Nat : b <= c /\ Len(roots) <= c
    BY <1>4
  <1>6. \A m \in Everything : Len(imports[m]) <= c /\ Len(imports[m]) \in Nat /\ bound[m] \in Nat /\ visited[m] \in Nat
    <2>1. \A m \in Everything : Len(imports[m]) <= b /\ Len(imports[m]) \in Nat
      BY <1>3, ImportTypes
    <2> QED
      BY <1>5, <2>1, ImportTypes
  <1>7. ASSUME NEW k, NEW m \in Everything, NEW i \in Nat, Pending(k, m, i) PROVE i \in 0 .. c
    BY <1>4, <1>5, <1>6, <1>7 DEF Pending
  <1>8. ASSUME NEW w \in ToDo PROVE w \in Works \X (Everything \X (0 .. c))
    <2> HIDE DEF Works
    <2>1. w \in Works \X (Everything \X Nat) /\ Pending(w[1], w[2][1], w[2][2])
      BY DEF ToDo
    <2>2. w = <<w[1], <<w[2][1], w[2][2]>>>> /\ w[1] \in Works /\ w[2][1] \in Everything /\ w[2][2] \in Nat
      BY <2>1
    <2>3. w[2][2] \in 0 .. c
      BY <1>7, <2>1, <2>2
    <2> QED
      BY <2>2, <2>3
  <1>9. IsFiniteSet(Works)
    <2>1. IsFiniteSet({"enter", "bind", "return", "begin"} \cup {"visit", "finish", "root", "end"})
      BY FourFinite, FS_Union
    <2>2. Works = {"enter", "bind", "return", "begin"} \cup {"visit", "finish", "root", "end"}
      BY DEF Works
    <2> QED
      BY <2>1, <2>2
  <1>10. IsFiniteSet(0 .. c)
    BY FS_Interval
  <1>11. IsFiniteSet(Works \X (Everything \X (0 .. c)))
    BY <1>1, <1>9, <1>10, FS_Product
  <1>12. ToDo \in SUBSET (Works \X (Everything \X (0 .. c)))
    <2> HIDE DEF ToDo
    <2> QED
      BY <1>8
  <1> QED
    BY <1>11, <1>12, FS_Subset, FS_CardinalityType DEF Remaining

(* Work that a step does, when the step makes no work. *)
LEMMA WorkDone ==
    ASSUME TypeOK, IsFiniteSet(Modules),
           NEW work \in Works, NEW m \in Everything, NEW i \in Nat,
           Pending(work, m, i), ~Pending(work, m, i)',
           \A k \in Works : \A x \in Everything : \A j \in Nat :
              Pending(k, x, j)' => Pending(k, x, j)
    PROVE  Remaining' < Remaining
  <1> HIDE DEF Works
  <1>1. <<work, <<m, i>>>> \in ToDo /\ <<work, <<m, i>>>> \notin ToDo'
    BY DEF ToDo
  <1>2. ASSUME NEW w \in ToDo' PROVE w \in ToDo
    <2>1. w \in Works \X (Everything \X Nat) /\ Pending(w[1], w[2][1], w[2][2])'
      BY DEF ToDo
    <2> QED
      BY <2>1 DEF ToDo
  <1>3. ToDo' \subseteq ToDo
    <2> HIDE DEF ToDo
    <2> QED
      BY <1>2
  <1> QED
    BY <1>1, <1>3, ToDoFinite, SmallerSubset DEF Remaining

(* What no step of the two walks does: it adds to what remains. *)
MakesNoWork ==
    /\ imports' = imports
    /\ globalModules \subseteq globalModules'
    /\ OnStack' \subseteq OnStack \cup (Modules \ globalModules)
    /\ \A m \in Everything :
          /\ bound[m] <= bound'[m] /\ visited[m] <= visited'[m]
          /\ initState'[m] = "BEFORE" => initState[m] = "BEFORE"
          /\ initState'[m] # "DONE" => initState[m] # "DONE"
    /\ Len(roots') <= Len(roots)
    /\ phase \in {"load", "init"}

LEMMA NoWorkMade ==
    ASSUME TypeOK, TypeOK', MakesNoWork
    PROVE  \A k \in Works : \A m \in Everything : \A i \in Nat :
              Pending(k, m, i)' => Pending(k, m, i)
  <1> SUFFICES ASSUME NEW k \in Works, NEW m \in Everything, NEW i \in Nat, Pending(k, m, i)'
               PROVE  Pending(k, m, i)
    OBVIOUS
  <1>1. /\ bound[m] \in Nat /\ bound'[m] \in Nat /\ visited[m] \in Nat /\ visited'[m] \in Nat
        /\ Len(imports[m]) \in Nat /\ Len(roots) \in Nat /\ Len(roots') \in Nat
    <2>1. Len(roots) \in Nat /\ bound[m] \in Nat /\ visited[m] \in Nat /\ Len(imports[m]) \in Nat
      BY Types, ImportTypes
    <2>2. Len(roots') \in Nat /\ bound'[m] \in Nat /\ visited'[m] \in Nat
      BY DEF TypeOK
    <2> QED
      BY <2>1, <2>2
  <1>2. CASE k = "enter"
    BY <1>2 DEF Pending, MakesNoWork
  <1>3. CASE k = "bind"
    BY <1>1, <1>3 DEF Pending, MakesNoWork
  <1>4. CASE k = "return"
    BY <1>4 DEF Pending, MakesNoWork
  <1>5. CASE k = "begin" \/ k = "finish"
    BY <1>5 DEF Pending, MakesNoWork
  <1>6. CASE k = "visit"
    BY <1>1, <1>6 DEF Pending, MakesNoWork
  <1>7. CASE k = "root"
    BY <1>1, <1>7 DEF Pending, MakesNoWork
  <1>8. CASE k = "end"
    BY <1>8 DEF Pending, MakesNoWork
  <1> QED
    BY <1>2, <1>3, <1>4, <1>5, <1>6, <1>7, <1>8 DEF Works

(* An error drops both recursions, and what they had to do. *)
LEMMA RaiseAdvances ==
    ASSUME TypeOK, TypeOK', IsFiniteSet(Modules), Cleared, MakesNoWork
    PROVE  Remaining' < Remaining
  <1>1. Main \in Everything /\ "end" \in Works /\ 0 \in Nat
    BY DEF Everything, Works
  <1>2. Pending("end", Main, 0) /\ ~Pending("end", Main, 0)'
    BY DEF Pending, Cleared, MakesNoWork
  <1> QED
    BY <1>1, <1>2, NoWorkMade, WorkDone

LEMMA StackEmptied ==
    ASSUME TypeOK, Cleared
    PROVE  OnStack' = {} /\ Len(roots') <= Len(roots)
  BY Types DEF OnStack, Cleared

LEMMA EnterModuleAdvances ==
    ASSUME TypeOK, TypeOK', IsFiniteSet(Modules), NEW m \in Everything, EnterModule(m)
    PROVE  Remaining' < Remaining
  <1> DEFINE x == NextImport(m)
  <1>1. /\ phase = "load" /\ x \notin globalModules /\ bound[m] < Len(imports[m])
        /\ UNCHANGED <<imports, bound, visited, initState>>
        /\ \/ Raise("load") /\ UNCHANGED globalModules
           \/ /\ globalModules' = globalModules \cup {x}
              /\ loadStack' = Append(loadStack, x)
              /\ UNCHANGED <<phase, roots>>
    BY DEF EnterModule, Loading, Record, Descend, program
  <1>2. x \in Modules /\ x \in Everything
    <2>1. bound[m] + 1 \in 1 .. Len(imports[m])
      BY <1>1, ImportTypes
    <2> QED
      BY <2>1, Types DEF NextImport, Everything
  <1>3. \A y \in Everything : bound[y] \in Nat /\ visited[y] \in Nat
    BY ImportTypes
  <1>4. Len(roots) \in Nat /\ Len(loadStack) \in Nat /\ loadStack \in Seq(Everything)
    BY Types
  <1> HIDE DEF x
  <1>5. CASE Raise("load") /\ UNCHANGED globalModules
    <2>1. Cleared
      BY <1>5, RaiseClears
    <2>2. MakesNoWork
      BY <1>1, <1>3, <1>5, <2>1, StackEmptied DEF MakesNoWork
    <2> QED
      BY <2>1, <2>2, RaiseAdvances
  <1>6. CASE /\ globalModules' = globalModules \cup {x}
             /\ loadStack' = Append(loadStack, x)
             /\ UNCHANGED <<phase, roots>>
    <2>1. /\ Len(loadStack') = Len(loadStack) + 1
          /\ loadStack'[Len(loadStack) + 1] = x
          /\ \A i \in 1 .. Len(loadStack) : loadStack'[i] = loadStack[i]
      BY <1>2, <1>4, <1>6
    <2>2. \A i \in 1 .. Len(loadStack') : i \in 1 .. Len(loadStack) \/ i = Len(loadStack) + 1
      BY <1>4, <2>1
    <2>3. OnStack' \subseteq OnStack \cup {x}
      BY <2>1, <2>2 DEF OnStack
    <2>4. MakesNoWork
      BY <1>1, <1>2, <1>3, <1>4, <1>6, <2>3 DEF MakesNoWork
    <2>0. PICK y \in Everything : y = x
      BY <1>2
    <2>5. Pending("enter", y, 0) /\ ~Pending("enter", y, 0)'
      BY <1>1, <1>2, <1>6, <2>0 DEF Pending
    <2>6. "enter" \in Works /\ 0 \in Nat
      BY DEF Works
    <2> QED
      BY <2>4, <2>5, <2>6, NoWorkMade, WorkDone
  <1> QED
    BY <1>1, <1>5, <1>6

LEMMA BindImportAdvances ==
    ASSUME TypeOK, TypeOK', IsFiniteSet(Modules), NEW m \in Everything, BindImport(m)
    PROVE  Remaining' < Remaining
  <1>1. /\ phase = "load" /\ bound[m] < Len(imports[m])
        /\ bound' = [bound EXCEPT ![m] = @ + 1]
        /\ UNCHANGED <<imports, globalModules, visited, initState>>
        /\ Raise("clash") \/ UNCHANGED <<phase, roots, loadStack>>
    BY DEF BindImport, Loading, Bind, program
  <1>2. \A y \in Everything : /\ bound[y] \in Nat /\ visited[y] \in Nat
                              /\ bound'[y] = IF y = m THEN bound[m] + 1 ELSE bound[y]
    BY <1>1, Types
  <1>3. Len(imports[m]) \in Nat /\ Len(roots) \in Nat
    BY Types, ImportTypes
  <1>4. CASE Raise("clash")
    <2>1. Cleared
      BY <1>4, RaiseClears
    <2>2. MakesNoWork
      BY <1>1, <1>2, <2>1, StackEmptied DEF MakesNoWork
    <2> QED
      BY <2>1, <2>2, RaiseAdvances
  <1>5. CASE UNCHANGED <<phase, roots, loadStack>>
    <2>1. MakesNoWork
      BY <1>1, <1>2, <1>3, <1>5 DEF MakesNoWork, OnStack
    <2>2. PICK i \in Nat : i = bound[m] + 1
      BY <1>2
    <2>3. Pending("bind", m, i) /\ ~Pending("bind", m, i)'
      BY <1>1, <1>2, <1>3, <2>2 DEF Pending
    <2>4. "bind" \in Works
      BY DEF Works
    <2> QED
      BY <2>1, <2>3, <2>4, NoWorkMade, WorkDone
  <1> QED
    BY <1>1, <1>4, <1>5

LEMMA InstallModuleAdvances ==
    ASSUME TypeOK, TypeOK', LoadedByOneCall, IsFiniteSet(Modules),
           NEW m \in Everything, InstallModule(m)
    PROVE  Remaining' < Remaining
  <1>1. /\ phase = "load" /\ loadStack # <<>> /\ m = Last(loadStack)
        /\ loadStack' = Front(loadStack)
        /\ UNCHANGED <<imports, globalModules, bound, visited, initState, roots>>
    BY DEF InstallModule, Loading, initing, program
  <1>2. /\ Len(loadStack) \in Nat \ {0}
        /\ m = loadStack[Len(loadStack)]
        /\ Len(loadStack') = Len(loadStack) - 1
        /\ \A i \in 1 .. Len(loadStack) - 1 : loadStack'[i] = loadStack[i]
    <2>1. loadStack \in Seq(Everything) /\ Len(loadStack) \in Nat
      BY Types
    <2>2. /\ Len(Front(loadStack)) = Len(loadStack) - 1
          /\ \A i \in 1 .. Len(loadStack) - 1 : Front(loadStack)[i] = loadStack[i]
      BY <1>1, <2>1, StackOperations
    <2> QED
      BY <1>1, <2>1, <2>2 DEF Last
  <1>3. m \in OnStack /\ m \notin OnStack' /\ OnStack' \subseteq OnStack
    BY <1>2 DEF OnStack, LoadedByOneCall
  <1>4. m \notin Modules \ globalModules
    <2>1. \A i \in 1 .. Len(loadStack) : loadStack[i] \in globalModules \cup {Main}
      BY DEF TypeOK
    <2>2. Len(loadStack) \in 1 .. Len(loadStack)
      BY <1>2
    <2> QED
      BY <1>2, <2>1, <2>2, Types
  <1>5. MakesNoWork
    <2>1. Len(roots) \in Nat /\ \A y \in Everything : bound[y] \in Nat /\ visited[y] \in Nat
      BY Types, ImportTypes
    <2> QED
      BY <1>1, <1>3, <2>1 DEF MakesNoWork
  <1>6. Pending("return", m, 0) /\ ~Pending("return", m, 0)'
    BY <1>1, <1>3, <1>4 DEF Pending
  <1>7. "return" \in Works /\ 0 \in Nat
    BY DEF Works
  <1> QED
    BY <1>5, <1>6, <1>7, NoWorkMade, WorkDone

LEMMA CallInitAdvances ==
    ASSUME TypeOK, TypeOK', IsFiniteSet(Modules), phase = "init", NEW x \in Everything, CallInit(x)
    PROVE  Remaining' < Remaining
  <1>1. /\ UNCHANGED <<imports, globalModules, bound, visited>>
        /\ \/ (Raise("misnamed") \/ Raise("loop")) /\ UNCHANGED initState
           \/ /\ initState[x] # "DONE" /\ initState[x] # "RUNNING"
              /\ initState' = [initState EXCEPT ![x] = "RUNNING"]
              /\ UNCHANGED <<phase, roots, loadStack>>
    BY DEF CallInit, Returns, InLoop, program
  <1>2. /\ Len(roots) \in Nat
        /\ initState \in [Everything -> {"BEFORE", "RUNNING", "DONE"}]
        /\ \A y \in Everything : bound[y] \in Nat /\ visited[y] \in Nat
    BY Types, ImportTypes
  <1>3. CASE (Raise("misnamed") \/ Raise("loop")) /\ UNCHANGED initState
    <2>1. Cleared
      BY <1>3, RaiseClears
    <2>2. MakesNoWork
      BY <1>1, <1>2, <1>3, <2>1, StackEmptied DEF MakesNoWork
    <2> QED
      BY <2>1, <2>2, RaiseAdvances
  <1>4. CASE /\ initState[x] # "DONE" /\ initState[x] # "RUNNING"
             /\ initState' = [initState EXCEPT ![x] = "RUNNING"]
             /\ UNCHANGED <<phase, roots, loadStack>>
    <2>1. initState[x] = "BEFORE" /\ initState'[x] = "RUNNING"
      BY <1>2, <1>4
    <2>2. MakesNoWork
      BY <1>1, <1>2, <1>4, <2>1 DEF MakesNoWork, OnStack
    <2>3. Pending("begin", x, 0) /\ ~Pending("begin", x, 0)'
      BY <2>1 DEF Pending
    <2>4. "begin" \in Works /\ 0 \in Nat
      BY DEF Works
    <2> QED
      BY <2>2, <2>3, <2>4, NoWorkMade, WorkDone
  <1> QED
    BY <1>1, <1>3, <1>4

LEMMA RootDoneAdvances ==
    ASSUME TypeOK, TypeOK', IsFiniteSet(Modules), RootDone PROVE Remaining' < Remaining
  <1>1. /\ phase = "init" /\ roots # <<>> /\ roots' = Tail(roots)
        /\ UNCHANGED <<imports, globalModules, bound, visited, initState, loadStack>>
    BY DEF RootDone, loading, initing, program
  <1>2. Len(roots) \in Nat \ {0} /\ Len(roots') = Len(roots) - 1
    <2>1. roots \in Seq(Everything) /\ Len(roots) \in Nat
      BY Types
    <2> QED
      BY <1>1, <2>1
  <1>3. MakesNoWork
    <2>1. \A y \in Everything : bound[y] \in Nat /\ visited[y] \in Nat
      BY ImportTypes
    <2> QED
      BY <1>1, <1>2, <2>1 DEF MakesNoWork, OnStack
  <1>4. PICK n \in Nat : n = Len(roots)
    BY <1>2
  <1>5. Pending("root", Main, n) /\ ~Pending("root", Main, n)'
    BY <1>2, <1>4 DEF Pending
  <1>6. "root" \in Works /\ Main \in Everything
    BY DEF Works, Everything
  <1> QED
    BY <1>3, <1>5, <1>6, NoWorkMade, WorkDone

LEMMA ImportDoneAdvances ==
    ASSUME TypeOK, TypeOK', IsFiniteSet(Modules), NEW m \in Everything, ImportDone(m)
    PROVE  Remaining' < Remaining
  <1>1. /\ phase = "init" /\ visited[m] < bound[m]
        /\ visited' = [visited EXCEPT ![m] = @ + 1]
        /\ UNCHANGED <<imports, globalModules, bound, initState, roots, loadStack>>
    BY DEF ImportDone, Initialising, loading, program
  <1>2. \A y \in Everything : /\ bound[y] \in Nat /\ visited[y] \in Nat
                              /\ visited'[y] = IF y = m THEN visited[m] + 1 ELSE visited[y]
    BY <1>1, Types
  <1>3. Len(imports[m]) \in Nat /\ bound[m] <= Len(imports[m]) /\ Len(roots) \in Nat
    BY Types, ImportTypes
  <1>4. MakesNoWork
    BY <1>1, <1>2, <1>3 DEF MakesNoWork, OnStack
  <1>5. PICK i \in Nat : i = visited[m] + 1
    BY <1>2
  <1>6. Pending("visit", m, i) /\ ~Pending("visit", m, i)'
    BY <1>1, <1>2, <1>3, <1>5 DEF Pending
  <1>7. "visit" \in Works
    BY DEF Works
  <1> QED
    BY <1>4, <1>6, <1>7, NoWorkMade, WorkDone

LEMMA NullImportAdvances ==
    ASSUME TypeOK, TypeOK', IsFiniteSet(Modules), NEW m \in Everything, NullImport(m)
    PROVE  Remaining' < Remaining
  <1>1. /\ phase = "init" /\ phase' = "crashed"
        /\ UNCHANGED <<imports, globalModules, bound, visited, initState, roots, loadStack>>
    BY DEF NullImport, Initialising, loading, initing, program
  <1>2. MakesNoWork
    <2>1. Len(roots) \in Nat /\ \A y \in Everything : bound[y] \in Nat /\ visited[y] \in Nat
      BY Types, ImportTypes
    <2> QED
      BY <1>1, <2>1 DEF MakesNoWork, OnStack
  <1>3. Pending("end", Main, 0) /\ ~Pending("end", Main, 0)'
    BY <1>1 DEF Pending
  <1>4. "end" \in Works /\ Main \in Everything /\ 0 \in Nat
    BY DEF Works, Everything
  <1> QED
    BY <1>2, <1>3, <1>4, NoWorkMade, WorkDone

LEMMA FinishModuleAdvances ==
    ASSUME TypeOK, TypeOK', RegisterInv, WalkInv, IsFiniteSet(Modules),
           NEW m \in Everything, FinishModule(m)
    PROVE  Remaining' < Remaining
  <1>1. /\ Initialising(m)
        /\ initState' = [initState EXCEPT ![m] = "DONE"]
        /\ UNCHANGED <<imports, globalModules, bound, visited>>
        /\ Raise("item") \/ UNCHANGED <<phase, roots, loadStack>>
    BY DEF FinishModule, program
  <1>2. /\ Len(roots) \in Nat
        /\ initState \in [Everything -> {"BEFORE", "RUNNING", "DONE"}]
        /\ \A y \in Everything : bound[y] \in Nat /\ visited[y] \in Nat
    BY Types, ImportTypes
  <1>3. phase = "init" /\ initState[m] = "RUNNING" /\ initState'[m] = "DONE"
    BY <1>1, <1>2, InitialisingFacts
  <1>4. CASE Raise("item")
    <2>1. Cleared
      BY <1>4, RaiseClears
    <2>2. MakesNoWork
      BY <1>1, <1>2, <1>3, <2>1, StackEmptied DEF MakesNoWork
    <2> QED
      BY <2>1, <2>2, RaiseAdvances
  <1>5. CASE UNCHANGED <<phase, roots, loadStack>>
    <2>1. MakesNoWork
      BY <1>1, <1>2, <1>3, <1>5 DEF MakesNoWork, OnStack
    <2>2. Pending("finish", m, 0) /\ ~Pending("finish", m, 0)'
      BY <1>3 DEF Pending
    <2>3. "finish" \in Works /\ 0 \in Nat
      BY DEF Works
    <2> QED
      BY <2>1, <2>2, <2>3, NoWorkMade, WorkDone
  <1> QED
    BY <1>1, <1>4, <1>5

LEMMA StepAdvances ==
    ASSUME TypeOK, TypeOK', RegisterInv, WalkInv, LoadedByOneCall, IsFiniteSet(Modules),
           LoadStep \/ InitStep
    PROVE  Remaining' < Remaining
  <1>1. ASSUME NEW m \in Everything, EnterModule(m) \/ BindImport(m) \/ InstallModule(m)
        PROVE  Remaining' < Remaining
    BY <1>1, EnterModuleAdvances, BindImportAdvances, InstallModuleAdvances
  <1>2. CASE InitRoot
    <2>1. phase = "init" /\ roots # <<>> /\ CallInit(Head(roots))
      BY <1>2 DEF InitRoot
    <2>2. Head(roots) \in Everything
      <3>1. roots \in Seq(Everything)
        BY Types
      <3> QED
        BY <2>1, <3>1
    <2> QED
      BY <2>1, <2>2, CallInitAdvances
  <1>3. ASSUME NEW m \in Everything, InitImport(m) PROVE Remaining' < Remaining
    <2>1. Initialising(m) /\ visited[m] < bound[m] /\ CallInit(imports[m][visited[m] + 1])
      BY <1>3 DEF InitImport
    <2>2. phase = "init" /\ imports[m][visited[m] + 1] \in Everything
      BY <2>1, InitialisingFacts
    <2> QED
      BY <2>1, <2>2, CallInitAdvances
  <1>4. ASSUME NEW m \in Everything, ImportDone(m) \/ NullImport(m) \/ FinishModule(m)
        PROVE  Remaining' < Remaining
    BY <1>4, ImportDoneAdvances, NullImportAdvances, FinishModuleAdvances
  <1>5. CASE RootDone
    BY <1>5, RootDoneAdvances
  <1> QED
    BY <1>1, <1>2, <1>3, <1>4, <1>5 DEF LoadStep, InitStep

(* Every step of loading and initialisation, in any session, lowers a natural
   number, whatever the imports and errors: a cycle of imports is not walked for
   ever, and neither is one that an error left half loaded. Only a new REPL line
   raises the number. (Terminates, but for the fairness it assumes: loadDependents,
   loadModuleByName, initModule.) *)
THEOREM LoaderAdvances ==
    ASSUME IsFiniteSet(Modules)
    PROVE  Spec => [](Remaining \in Nat) /\ [][LoadStep \/ InitStep => Remaining' < Remaining]_vars
  <1>1. TypeOK /\ RegisterInv /\ WalkInv /\ LoadedByOneCall /\ [Next]_vars
        => [LoadStep \/ InitStep => Remaining' < Remaining]_vars
    BY StepAdvances, NextTypeOK
  <1>2. TypeOK => Remaining \in Nat
    BY ToDoFinite
  <1>3. TypeOK /\ RegisterInv /\ WalkInv /\ LoadedByOneCall /\ [Next]_vars => LoadedByOneCall'
    BY NextOneCall
  <1> QED
    BY <1>1, <1>2, <1>3, InitOneCall, SpecWalk, PTL DEF Spec
=============================================================================
