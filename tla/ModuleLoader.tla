--------------------------- MODULE ModuleLoader ---------------------------
(***************************************************************************)
(* Loading and initialisation of Ceramic modules: compiler/loader.cpp      *)
(* (loadProgram, loadModuleByName, loadDependents, installGlobals,         *)
(* initModule) and the `import` command of compiler/interactive.cpp.       *)
(*                                                                         *)
(* Loading is a depth-first walk of the import graph: a module enters      *)
(* globalModules before its own imports are loaded, and its namespace is   *)
(* installed once they are.  Initialisation is a second depth-first walk   *)
(* that registers overloads, imports before importers, and reports a loop. *)
(* The two recursions of the code are the two stacks below.                *)
(***************************************************************************)
EXTENDS Naturals, Sequences, FiniteSets, SequencesExt

CONSTANTS
    Modules,        \* modules that can be named in an import
    Main,           \* globalMainModule: not in globalModules, cannot be imported
    Prelude,        \* the prelude (or prelude.repl)
    Programs,       \* programs to load: records [imports, defect]
    Commands,       \* the sequences of imports a line given to the REPL may hold
    MaxCommands     \* bound on the number of REPL import lines, 0 in a compilation

Everything == Modules \cup {Main}

Defects ==
    { "none",
      "unloadable",   \* locateModule, loadFile or parse raises an error
      "clash",        \* its last import is "imported already"
      "misnamed",     \* "module imported by name ... but declared with name"
      "badItem" }     \* a top-level item raises an error (a false static assert)

ASSUME LoaderAssumption ==
    /\ Prelude \in Modules
    /\ Main \notin Modules
    /\ Programs \subseteq [ imports : [Everything -> Seq(Modules)],
                            defect  : [Everything -> Defects] ]
    /\ \A p \in Programs : /\ p.defect[Prelude] # "unloadable"
                           /\ p.defect[Main] = "none"
    /\ Commands \subseteq Seq(Modules)
    /\ MaxCommands \in Nat

VARIABLES
    imports,        \* Module::imports
    defect,         \* what is wrong with the source of each module
    globalModules,  \* keys of globalModules
    bound,          \* bound[m]: imports of m for which loadDependent has run
    loadStack,      \* nested loadDependents calls, innermost last
    installed,      \* modules whose env is set and whose globals are added
    initState,      \* Module::initState
    visited,        \* visited[m]: imports of m for which initModule has returned
    initStack,      \* importChain: nested initModule calls, innermost last
    roots,          \* modules initModule remains to be called on, with an empty chain
    overloads,      \* one procedure's overload list: the modules that added to it
    phase,          \* "load", "init", "ready" (REPL prompt or code generation),
                    \* "failed" (the compiler exits) or "crashed"
    error,          \* what the last error() reported
    commands        \* REPL lines given so far

program == <<imports, defect>>
loading == <<globalModules, bound, loadStack, installed>>
initing == <<initState, visited, initStack, overloads>>
vars    == <<program, loading, initing, roots, phase, error, commands>>

TypeOK ==
    /\ imports \in [Everything -> Seq(Modules)]
    /\ defect \in [Everything -> Defects]
    /\ globalModules \subseteq Modules
    /\ bound \in [Everything -> Nat]
    /\ \A m \in Everything : bound[m] <= Len(imports[m])
    /\ loadStack \in Seq(Everything)
    /\ \A i \in 1 .. Len(loadStack) : loadStack[i] \in globalModules \cup {Main}
    /\ installed \subseteq Everything
    /\ initState \in [Everything -> {"BEFORE", "RUNNING", "DONE"}]
    /\ visited \in [Everything -> Nat]
    /\ \A m \in Everything : visited[m] <= bound[m]
    /\ initStack \in Seq(Everything)
    /\ roots \in Seq(Everything)
    /\ overloads \in Seq(Everything)
    /\ phase \in {"load", "init", "ready", "failed", "crashed"}
    /\ error \in {"none", "load", "clash", "misnamed", "loop", "item"}
    /\ commands \in 0 .. MaxCommands

(* loadProgram, once the main file and then the prelude have been parsed:
   the prelude is being loaded and the main module waits for it. *)
Init ==
    /\ \E p \in Programs : imports = p.imports /\ defect = p.defect
    /\ globalModules = {Prelude}
    /\ bound = [m \in Everything |-> 0]
    /\ loadStack = <<Main, Prelude>>
    /\ installed = {}
    /\ initState = [m \in Everything |-> "BEFORE"]
    /\ visited = [m \in Everything |-> 0]
    /\ initStack = <<>>
    /\ roots = <<Prelude, Main>>
    /\ overloads = <<>>
    /\ phase = "load"
    /\ error = "none"
    /\ commands = 0

(* error(): the compiler exits; in the REPL the exception unwinds to eval,
   which drops both recursions and leaves everything else as it is. *)
Interactive == commands > 0

Raise(e) ==
    /\ error' = e
    /\ phase' = IF Interactive THEN "ready" ELSE "failed"
    /\ initStack' = <<>>
    /\ roots' = <<>>
    /\ loadStack' = <<>>

(***************************************************************************)
(* Loading.                                                                *)
(***************************************************************************)
Loading(m) ==
    /\ phase = "load"
    /\ loadStack # <<>>
    /\ m = Last(loadStack)

NextImport(m) == imports[m][bound[m] + 1]

\* Mutant: globalModules[key] is set on return, so that a cycle is walked again.
RecordLate(m) == globalModules
Record(m) == globalModules \cup {m}

\* Mutant: the imports of a module are loaded only when something is looked up.
DescendLazily(m) == loadStack
Descend(m) == Append(loadStack, m)

\* Mutant: the loop over the imports does not advance.
BindSame(m) == bound
Bind(m) == [bound EXCEPT ![m] = @ + 1]

(* loadModuleByName on a module not seen yet: parse it, record it, and go on
   with its own imports. *)
EnterModule(m) ==
    /\ Loading(m)
    /\ bound[m] < Len(imports[m])
    /\ NextImport(m) \notin globalModules
    /\ IF defect[NextImport(m)] = "unloadable"
         THEN Raise("load") /\ UNCHANGED globalModules
         ELSE /\ globalModules' = Record(NextImport(m))
              /\ loadStack' = Descend(NextImport(m))
              /\ UNCHANGED <<error, phase, initStack, roots>>
    /\ UNCHANGED <<program, bound, installed, initState, visited, overloads, commands>>

(* loadDependent once loadModuleByName returns, from the cache or not: x->module
   is set, then the names the import brings in are checked. *)
BindImport(m) ==
    /\ Loading(m)
    /\ bound[m] < Len(imports[m])
    /\ NextImport(m) \in globalModules
    /\ bound' = Bind(m)
    /\ IF defect[m] = "clash" /\ bound[m] + 1 = Len(imports[m])
         THEN Raise("clash")
         ELSE UNCHANGED <<error, phase, initStack, roots, loadStack>>
    /\ UNCHANGED <<program, globalModules, installed, initState, visited,
                   overloads, commands>>

(* The imports of m are loaded: installGlobals(m) (the REPL's module has been
   installed long ago), and on return from the outermost call loadProgram, or
   loadImports, goes on with initModule. *)
InstallModule(m) ==
    /\ Loading(m)
    /\ bound[m] = Len(imports[m])
    /\ installed' = installed \cup {m}
    /\ loadStack' = Front(loadStack)
    /\ phase' = IF Len(loadStack) = 1 THEN "init" ELSE "load"
    /\ UNCHANGED <<program, globalModules, bound, initing, roots, error, commands>>

(***************************************************************************)
(* Initialisation.                                                         *)
(***************************************************************************)
(* What initModule(x) does when called with the modules of initStack as its
   import chain, up to the walk of the imports of x. *)

\* Mutant: a module under initialisation counts as initialised.
ReturnsIfRunning(x) == initState[x] # "BEFORE"
\* Mutant: the early return for a module that is DONE is lost.
ReturnsOnlyToItself(x) == initState[x] = "RUNNING" /\ initStack # <<>> /\ Last(initStack) = x
Returns(x) ==
    \/ initState[x] = "DONE"
    \/ /\ initState[x] = "RUNNING"
       /\ defect[x] # "misnamed"
       /\ initStack # <<>>
       /\ Last(initStack) = x

InLoop(x) == initState[x] = "RUNNING"

CallInit(x) ==
    /\ ~Returns(x)
    /\ IF defect[x] = "misnamed" THEN Raise("misnamed") /\ UNCHANGED initState
       ELSE IF InLoop(x) THEN Raise("loop") /\ UNCHANGED initState
       ELSE /\ initState' = [initState EXCEPT ![x] = "RUNNING"]
            /\ initStack' = Append(initStack, x)
            /\ UNCHANGED <<error, phase, roots, loadStack>>
    /\ UNCHANGED <<program, globalModules, bound, installed, visited, overloads, commands>>

(* The outermost calls: initModule(prelude) and initModule(main) of loadProgram,
   initModule(import->module) of loadImports. *)
InitRoot ==
    /\ phase = "init"
    /\ initStack = <<>>
    /\ roots # <<>>
    /\ CallInit(Head(roots))

RootDone ==
    /\ phase = "init"
    /\ initStack = <<>>
    /\ roots # <<>>
    /\ Returns(Head(roots))
    /\ roots' = Tail(roots)
    /\ phase' = IF Len(roots) = 1 THEN "ready" ELSE "init"
    /\ UNCHANGED <<program, loading, initing, error, commands>>

Initialising(m) ==
    /\ phase = "init"
    /\ initStack # <<>>
    /\ m = Last(initStack)

(* The recursive call for the next import of m. *)
InitImport(m) ==
    /\ Initialising(m)
    /\ visited[m] < bound[m]
    /\ CallInit(imports[m][visited[m] + 1])

ImportDone(m) ==
    /\ Initialising(m)
    /\ visited[m] < bound[m]
    /\ Returns(imports[m][visited[m] + 1])
    /\ visited' = [visited EXCEPT ![m] = @ + 1]
    /\ UNCHANGED <<program, loading, initState, initStack, overloads, roots,
                   phase, error, commands>>

(* The import of a module whose loading was interrupted has no module: the
   recursive call dereferences a null pointer. *)
NullImport(m) ==
    /\ Initialising(m)
    /\ visited[m] = bound[m]
    /\ bound[m] < Len(imports[m])
    /\ phase' = "crashed"
    /\ UNCHANGED <<program, loading, initing, roots, error, commands>>

\* Mutant: overloads are appended, the first definition wins.
AddOverloadBack(m) == Append(overloads, m)
(* addOverload: overloads.insert(overloads.begin(), x). *)
AddOverload(m) == Cons(m, overloads)

(* All imports are initialised: m is DONE, and its top-level items are
   processed; its overload goes in front of the list.  In a module whose loading
   was interrupted the items have no env: every name in them is undefined. *)
FinishModule(m) ==
    /\ Initialising(m)
    /\ visited[m] = Len(imports[m])
    /\ initState' = [initState EXCEPT ![m] = "DONE"]
    /\ IF defect[m] = "badItem" \/ m \notin installed
         THEN Raise("item") /\ UNCHANGED overloads
         ELSE /\ overloads' = AddOverload(m)
              /\ initStack' = Front(initStack)
              /\ UNCHANGED <<error, phase, roots, loadStack>>
    /\ UNCHANGED <<program, globalModules, bound, installed, visited, commands>>

(***************************************************************************)
(* The REPL: a line of imports.                                            *)
(***************************************************************************)
ReplImport ==
    /\ phase = "ready"
    /\ commands < MaxCommands
    /\ commands' = commands + 1
    /\ \E line \in Commands :
          /\ imports' = [imports EXCEPT ![Main] = @ \o line]
          /\ roots' = line
    /\ bound' = [bound EXCEPT ![Main] = Len(imports[Main])]
    /\ loadStack' = <<Main>>
    /\ phase' = "load"
    /\ error' = "none"
    /\ UNCHANGED <<defect, globalModules, installed, initing>>

LoadStep == \E m \in Everything : EnterModule(m) \/ BindImport(m) \/ InstallModule(m)

InitStep ==
    \/ InitRoot \/ RootDone
    \/ \E m \in Everything :
          InitImport(m) \/ ImportDone(m) \/ NullImport(m) \/ FinishModule(m)

Next == LoadStep \/ InitStep \/ ReplImport

(* The compiler is sequential: a started load or initialisation goes on until
   it returns or raises.  Nobody has to type a REPL line. *)
Spec == Init /\ [][Next]_vars /\ WF_vars(LoadStep \/ InitStep)

(***************************************************************************)
(* Properties.                                                             *)
(***************************************************************************)
ImportsOf(m) == {imports[m][i] : i \in 1 .. Len(imports[m])}

(* The modules of the program: those the main module or the prelude reaches. *)
Reachable ==
    {m \in Everything :
        \A S \in SUBSET Everything :
            (/\ {Main, Prelude} \subseteq S
             /\ \A x \in S : ImportsOf(x) \subseteq S) => m \in S}

(* An import loop: modules of the program that each import another one of them. *)
Cyclic ==
    \E S \in SUBSET Reachable :
        /\ S # {}
        /\ \A m \in S : \E x \in S : x # m /\ x \in ImportsOf(m)

(* Two-pass loading (loadProgram): before any top-level item is evaluated, every
   module of the program is loaded and has its namespace installed, so that
   definitions may refer forwards and to each other's modules. *)
PopulatedBeforeEvaluated ==
    phase = "init" => Reachable \subseteq installed

(* Overload priority (initModule after its imports, addOverload at the front):
   a module's overloads are matched before those of the modules it imports, and
   no module's overloads are registered before its imports' are. *)
ImportersFirst ==
    \A i \in 1 .. Len(overloads) :
        \A x \in ImportsOf(overloads[i]) \ {overloads[i]} :
            \E j \in i + 1 .. Len(overloads) : overloads[j] = x

(* initModule registers the overloads of a module at most once, however many
   modules, REPL lines or interrupted attempts ask for it. *)
RegisteredOnce ==
    \A i, j \in 1 .. Len(overloads) : overloads[i] = overloads[j] => i = j

(* The verdict of the compiler: it gets past initialisation only if the program
   has no import loop, and then every module took part; it reports a loop only
   if there is one, importing oneself aside. *)
LoopVerdict ==
    commands = 0 =>
        /\ phase = "ready" => ~Cyclic /\ Reachable = ToSet(overloads)
        /\ error = "loop" => Cyclic

(* What is registered after errors: if a module is in the overload list, each
   module it imports either registered first or raised an error of its own. *)
ImportsRegisteredOrBroken ==
    \A m \in ToSet(overloads) \ {Main} :
        \A x \in ImportsOf(m) \ {m} :
            x \in ToSet(overloads) \/ defect[x] # "none" \/ x \notin installed

(* Loading and initialising always come to an end, cyclic imports or not. *)
Terminates == phase \in {"load", "init"} ~> phase \notin {"load", "init"}

(* A compilation implements the abstract specification of
   initModule in ImportOrder: registering modules in some order that respects
   the imports, until all are registered, a loop is reported or a source of the
   program has an error of its own. *)
Order == INSTANCE ImportOrder
    WITH Nodes   <- Everything,
         Roots   <- {Main, Prelude},
         order   <- overloads,
         flawed  <- {m \in Everything : defect[m] # "none"},
         outcome <- IF error = "loop" THEN "loop"
                    ELSE IF error # "none" THEN "rejected"
                    ELSE IF phase = "ready" THEN "complete" ELSE "running"

ImplementsImportOrder == Order!Spec
=============================================================================
