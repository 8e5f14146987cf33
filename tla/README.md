# Verification of the Ceramic compiler and library

TLA+ models of the parts of this repository where order, nesting and shared
state decide whether the program is right, the TLC configurations that check
them on small instances, and proofs checked by TLAPS. Everything below names
the file and function of the repository it is about; `PROJECT.json` gives the
lines of every definition.

Run a configuration with `tlc -workers 2 -config <X>.cfg <MC module>`, check
the proofs with `tlapm <X>Proofs.tla`.

## 1. Inventory

Ceramic is a compiler for a generic systems language (`compiler/`, C++) with a
library written in the language (`lib-ceramic/`). A compilation is sequential:
one thread, deep recursion, and many tables filled on demand. That is where the
difficulty lies. What a table holds depends on which question was asked first,
a question may be asked again while it is being answered, and an error unwinds
through all of it. In a batch compilation the process then exits; in the REPL
(`compiler/interactive.cpp`) the tables stay as they are and the next line uses
them.

### Compiler

| Component | State | Operations | Interaction | Hard behaviour | What makes it right | Model |
|---|---|---|---|---|---|---|
| Loader, `loader.cpp` | `globalModules`, `initState` of each module, `importChain`, overload lists | `loadProgram`, `loadModuleByName`, `loadDependents`, `installGlobals`, `initModule`, REPL imports | fills the symbol tables and overload lists; its static assertions call the analyzer | two depth-first walks over a graph with cycles; an error between two steps; the same module asked for again by a later line | namespaces complete before anything is evaluated; importers before imports in overload order; each module once; loops reported exactly if present | ModuleLoader, ImportOrder |
| Names, `env.cpp` | `publicSymbols`, `allSymbols` and their Loaded and Loading marks | `lookupPrivate`, `lookupPublic`, `getAllSymbols`, `addImportedSymbols`, `insertImported` | called by everything | tables loaded by the first lookup that misses, recursively through imports and cycles | a name means the same whenever it is asked; private stays private; no endless walk | SymbolTables |
| Overloads, `invoketables.cpp`, `matchinvoke.cpp` | invoke sets, their copy of the overloads, memoised matches, two maps of entries, `evaluatingPredicate` | `lookupInvokeSet`, `lookupInvokeEntry`, `findMatchingInvoke`, `initOverload` | asked by the analyzer, asks the evaluator about predicates, and so itself | a lookup inside a lookup of the same set; an overload registered after a set was made; three caches | the entry is that of the first matching overload; the answer never changes | InvokeTables |
| Analyzer, `analyzer.cpp` | `analyzed`, `analyzing` and `returnTypes` of each entry | `safeAnalyzeCallable`, `analyzeCodeBody`, `analyzeStatement`, `analyzeCallByName` | asks the overload tables; asked by codegen and evaluator | mutual recursion with types not known yet; results kept or thrown away depending on the order of the questions | an inferred type comes from a base case; bodies are analysed once at a time; it ends | Analyzer |
| Code generation, `codegen.cpp` | value stack, jump targets for return, break, continue, labels and exceptions, insertion point | `codegenStatement`, `cgDestroyStack`, `codegenLowlevelCall`, `codegenCallInline` | asks the analyzer; writes LLVM code | every way out of a scope has its own copy of the cleanup; landing pads for half-built values; guards that run on some ways out | each value destroyed once, in reverse order, on each path; exceptions reach the innermost try | Codegen, GeneratedCode, ScopeCleanup |
| Patterns, `patterns.cpp`, the rest of `matchinvoke.cpp`, `analyzeBinding` | cells of pattern variables, patterns of each overload, `patternsInitializedState`, instances of variants | `unify`, `evaluateOnePattern`, `initOverload`, `matchInvoke`, `initVariantInstance`, `initializeVariantType` | registered by the loader, matched by the overload tables; a predicate may match the same overload again | the cells are mutable and shared by all matches of an overload | an overload matches exactly the calls its patterns describe, whatever was matched before | Patterns, PatternExpressions, PatternMatching |
| Primitive operations, `analyzer_op.cpp`, `evaluator_op.cpp`, `codegen_op.cpp`, `core/numbers/overflow` | none that lasts; the cells of the results of a call | `analyzePrimOp`, `evalPrimOp`, `codegenPrimOp` | the caller allocates the cells from the first answer, the other two write them | three switches over the same operations, written apart: argument checks, result types, widths, signs | the cells fit; both evaluations agree; checked arithmetic is exact | PrimTypes, PrimAnalysis, PrimEvaluation, PrimGeneration, PrimOps |
| Lexer and parser, `lexer.cpp`, `parser.cpp` | static variables: position, farthest failure, recorded errors, flags of the construct being read | `tokenize`, `module`, `topLevelItem`, and a function for each rule | the loader asks for a module; the declarations go to everything else | backtracking that undoes the position only; recovery after an error; the pattern variables of a declaration skipped first and read again later | an error costs its own declaration and nothing else; every file is read to its end | Peg, the grammars, Recognizer, Parser |
| Evaluator, `evaluator.cpp` | value stack at compile time | `evalStatement`, `evalCallCode` | called by the loader, patterns, codegen | destruction and jumps as in codegen, with a different mechanism | as for codegen | not modelled; its primitives are |
| Lambdas, desugaring, cloning, literals, constructors, externals | none that lasts | tree and instruction builders | | case distinction by size | | not modelled; two results of desugaring are in Codegen |
| Errors, printer, profiler, driver, documentation generator, parachute | options, context stack | I/O and wording | | | | not modelled; an error is an action of the component that raises it |

### Library

| Component | State | Hard behaviour | What makes it right | Model |
|---|---|---|---|---|
| Paged allocator, `paged/allocator` | block headers and free lists in a mapped file | long call sequences; merges on both sides; a file reopened by another process | blocks tile the heap; free lists hold exactly the free blocks; regions are disjoint | Regions, PagedAllocator |
| Threads, futures, locks, atomics | thread handles, a shared result, a mutex with its value | interleavings; join twice; a future that moves | a result is seen once and whole | not modelled |
| Shared and unique pointers | a reference count | copies in two threads: the count is not atomic | one destruction | not modelled |
| Containers | buffers, rings, chains | iterators and growth; ring arithmetic | they are the sequence or map they say | not modelled |
| Core, numbers, math, simd, crypto, random | none | machine arithmetic | | not modelled: pure functions |
| Input, output, parsing, printing, remote, time, command line, test | handles | system calls | | not modelled: I/O |
| Platform bindings | none | | | not modelled: declarations |

## 2. Order of the work, and composition

The modules were written in the order of their importance to the program as a
whole: ModuleLoader, which every compilation passes through; InvokeTables,
which decides what code a call means; Analyzer, SymbolTables and Codegen;
PagedAllocator as the one stateful algorithm of the library; then Patterns, the
primitive operations and the parser, which are large and keep little state.
Section 7 says what is left and why.

Composition. ImportOrder is instantiated by ModuleLoader, ScopeCleanup by
GeneratedCode and Regions by PagedAllocator, each an abstract specification that
a run checks as a PROPERTY of the detailed one. GeneratedCode executes what
Codegen generates. PrimOps puts the three passes over a primitive one after the
other, in either order after the first. Parser composes the two grammars: the
tokens that the lexer's rules find are the input of the parser's. The other
interfaces are narrowed to data: InvokeTables takes the registration order that
ModuleLoader establishes as "overloads may be registered at any time", and what
PatternMatching finds out as a set of overloads that accept a call; Analyzer
takes the entries of InvokeTables as its `Entries`; a symbol table's walk may
run before a loop has been reported, so SymbolTables includes cyclic import
graphs.

## 3. The models

### ModuleLoader, ImportOrder (`loader.cpp`, `interactive.cpp`)

The recursion of `loadDependents` is `loadStack` and that of `initModule` is
`initStack`; each frame's progress is `bound[m]` and `visited[m]`, the imports
done so far. `globalModules` and `initState` are the code's. `installed` stands
for "its env is set and its globals are added". Actions follow the code's steps:
EnterModule and BindImport (`loadDependent`), InstallModule (`installGlobals`),
InitImport, ImportDone, FinishModule (`initModule`), ReplImport for a line.
An error is part of the action that raises it. It clears both stacks; the
module states stay as they are, which is what makes later REPL lines
interesting. A program's sources may have one of four defects.

ImportOrder says what initialisation promises, with no stack in it: modules are
registered one at a time, a module only after its imports, until everything is
registered, a loop is reported, or a defect is.

### InvokeTables (`invoketables.cpp`, `matchinvoke.cpp`)

An invoke set is a callable with argument types; `created`, `overloads`,
`matches`, `next`, `byFlags` and `byKey` are the fields of `InvokeSet`. Patterns
are reduced to the sets they accept. A predicate is a lookup of another set, and
`stack` holds the lookups in progress. Register is one insertion of `addOverload`
at any time, as static assertions and REPL lines make lookups before all
overloads are known; an `as` overload, for which `addOverload` inserts a second
one that `desugarAsOverload` makes, is two of them. Which declarations
`initOverload` and `addProcedureOverload` report is given (`refused`): the error
comes before any list changes. So is which overloads are declared with `;`
(`bodiless`): the analyzer refuses a call whose entry has no body (`Verdict`).
MemoIsFirstMatch compares what the tables keep, entries and refusals, with
matching afresh: `IsFirstMatch` is a definition over the list and the predicates
with no memo in it.

### Analyzer (`analyzer.cpp`)

A body is a list of statements with one or two parts, each returning or binding
the value of an expression, throwing or doing nothing of interest; an expression
is a literal of some type or a call of an entry. `stack` holds the bodies under
analysis with the statement reached. `PossibleTypes` is the reference: the
types an entry has within n calls, for n up to where nothing is added, computed
without any order of analysis. `CallPaths` is the least set that holds the calls
and is closed under one call more. Alias expansion
(`analyzeCallByName`) is a frame too; programs with an alias that expands itself
are left out because the code never ends on them (section 6). The conditions of
`if` and `while` are not analyzed: in the code a condition statement that is given
up gives up the whole statement, and a static condition picks a branch. ErrorsAreReal joins
the two errors that inference itself raises: types that disagree, and recursion
without a base case. OwnBaseCaseSuffices is the other side: an entry one of
whose own return statements, or whose end, is reached without a call is never
left without a type. A `throw` is no base case: it returns nothing, and a
statement given up after it leaves the entry untyped.

### SymbolTables (`env.cpp`, the names part of `loader.cpp`)

`symbols[t][m][n]` is the import set of a name in one of a module's two tables,
`loaded` and `busy` are the Loaded and Loading marks, `stack` the nested
`addImportedSymbols` calls. A member list `m.(x, y)` stands as consecutive
imports of one member each. `ByTheRules` is the reference: what the import
statements give a name, computed from the program alone. `OneMoreImport` applies
the rules once to what the imported modules have, `Resolve` repeats it once for
each module, which is enough where imports form no loop.

The rules depend on the order of imports at one place only, a name that a module
is imported under. A star import behind that import is kept from adding to the
name, one ahead of it that provides the name is not, and the two are ambiguous
once the table is loaded (`insertImported` looks at what is there already).
`StarsAhead` says which star imports those are, per name, and `Providers` adds
what a module's star import of itself brings along.

TablesFollowRules says that loaded tables (TablesHoldAll), the answers of lookups
(AnswersFollowRules) and what one table takes from another while either may be
half built (ImportsSeeWholeTables) follow that reference. A lookup answers from
an entry it finds without loading the table, so a name that a module is imported
under is found at once, without what star imports ahead would add: the
property says so, and section 6. The premises are places where the code gives
names no consistent meaning: Acyclic (a loop is reported, but lookups happen
before that), NoMembersOfItself (a module that imports members of itself gets
what it has so far), Uninterrupted (an error in a walk
leaves a Loading mark), Settled (a REPL line may change the main module, and with
it what was computed for every module that leads there). All of these situations
occur in the run, and so do star imports on either side of the import of a module
whose name they provide or do not, as in the library's own prelude;
PrivateStaysPrivate and LookupsEnd hold in them too.

### Codegen, GeneratedCode, ScopeCleanup (`codegen.cpp`, `codegen.hpp`, `desugar.cpp`)

Codegen is the generator as a function: a statement, the environment and a
context to a context, one operator for each kind of statement, with the value
stack, the jump targets and the basic blocks of the code. GeneratedCode executes
the blocks: a call returns or raises, a condition goes either way. `live` is the
ghost state, what was constructed and not cleaned up. ScopeCleanup is the
promise of doc/language-reference/statements.md: last in first out, each once,
none left over. ControlFollowsScopes adds that nothing dies early and that the
generator's `terminated` is true of the code, ExceptionsTakeTheirPath that guards
run on the paths they are for and that exceptions reach the innermost try.

Expressions are reduced to calls with temporaries. Guards and `..for` stand in
blocks of their own, guard bodies make values only by calls that cannot fail,
and an onerror is not nested in a guard's body: outside these bounds the
code does not keep the promise, and section 6 says how.

### Patterns, PatternExpressions, PatternMatching (`patterns.cpp`, `matchinvoke.cpp`, parts of `loader.cpp`, `analyzer.cpp`, `types.cpp`)

A pattern is a tree with cells at its leaves; a cell holds Unbound or another
pattern. Patterns has unification with the cells threaded through it, as the
code mutates them, and PatternExpressions the two readings of an expression: as
a pattern (`evaluateOnePattern`, aliases included, each use with cells of its
own) and as a value (`evaluateMultiStatic`). PatternMatching is one overload
through its life: registered in a list (`initOverload`), its patterns made at
the first match (`patternsInitializedState` 0, -1, 1), then matched argument by
argument, its predicate possibly matching it again inside, which is what `stack`
is for. Bindings use the same formals; variants collect the members of matching
instances.

MatchesAsWritten compares with a definition that has neither cells nor order: a
call matches if some values of the pattern variables make the expressions equal
to the call (`Solutions`, over all parts of the call's objects), and these are
the bindings. RegisteredWhereFound relates the list that `initOverload` chooses
to the lists `callableOverloads` consults, MembersFollowInstances the members of
a variant to the declarations there were when it was initialised. Positions among
the arguments are plain integers: that `matchInvoke` counts behind an empty
variadic argument in unsigned numbers that wrap around (matchinvoke.cpp:111) is not
modelled.

### PrimTypes, PrimAnalysis, PrimEvaluation, PrimGeneration, PrimOps (`analyzer_op.cpp`, `evaluator_op.cpp`, `codegen_op.cpp`, `core/numbers/overflow/overflow.crm`)

A primitive has three definitions of its own in the compiler, a case of a switch
in each pass. The three modules have the three answers: the types of the
results; what the evaluator writes; what the generated code stores when run, the
library's checked operations included. An argument is a type and a value; a
result by reference is a place. A refused call, a failed assertion, a null
pointer followed and undefined behaviour are answers too. PrimOps is the
protocol between the passes: analyze, allocate the cells, then evaluate and
generate in either order. AssertionsHold says the later passes' own assertions
on the cells hold (in a release build nothing tests them), CompileTimeEqualsRunTime
that folding a call does not change its meaning, CheckedIsExact that overflow is
reported exactly when it happens. The calls excepted are listed in `KnownToDiffer`,
`WrapsIndex` and CheckedIsExact itself, and in section 6. One of them is wider
than it looks: on targets whose pointers have fewer than 64 bits the library's last overloads of
64-bit multiplication report no overflow (`MultipliesUnchecked`), while the
evaluator does.

Widths are parameters (WidthAssumption): the code treats them as a doubling
chain whose last member has no wider type to compute in, and that is what is
assumed. The run has a byte of 3 bits, pointers and Int of 6, long integers of 12
and the widest of 24: as on a 32-bit target there is a width between a pointer's
and the widest. Floats are small integers and NaN. The types and static objects of a
program are sets (`Types`, `Objects`), closed under taking parts
(TypeAssumption: the fields of a record are types, its variadic field is one of
its fields, as `RecordType` is built); a layout is any two functions of types, to
sizes and to alignments (`SizeOf`, `AlignOf`, LayoutAssumption). A copy of memory
is the number of bytes each pass would copy, not their contents. `BitAnd`, `BitOr` and `BitXor` are the
machine's, the same in both passes. `Arguments` are numbers of their type's range
(CallAssumption) and `ArgLists` says which lists of them a primitive is called
with.

### Peg, LexicalGrammar, ExpressionGrammar, StatementGrammar, TopLevelGrammar, Language, Recognizer, Parser (`lexer.cpp`, `parser.cpp`)

Lexer and parser are some three hundred functions of one shape: save the
position, try, restore. Peg gives that shape operators; the grammar modules have
one expression for each function, with the code's order of alternatives, which
decides what is tried after what failed. Recognizer runs an expression on
characters or tokens with the parser's static state threaded through it, because
`restore` undoes the position and nothing else. Language puts the rules together
and binds the constants of Recognizer. Parser is the state machine around it: one step for a
token, an import, the module header, a bracket of the pattern variables skipped
(`skipOptPatternVar`), or a declaration with the recovery of `topLevelItems`
behind it.

Three errors are raised while parsing and end it, with the file and whatever has
been recorded: an unpacked static argument (parser.cpp:2317), a static index that
`strtoul` does not read to its end (817), an unknown annotation of a documentation
comment (3842). They do so in an attempt that would have been given up, too. They
are `Fatal` in the grammars, set `fatal` in the recogniser's state, which nothing
runs on from, and take the machine to the phase "refused" (`Abandon`).

A text is a sequence of chunks, each with the outcome it has alone.
EachChunkOnItsOwn says the whole has these outcomes in order, whatever the
neighbours are, up to a chunk that ends the parse; ReadsOn, an action property, that no step leaves the reader where it was, except
in the one loop that can stand still, at the end of a text with an unclosed
bracket.

### PagedAllocator, Regions (`paged/allocator/allocator.crm`, `paged/misc/misc.crm`)

A heap is a record of headers by offset and list heads, and each procedure of
the source is an operator on it, in the source's order. Sizes are in the unit of
16 bytes to which every block is aligned, which moves bucket numbers by four and
leaves their order alone; a heap whose length is not a multiple of 16 bytes,
which `initNewFile` takes as it is, is not modelled. Every assertion of
`allocator.crm` is there: the one of a full heap (252), which stops the client
until the file is opened again, and the others (64, 99, 115, 238, 260, 296), which
HeapIsConsistent says never fail. Of the two assertions of `misc.crm` that are
reached, sizes above zero (29) are part of the type invariant, and sizes within half
the address space (12) are not modelled: numbers do not wrap, neither here nor
where `allocatePaged` multiplies by `TypeSize(T)` (245). `asked` remembers what
the client asked for, by block. Regions: handed-out regions lie in the heap, do
not overlap, each has room for what was asked for it and its header, and wastes
at most what `splitBlock?` tolerates.

## 4. The runs

| Run | Question | Bounds, and why they are enough |
|---|---|---|
| `loader_compile` | Does every compilation load all, then initialise in order, report loops exactly, end, and implement ImportOrder? | Every graph over two modules, a prelude and a main module, two imports each, self-imports and repetitions included: all loops of up to three modules, diamonds, and every defect. |
| `loader_repl` | What survives errors in a session? | Three lines: one that fails, one that meets what it left, one more. |
| `invoke_lookup` | Do the caches agree with matching afresh? | Three sets and three overloads: a set that looks itself up through one and through two others, two rvalue vectors, overloads registered late, with and without -final-overloads. |
| `patterns_match` | Do overloads, bindings and instances match what their patterns say? | Types nested up to two deep; overloads of one and two arguments, variadic first, last and nested; each alias form; matches after matches and inside matches. The state of an overload is its cells, which two matches exhaust. |
| `analyzer_inference` | Do inferred types come from base cases, in every order of questions? | Three entries: cycles of one, two and three; three questions ask for each. |
| `symbols_lookup` | Does a name mean what the imports say, whatever was asked before? | Four modules and two names: re-export chains of three, loops, clashes of star imports, members and module names in both orders, a module that imports a member of itself; one or two lines in a session. |
| `codegen_cleanup` | Is everything cleaned up once, in order, on every path? | Three nested scopes of every kind and one jump out of the innermost: each pair of nestings meets each jump; loops and backward jumps run round. |
| `codegen_try_in_finally` | Violation: a try in a guard catches nothing. | One procedure. |
| `paged_heap` | Is the heap consistent after any calls? | Seventeen units: seven of the smallest blocks, lists of several members, merges on both sides, a block given whole to a smaller request; the state space is complete. |
| `prims_passes` | Do the three passes over a primitive agree, and is checked arithmetic exact? | Each primitive on every list of at most two arguments of a sample of all kinds; the numeric ones on all pairs of 3-bit numbers and on the boundaries of 6, 12 and 24 bits, that is below, at and above a pointer's width; longer lists where a primitive takes more. |
| `parser_files` | Does an error cost its own declaration and nothing else, and does reading end? | Well-formed and malformed pieces chosen from each rule of the documented grammar in all pairs of orders, pieces that end the parse before and after a good one, each statement form around each expression form; the limit of errors; an unclosed bracket, an unterminated token. Recovery looks at one construct and the start of the next: pairs show every meeting. |
| `parser_documented` | Violation: a documented declaration makes the parser read a body that is not there. | One declaration. |

Deadlock is checked where a session can always go on. In the loader, analyzer,
symbol-table, pattern and primitive runs it is not: a compilation that is done
or failed stops, and a primitive's call is over after its passes.

Fairness: weak fairness of the compiler's own steps (`WF_vars(Step)`, in the
loader `LoadStep \/ InitStep`) and of nothing else. The compiler is one thread
without blocking calls, so a step that can be taken is taken. Questions, REPL
lines and registrations come from outside and need never come. It gives
`Terminates`, `LookupsEnd` (twice) and `AnalysisEnds`. GeneratedCode and
PagedAllocator have no fairness: a program may loop, a client may stop. The
parser's progress is the action property ReadsOn, which needs none.

## 5. What is proved

Each proof module extends its model and proves an invariant inductive:
Init implies it, every step keeps it, and it implies the property. The
properties themselves are not inductive; what had to be added is the
explanation of why they hold. The lemmas on stacks and on recursion over the
naturals are in DataLemmas (ModuleLoaderProofs has two of its own), stated once
and cited. Induction is an induction over a set of naturals, and
PrimitiveRecursion gives the function that a recursive definition describes:
both have sets and functions for parameters, where the library's theorems have
operators, and rest on its theorem that `<` is well-founded on the naturals.
ChainStops says that a chain of growing subsets of a finite set stands still
after as many steps as the set has members, which is what makes a fixed point
computed in a bounded number of rounds one. ReadingFalls says that an odometer,
digits to some base read as a number, falls when a digit does and those before it
stand still.

`ModuleLoaderProofs`, from `LoaderAssumption`, for any number of modules,
any import graph, any defects and, where not said otherwise, any REPL session:

- `LoaderTypeOK`: the type invariant.
- `LoaderRegisteredOnce`: no module's overloads are registered twice.
  `RegisterInv` adds Chain (a module is on `initStack` at most once and is
  RUNNING there) and RegisteredDone (what is registered is DONE). FinishModule
  then registers a module that is RUNNING, hence not registered.
- `LoaderImportersFirst`, for compilations (`MaxCommands = 0`): each registered
  module comes before the modules it imports. `OrderInv` adds that while loading
  nothing is DONE, that a module is registered exactly if DONE, and that the
  imports a RUNNING module has visited are registered, itself aside. The premise
  is needed: after an error a REPL line can register an importer
  whose import was left RUNNING.

`ModuleLoaderVerdictProofs` goes on from there to what has happened when a walk
ends or is interrupted:

- `LoaderImportsRegisteredOrBroken`, for any session and any errors: an import
  of a registered module is registered, unless it has an error of its own or its
  loading was interrupted. `WalkInv` says where the two walks are: Main waits at
  the bottom of `loadStack` while modules are loaded, an import whose
  loadDependent has run is in `globalModules`, and initialisation has not begun on
  a module that is not loaded or being loaded. `Accounted` adds that a DONE module
  is registered or has an excuse, and that all imports of a registered one have
  been visited. What an error
  leaves behind is then either RUNNING for ever, and no importer of it can be
  registered, or DONE with an excuse.
- `LoaderPopulatedBeforeEvaluated`, for compilations: when the first top-level item
  is evaluated, all that Main or the prelude reaches is installed. `Covered`: a
  loaded module is installed or on `loadStack`, and an installed one has all of
  its imports. So the installed set is closed once the stack is empty.
- `LoaderLoopVerdict`, for compilations: a loop is reported only if there is one,
  and initialisation is passed only if there is none, with exactly the program's
  modules registered. `VerdictInv` says that `initStack` is a path of the import
  graph, holds exactly the RUNNING modules, and starts at a root. The modules from
  a RUNNING one to the top are then a loop (LoopIsReal); in the other direction,
  the module of a supposed loop that is furthest back in `overloads` would have an
  import further back still (OrderedIsAcyclic).
- `LoaderImplementsImportOrder`, for compilations: `Init` implies `Order!Init`
  and every step of the loader is a step of the abstract specification
  ImportOrder or a stutter, under the refinement mapping of ModuleLoader.
  FinishModule is Register, the last RootDone is Complete, a raised loop is
  ReportLoop, any other error is Reject; everything else, the whole first walk
  included, is a stutter. The fairness part of ImportOrder stays with the run.
- `LoaderAdvances`, for any session and any errors, the modules being finitely
  many: every step of loading and initialisation lowers `Remaining`, a natural
  number. It is the number of things still to do, each done at most once between
  two lines of a session: a module to enter, an import to bind, a call to return
  from, a module to begin, to visit an import of, to finish. That a module is
  bound by one call at a time (`LoadedByOneCall`) makes it so.

`InvokeTablesProofs`, from `InvokeAssumption`, for any callables, overloads,
predicates and rvalue flags, and overloads registered at any time:

- `InvokeTypeOK`: among other things, that what was tried in a set is a prefix
  of its list, that at most that much has matched, and that both maps hold only
  overloads that matched.
- `InvokeFlagsMatchStack`: `evaluatingPredicate` is that of the active lookups,
  each set being active once. The invariant adds that flags are set on created
  sets only, and that a lookup among the entries is not behind what was tried in
  its set: it holds because no other lookup works on that set.

And, building on these, without -final-overloads:

- `InvokeMemoIsFirstMatch`: the entry kept for a call is that of the first
  overload whose patterns, predicate and tempness match, and a call that is
  refused matches none, matches one without a body, or is refused by the interface.
- `InvokeAnswersAgree`: a call that was refused never has an entry with a body
  later.

With and without -final-overloads, the sets being finitely many:

- `InvokeLookupsAdvance`: every step of a lookup lowers `Effort`, a natural
  number. It reads the active calls as an odometer: the digit of a call says how
  many overloads it has to copy, to try and to compare, and whether it waits for a
  predicate; the outermost call has the first digit, and the place of a call not
  begun counts for more than any call. The flags bound the nesting by the number of
  sets. `Within` adds that what a set has copied does not outgrow the lists
  (CopiesBounded), that no call is past what there is (CallsInRoom), and that each
  call but the last waits for a predicate (OthersWait), which it then has.

The invariant, `WholeInv`, says what the tables mean. Tried: the matches are the
overloads tried so far that were not rejected, in the order of the list.
EntriesIn: an entry, by flags or by key, is that of the first match suiting its
flags. AnswerOK: a call answered "defined" has a first match for good, one
answered "undefined" is refused for good. Sound: an active call has passed only
matches that do not suit it and overloads that are rejected, and its `answer` is
that of the very lookup its candidate's predicate asks for; with CallsSound, each
active call waits for the one above it. The last part is what makes a verdict
permanent though lookups nest: a predicate is answered once, as the call that
refuses it and the entry that would serve it exclude each other (NotRefused). The
sharing of entries rests on KeysTellTempness: of two overloads with the same key
for two vectors of flags, each suits both. With -final-overloads these two do
not hold as they stand, and the run checks what does.

`SymbolTablesProofs`, from `SymbolAssumption` and, for the last one,
`FiniteAssumption`, for any modules, names, import statements and sessions:

- `SymbolTypeOK`: the type invariant.
- `SymbolPrivateStaysPrivate`: a private global is in another module's table only
  if some import forced it out. The invariant adds OnlyDeclared, that a table
  holds no global that is not declared: without it a session could leak a name
  first and declare it private later. The step that matters is AddStar and
  AddMember taking from a public table, where the invariant says what is there.
- `SymbolTablesFollowRules`: lookups answer, and half-built tables take from each
  other, what the rules of import give, in programs without import loops and
  modules that import members of themselves, until a walk is interrupted. A name
  that a module is imported under may be answered before its table is loaded,
  without what star imports ahead add.
- `SymbolLookupsAdvance`, for any session and any errors, the modules being finitely
  many: every step of a lookup lowers `Effort`, a natural number. It reads the
  stack of walks as an odometer: the digit of a walk says how many of its imports
  are to come, the outermost walk has the first digit, and a walk that begins
  writes behind those that wait for it. As a table that is being loaded is not
  entered again, there are no more walks at once than tables and places for them.

`SymbolTablesFollowRules` needs to know that the reference is a fixed point of the rules
(RulesFollowImports): modules without loops fall into layers, each importing from
those below, and a chain of layers that grows ends after as many steps as there
are modules. The invariant, `RulesInv`, then has three parts. Merged says what a
table has when its walk is at the k-th import: all of a global and of a name
imported specifically; of a name that modules are imported under those modules
and what the star imports passed ahead of them provide; of any other name at least
what the star imports passed provide and at most what all of them do. There is
one lemma for each kind of import it passes, and one for the end, where it is the
reference. Stacked and Ordered say why nothing half built is taken: each walk was
begun by an import of the one below, so the modules on the stack are a path of
the import graph, and a module can be on it twice only for a star import of
itself (NoWayBack). HasOrWaits is what a walk knows of the tables it has
obtained: such a table is complete, or still being loaded, which NoWayBack
excludes by the time it is used. TablesLawful is what remains between walks:
every table is complete or as loadDependent left it, though the flag is set on
few of the complete ones.

The attempt to prove it found the earlier statement false twice, for programs no
run had: a module that imports a member of itself between two star imports takes
what the first one brought, and in a session a module that imports the main module
is as unsettled as the main module. The premises and the run now have both cases.

`AnalyzerProofs`, from `AnalyzerAssumption` and, for the last four,
`FiniteAssumption`, for any entries and bodies:

- `AnalyzerTypeOK`: the type invariant.
- `AnalyzerEachBodyOnce`: no body is under analysis twice, and outside the REPL
  the flags are those of the bodies under analysis. The invariant adds AtPart,
  that a frame names a part its body has: a statement may be given up or passed
  in any order of answers and the frame must still be at one.
- `AnalyzerTypeFromBaseCase`: a type an entry is given is one its base cases give
  it, through the calls the program has. `Based` states it of the work in
  progress: what a frame has returned and bound so far is possible for its body
  (FramesOK), and each frame but the top waits at a call of the body above it
  (Linked), so that an answer goes to the call that asked. That PossibleTypes has
  the types of its own calls needs it to be a fixed point (PossibleTypesClosed),
  by ChainStops on the finite set of entries and types.
- `AnalyzerOwnBaseCaseSuffices`: a body that ends untyped has no return reached
  without a call. The frame would have passed that statement and kept its type.
  The attempt to prove it found an earlier statement of the property wrong, which
  took a `throw` for a base case; the run now has the body that tells them apart.
- `AnalyzerErrorsAreReal`: types are reported to disagree only where the base
  cases give one entry two, and outside the REPL recursion is reported only if the
  entry asked for leads to one that calls itself. `Blamed` carries the evidence
  for the second: the stack is a chain of calls that begins at the entry asked
  for, and a statement given up calls an entry that leads to a cycle. A call is
  given up first because its entry is on the stack, so on a cycle; the body that
  gave it up leads to that cycle, and so does whoever is left without its type.
- `AnalysisAdvances`, from `ResultsAssumption` too, for programs in which no alias
  without declared return types expands itself, directly or not (`AliasesEnd`:
  analyzeCallByName has nothing that stops the expansion once it comes to such a
  call, and the programs of the run have none): every step of an analysis
  lowers `Effort`, again an odometer, whose digits say what each body under analysis
  has still to come to. A body left without a type is analyzed again at the
  next call, but each statement in the bodies below is come to once. An entry is
  not on the stack twice, and an alias only with another entry begun in between
  (AliasesExpand), so the entry of a body and the entries begun below it tell the
  bodies apart: there are only so many at once.

`PagedAllocatorProofs`, from `SizesAssumption` and `RequestsAssumption`, for
heaps, headers and requests of any size:

- `AllocatorTypeOK`: the type invariant.
- `AllocatorHeapIsConsistent`: the blocks tile the heap, the lists hold exactly
  the free blocks, and of the assertions only the one of a full heap can fail.
- `AllocatorImplementsRegions`: Init maps to Init, `allocatePaged` to Allocate,
  `freePaged` to Free, and a failed assertion and the reopening to stutters.
- `UsableIsLargeEnough`, a fact about sizes alone: a block from the list of
  `higherPower2(n)` on has n units, which is why `popFreeList` need not look.

`HeapInv` says the same as the properties in the form the procedures preserve:
Tiles (the blocks from end to end, with the arithmetic that two of them do not
overlap), Chained (the lists), and Apart (no two free blocks side by side). What
must be added is in Chained: a rank that decreases along the links back to the
head. The properties would be kept by a ring of free blocks that no head leads
to, and then the lists could be empty while blocks are free. The procedures are
stated for a heap whose free blocks are those of any set F, as most of them run
while some block is neither held nor free: `freePaged` takes up to two blocks out
of F, joins them to the one that is freed, and puts the result in. Of the size
classes the proof needs that pow2 doubles, and that floorLog2 finds the power
at or below its argument: both are inductions.

`PrimOpsProofs`, from the four assumptions on widths, types, layout and calls,
for any program, any primitives and any calls, well-formed or not:

- `PrimAssertionsHold`: both later passes write as many results as there are
  cells, each of its cell's type.
- `PrimCompileTimeEqualsRunTime`: evaluating a call and running its code agree,
  but for the calls of `KnownToDiffer`.
- `PrimCheckedIsExact`: a checked operation below the widest type is exact or its
  overflow is real, but for products where `MultipliesUnchecked` (at run time),
  unsigned negation and conversion (at compile time).

Here the inductive invariant is small and the work is in the operators. `Inv`
says that the call stays as it is and that each pass's answer is its answer for
that call, the later ones for the cells of the first. What is left is a fact for
every primitive about three functions of the call. Its proof follows the switches:
a lemma for each family says that whatever the arguments, what the evaluator and
the code do fits the analyzer's answer (`Fitting`) and is the same (`...Agree`),
and the theorems put the families together.

Where it is not mere comparison of the cases: Wrapping (a number is wrapped
to the one number of its type with the same remainder), from which follows that
LLVM's arithmetic on remainders gives what the host's on signed numbers does;
QuotientFits and its neighbours (a quotient leaves the range in one case only, the
least number by -1); the doubled width (`next_larger_type` can hold every product
of two numbers and every shift by less than the width, so the test made there is
exact); and, for the results of a tuple, a record with a variadic field or a list
of values, that the positions the three passes compute apart (a count, a span, an
index shifted by the variadic field) are the same. Exceptions are those of the
properties: `KnownToDiffer`, `WrapsIndex`, and a result the language leaves
undefined.

Only model-checked, and why:

- Liveness (`Terminates`, `LookupsEnd` twice, `AnalysisEnds`) and what needs
  ENABLED: the prover has no rules for fairness. The fairness part of ImportOrder
  is one of them. The other half of all four is proved (LoaderAdvances,
  InvokeLookupsAdvance, SymbolLookupsAdvance, AnalysisAdvances): a natural number
  falls with every step, so only the absence of a next step can keep the end from
  coming.
- PatternMatching: unification, the reading of expressions and the reference
  `Solutions` recurse over nested patterns, with RECURSIVE operators that pass the
  cells along. Each property but `TypeOK` compares two such recursions, and
  `TypeOK` says that what they return is well formed: all are inductions over
  patterns.
- GeneratedCode: what holds of the execution holds because of the code that
  Codegen produced, and Codegen recurses over statements. An inductive invariant
  would have to say of every block what the generator put there, by induction over
  the syntax.
- Parser: Recognizer recurses over the grammar. `ReadsOn` and `EachChunkOnItsOwn`
  are statements about what that recursion consumes.
- The refinement of ScopeCleanup, for the reason of GeneratedCode.

## 6. Disagreements and known differences

Two runs expect a violation, with the line they disagree with quoted in
`PROJECT.json`:

- `codegen_try_in_finally`: calls in a guard body have no landing pad, so a
  try there never catches (codegen.cpp:275).
- `parser_documented`: after `: Type`, an overload reads the kind of its body
  even if the body is LLVM code or a semicolon and there is none
  (parser.cpp:3313).

Modelling met more places where the code does not do what it seems meant to, or
what the documentation says. They are outside the premises of the properties,
or outside the inputs of the runs, and listed for whoever changes that code.

Loader and REPL. A module whose loading failed stays in `globalModules`, and a
later line evaluates it without names (loader.cpp:368); one whose initialisation
failed stays RUNNING for ever (783).

Overloads. With -final-overloads the search for a second match passes over an
overload (invoketables.cpp:403), and a call refused as ambiguous is served from
the map the next time (388): `AnswersAgree` has `~program.final` for this. An
error while patterns are made leaves state -1, and the overload is refused from
then on (matchinvoke.cpp:33); `MatchesAsWritten` says exactly that.
`desugarAsOverload` reads the location of the body of an `as` overload, which may
be LLVM code or a semicolon and then has none (desugar.cpp:462).

Patterns. Cells of aliases are never reset (patterns.cpp:632): an overload
whose argument uses an alias with variadic arguments for plain parameters
matches once. Static integers of different types as array sizes do not unify
(713). Closed variants accept generic instances from elsewhere, since only
targets without variables are tested (loader.cpp:723), and instances declared
after the type was first used are ignored (types.cpp:850). Predicates of
aliases are ignored in patterns.

Analyzer. Two procedures that both have base cases are refused in one order of
questions and typed in the other (analyzer.cpp:2212). An error in the REPL leaves
`analyzing` set and the entry is refused as recursive from then on (2029). A
call-by-name procedure that expands itself is expanded without end (2080).

Names. The import of a module after a star import that provides its name does not
resolve the ambiguity (env.cpp:250; doc/language-reference/modules.md:112), and a
lookup made before the table is loaded finds the module all the same (308): in
such a program the answer depends on what was looked up before. A module that imports a
member of itself gets what the imports before it have brought (279). A walk interrupted by an
error leaves its Loading mark (180), and `allSymbolsLoaded` is not reset by a
REPL import (309).

Code generation. A guard or `..for` that is the whole branch of an if is pushed
on one path only (codegen.cpp:3783). An inline procedure sees the labels and
loops of its caller while it is generated (3020). `ref x = f(Temp())` drops the
temporary undestroyed (742).

Primitives. The checked conversion and the unsigned checked negation are not
checked at compile time (evaluator_op.cpp:893); the library has no checks for
128-bit integers and no unsigned negation (overflow.crm:115), and on targets with
pointers of less than 64 bits none for products of 64-bit integers (107), which
the evaluator has; a static Int of -1
as an index wraps to zero (2362); `recordVariadicField` asserts two different
numbers of results (2068, 2070); the count of a copy that is wider than a pointer
is refused by the generator only, and a negative one narrower than a pointer is
sign-extended by the evaluator (1092) and zero-extended by the generator
(codegen_op.cpp:2135); several type primitives follow the static object of an argument
that has none (analyzer_op.cpp:14, 587).

Parser. An unclosed `[` at the start of a declaration is searched for without
end (parser.cpp:2513). Errors reported twice at one place count twice towards
the limit (1532). Refused though documented: named and variadic return values
together, a visibility before attributes, a trailing comma in formal arguments,
`switch` without cases. `[T,]` before a procedure loses the pattern variables.
A doc comment on the last line needs a newline, and `1..2` is read as two
numbers.

Library. `joinThread` leaves a thread joinable (threads/core/core.crm:30); a
future that is moved while it runs leaves the thread writing to the old place
(threads/future/future.crm:14); the paged heap is not consistent after a crash
between two writes (paged/allocator/allocator.crm:254).

## 7. Not modelled

- The evaluator's statements (`evaluator.cpp`): they repeat the generator's
  scopes with return codes in the place of jumps; its primitives are in
  PrimEvaluation. Lambdas, cloning and desugaring rewrite trees: what they
  produce matters only to the types of expressions, which no model has. Foreign
  calling conventions are tables.
- Threads, futures and locks, shared pointers and containers of the library:
  each is small and self-contained, separate from the compiler that is the
  program here; the known hazards of the first are in section 6.
- LLVM and the linker, debug information, I/O, platform bindings, numerical and
  formatting code: no state that lasts between operations, or none of this
  program's own.
- Within modelled components: conditions in the analyzer, wrap-around of argument
  positions, locations and wording of errors, the trees that
  the parser builds and its interactive entry points, recursive alias expansion,
  ref bindings, reuse of stack slots, `eval` statements and lists of returned
  values in codegen, patterns over static integers and strings, floats beyond
  small integers and NaN; in the paged heap, a crash between two writes to its
  mapped file, sizes that wrap around the address space, and files that are not a
  whole number of units.
