---------------------------- MODULE SymbolTables ----------------------------
(***************************************************************************)
(* Names and imports: compiler/env.cpp (addGlobal, getPublicSymbols,       *)
(* getAllSymbols, addImportedSymbols, insertImported, lookupPrivate,       *)
(* lookupPublic) and the part of compiler/loader.cpp that enters imported  *)
(* names (loadDependent).                                                  *)
(*                                                                         *)
(* A module has two symbol tables: what it sees and what it exports.  They *)
(* start with its globals and the modules it imports by name; the rest is  *)
(* added by the first lookup that misses, which walks the imports of the   *)
(* module and the tables of the imported modules.  The recursion of the    *)
(* walk is `stack`.  A list of members `m.(x, y)` stands as consecutive    *)
(* imports of one member each, which the code treats alike.                *)
(***************************************************************************)
EXTENDS Naturals, Sequences, FiniteSets, SequencesExt

CONSTANTS
    Modules,
    Main, Prelude,
    Names,
    Programs,   \* records [globals, imports, interactive]
    Lines,      \* what may be typed at the prompt of an interactive session:
                \* [import |-> i] or [define |-> n, visibility |-> v]
    Asked,      \* the lookups made, of records [table, module, name]
    MaxLines    \* bound on the lines of a session

Tables     == {"public", "all"}         \* publicSymbols and allSymbols
Visibility == {"PUBLIC", "PRIVATE"}
None       == "none"                    \* no such global; an import without a name
Itself     == "itself"
Objects    == Modules \X (Names \cup {Itself})  \* a global, or a module imported as such

Imports ==
    [ kind    : {"module", "star", "member"},
      from    : Modules,
      visible : Visibility,             \* `public import` re-exports
      member  : Names \cup {None},      \* the member named
      as      : Names \cup {None},      \* the name it gets here; None: a dotted path
      forced  : BOOLEAN ]               \* m.(private x)

ASSUME SymbolAssumption ==
    /\ Main \in Modules /\ Prelude \in Modules /\ Main # Prelude
    /\ Names # {} /\ None \notin Names /\ Itself \notin Names
    /\ \A p \in Programs :
          /\ p.globals \in [Modules -> [Names -> Visibility \cup {None}]]
          /\ p.imports \in [Modules -> Seq(Imports)]
          /\ p.interactive \in BOOLEAN
          /\ \A m \in Modules : \A i \in 1 .. Len(p.imports[m]) :
                p.imports[m][i].kind = "member" =>
                    p.imports[m][i].member \in Names /\ p.imports[m][i].as \in Names
    /\ Lines \subseteq [import : {i \in Imports : i.kind = "member" => i.member \in Names /\ i.as \in Names}]
                       \cup [define : Names, visibility : Visibility]
    /\ Asked \subseteq [table : Tables, module : Modules, name : Names]
    /\ MaxLines \in Nat

ASSUME FiniteAssumption == IsFiniteSet(Modules) /\ IsFiniteSet(Names)

VARIABLES
    globals,        \* Module::globals, with the visibility of each
    imports,        \* Module::imports
    interactive,    \* a REPL session: errors return to the prompt
    importedNames,  \* Module::importedNames
    symbols,        \* symbols[t][m][n]: the ImportSet of n in a table of m
    loaded,         \* loaded[t]: modules with publicSymbolsLoaded, allSymbolsLoaded
    busy,           \* busy[t]: modules with publicSymbolsLoading, allSymbolsLoading >= 1
    stack,          \* nested addImportedSymbols calls, innermost last
    query,          \* the lookup in progress
    answer,         \* the lookup that last came to an end, and its objects
    phase,          \* "load", "idle", "lookup" or "failed"
    error,          \* the last error raised
    lines           \* lines typed so far

program == <<globals, imports, interactive>>
tables  == <<symbols, loaded, busy>>
asking  == <<query, answer>>
vars    == <<program, importedNames, tables, stack, asking, phase, error, lines>>

Errors == {"none", "importedAlready", "notFound", "ambiguous", "redefined"}

Query == [table : Tables, module : Modules, name : Names]

Frame ==
    [ table    : Tables,
      module   : Modules,
      next     : Nat \ {0},     \* the import being processed
      fetched  : 0 .. 2,        \* how many tables of the imported module it has obtained
      specific : SUBSET Names ] \* specificImported

TypeOK ==
    /\ globals \in [Modules -> [Names -> Visibility \cup {None}]]
    /\ imports \in [Modules -> Seq(Imports)]
    /\ interactive \in BOOLEAN
    /\ importedNames \in [Modules -> SUBSET Names]
    /\ DOMAIN symbols = Tables
    /\ \A t \in Tables :
          /\ DOMAIN symbols[t] = Modules
          /\ \A m \in Modules : DOMAIN symbols[t][m] = Names
          /\ \A m \in Modules : \A n \in Names : symbols[t][m][n] \subseteq Objects
    /\ loaded \in [Tables -> SUBSET Modules]
    /\ busy \in [Tables -> SUBSET Modules]
    /\ stack \in Seq(Frame)
    /\ query \in Query
    /\ answer.query \in Query
    /\ answer.objects \subseteq Objects
    /\ phase \in {"load", "idle", "lookup", "failed"}
    /\ error \in Errors
    /\ lines \in 0 .. MaxLines

Globals(m) == {n \in Names : globals[m][n] # None}

ImportsOf(m) == {imports[m][i] : i \in 1 .. Len(imports[m])}

Init ==
    /\ \E p \in Programs : /\ globals = p.globals
                           /\ imports = p.imports
                           /\ interactive = p.interactive
    /\ importedNames = [m \in Modules |-> {}]
    /\ symbols = [t \in Tables |-> [m \in Modules |-> [n \in Names |-> {}]]]
    /\ loaded = [t \in Tables |-> {}]
    /\ busy = [t \in Tables |-> {}]
    /\ stack = <<>>
    /\ query = [table |-> "all", module |-> Main, name |-> CHOOSE n \in Names : TRUE]
    /\ answer = [query |-> query, objects |-> {}]
    /\ phase = "load"
    /\ error = "none"
    /\ lines = 0

(* error(): compilation ends; in a session eval catches the exception, and the
   walk it interrupts leaves its Loading counters as they are. *)
Raise(e) ==
    /\ error' = e
    /\ phase' = IF interactive THEN "idle" ELSE "failed"
    /\ stack' = <<>>

(***************************************************************************)
(* Loading the program: loadDependents and installGlobals of each module.  *)
(***************************************************************************)
InTable(t, visibility) == t = "all" \/ visibility = "PUBLIC"

(* The names that modules are imported under: loadDependent inserts them at once. *)
NamedModules(t, m, n) ==
    {<<i.from, Itself>> : i \in {j \in ImportsOf(m) :
        j.kind = "module" /\ j.as = n /\ InTable(t, j.visible)}}

(* The entries before any table is loaded: globals, and modules imported by name. *)
AtFirst(t, m, n) ==
    NamedModules(t, m, n) \cup
        IF n \in Globals(m) /\ InTable(t, globals[m][n]) THEN {<<m, n>>} ELSE {}

ImportedTwice(m) ==
    \E i, j \in 1 .. Len(imports[m]) :
        /\ i < j
        /\ imports[m][i].kind # "star" /\ imports[m][i].as # None
        /\ imports[m][j].kind # "star" /\ imports[m][j].as = imports[m][i].as

LoadProgram ==
    /\ phase = "load"
    /\ IF \E m \in Modules : ImportedTwice(m)
         THEN /\ phase' = "failed"
              /\ error' = "importedAlready"
              /\ UNCHANGED <<importedNames, symbols>>
         ELSE /\ phase' = "idle"
              /\ importedNames' = [m \in Modules |->
                     {i.as : i \in {j \in ImportsOf(m) : j.kind # "star"}} \ {None}]
              /\ symbols' = [t \in Tables |-> [m \in Modules |-> [n \in Names |->
                     AtFirst(t, m, n)]]]
              /\ UNCHANGED error
    /\ UNCHANGED <<program, loaded, busy, stack, asking, lines>>

(***************************************************************************)
(* lookupPrivate and lookupPublic.                                         *)
(***************************************************************************)
Entry(q) == symbols[q.table][q.module][q.name]

Lookup(q) ==
    /\ phase = "idle"
    /\ query' = q
    /\ phase' = "lookup"
    /\ error' = "none"
    /\ UNCHANGED <<program, importedNames, tables, stack, answer, lines>>

(* What is looked up when a name is in neither the module nor its imports. *)
InPrelude == [query EXCEPT !.table = "public", !.module = Prelude]

GoesOnInPrelude == query.table = "all" /\ query.module # Prelude

(* The entry is there, or it is missing for good: null, one object, or an error
   because the name is ambiguous. *)
Answer ==
    /\ phase = "lookup" /\ stack = <<>>
    /\ \/ Entry(query) # {}
       \/ query.module \in loaded[query.table] /\ ~GoesOnInPrelude
    /\ answer' = [query |-> query, objects |-> Entry(query)]
    /\ IF Cardinality(Entry(query)) > 1
         THEN Raise("ambiguous")
         ELSE phase' = "idle" /\ UNCHANGED <<error, stack>>
    /\ UNCHANGED <<program, importedNames, tables, query, lines>>

TryPrelude ==
    /\ phase = "lookup" /\ stack = <<>>
    /\ Entry(query) = {}
    /\ query.module \in loaded[query.table]
    /\ GoesOnInPrelude
    /\ query' = InPrelude
    /\ UNCHANGED <<program, importedNames, tables, stack, answer, phase, error, lines>>

(***************************************************************************)
(* getPublicSymbols, getAllSymbols and addImportedSymbols.                 *)
(***************************************************************************)
\* Mutant: a table that has entries is taken for one that has been loaded.
AvailableIfStarted(t, m) == \/ m \in loaded[t] \cup busy[t]
                            \/ \E n \in Names : symbols[t][m][n] # {}
Available(t, m) == m \in loaded[t] \cup busy[t]

NewFrame(t, m) == [table |-> t, module |-> m, next |-> 1, fetched |-> 0, specific |-> {}]

\* Mutant: the walk starts before the first import.
EnterEarly(t, m) ==
    /\ busy' = [busy EXCEPT ![t] = @ \cup {m}]
    /\ stack' = Append(stack, [NewFrame(t, m) EXCEPT !.next = 0])
Enter(t, m) ==
    /\ busy' = [busy EXCEPT ![t] = @ \cup {m}]
    /\ stack' = Append(stack, NewFrame(t, m))

(* The lookup misses: the table is loaded, once.  A table whose load an error
   interrupted counts as being loaded for ever, and is taken as it is. *)
LoadTable ==
    /\ phase = "lookup" /\ stack = <<>>
    /\ Entry(query) = {}
    /\ query.module \notin loaded[query.table]
    /\ IF query.module \in busy[query.table]
         THEN /\ loaded' = [loaded EXCEPT ![query.table] = @ \cup {query.module}]
              /\ UNCHANGED <<busy, stack>>
         ELSE Enter(query.table, query.module) /\ UNCHANGED loaded
    /\ UNCHANGED <<program, importedNames, symbols, asking, phase, error, lines>>

Frm == Last(stack)
Walking == stack # <<>> /\ Frm.next <= Len(imports[Frm.module])
Imp == imports[Frm.module][Frm.next]

(* With publicOnly, private imports are passed over. *)
Considered == InTable(Frm.table, Imp.visible)

SetFrame(f) == stack' = [stack EXCEPT ![Len(stack)] = f]

\* Mutant: the loop over the imports does not advance.
OnwardsNot(specific) == SetFrame([Frm EXCEPT !.fetched = 0, !.specific = specific])
Onwards(specific) ==
    SetFrame([Frm EXCEPT !.next = @ + 1, !.fetched = 0, !.specific = specific])

(* The tables of the imported module an import takes symbols from. *)
Needs(i) == CASE i.kind = "module" -> <<>>
              [] i.kind = "star"   -> <<"public">>
              [] i.kind = "member" -> <<"public", "all">>

SkipImport ==
    /\ Walking /\ ~Considered
    /\ Onwards(Frm.specific)
    /\ UNCHANGED <<program, importedNames, tables, asking, phase, error, lines>>

(* getPublicSymbols and getAllSymbols of the imported module: a table that is
   loaded, or being loaded further up in the recursion, is returned as it is. *)
Fetch ==
    /\ Walking /\ Considered
    /\ Frm.fetched < Len(Needs(Imp))
    /\ LET t == Needs(Imp)[Frm.fetched + 1]
           f == [Frm EXCEPT !.fetched = @ + 1]
       IN  IF Available(t, Imp.from)
             THEN SetFrame(f) /\ UNCHANGED busy
             ELSE /\ busy' = [busy EXCEPT ![t] = @ \cup {Imp.from}]
                  /\ stack' = Append(Append(Front(stack), f), NewFrame(t, Imp.from))
    /\ UNCHANGED <<program, importedNames, symbols, loaded, asking, phase, error, lines>>

Fetched == Walking /\ Considered /\ Frm.fetched = Len(Needs(Imp))

(* A module import was entered by loadDependent; its name only joins
   specificImported here. *)
AddModuleName ==
    /\ Fetched /\ Imp.kind = "module"
    /\ IF Imp.as \in Frm.specific
         THEN Raise("importedAlready")
         ELSE /\ Onwards(Frm.specific \cup ({Imp.as} \ {None}))
              /\ UNCHANGED <<phase, error>>
    /\ UNCHANGED <<program, importedNames, tables, asking, lines>>

(* insertImported on every public symbol of the module: neither a name that was
   imported specifically nor a global is touched. *)
\* Mutant: a global does not shadow a star import.
ShieldedIfImported(n) == n \in Frm.specific
Shielded(n) == n \in Frm.specific \cup Globals(Frm.module)

AddStar ==
    /\ Fetched /\ Imp.kind = "star"
    /\ symbols' = [symbols EXCEPT ![Frm.table][Frm.module] =
          [n \in Names |-> IF Shielded(n) THEN @[n]
                           ELSE @[n] \cup symbols["public"][Imp.from][n]]]
    /\ Onwards(Frm.specific)
    /\ UNCHANGED <<program, importedNames, loaded, busy, asking, phase, error, lines>>

\* Mutant: every import of a member may take a private one.
MemberTableAll(i) == "all"
MemberTable(i) == IF i.forced THEN "all" ELSE "public"
MemberObjects == symbols[MemberTable(Imp)][Imp.from][Imp.member]

(* insertImported on every object of the member: the first one replaces what
   star imports brought in, a second one is an error. *)
AddMember ==
    /\ Fetched /\ Imp.kind = "member"
    /\ IF MemberObjects = {}
         THEN Raise("notFound") /\ UNCHANGED symbols
         ELSE IF Imp.as \in Frm.specific
         THEN Raise("importedAlready") /\ UNCHANGED symbols
         ELSE IF Imp.as \in Globals(Frm.module)
         THEN Onwards(Frm.specific) /\ UNCHANGED <<symbols, phase, error>>
         ELSE /\ \E o \in MemberObjects :
                    symbols' = [symbols EXCEPT ![Frm.table][Frm.module][Imp.as] = {o}]
              /\ IF Cardinality(MemberObjects) > 1
                   THEN Raise("importedAlready")
                   ELSE Onwards(Frm.specific \cup {Imp.as}) /\ UNCHANGED <<phase, error>>
    /\ UNCHANGED <<program, importedNames, loaded, busy, asking, lines>>

(* The walk ends; the outermost one was called by a lookup, which sets the
   loaded flag and tries again. *)
Leave ==
    /\ stack # <<>>
    /\ Frm.next > Len(imports[Frm.module])
    /\ busy' = [busy EXCEPT ![Frm.table] = @ \ {Frm.module}]
    /\ stack' = Front(stack)
    /\ IF Len(stack) = 1
         THEN loaded' = [loaded EXCEPT ![Frm.table] = @ \cup {Frm.module}]
         ELSE UNCHANGED loaded
    /\ UNCHANGED <<program, importedNames, symbols, asking, phase, error, lines>>

(***************************************************************************)
(* Interactive sessions: loadImports and addGlobals on the main module.    *)
(***************************************************************************)
Prompt(line) ==
    /\ interactive /\ phase = "idle" /\ lines < MaxLines
    /\ line \in Lines
    /\ lines' = lines + 1

(* The import joins Module::imports before loadDependent looks at its name. *)
TypeImport(line) ==
    /\ Prompt(line)
    /\ "import" \in DOMAIN line
    /\ LET i == line.import
           named == i.kind # "star" /\ i.as # None
       IN  /\ imports' = [imports EXCEPT ![Main] = Append(@, i)]
           /\ IF named /\ i.as \in importedNames[Main]
                THEN Raise("importedAlready") /\ UNCHANGED <<importedNames, symbols>>
                ELSE /\ error' = "none"
                     /\ importedNames' = [importedNames EXCEPT ![Main] =
                            IF named THEN @ \cup {i.as} ELSE @]
                     /\ symbols' =
                            IF i.kind = "module" /\ named
                              THEN [t \in Tables |-> [symbols[t] EXCEPT ![Main][i.as] =
                                      IF InTable(t, i.visible)
                                        THEN @ \cup {<<i.from, Itself>>} ELSE @]]
                              ELSE symbols
                     /\ UNCHANGED <<phase, stack>>
    /\ UNCHANGED <<globals, interactive, loaded, busy, asking>>

TypeDefinition(line) ==
    /\ Prompt(line)
    /\ "define" \in DOMAIN line
    /\ LET n == line.define
       IN  IF n \in Globals(Main)
             THEN Raise("redefined") /\ UNCHANGED <<globals, symbols>>
             ELSE /\ error' = "none"
                  /\ globals' = [globals EXCEPT ![Main][n] = line.visibility]
                  /\ symbols' = [t \in Tables |-> [symbols[t] EXCEPT ![Main][n] =
                        IF InTable(t, line.visibility) THEN @ \cup {<<Main, n>>} ELSE @]]
                  /\ UNCHANGED <<phase, stack>>
    /\ UNCHANGED <<imports, interactive, importedNames, loaded, busy, asking>>

LoadStep == SkipImport \/ Fetch \/ AddModuleName \/ AddStar \/ AddMember \/ Leave

Step == LoadProgram \/ Answer \/ TryPrelude \/ LoadTable \/ LoadStep

Next ==
    \/ Step
    \/ \E q \in Asked : Lookup(q)
    \/ \E line \in Lines : TypeImport(line) \/ TypeDefinition(line)

(* The compiler is sequential: a lookup it has begun goes on until it returns or
   raises an error.  Which names are looked up, and when, is up to the program. *)
Spec == Init /\ [][Next]_vars /\ WF_vars(Step)

(***************************************************************************)
(* Properties.                                                             *)
(***************************************************************************)
(* What the rules of import give a name, as a definition over the program and
   not over the order the compiler works in: a global; else a member imported
   under that name; else a module imported under it, with what star imports
   ahead of that import provide; else what the star imports provide between
   them.  R is what the imported modules have. *)
Eligible(t, m, n, kind) ==
    {i \in ImportsOf(m) : i.kind = kind /\ InTable(t, i.visible) /\ i.as = n}

(* All star imports, but for a name that a module is imported under: one behind
   that import is kept from adding to it, one ahead of it is not. *)
StarsAhead(t, m, n) ==
    {imports[m][k] : k \in {l \in 1 .. Len(imports[m]) :
        /\ imports[m][l].kind = "star" /\ InTable(t, imports[m][l].visible)
        /\ \A j \in 1 .. l : imports[m][j] \notin Eligible(t, m, n, "module")}}

(* A module's star import of itself adds what its public table takes. *)
Providers(t, m, n) ==
    LET stars == StarsAhead(t, m, n)
        own   == IF \E i \in stars : i.from = m THEN StarsAhead("public", m, n) ELSE {}
    IN  {i \in stars \cup own : i.from # m}

ByImports(R, t, m, n) ==
    LET members == Eligible(t, m, n, "member")
    IN  IF n \in Globals(m)
          THEN AtFirst(t, m, n)
        ELSE IF members # {}
          THEN UNION {R[MemberTable(i)][i.from][i.member] : i \in members}
        ELSE NamedModules(t, m, n) \cup UNION {R["public"][i.from][n] : i \in Providers(t, m, n)}

OneMoreImport(R) == [t \in Tables |-> [m \in Modules |-> [n \in Names |-> ByImports(R, t, m, n)]]]

(* Along chains of less than k re-exports. *)
Resolve[k \in Nat] ==
    IF k = 0 THEN [t \in Tables |-> [m \in Modules |-> [n \in Names |-> {}]]]
             ELSE OneMoreImport(Resolve[k - 1])

ByTheRules(t, m, n) == Resolve[Cardinality(Modules)][t][m][n]

(* The programs that get through initialisation: no module imports itself
   through others.  (The prelude may import itself directly.) *)
Acyclic ==
    \A S \in SUBSET Modules :
        S # {} => \E m \in S : \A i \in ImportsOf(m) : i.from \notin S \ {m}

(* No module imports members of itself: what it gets then is what it has imported
   so far. *)
NoMembersOfItself ==
    \A m \in Modules : \A i \in ImportsOf(m) : i.kind = "member" => i.from # m

(* No walk was interrupted by an error earlier in the session. *)
Uninterrupted ==
    \A t \in Tables : \A m \in busy[t] :
        \E i \in 1 .. Len(stack) : stack[i].table = t /\ stack[i].module = m

Regular == Acyclic /\ NoMembersOfItself /\ Uninterrupted

(* A session may change the main module after a table has been loaded that depends
   on it: nothing m imports, directly or not, leads there. *)
Settled(m) ==
    \/ lines = 0
    \/ \E S \in SUBSET (Modules \ {Main}) :
          m \in S /\ \A k \in S : \A i \in ImportsOf(k) : i.from \in S

(* A loaded table holds under every name what the rules give it. *)
TablesHoldAll ==
    \A t \in Tables : \A m \in loaded[t] : \A n \in Names :
        Settled(m) => symbols[t][m][n] = ByTheRules(t, m, n)

(* lookupPrivate and lookupPublic find that too, whatever was looked up before, in
   whatever order, and whether or not the table has been loaded.  Only a name that
   a module is imported under is found at once, without what star imports ahead
   of that import would add once the table is loaded. *)
AnswersFollowRules ==
    LET q == answer.query
    IN  Settled(q.module) /\ answer.objects # {} =>
            \/ answer.objects = ByTheRules(q.table, q.module, q.name)
            \/ /\ NamedModules(q.table, q.module, q.name) # {}
               /\ answer.objects = AtFirst(q.table, q.module, q.name)

NamesFollowRules == phase = "idle" /\ Regular => TablesHoldAll /\ AnswersFollowRules

(* What addImportedSymbols takes from another module is that module's whole
   table, though neither flag says so: no symbol is missed, and "imported name
   not found" is only reported of a name that is not there. *)
ImportsSeeWholeTables ==
    Fetched /\ Regular /\ Settled(Imp.from) /\ Imp.from # Frm.module =>
        \A t \in ToSet(Needs(Imp)) : \A n \in Names :
            symbols[t][Imp.from][n] = ByTheRules(t, Imp.from, n)

(* What lookups answer, and what a table takes from another one while either may
   be half built, is what the rules of import give. *)
TablesFollowRules == NamesFollowRules /\ ImportsSeeWholeTables

(* A private global is in the table of another module, under any name and by any
   chain of re-exports, only if some module forced it out with m.(private x). *)
ForcedFrom(k) ==
    \E m \in Modules : \E i \in ImportsOf(m) :
        i.kind = "member" /\ i.forced /\ i.from = k

PrivateStaysPrivate ==
    \A t \in Tables : \A m \in Modules : \A n \in Names :
        \A o \in symbols[t][m][n] :
            (o[2] # Itself /\ globals[o[1]][o[2]] # "PUBLIC")
                => (o[1] = m /\ t = "all") \/ ForcedFrom(o[1])

(* A lookup comes to an end, in any import graph: the counters that mark a table
   as being loaded break every cycle. *)
LookupsEnd == phase = "lookup" ~> phase # "lookup"

=============================================================================
